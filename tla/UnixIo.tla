------------------------------- MODULE UnixIo -------------------------------
(***************************************************************************)
(* The Unix I/O manager of libext2fs (e2fsprogs/lib/ext2fs/unix_io.c),     *)
(* through which mke2fs, e2fsck, resize2fs and the image corruptor read    *)
(* and write an image: a small write-back cache of blocks over a device.   *)
(*                                                                         *)
(* A call is made, worked on and answered; each iteration of the loops of  *)
(* unix_read_blk64 and unix_write_blk64 is a step, and the other           *)
(* operations are one.  A raw read or write may fail.                      *)
(*                                                                         *)
(* A channel may have the error handlers of e2fsck (e2fsck/ehandler.c),    *)
(* which do a failed transfer of several blocks again, one block at a      *)
(* time, through the same channel.  Of a single block they ask whether the *)
(* error is to be ignored: the answer is taken to be no.  The block size   *)
(* is left out: a change of it only flushes and empties the cache.         *)
(***************************************************************************)
EXTENDS Integers, Sequences

CONSTANTS
  NBlocks,            (* blocks of the device                             *)
  Data, Zero,         (* contents of a block; the one of a zeroed block   *)
  CACHE_SIZE,
  WRITE_DIRECT_SIZE,  (* larger requests go past the cache                *)
  MaxCount,           (* bound on the size of a request                   *)
  Channels,           (* the channels to be considered: see channel       *)
  None

ASSUME UnixIoAssumption ==
  /\ NBlocks \in Nat \ {0} /\ CACHE_SIZE \in Nat \ {0}
  /\ WRITE_DIRECT_SIZE \in Nat /\ MaxCount \in Nat
  /\ Zero \in Data
  /\ Channels \subseteq [writethrough : BOOLEAN,
                         may_fail : SUBSET {"read", "write", "flush", "evict"},
                         handler : BOOLEAN]
  /\ \A c \in Channels : ~ (c.writethrough /\ c.handler)

Block == 0 .. NBlocks - 1
Entry == 1 .. CACHE_SIZE

VARIABLES
  channel, (* CHANNEL_FLAGS_WRITETHROUGH, the raw operations that may fail
              on its device, and whether it has error handlers            *)
  disk,    (* what the device holds                                       *)
  cache,   (* the entries                                                 *)
  age,     (* access_time, as the rank of an entry: 1 is the eldest       *)
  call,    (* the operation that is going on, or None                     *)
  done,    (* how many of its blocks have been dealt with                 *)
  buf,     (* what it has read                                            *)
  again,   (* what an error handler still has to do, or None: the blocks
              left, and the entry chosen before the transfer failed, or 0 *)
  retval,  (* whether all is well with it                                 *)
  reply    (* the reply to the last operation, or None                    *)

vars == <<channel, disk, cache, age, call, done, buf, again, retval, reply>>
working == <<done, buf, retval>>

writethrough == channel.writethrough
MayFail == channel.may_fail

Unused == [in_use |-> FALSE, dirty |-> FALSE, block |-> 0, data |-> Zero]

\* The requests: "odd" says that the size is not a number of blocks (count < 0),
\* as are those of unix_write_byte; "idle" that there is nothing to be done: the
\* close of a channel that has other holders (refcount), the block size it has.
Transfers == {"read", "write", "zeroout"}

Calls ==
  {c \in [name : Transfers \cup {"flush", "set_blksize", "close"},
          block : 0 .. NBlocks, count : 0 .. MaxCount,
          data : UNION {[1 .. n -> Data] : n \in 0 .. MaxCount},
          odd : BOOLEAN, idle : BOOLEAN] :
     /\ c.block + c.count <= NBlocks
     /\ IF c.name \in Transfers THEN c.count > 0 ELSE c.block = 0 /\ c.count = 0
     /\ DOMAIN c.data = IF c.name \in {"write", "zeroout"} THEN 1 .. c.count ELSE {}
     /\ c.name = "zeroout" => \A k \in DOMAIN c.data : c.data[k] = Zero
     /\ c.odd => c.name \in {"read", "write"}
     /\ c.idle => c.name \in {"set_blksize", "close"}}

Extent(c) == c.block .. c.block + c.count - 1

-----------------------------------------------------------------------------
\* The entries that hold a block, and the one find_cached_block returns.
Cached(b) == {e \in Entry : cache[e].in_use /\ cache[e].block = b}

find_cached_block(b) == CHOOSE e \in Cached(b) : \A x \in Cached(b) : e <= x

\* The entry that find_cached_block offers for reuse.
Free == {e \in Entry : ~ cache[e].in_use}

Eldest ==
  IF Free # {} THEN CHOOSE e \in Free : \A x \in Free : e <= x
  ELSE CHOOSE e \in Entry : \A x \in Entry : age[e] <= age[x]

\* Mutant of Touched: the clock does not go on.
Touched_SameTime(a, e) == [a EXCEPT ![e] = CACHE_SIZE]

\* An entry is used: it becomes the youngest.
Touched(a, e) ==
  [x \in Entry |-> IF x = e THEN CACHE_SIZE
                   ELSE IF a[x] > a[e] THEN a[x] - 1 ELSE a[x]]

\* Mutant of Put: one block too few.
Put_OneLess(d, block, data) ==
  [b \in Block |-> IF b \in block .. block + Len(data) - 2 THEN data[b - block + 1] ELSE d[b]]

\* A device on which some blocks have been written.
Put(d, block, data) ==
  [b \in Block |-> IF b \in block .. block + Len(data) - 1 THEN data[b - block + 1] ELSE d[b]]

\* What reuse_cache makes of the device: a dirty entry is written back.
WrittenBack(e) ==
  IF cache[e].dirty /\ cache[e].in_use
  THEN [disk EXCEPT ![cache[e].block] = cache[e].data] ELSE disk

\* reuse_cache does not look at the result of the write.
reuse_cache(e) ==
  disk' \in {WrittenBack(e)} \cup (IF "evict" \in MayFail THEN {disk} ELSE {})

Filled(e, b, data, dirty) ==
  [cache EXCEPT ![e] = [in_use |-> TRUE, dirty |-> dirty, block |-> b, data |-> data]]

\* flush_cached_blocks: the entries that have to be written, of which those
\* in ok are; the others stay dirty, or are lost if the cache is invalidated.
\* (An entry that is not in use is not told apart from a fresh one.)
Dirty == {e \in Entry : cache[e].in_use /\ cache[e].dirty}

FlushResults == IF "flush" \in MayFail THEN SUBSET Dirty ELSE {Dirty}

FlushedDisk(ok) ==
  [b \in Block |-> IF \E e \in ok : cache[e].block = b
                   THEN cache[CHOOSE e \in ok : cache[e].block = b].data ELSE disk[b]]

\* Mutant of FlushedCache: the cache is never invalidated.
FlushedCache_Keeps(ok, invalidate) ==
  [e \in Entry |-> [cache[e] EXCEPT !.dirty = @ /\ e \notin ok]]

FlushedCache(ok, invalidate) ==
  [e \in Entry |-> IF invalidate THEN Unused
                   ELSE [cache[e] EXCEPT !.dirty = @ /\ e \notin ok]]

Empty == [e \in Entry |-> Unused]

Return(ok, data) == call' = None /\ reply' = [ok |-> ok, data |-> data]

-----------------------------------------------------------------------------
\* A client makes a call.  It zeroes only blocks that it has not accessed: the
\* cache would not notice.
Call ==
  /\ call = None
  /\ call' \in Calls
  /\ call'.name = "zeroout" => \A b \in Extent(call') : Cached(b) = {}
  /\ reply' = None
  /\ done' = 0 /\ buf' = <<>> /\ retval' = TRUE
  /\ UNCHANGED <<disk, cache, age>>

Calling(name) == call # None /\ call.name = name
Next_b == call.block + done
Rest == call.count - done
Direct == call.odd \/ call.count > WRITE_DIRECT_SIZE

\* A failed transfer of n blocks is handed to an error handler that does it again.
Handed(n) == channel.handler /\ ~ call.odd /\ n > 1

(***************************************************************************)
(* unix_read_blk64: past the cache, after a flush ...                      *)
(***************************************************************************)
ReadDirect ==
  /\ Calling("read") /\ Direct
  /\ \E ok \in FlushResults :
       /\ disk' = FlushedDisk(ok)
       /\ cache' = FlushedCache(ok, FALSE)
       /\ \/ ok = Dirty /\ Return(TRUE, [k \in 1 .. call.count |-> disk'[call.block + k - 1]])
          \/ ok # Dirty /\ Return(FALSE, <<>>)
          \/ "read" \in MayFail /\ ~ Handed(call.count) /\ Return(FALSE, <<>>)
  /\ UNCHANGED <<age, working>>

\* ... or block by block: one that is in the cache,
ReadHit ==
  /\ Calling("read") /\ ~ Direct /\ Rest > 0 /\ Cached(Next_b) # {}
  /\ buf' = Append(buf, cache[find_cached_block(Next_b)].data)
  /\ age' = Touched(age, find_cached_block(Next_b))
  /\ done' = done + 1
  /\ UNCHANGED <<disk, cache, call, retval, reply>>

\* the last one, which is read into the cache,
ReadOne ==
  /\ Calling("read") /\ ~ Direct /\ Rest = 1 /\ Cached(Next_b) = {}
  /\ reuse_cache(Eldest)
  /\ age' = Touched(age, Eldest)
  /\ \/ /\ cache' = Filled(Eldest, Next_b, disk'[Next_b], FALSE)
        /\ Return(TRUE, Append(buf, disk'[Next_b]))
     \/ /\ "read" \in MayFail
        /\ cache' = [cache EXCEPT ![Eldest] = Unused]
        /\ Return(FALSE, <<>>)
  /\ UNCHANGED working

\* Mutant of Uncached: stops at nothing.
Uncached_All == Rest

\* the number of blocks up to the next one in the cache,
Uncached ==
  CHOOSE n \in 1 .. Rest :
    /\ \A k \in 0 .. n - 1 : Cached(Next_b + k) = {}
    /\ n < Rest => Cached(Next_b + n) # {}

\* the ages after the search for it, which uses the entry it ends at,
Searched ==
  IF Uncached < Rest THEN Touched(age, find_cached_block(Next_b + Uncached)) ELSE age

\* or several at once.  All of them are offered the same entry, which the last
\* one keeps; the block it held is written back after the read.
ReadMany ==
  /\ Calling("read") /\ ~ Direct /\ Rest > 1 /\ Cached(Next_b) = {}
  /\ \/ /\ reuse_cache(Eldest)
        /\ cache' = Filled(Eldest, Next_b + Uncached - 1, disk[Next_b + Uncached - 1], FALSE)
        /\ age' = Touched(Searched, Eldest)
        /\ buf' = buf \o [k \in 1 .. Uncached |-> disk[Next_b + k - 1]]
        /\ done' = done + Uncached
        /\ UNCHANGED <<call, reply>>
     \/ /\ "read" \in MayFail /\ ~ Handed(Uncached)
        /\ Return(FALSE, <<>>)
        /\ age' = Searched
        /\ UNCHANGED <<disk, cache, done, buf>>
  /\ UNCHANGED retval

ReadReturn ==
  /\ Calling("read") /\ ~ Direct /\ Rest = 0
  /\ Return(TRUE, buf)
  /\ UNCHANGED <<disk, cache, age, working>>

(***************************************************************************)
(* unix_write_blk64: past the cache, which is emptied first ...  So does   *)
(* unix_write_byte.  A raw write that fails has written some of the blocks.*)
(***************************************************************************)
WriteLengths == IF "write" \in MayFail THEN 0 .. call.count ELSE {call.count}

WriteDirect ==
  /\ Calling("write") /\ Direct
  /\ \E ok \in FlushResults, n \in WriteLengths :
       /\ cache' = FlushedCache(ok, TRUE)
       /\ IF ok # Dirty THEN disk' = FlushedDisk(ok) /\ Return(FALSE, <<>>)
          ELSE /\ n < call.count => ~ Handed(call.count)
               /\ disk' = Put(FlushedDisk(ok), call.block, SubSeq(call.data, 1, n))
               /\ Return(n = call.count, <<>>)
  /\ UNCHANGED <<age, working>>

\* ... or into the cache, after the write of a write-through channel,
WriteThrough ==
  /\ Calling("write") /\ ~ Direct /\ writethrough /\ done = 0
  /\ \E n \in WriteLengths :
       /\ disk' = Put(disk, call.block, SubSeq(call.data, 1, n))
       /\ retval' = (n = call.count)
  /\ done' = -1
  /\ UNCHANGED <<cache, age, call, buf, reply>>

\* Mutant of WriteEntry: does not look for the block in the cache.
WriteEntry_Eldest(b) == Eldest

WriteEntry(b) == IF Cached(b) # {} THEN find_cached_block(b) ELSE Eldest

\* block by block, of which this is the k-th.
Written == IF done = -1 THEN 0 ELSE done

StoreBlock(k) ==
  LET b == call.block + k - 1
      e == WriteEntry(b)
  IN  /\ IF Cached(b) = {} THEN reuse_cache(e) ELSE UNCHANGED disk
      /\ cache' = Filled(e, b, call.data[k], ~ writethrough)
      /\ age' = Touched(age, e)

WriteBlock ==
  /\ Calling("write") /\ ~ Direct /\ Written < call.count
  /\ writethrough => done # 0
  /\ StoreBlock(Written + 1)
  /\ done' = Written + 1
  /\ UNCHANGED <<call, buf, retval, reply>>

WriteReturn ==
  /\ Calling("write") /\ ~ Direct /\ Written = call.count
  /\ Return(retval, <<>>)
  /\ UNCHANGED <<disk, cache, age, working>>

(***************************************************************************)
(* unix_flush: the blocks may be written and fsync fail.                   *)
(***************************************************************************)
Flush ==
  /\ Calling("flush")
  /\ \E ok \in FlushResults :
       /\ disk' = FlushedDisk(ok)
       /\ cache' = FlushedCache(ok, FALSE)
       /\ \/ ok = Dirty /\ Return(TRUE, <<>>)
          \/ (ok # Dirty \/ "flush" \in MayFail) /\ Return(FALSE, <<>>)
  /\ UNCHANGED <<age, working>>

\* unix_set_blksize: a failed flush keeps the block size and the cache.
SetBlksize ==
  /\ Calling("set_blksize") /\ ~ call.idle
  /\ \E ok \in FlushResults :
       /\ disk' = FlushedDisk(ok)
       /\ cache' = IF ok = Dirty THEN Empty ELSE FlushedCache(ok, FALSE)
       /\ Return(ok = Dirty, <<>>)
  /\ UNCHANGED <<age, working>>

\* unix_close, which frees the cache in any case; close(2) may fail.
Close ==
  /\ Calling("close") /\ ~ call.idle
  /\ \E ok \in FlushResults :
       /\ disk' = FlushedDisk(ok)
       /\ cache' = Empty
       /\ \/ ok = Dirty /\ Return(TRUE, <<>>)
          \/ (ok # Dirty \/ "flush" \in MayFail) /\ Return(FALSE, <<>>)
  /\ UNCHANGED <<age, working>>

\* Neither has anything to do.
Idle ==
  /\ call # None /\ call.idle
  /\ Return(TRUE, <<>>)
  /\ UNCHANGED <<disk, cache, age, working>>

(***************************************************************************)
(* unix_zeroout and, on a regular file, unix_discard.                      *)
(***************************************************************************)
Zeroout ==
  /\ Calling("zeroout")
  /\ \/ disk' = Put(disk, call.block, call.data) /\ Return(TRUE, <<>>)
     \/ Return(FALSE, <<>>) /\ UNCHANGED disk
  /\ UNCHANGED <<cache, age, working>>

(***************************************************************************)
(* e2fsck_handle_read_error: a failed read of several blocks, past the     *)
(* cache or into it, ...                                                   *)
(***************************************************************************)
HandReadDirect ==
  /\ Calling("read") /\ Direct
  /\ "read" \in MayFail /\ Handed(call.count)
  /\ disk' = FlushedDisk(Dirty)
  /\ cache' = FlushedCache(Dirty, FALSE)
  /\ again' = [left |-> Rest, entry |-> 0]
  /\ UNCHANGED <<age, call, working, reply>>

HandReadMany ==
  /\ Calling("read") /\ ~ Direct /\ Rest > 1 /\ Cached(Next_b) = {}
  /\ "read" \in MayFail /\ Handed(Uncached)
  /\ age' = Searched
  /\ again' = [left |-> Uncached, entry |-> Eldest]
  /\ UNCHANGED <<disk, cache, call, working, reply>>

\* ... is done by calls of unix_read_blk64 for one block each,
RereadHit ==
  /\ Calling("read") /\ again.left > 0 /\ Cached(Next_b) # {}
  /\ buf' = Append(buf, cache[find_cached_block(Next_b)].data)
  /\ age' = Touched(age, find_cached_block(Next_b))
  /\ done' = done + 1
  /\ again' = [again EXCEPT !.left = @ - 1]
  /\ UNCHANGED <<disk, cache, call, retval, reply>>

RereadOne ==
  /\ Calling("read") /\ again.left > 0 /\ Cached(Next_b) = {}
  /\ reuse_cache(Eldest)
  /\ age' = Touched(age, Eldest)
  /\ \/ /\ cache' = Filled(Eldest, Next_b, disk'[Next_b], FALSE)
        /\ buf' = Append(buf, disk'[Next_b])
        /\ done' = done + 1
        /\ again' = [again EXCEPT !.left = @ - 1]
        /\ UNCHANGED <<call, reply>>
     \/ /\ cache' = [cache EXCEPT ![Eldest] = Unused]
        /\ Return(FALSE, <<>>)
        /\ again' = None
        /\ UNCHANGED <<done, buf>>
  /\ UNCHANGED retval

\* after which the outer one goes on, as if its own read had succeeded: it
\* fills the entry it chose before with the last block, though that is in the
\* cache by now.
RereadDone ==
  /\ Calling("read") /\ again.left = 0
  /\ again' = None
  /\ IF again.entry = 0
     THEN Return(TRUE, buf) /\ UNCHANGED <<disk, cache, age>>
     ELSE /\ reuse_cache(again.entry)
          /\ cache' = Filled(again.entry, Next_b - 1, buf[Len(buf)], FALSE)
          /\ age' = Touched(age, again.entry)
          /\ UNCHANGED <<call, reply>>
  /\ UNCHANGED working

(***************************************************************************)
(* e2fsck_handle_write_error: a failed write past the cache is done by     *)
(* writes of one block each, which only go into the cache.                 *)
(***************************************************************************)
HandWrite ==
  /\ Calling("write") /\ Direct
  /\ "write" \in MayFail /\ Handed(call.count)
  /\ cache' = FlushedCache(Dirty, TRUE)
  /\ \E n \in 0 .. call.count - 1 :
       disk' = Put(FlushedDisk(Dirty), call.block, SubSeq(call.data, 1, n))
  /\ again' = [left |-> call.count, entry |-> 0]
  /\ UNCHANGED <<age, call, working, reply>>

Rewrite ==
  /\ Calling("write") /\ again.left > 0
  /\ StoreBlock(call.count - again.left + 1)
  /\ again' = [again EXCEPT !.left = @ - 1]
  /\ UNCHANGED <<call, working, reply>>

RewriteDone ==
  /\ Calling("write") /\ again.left = 0
  /\ again' = None
  /\ Return(TRUE, <<>>)
  /\ UNCHANGED <<disk, cache, age, working>>

\* The process ends, and another one opens the device.
Crash ==
  /\ cache' = Empty
  /\ call' = None /\ reply' = None /\ again' = None
  /\ done' = 0 /\ buf' = <<>> /\ retval' = TRUE
  /\ UNCHANGED <<disk, age>>

Init ==
  /\ channel \in Channels
  /\ disk \in [Block -> Data]
  /\ cache = Empty
  /\ age = [e \in Entry |-> e]
  /\ call = None /\ reply = None /\ again = None
  /\ done = 0 /\ buf = <<>> /\ retval = TRUE

Read  == ReadDirect \/ ReadHit \/ ReadOne \/ ReadMany \/ ReadReturn
Write == WriteDirect \/ WriteThrough \/ WriteBlock \/ WriteReturn
Flushing == Flush \/ SetBlksize \/ Close \/ Idle

Hand  == HandReadDirect \/ HandReadMany \/ HandWrite
Again == RereadHit \/ RereadOne \/ RereadDone \/ Rewrite \/ RewriteDone

Plain == Call \/ Read \/ Write \/ Flushing \/ Zeroout

Next ==
  /\ \/ again = None /\ Plain /\ UNCHANGED again
     \/ again = None /\ Hand
     \/ again # None /\ Again
     \/ Crash
  /\ UNCHANGED channel

Spec == Init /\ [][Next]_vars
-----------------------------------------------------------------------------
\* What a reader of a block gets.
Contents(b) == IF Cached(b) # {} THEN cache[find_cached_block(b)].data ELSE disk[b]

Store == INSTANCE BlockStore WITH mem <- [b \in Block |-> Contents(b)], media <- disk

\* The variables have their types; age ranks the entries.
TypeOK ==
  /\ channel \in Channels
  /\ disk \in [Block -> Data]
  /\ cache \in [Entry -> [in_use : BOOLEAN, dirty : BOOLEAN, block : Block, data : Data]]
  /\ age \in [Entry -> Entry] /\ \A x, y \in Entry : x # y => age[x] # age[y]
  /\ call \in Calls \cup {None}
  /\ done \in -1 .. MaxCount
  /\ buf \in Seq(Data)
  /\ again \in [left : 0 .. MaxCount, entry : 0 .. CACHE_SIZE] \cup {None}
  /\ retval \in BOOLEAN

OneCopy ==
  \A x, y \in Entry : cache[x].in_use /\ cache[y].in_use /\ cache[x].block = cache[y].block
                        => x = y

\* A block is in the cache at most once, even when one request fills several
\* entries or several blocks are offered the same entry; an error handler that
\* reads again may leave a second copy.
UniqueCopies == channel.handler \/ OneCopy

\* A block that the cache takes for clean is what the device holds, except
\* while a write-through channel is writing it.  With error handlers this is
\* said of the copy that a search finds.
CleanIsOnDisk ==
  \A e \in Entry :
    /\ cache[e].in_use /\ ~ cache[e].dirty
    /\ channel.handler => e = find_cached_block(cache[e].block)
    => \/ cache[e].data = disk[cache[e].block]
       \/ writethrough /\ Calling("write") /\ cache[e].block \in Extent(call)

\* The transfer that an error handler does again is a part of the request.
Handing ==
  again # None =>
    /\ channel.handler
    /\ \/ /\ Calling("read") /\ done + again.left <= call.count
          /\ again.entry # 0 => done + again.left > 0 /\ Len(buf) + again.left > 0
       \/ Calling("write") /\ again.left <= call.count

\* The age ranks all the entries, so there always is an eldest; the loops stay
\* within their request, and the reply comes last.
Progress ==
  /\ \A r \in Entry : \E e \in Entry : age[e] = r
  /\ call # None => done <= call.count /\ reply = None
  /\ Calling("read") => done >= 0
  /\ Calling("zeroout") => \A b \in Extent(call) : Cached(b) = {}
  /\ Handing

\* A write-through channel has no dirty blocks, and while it writes, the device
\* is ahead of the cache unless the raw write has failed.
Through ==
  writethrough =>
    /\ Dirty = {}
    /\ Calling("write") =>
         /\ "write" \notin MayFail => retval
         /\ done # 0 /\ retval =>
              \A k \in 1 .. call.count : disk[call.block + k - 1] = call.data[k]
         /\ \A e \in Entry, k \in 1 .. Written :
              cache[e].in_use /\ cache[e].block = call.block + k - 1
                => cache[e].data = call.data[k]

\* Why the cache agrees with the device: it holds one copy of a block at most,
\* so a flush, an eviction and a write through always find the only copy.
IoInv == TypeOK /\ Progress /\ UniqueCopies /\ Through

\* The I/O manager is a block store: reads return what was written last, a
\* flush that succeeds has written everything, and only an operation that
\* reports an error may lose a write.
IsBlockStore == Store!Spec

\* On a write-through channel the device holds what was written as soon as the
\* write has succeeded.
WritesThrough ==
  [][writethrough /\ Calling("write") /\ reply' # None /\ reply'.ok =>
       \A k \in 1 .. call.count : disk'[call.block + k - 1] = call.data[k]]_vars
=============================================================================
