----------------------------- MODULE BlockStore -----------------------------
(***************************************************************************)
(* What the clients of an I/O channel of libext2fs rely on: numbered       *)
(* blocks with a current contents, mem, and a contents on the medium.      *)
(* Reads return the current contents; writes reach the medium at any time, *)
(* and at the latest when a flush, a change of the block size or the last  *)
(* close reports success; an operation that reports an error may have lost *)
(* what the medium did not have yet.                                       *)
(***************************************************************************)
EXTENDS Integers, Sequences

CONSTANTS Block, Calls, None

VARIABLES
  mem,    (* the current contents of every block                          *)
  media,  (* the contents on the medium                                   *)
  call,   (* the operation that is going on, or None                      *)
  reply   (* the reply to the last one, or None                           *)

vars == <<mem, media, call, reply>>

\* The blocks that an operation is about, and what it writes to them.
Extent(c) == c.block .. c.block + c.count - 1

Gives(c, b, d) ==
  c.name \in {"write", "zeroout"} /\ b \in Extent(c) /\ d = c.data[b - c.block + 1]

Call ==
  /\ call = None
  /\ call' \in Calls
  /\ reply' = None
  /\ UNCHANGED <<mem, media>>

\* Writes take effect on mem, and mem reaches the medium, block by block.
MemMoves   == \A b \in Block : mem'[b] = mem[b] \/ Gives(call, b, mem'[b])
MediaMoves == \A b \in Block :
                media'[b] \in {media[b], mem[b]} \/ Gives(call, b, media'[b])

Work == /\ call # None
        /\ MemMoves /\ MediaMoves
        /\ UNCHANGED <<call, reply>>

Succeed ==
  /\ call # None
  /\ MemMoves /\ MediaMoves
  /\ call.name \in {"write", "zeroout"} =>
       \A b \in Extent(call) : Gives(call, b, mem'[b])
  /\ call.name \in {"flush", "set_blksize", "close"} /\ ~ call.idle => media' = mem'
  /\ reply' = [ok |-> TRUE,
               data |-> IF call.name = "read"
                        THEN [k \in 1 .. call.count |-> mem[call.block + k - 1]]
                        ELSE <<>>]
  /\ call' = None

Fail ==
  /\ call # None
  /\ \A b \in Block : mem'[b] \in {mem[b], media'[b]} \/ Gives(call, b, mem'[b])
  /\ MediaMoves
  /\ reply' = [ok |-> FALSE, data |-> <<>>]
  /\ call' = None

\* The process ends: what is not on the medium is gone.
Crash == /\ mem' = media /\ media' = media
         /\ call' = None /\ reply' = None

Init == mem = media /\ call = None /\ reply = None

Next == Call \/ Work \/ Succeed \/ Fail \/ Crash

Spec == Init /\ [][Next]_vars
=============================================================================
