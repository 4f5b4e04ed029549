--------------------------- MODULE MCUnixIoHistory --------------------------
(***************************************************************************)
(* UnixIo with a history of what the clients have written.                 *)
(***************************************************************************)
EXTENDS MCUnixIo

\* A history of what clients know to be written since the last
\* error or crash.
VARIABLE wrote

HInit == Init /\ wrote = [b \in Block |-> None]

HNext ==
  /\ Next
  /\ wrote' = IF reply' = None THEN IF call' = None THEN [b \in Block |-> None] ELSE wrote
              ELSE IF ~ reply'.ok THEN [b \in Block |-> None]
              ELSE IF call.name \in {"write", "zeroout"} THEN Put(wrote, call.block, call.data)
              ELSE wrote

HSpec == HInit /\ [][HNext]_<<vars, wrote>>

\* "Flush data buffers to disk." (unix_io.c:1025): when a flush succeeds, the
\* device holds what the clients have written since an error was last reported.
FlushIsHonest ==
  [][Calling("flush") /\ reply' # None /\ reply'.ok =>
       \A b \in Block : wrote[b] # None => disk'[b] = wrote[b]]_<<vars, wrote>>
=============================================================================
