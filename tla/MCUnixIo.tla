------------------------------ MODULE MCUnixIo ------------------------------
(***************************************************************************)
(* UnixIo on a device of three blocks with a cache of two entries.         *)
(***************************************************************************)
EXTENDS UnixIo

Two == {0, 1}

Channel(flag, failing, handler) ==
  [writethrough |-> flag, may_fail |-> failing, handler |-> handler]

\* A failed write of a write-through channel stays in its cache as if it had
\* succeeded, so such a channel is on a device that can be written.
Reporting == {Channel(FALSE, {"read", "write", "flush"}, FALSE),
              Channel(TRUE, {"read"}, FALSE),
              Channel(FALSE, {"read", "write", "flush"}, TRUE)}

\* A write error that comes when a block is evicted.
Evicting == {Channel(FALSE, {"evict"}, FALSE)}
=============================================================================
