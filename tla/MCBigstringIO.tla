---------------------------- MODULE MCBigstringIO ----------------------------
\* Requests for TLC: shorter and longer than the channels' buffers, with and
\* without a minimum, and for no bytes at all.
EXTENDS BigstringIO

Ask(op, len, min) == [op |-> op, len |-> len, min |-> min]

MCReadAsks ==
  {Ask("input", 0, 0), Ask("input", 1, 1), Ask("input", 3, 2),
   Ask("read", 0, 0), Ask("read", 3, 0), Ask("read", 3, 3),
   Ask("really_recv", 0, 0), Ask("really_recv", 3, 3), Ask("read_nonblocking", 2, 0)}

MCWriteAsks ==
  {Ask("output", 1, 0), Ask("output", 3, 3), Ask("output", 4, 2),
   Ask("really_write", 3, 3), Ask("write", 0, 0), Ask("write", 1, 0), Ask("write", 2, 0),
   Ask("writev", 3, 0), Ask("send", 2, 0)}
=============================================================================
