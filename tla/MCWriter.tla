------------------------------ MODULE MCWriter ------------------------------
\* Values for TLC: a file, a socket and one without age limit that is
\* written to in periods; the end of a bigstring.
EXTENDS WriterSave

Setting(nonblock, periodic, limited) ==
  [supports_nonblock |-> nonblock, periodic |-> periodic, limited |-> limited]
MCSettings ==
  {Setting(FALSE, FALSE, TRUE), Setting(TRUE, FALSE, TRUE), Setting(TRUE, TRUE, FALSE)}
MCIovecs   == {[pos |-> 1, len |-> 2], [pos |-> 2, len |-> 1]}
=============================================================================
