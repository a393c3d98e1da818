----------------------------- MODULE MCProcesses -----------------------------
\* Calls for TLC: descriptors in their places, permuted, all the same and
\* close-on-exec; with and without options.
EXTENDS Processes

Ask(kind, std, chdir, setuid, setgid) ==
  [kind |-> kind, std |-> std, chdir |-> chdir, setuid |-> setuid, setgid |-> setgid]

MCRequests ==
  {Ask("spawn", <<0, 1, 2>>, TRUE, FALSE, FALSE),
   Ask("spawn", <<2, 0, 1>>, FALSE, TRUE, FALSE),
   Ask("spawn", <<3, 3, 1>>, FALSE, FALSE, TRUE),
   Ask("spawn", <<3, 3, 3>>, FALSE, TRUE, TRUE),
   Ask("create", <<0, 0, 0>>, TRUE, FALSE, FALSE)}

MCClosedStd == {{}, {0}, {1, 2}, {0, 1, 2}}
=============================================================================
