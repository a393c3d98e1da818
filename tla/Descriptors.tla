----------------------------- MODULE Descriptors -----------------------------
(***************************************************************************)
(* The kernel's table of a process's descriptors, as the code that forks   *)
(* uses it: a function from descriptors to open files with a close-on-exec *)
(* flag.  The rule that matters is that a new descriptor is the lowest     *)
(* one that is free.                                                       *)
(***************************************************************************)
EXTENDS Integers, FiniteSets

CONSTANTS
  Limit, \* the number of descriptors a process may have (RLIMIT_NOFILE)
  None   \* no file: the descriptor is free

ASSUME LimitAssumption == Limit \in Nat /\ Limit > 2

Fds  == 0..Limit - 1
Free == [file |-> None, cloexec |-> FALSE]
NoFiles == [d \in Fds |-> Free]

Files(T)        == {T[d].file : d \in Fds} \ {None}
Opened(T, d, f) == [T EXCEPT ![d] = [file |-> f, cloexec |-> FALSE]]
Closed(T, ds)   == [d \in Fds |-> IF d \in ds THEN Free ELSE T[d]]
Cloexec(T, ds)  == [d \in Fds |-> IF d \in ds THEN [T[d] EXCEPT !.cloexec = TRUE] ELSE T[d]]

\* How many of the descriptors from n to m are free, and the first k free
\* ones from n on: those that the next k system calls that open one get.
Room(T, n, m) == Cardinality({d \in n..m : T[d] = Free})
Lowest(T, n, k) ==
  [i \in 1..k |-> CHOOSE d \in n..Limit - 1 : T[d] = Free /\ Room(T, n, d - 1) = i - 1]

\* pipe() for each of the names: the read end and the write end of the first
\* get fds[1] and fds[2], and so on.
Piped(T, names, fds) ==
  [d \in Fds |->
     IF \E i \in DOMAIN fds : fds[i] = d
     THEN LET i == CHOOSE i \in DOMAIN fds : fds[i] = d
          IN  [file |-> [pipe |-> names[(i + 1) \div 2],
                         end  |-> IF i % 2 = 1 THEN "read" ELSE "write"],
               cloexec |-> FALSE]
     ELSE T[d]]

\* The descriptors ds are duplicated as temps, with dup or F_DUPFD.
Duplicated(T, ds, temps) ==
  [d \in Fds |-> IF \E i \in DOMAIN temps : temps[i] = d
                 THEN [T[ds[CHOOSE i \in DOMAIN temps : temps[i] = d]] EXCEPT !.cloexec = FALSE]
                 ELSE T[d]]

\* dup2(d, e); the copy is not close-on-exec.
Dup2(T, d, e) == IF d = e THEN T ELSE Opened(T, e, T[d].file)

\* What is left of the table when a program is executed.
Executed(T) == [d \in Fds |-> IF T[d].cloexec THEN Free ELSE T[d]]
=============================================================================
