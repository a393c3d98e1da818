------------------------------ MODULE Processes ------------------------------
(***************************************************************************)
(* The two functions that start programs: extended_ml_spawn (fork_exec.c,  *)
(* Extended_unix.fork_exec), which connects the program to descriptors of  *)
(* the caller and reports what fails in the child as an exception, through *)
(* a pipe of its own; and ml_create_process (unix_stubs.c,                 *)
(* Unix.create_process), which connects it to three new pipes and reports  *)
(* what fails in the child on its stderr.                                  *)
(*                                                                         *)
(* Each call is made by a thread of its own in one parent process.  What a *)
(* thread does while it has the OCaml lock is one action: other threads    *)
(* fork and open descriptors only between such actions.  A child is a      *)
(* process; system calls on its own descriptors that nobody else can see   *)
(* are grouped into one action.                                            *)
(***************************************************************************)
EXTENDS Descriptors, Sequences

CONSTANTS
  Calls,      \* calls of the two functions
  Requests,   \* [kind, std, chdir, setuid, setgid]: "spawn" or "create", the
              \* descriptors to use as 0, 1 and 2, and the options given
  ClosedStd,  \* sets of descriptors of 0..2 that the parent may lack
  OwnUpTo,    \* the parent has files of its own up to one of these descriptors
  IntSize     \* sizeof(int): an errno crosses the pipe in so many bytes

ASSUME ProcessAssumption ==
  /\ Requests \subseteq [kind : {"spawn", "create"}, std : [1..3 -> Fds], chdir : BOOLEAN,
                         setuid : BOOLEAN, setgid : BOOLEAN]
  /\ IntSize \in Nat \ {0} /\ \A s \in ClosedStd : s \subseteq 0..2

VARIABLES
  uid,     \* the parent's user: 0 is root
  parent,  \* the parent's descriptors
  call,    \* each call: its pc, its request, the descriptors it uses, result
  child,   \* each call's child: its state, descriptors, user and error
  errpipe  \* the bytes of an errno in each spawn's pipe

processVars == <<uid, parent, call, child, errpipe>>

Std(d)       == [std |-> d]
End(c, k, e) == [pipe |-> <<c, k>>, end |-> e]

Kinds     == {"errno", "stdin", "stdout", "stderr"}
EndsOf(c) == {End(c, k, e) : k \in Kinds, e \in {"read", "write"}}

ASSUME NoFileAssumption ==
  /\ \A d \in Fds : None # Std(d)
  /\ \A c \in Calls : None \notin EndsOf(c)

\* The parent's own files: those above 2 are close-on-exec.
Own(closed, m) ==
  [d \in Fds |-> IF d \in 0..m \ closed
                 THEN [file |-> Std(d), cloexec |-> d > 2] ELSE Free]

NoCall  == [pc |-> "idle"]
NoChild == [state |-> "none", T |-> NoFiles, uid |-> 0, errno |-> "none"]

InitProcesses ==
  /\ uid \in {0, 1}
  /\ parent \in {Own(s, m) : s \in ClosedStd, m \in OwnUpTo}
  /\ call = [c \in Calls |-> NoCall]
  /\ child = [c \in Calls |-> NoChild]
  /\ errpipe = [c \in Calls |-> 0]

Alive(c) == child[c].state \notin {"none", "ended", "dead", "reaped"}

\* Does a process hold the file f?
Held(f) == f \in Files(parent) \/ \E c \in Calls : Alive(c) /\ f \in Files(child[c].T)

Forked(T) == [state |-> "dup", T |-> T, uid |-> uid, errno |-> "none"]

\* A call ends; got are the descriptors it gives to its client.
Finish(c, result, got) ==
  call' = [call EXCEPT ![c] = [@ EXCEPT !.pc = "done", !.result = result, !.got = got]]

Called(c, q, fds) ==
  [pc |-> "called", q |-> q, fds |-> fds, offset |-> 0, result |-> "none", got |-> {},
   files |-> [i \in 1..3 |-> IF q.kind = "spawn" THEN parent[q.std[i]].file
                             ELSE <<End(c, "stdin", "read"), End(c, "stdout", "write"),
                                    End(c, "stderr", "write")>>[i]]]

Failed(c, q, errno) ==
  [Called(c, q, <<>>) EXCEPT !.pc = "done", !.result = errno]

-----------------------------------------------------------------------------
(* extended_ml_spawn, in the parent. *)

\* A client passes descriptors that are open, and its own.
Passable(q) ==
  \A i \in 1..3 : \/ parent[q.std[i]].file \in {Std(d) : d \in Fds}
                  \/ \E k \in Calls : call[k].pc = "done" /\ q.std[i] \in call[k].got

\* pipe, set_cloexec and fork, with the OCaml lock held.
SpawnPipeFails(c, q) ==
  /\ call[c] = NoCall /\ q.kind = "spawn" /\ Passable(q)
  /\ Room(parent, 0, Limit - 1) < 2
  /\ call' = [call EXCEPT ![c] = Failed(c, q, "EMFILE")]
  /\ UNCHANGED <<uid, parent, child, errpipe>>

ErrnoPipeShared(c, pfd) ==  \* mutant of ErrnoPipe
  Piped(parent, << <<c, "errno">> >>, pfd)
ErrnoPipe(c, pfd) == Cloexec(Piped(parent, << <<c, "errno">> >>, pfd), {pfd[1], pfd[2]})

Spawn(c, q, forks) ==
  /\ call[c] = NoCall /\ q.kind = "spawn" /\ Passable(q)
  /\ Room(parent, 0, Limit - 1) >= 2
  /\ \E pfd \in {Lowest(parent, 0, 2)} :
     \E T \in {ErrnoPipe(c, pfd)} :
       IF forks
       THEN /\ parent' = T
            /\ child' = [child EXCEPT ![c] = Forked(T)]
            /\ call' = [call EXCEPT ![c] = Called(c, q, pfd)]
       ELSE /\ parent' = Closed(T, {pfd[1], pfd[2]})
            /\ child' = child
            /\ call' = [call EXCEPT ![c] = Failed(c, q, "EAGAIN")]
  /\ UNCHANGED <<uid, errpipe>>

\* From here on the OCaml lock is released.
SpawnClose(c) ==
  /\ call[c].pc = "called"
  /\ parent' = Closed(parent, {call[c].fds[2]})
  /\ call' = [call EXCEPT ![c].pc = "reading"]
  /\ UNCHANGED <<uid, child, errpipe>>

\* errno_from_pipe: some bytes of an errno are there.
SpawnRead(c, n) ==
  /\ call[c].pc = "reading"
  /\ n \in 1..errpipe[c] /\ n <= IntSize - call[c].offset
  /\ errpipe' = [errpipe EXCEPT ![c] = @ - n]
  /\ call' = [call EXCEPT ![c].offset = @ + n]
  /\ UNCHANGED <<uid, parent, child>>

\* It returns at the end of file, or when it asks for the 0 bytes that are
\* missing from an int; then the pipe is closed.
SpawnReadEnd(c) ==
  /\ call[c].pc = "reading"
  /\ \/ call[c].offset = IntSize
     \/ errpipe[c] = 0 /\ ~Held(End(c, "errno", "write"))
  /\ parent' = Closed(parent, {call[c].fds[1]})
  /\ IF call[c].offset = 0 THEN Finish(c, "ok", {})
     ELSE call' = [call EXCEPT ![c].pc = "waiting"]
  /\ UNCHANGED <<uid, child, errpipe>>

\* waitpid, then the exception.
SpawnWait(c) ==
  /\ call[c].pc = "waiting" /\ child[c].state = "dead"
  /\ child' = [child EXCEPT ![c].state = "reaped"]
  /\ Finish(c, child[c].errno, {})
  /\ UNCHANGED <<uid, parent, errpipe>>

-----------------------------------------------------------------------------
(* extended_ml_spawn, in the child.  Whatever fails makes it write an      *)
(* errno to the descriptor pfd[PIPE_WRITE] and exit.                       *)

\* (The singleton sets below only give a name to a value.)

\* The child of c, in state s, goes on in state next with descriptors T.
Child(c, kind, s) == child[c].state = s /\ call[c].q.kind = kind
Go(c, next, T) ==
  /\ child' = [child EXCEPT ![c].state = next, ![c].T = T]
  /\ UNCHANGED <<uid, parent, call, errpipe>>
Fail(c, errno) ==
  /\ child' = [child EXCEPT ![c].state = "report", ![c].errno = errno]
  /\ UNCHANGED <<uid, parent, call, errpipe>>

Placed(T, ds) == Dup2(Dup2(Dup2(T, ds[1], 0), ds[2], 1), ds[3], 2)

\* fcntl(F_DUPFD, 3), set_cloexec(false), dup2 to 0, 1 and 2, and the close
\* of the duplicates.
SpawnChildStdAtOnce(c) ==  \* mutant of SpawnChildStd
  Child(c, "spawn", "dup") /\ Go(c, "chdir", Placed(child[c].T, call[c].q.std))
SpawnChildStd(c) ==
  LET T == child[c].T
  IN  /\ Child(c, "spawn", "dup")
      /\ IF Room(T, 3, Limit - 1) < 3 THEN Fail(c, "EMFILE")
         ELSE \E temps \in {Lowest(T, 3, 3)} :
              \E D \in {Duplicated(T, call[c].q.std, temps)} :
                Go(c, "chdir", Closed(Placed(D, temps), {temps[i] : i \in 1..3}))

SpawnChildChdir(c) ==
  /\ Child(c, "spawn", "chdir")
  /\ \/ Go(c, "setuid", child[c].T)
     \/ call[c].q.chdir /\ Fail(c, "ENOENT")

\* setuid, to root or to another user, and then setgid; each is tried only
\* if getuid() is 0, and either may fail.
SpawnChildSetuid(c) ==
  /\ Child(c, "spawn", "setuid")
  /\ IF ~call[c].q.setuid THEN Go(c, "setgid", child[c].T)
     ELSE IF child[c].uid # 0 THEN Fail(c, "EPERM")
     ELSE \/ /\ \E u \in {0, 1} :
                  child' = [child EXCEPT ![c].state = "setgid", ![c].uid = u]
             /\ UNCHANGED <<uid, parent, call, errpipe>>
          \/ Fail(c, "EINVAL")

SpawnChildSetgid(c) ==
  /\ Child(c, "spawn", "setgid")
  /\ IF call[c].q.setgid /\ child[c].uid # 0 THEN Fail(c, "EPERM")
     ELSE Go(c, "exec", child[c].T) \/ (call[c].q.setgid /\ Fail(c, "EINVAL"))

\* execv or execve, of both functions.
Exec(c) ==
  /\ child[c].state = "exec"
  /\ \/ Go(c, "running", Executed(child[c].T))
     \/ Fail(c, "ENOEXEC")

\* The program ends, some day or never.
ProgramEnds(c) ==
  /\ child[c].state = "running"
  /\ Go(c, "ended", NoFiles)

\* report_errno_on_pipe: the errno is written in any number of pieces to
\* whatever file that descriptor is now; then _exit.  A write that fails is
\* tried again, whatever its error: if it fails for ever, as that of a
\* descriptor open for reading only, the child spins and keeps its files.
SpawnChildReport(c, n) ==
  LET to   == child[c].T[call[c].fds[2]].file
      sent == call[c].offset + errpipe[c] + n
  IN  /\ Child(c, "spawn", "report") /\ n \in 1..IntSize
      /\ IF to = End(c, "errno", "write")
         THEN /\ sent <= IntSize
              /\ errpipe' = [errpipe EXCEPT ![c] = @ + n]
              /\ child' = IF sent = IntSize
                          THEN [child EXCEPT ![c].state = "dead", ![c].T = NoFiles]
                          ELSE child
         ELSE /\ errpipe' = errpipe
              /\ \/ child' = [child EXCEPT ![c].state = "dead", ![c].T = NoFiles]
                 \/ child' = [child EXCEPT ![c].state = "spinning"]
      /\ UNCHANGED <<uid, parent, call>>

-----------------------------------------------------------------------------
(* ml_create_process.  fds are the descriptors of the three pipes: the     *)
(* read and the write end of stdin, of stdout, of stderr.                  *)

PipeNames == <<"stdin", "stdout", "stderr">>

\* The parent's ends are the write end of stdin and the read ends of the
\* others: it closes the rest and sets its own to close on exec.
Mine(fds) == {fds[2], fds[3], fds[5]}
ParentSide(T, fds) == Cloexec(Closed(T, {fds[1], fds[4], fds[6]}), Mine(fds))

\* The parent keeps the lock from the first pipe to the end.
Create(c, q, forks) ==
  /\ call[c] = NoCall /\ q.kind = "create"
  /\ Room(parent, 0, Limit - 1) >= 6
  /\ \E fds \in {Lowest(parent, 0, 6)} :
     \E T \in {Piped(parent, [i \in 1..3 |-> <<c, PipeNames[i]>>], fds)} :
       IF forks
       THEN /\ parent' = ParentSide(T, fds)
            /\ child' = [child EXCEPT ![c] = Forked(T)]
            /\ call' = [call EXCEPT ![c] = [Called(c, q, fds) EXCEPT
                                            !.pc = "done", !.result = "ok", !.got = Mine(fds)]]
       ELSE /\ parent' = Closed(ParentSide(T, fds), Mine(fds))
            /\ child' = child
            /\ call' = [call EXCEPT ![c] = Failed(c, q, "EAGAIN")]
  /\ UNCHANGED <<uid, errpipe>>

\* One of the pipes cannot be had; those before it are closed again.
LeftOpen(T, fds) == T  \* mutant of Undone
Undone(T, fds) == Closed(T, {fds[i] : i \in DOMAIN fds})
CreatePipeFails(c, q) ==
  LET room == Room(parent, 0, Limit - 1)
  IN  /\ call[c] = NoCall /\ q.kind = "create" /\ room < 6
      /\ \E fds \in {Lowest(parent, 0, IF room < 2 THEN 0 ELSE IF room < 4 THEN 2 ELSE 4)} :
         \E T \in {Piped(parent, [i \in 1..3 |-> <<c, PipeNames[i]>>], fds)} :
           parent' = Undone(T, fds)
      /\ call' = [call EXCEPT ![c] = Failed(c, q, "EMFILE")]
      /\ UNCHANGED <<uid, child, errpipe>>

\* dup three times; close 0, 1 and 2 and the pipes; dup2 three times and
\* close the duplicates.
CreateChildStd(c) ==
  LET T   == child[c].T
      fds == call[c].fds
  IN  /\ Child(c, "create", "dup")
      /\ IF Room(T, 0, Limit - 1) < 3 THEN Fail(c, "EMFILE")
         ELSE \E temps \in {Lowest(T, 0, 3)} :
              \E D \in {Closed(Duplicated(T, <<fds[1], fds[4], fds[6]>>, temps),
                              0..2 \cup {fds[i] : i \in 1..6})} :
                Go(c, "chdir", Closed(Placed(D, temps), {temps[i] : i \in 1..3}))

CreateChildChdir(c) ==
  /\ Child(c, "create", "chdir")
  /\ \/ Go(c, "exec", child[c].T)
     \/ call[c].q.chdir /\ Fail(c, "ENOENT")

\* report_error: a message to stderr, which is still that of the parent if
\* the child has not got its own; then exit.
StderrAsUsual(c) == 2  \* mutant of Stderr
Stderr(c) == IF child[c].errno = "EMFILE" THEN call[c].fds[6] ELSE 2

CreateChildReport(c) ==
  /\ Child(c, "create", "report")
  /\ errpipe' = IF child[c].T[Stderr(c)].file = End(c, "stderr", "write")
                THEN [errpipe EXCEPT ![c] = 1] ELSE errpipe
  /\ child' = [child EXCEPT ![c].state = "dead", ![c].T = NoFiles]
  /\ UNCHANGED <<uid, parent, call>>

\* The client closes the descriptors it was given.
CloseGot(c) ==
  /\ call[c].pc = "done" /\ call[c].got # {}
  /\ parent' = Closed(parent, call[c].got)
  /\ call' = [call EXCEPT ![c].got = {}]
  /\ UNCHANGED <<uid, child, errpipe>>

-----------------------------------------------------------------------------
SpawnTail(c) ==
  \/ SpawnClose(c) \/ SpawnReadEnd(c) \/ SpawnWait(c)
  \/ \E n \in 1..IntSize : SpawnRead(c, n)

ChildStep(c) ==
  \/ SpawnChildStd(c) \/ SpawnChildChdir(c) \/ SpawnChildSetuid(c) \/ SpawnChildSetgid(c)
  \/ CreateChildStd(c) \/ CreateChildChdir(c)
  \/ Exec(c)
  \/ \E n \in 1..IntSize : SpawnChildReport(c, n)
  \/ CreateChildReport(c)

Settled ==
  /\ \A c \in Calls : call[c].pc = "done" /\ (Alive(c) => child[c].state = "spinning")
  /\ UNCHANGED processVars

NextProcesses ==
  \/ \E c \in Calls :
       \/ \E q \in Requests :
            \/ SpawnPipeFails(c, q) \/ CreatePipeFails(c, q)
            \/ \E forks \in BOOLEAN : Spawn(c, q, forks) \/ Create(c, q, forks)
       \/ SpawnTail(c) \/ ChildStep(c) \/ ProgramEnds(c) \/ CloseGot(c)
  \/ Settled

ProcessesSpec ==
  /\ InitProcesses /\ [][NextProcesses]_processVars
  /\ \A c \in Calls : WF_processVars(SpawnTail(c)) /\ WF_processVars(ChildStep(c))
-----------------------------------------------------------------------------
\* A program that runs has the files of its call as 0, 1 and 2 and no other
\* descriptor of this code's or of another call's: so a pipe is broken when
\* the parent closes its end of it ("such that if the fds are closed the
\* pipes are broken", unix_stubs.c:122).  This holds whichever of 0, 1 and 2
\* the parent lacks, and however the descriptors passed are permuted.
ProgramsGetTheirFiles ==
  \A c \in Calls : child[c].state = "running" =>
    \A d \in Fds : child[c].T[d].file = IF d \in 0..2 THEN call[c].files[d + 1] ELSE None

\* What failed in the child is known: a spawn succeeds only if the program
\* runs, and fails with the child's own error, after it has reaped it; a
\* create whose child failed has a message in its stderr pipe.  Excepted is
\* a spawn whose error pipe got a descriptor of 0 to 2 to write to, which
\* dup2 takes away from it.
FailuresAreTold ==
  \A c \in Calls : call[c].pc = "done" /\ child[c].state # "none" =>
    IF call[c].q.kind = "create" THEN child[c].state = "dead" => errpipe[c] = 1
    ELSE /\ call[c].result = "ok" /\ call[c].fds[2] > 2 => child[c].state \in {"running", "ended"}
         /\ call[c].result # "ok" =>
              child[c].state = "reaped" /\ call[c].result = child[c].errno

\* "The function raises EPERM if when using [set{gid,uid}] and the user id is
\* not 0" (extended_unix.mli:23): no spawn succeeds whose child failed so.
EpermIsRaised ==
  \A c \in Calls :
    call[c].pc = "done" /\ call[c].result = "ok" => child[c].errno # "EPERM"

\* Nothing leaks: between calls the parent has its own files and the ends
\* of pipes that it gave to its client, on success and on every failure.
NothingLeaks ==
  (\A c \in Calls : call[c].pc \in {"idle", "done"}) =>
    {d \in Fds : parent[d] # Free /\ parent[d].file \notin {Std(i) : i \in Fds}}
      = UNION {call[c].got : c \in {k \in Calls : call[k].pc = "done"}}

\* A call of spawn returns, even if neither its program nor those that other
\* threads start at the same time ever end: no program keeps its pipe open.
SpawnReturns ==
  \A c \in Calls : call[c].pc = "called" ~> call[c].pc = "done"
=============================================================================
