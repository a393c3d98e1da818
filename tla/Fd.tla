--------------------------------- MODULE Fd ---------------------------------
(***************************************************************************)
(* The life of file descriptors: Fd.t (async/unix/lib/raw_fd.ml, fd.ml),   *)
(* the table of open Fd.t's (fd_by_descr.ml), the watcher's tables         *)
(* (file_descr_watcher.ml) and the part of the select loop that deals with *)
(* them (raw_scheduler.ml).                                                *)
(*                                                                         *)
(* The system gives the number of a closed descriptor to the next file     *)
(* that is opened.  Threads make system calls on numbers, select watches   *)
(* numbers without the Async lock, and close runs in a thread; each must   *)
(* find under its number the file that it is about.  A file is known by    *)
(* the Fd.t that was first made of it.                                     *)
(*                                                                         *)
(* Callers of Fd are jobs, run in the loop's cycle or in a cycle of        *)
(* another thread while the loop selects, and signal handlers, which the   *)
(* loop runs between post_check and handle_post.                           *)
(***************************************************************************)
EXTENDS Integers, FiniteSets

CONSTANTS
  Fds, NoFd,            \* Fd.t's
  Descrs, NoDescr,      \* file descriptors, that is numbers
  ReadWrite,            \* what is watched for: reading, writing
  Requests, NoRequest,  \* calls of ready_to, by their ivars
  MaxSyscalls           \* bound: system calls in progress, by Fd.t

ASSUME FdAssumption ==
  /\ NoFd \notin Fds /\ NoDescr \notin Descrs /\ NoRequest \notin Requests
  /\ IsFiniteSet(Descrs) /\ IsFiniteSet(ReadWrite)
  /\ MaxSyscalls \in Nat

VARIABLES
  state, file_descr, num_active_syscalls, active_socket,
  file,                 \* the file that an Fd.t was made of
  close_finished,
  closing,              \* how far the thread that closes has come
  fd_by_descr,
  table,                \* the watcher's entries, by direction and number
  phase,                \* where the select loop is
  watched,              \* what select was called with
  post,                 \* what post_check returned
  interrupted,          \* whether the loop's interruptor is set
  asked,                \* what each request asks for
  answer,               \* the value of its ivar
  interrupt,            \* the deferred that interrupts it
  syscalls,             \* system calls that threads are in
  open_file             \* the system's files, by number

fdVars == <<state, file_descr, num_active_syscalls, active_socket, file>>
closeVars == <<close_finished, closing>>
loopVars == <<phase, watched, post>>
requestVars == <<asked, interrupt>>
vars == <<fdVars, closeVars, fd_by_descr, table, loopVars, interrupted, requestVars,
          answer, syscalls, open_file>>
-----------------------------------------------------------------------------
Keys == ReadWrite \X Descrs

States == {"unborn", "opened", "Open", "Close_requested", "Closed", "Replaced"}
Stages == {"none", "shutdown", "close", "closed", "finished", "raised"}
Answers == {"unasked", "raised", "waiting", "Ready", "Closed", "Interrupted"}

(* An entry without request is one to stop watching (Stop_requested).      *)
NoKey == [fd |-> NoFd, rw |-> NoRequest]
NoEntry == [fd |-> NoFd, request |-> NoRequest]
Entries == [fd : Fds \cup {NoFd}, request : Requests \cup {NoRequest}]
Watching(k) == table[k].request # NoRequest
Stopping(k) == table[k].fd # NoFd /\ ~Watching(k)

Init ==
  /\ state = [f \in Fds |-> "unborn"]
  /\ file_descr = [f \in Fds |-> NoDescr]
  /\ num_active_syscalls = [f \in Fds |-> 0]
  /\ active_socket = [f \in Fds |-> FALSE]
  /\ file = [f \in Fds |-> f]
  /\ close_finished = [f \in Fds |-> FALSE]
  /\ closing = [f \in Fds |-> "none"]
  /\ fd_by_descr = [d \in Descrs |-> NoFd]
  /\ table = [k \in Keys |-> NoEntry]
  /\ phase = "cycle" /\ watched = {} /\ post = {} /\ interrupted = FALSE
  /\ asked = [r \in Requests |-> NoKey]
  /\ answer = [r \in Requests |-> "unasked"]
  /\ interrupt = [r \in Requests |-> "never"]
  /\ syscalls = [f \in Fds |-> 0]
  /\ open_file = [d \in Descrs |-> NoFd]
-----------------------------------------------------------------------------
(* maybe_start_closing_fd, for those of fs that have come to st and num.   *)
(* (Only then is a descriptor's number out of the table.)                  *)
ClosableAnyhow(f, st, num) == st[f] = "Close_requested"  \* mutant of Closable
Closable(f, st, num) == st[f] = "Close_requested" /\ num[f] = 0
MaybeStartClosing(fs, st, num) ==
  LET closed == {f \in fs : Closable(f, st, num)} IN
  /\ num_active_syscalls' = num
  /\ state' = [f \in Fds |-> IF f \in closed THEN "Closed" ELSE st[f]]
  /\ fd_by_descr' = [d \in Descrs |->
                       IF \E f \in closed : file_descr[f] = d THEN NoFd ELSE fd_by_descr[d]]
  /\ closing' = [f \in Fds |-> IF f \notin closed THEN closing[f]
                               ELSE IF active_socket[f] THEN "shutdown" ELSE "close"]

(* request_stop_watching of some keys.                                     *)
NoWakeUp(stopped) == FALSE  \* mutant of MustWake
MustWake(stopped) == stopped # {}
StopWatching(keys, value) ==
  LET stopped == {k \in keys : Watching(k)} IN
  /\ table' = [k \in Keys |->
                 IF k \in stopped THEN [table[k] EXCEPT !.request = NoRequest] ELSE table[k]]
  /\ answer' = [r \in Requests |->
                  IF \E k \in stopped : table[k].request = r THEN value ELSE answer[r]]
  /\ interrupted' = (interrupted \/ MustWake(stopped))
-----------------------------------------------------------------------------
(* A thread opens a file; a job then makes an Fd.t of it.                  *)
OpenFile(f, d) ==
  /\ state[f] = "unborn" /\ open_file[d] = NoFd
  /\ open_file' = [open_file EXCEPT ![d] = f]
  /\ file_descr' = [file_descr EXCEPT ![f] = d]
  /\ state' = [state EXCEPT ![f] = "opened"]
  /\ UNCHANGED <<num_active_syscalls, active_socket, file, closeVars, fd_by_descr, table,
                 loopVars, interrupted, requestVars, answer, syscalls>>

RunsJobs == phase # "post"
Create(f, kind) ==
  /\ RunsJobs /\ state[f] = "opened"
  /\ active_socket' = [active_socket EXCEPT ![f] = kind]
  /\ state' = [state EXCEPT ![f] = "Open"]
  /\ fd_by_descr' = [fd_by_descr EXCEPT ![file_descr[f]] = f]
  /\ UNCHANGED <<file_descr, num_active_syscalls, file, closeVars, table, loopVars,
                 interrupted, requestVars, answer, syscalls, open_file>>

(* The name g stands for the Fd.t that replace makes of the file of f.     *)
Replace(f, g, kind) ==
  /\ state[f] = "Open" /\ num_active_syscalls[f] = 0 /\ state[g] = "unborn"
  /\ state' = [state EXCEPT ![f] = "Replaced", ![g] = "Open"]
  /\ file_descr' = [file_descr EXCEPT ![g] = file_descr[f]]
  /\ file' = [file EXCEPT ![g] = file[f]]
  /\ active_socket' = [active_socket EXCEPT ![g] = kind]
  /\ fd_by_descr' = [fd_by_descr EXCEPT ![file_descr[f]] = g]
  /\ UNCHANGED <<num_active_syscalls, closeVars, table, loopVars, interrupted,
                 requestVars, answer, syscalls, open_file>>

Close(f) ==
  /\ state[f] = "Open"
  /\ StopWatching(ReadWrite \X {file_descr[f]}, "Closed")
  /\ MaybeStartClosing({f}, [state EXCEPT ![f] = "Close_requested"], num_active_syscalls)
  /\ UNCHANGED <<file_descr, active_socket, file, close_finished, loopVars, requestVars,
                 syscalls, open_file>>
-----------------------------------------------------------------------------
(* with_file_descr_deferred: a thread makes system calls on the number; a  *)
(* job notes that they have ended.                                         *)
BeginSyscall(f) ==
  /\ state[f] = "Open" /\ syscalls[f] < MaxSyscalls
  /\ num_active_syscalls' = [num_active_syscalls EXCEPT ![f] = @ + 1]
  /\ syscalls' = [syscalls EXCEPT ![f] = @ + 1]
  /\ UNCHANGED <<state, file_descr, active_socket, file, closeVars, fd_by_descr, table,
                 loopVars, interrupted, requestVars, answer, open_file>>

EndSyscall(f) ==
  /\ RunsJobs /\ syscalls[f] > 0
  /\ syscalls' = [syscalls EXCEPT ![f] = @ - 1]
  /\ MaybeStartClosing({f}, state, [num_active_syscalls EXCEPT ![f] = @ - 1])
  /\ UNCHANGED <<file_descr, active_socket, file, close_finished, table, loopVars,
                 interrupted, requestVars, answer, open_file>>

(* ready_to and ready_to_interruptible: an exception if the number has an  *)
(* entry already, be it only one to stop.                                  *)
Key(f, rw) == <<rw, file_descr[f]>>
ReadyTo(r, f, rw) ==
  LET k == Key(f, rw) IN
  /\ answer[r] = "unasked" /\ state[f] \notin {"unborn", "opened"}
  /\ asked' = [asked EXCEPT ![r] = [fd |-> f, rw |-> rw]]
  /\ \/ state[f] # "Open"
          /\ answer' = [answer EXCEPT ![r] = "Closed"]
          /\ UNCHANGED <<num_active_syscalls, table, interrupted>>
     \/ state[f] = "Open" /\ table[k].fd # NoFd
          /\ answer' = [answer EXCEPT ![r] = "raised"]
          /\ UNCHANGED <<num_active_syscalls, table, interrupted>>
     \/ state[f] = "Open" /\ table[k].fd = NoFd
          /\ answer' = [answer EXCEPT ![r] = "waiting"]
          /\ num_active_syscalls' = [num_active_syscalls EXCEPT ![f] = @ + 1]
          /\ table' = [table EXCEPT ![k] = [fd |-> f, request |-> r]]
          /\ interrupted' = TRUE
  /\ UNCHANGED <<state, file_descr, active_socket, file, closeVars, fd_by_descr, loopVars,
                 interrupt, syscalls, open_file>>

(* The interrupt of ready_to_interruptible is determined, before the       *)
(* answer or after it; a job then chooses it.  (Of a call of ready_to it   *)
(* never is.)                                                              *)
Interrupt(r) ==
  /\ RunsJobs /\ answer[r] \notin {"unasked", "raised"} /\ interrupt[r] = "never"
  /\ interrupt' = [interrupt EXCEPT ![r] = "determined"]
  /\ UNCHANGED <<fdVars, closeVars, fd_by_descr, table, loopVars, interrupted, asked,
                 answer, syscalls, open_file>>

InterruptAnyhow(r) == TRUE  \* mutant of NotAnswered
NotAnswered(r) == answer[r] = "waiting"
Interrupted(r) ==
  /\ RunsJobs /\ interrupt[r] = "determined"
  /\ interrupt' = [interrupt EXCEPT ![r] = "chosen"]
  /\ \/ NotAnswered(r) /\ StopWatching({Key(asked[r].fd, asked[r].rw)}, "Interrupted")
     \/ ~NotAnswered(r) /\ UNCHANGED <<table, answer, interrupted>>
  /\ UNCHANGED <<fdVars, closeVars, fd_by_descr, loopVars, asked, syscalls, open_file>>
-----------------------------------------------------------------------------
(* The select loop.  select is called with what is watched, and called     *)
(* again when a signal interrupts it.                                      *)
PreCheck ==
  /\ phase \in {"cycle", "selecting"}
  /\ phase' = "selecting"
  /\ watched' = {k \in Keys : Watching(k)}
  /\ UNCHANGED <<fdVars, closeVars, fd_by_descr, table, post, interrupted, requestVars,
                 answer, syscalls, open_file>>

(* select returns some of them, or none after a while.  The entries of     *)
(* those, and the ones to stop, are removed; the interruptor is cleared.   *)
Removed(k, ready) == k \in ready \/ Stopping(k)
PostCheck(ready) ==
  /\ phase = "selecting" /\ ready \subseteq watched
  /\ post' = {[rw |-> k[1], entry |-> table[k]] : k \in {k \in Keys : Removed(k, ready)}}
  /\ table' = [k \in Keys |-> IF Removed(k, ready) THEN NoEntry ELSE table[k]]
  /\ phase' = "post" /\ watched' = {}
  /\ interrupted' = FALSE
  /\ UNCHANGED <<fdVars, closeVars, fd_by_descr, requestVars, answer, syscalls, open_file>>

(* handle_post: the requests that were ready are answered, and each entry  *)
(* that was removed is no longer an active system call.                    *)
OfPost(f) == {p \in post : p.entry.fd = f}
HandlePost ==
  /\ phase = "post"
  /\ phase' = "cycle" /\ post' = {}
  /\ answer' = [r \in Requests |->
                  IF \E p \in post : p.entry.request = r THEN "Ready" ELSE answer[r]]
  /\ MaybeStartClosing({p.entry.fd : p \in post}, state,
       [f \in Fds |-> num_active_syscalls[f] - Cardinality(OfPost(f))])
  /\ UNCHANGED <<file_descr, active_socket, file, close_finished, watched, table,
                 interrupted, requestVars, syscalls, open_file>>
-----------------------------------------------------------------------------
(* A thread shuts an active socket down, which may fail, as when the peer  *)
(* has reset the connection; it closes the number in any case.             *)
Shutdown(f) ==
  /\ closing[f] = "shutdown"
  /\ closing' = [closing EXCEPT ![f] = "close"]
  /\ UNCHANGED <<fdVars, close_finished, fd_by_descr, table, loopVars, interrupted,
                 requestVars, answer, syscalls, open_file>>

OsClose(f) ==
  /\ closing[f] = "close"
  /\ open_file' = [open_file EXCEPT ![file_descr[f]] = NoFd]
  /\ closing' = [closing EXCEPT ![f] = "closed"]
  /\ UNCHANGED <<fdVars, close_finished, fd_by_descr, table, loopVars, interrupted,
                 requestVars, answer, syscalls>>

(* protect raises the exception of the shutdown after the close, and then  *)
(* what was to fill close_finished does not run.                           *)
CloseFinish(f) ==
  /\ RunsJobs /\ closing[f] = "closed"
  /\ \/ /\ close_finished' = [close_finished EXCEPT ![f] = TRUE]
        /\ closing' = [closing EXCEPT ![f] = "finished"]
     \/ /\ active_socket[f]
        /\ closing' = [closing EXCEPT ![f] = "raised"]
        /\ UNCHANGED close_finished
  /\ UNCHANGED <<fdVars, fd_by_descr, table, loopVars, interrupted, requestVars, answer,
                 syscalls, open_file>>

Closer(f) == Shutdown(f) \/ OsClose(f) \/ CloseFinish(f)

Next ==
  \/ \E f \in Fds :
       \/ \E d \in Descrs : OpenFile(f, d)
       \/ \E kind \in BOOLEAN : Create(f, kind) \/ \E g \in Fds : Replace(f, g, kind)
       \/ Close(f) \/ BeginSyscall(f) \/ EndSyscall(f) \/ Closer(f)
  \/ \E r \in Requests :
       \/ \E f \in Fds, rw \in ReadWrite : ReadyTo(r, f, rw)
       \/ Interrupt(r) \/ Interrupted(r)
  \/ PreCheck \/ (\E ready \in SUBSET watched : PostCheck(ready)) \/ HandlePost

Spec == Init /\ [][Next]_vars

(* The loop runs, select returns when it is interrupted, system calls end, *)
(* threads that close run, and jobs run in every cycle of the loop.        *)
FairSpec ==
  /\ Spec
  /\ WF_vars(PreCheck) /\ WF_vars(HandlePost)
  /\ WF_vars(interrupted /\ \E ready \in SUBSET watched : PostCheck(ready))
  /\ \A f \in Fds : SF_vars(EndSyscall(f)) /\ SF_vars(Closer(f))
-----------------------------------------------------------------------------
TypeOK ==
  /\ state \in [Fds -> States] /\ file_descr \in [Fds -> Descrs \cup {NoDescr}]
  /\ num_active_syscalls \in [Fds -> Nat] /\ active_socket \in [Fds -> BOOLEAN]
  /\ file \in [Fds -> Fds]
  /\ close_finished \in [Fds -> BOOLEAN] /\ closing \in [Fds -> Stages]
  /\ fd_by_descr \in [Descrs -> Fds \cup {NoFd}]
  /\ table \in [Keys -> Entries]
  /\ phase \in {"cycle", "selecting", "post"} /\ watched \subseteq Keys
  /\ post \subseteq [rw : ReadWrite, entry : Entries]
  /\ interrupted \in BOOLEAN
  /\ asked \in [Requests -> [fd : Fds \cup {NoFd}, rw : ReadWrite \cup {NoRequest}]]
  /\ answer \in [Requests -> Answers]
  /\ interrupt \in [Requests -> {"never", "determined", "chosen"}]
  /\ syscalls \in [Fds -> Nat]
  /\ open_file \in [Descrs -> Fds \cup {NoFd}]

(* Fd's guarantee (fd.mli:1): whoever uses the number of an Fd.t, be it a  *)
(* thread's system call, select, or the thread that closes it, finds the   *)
(* file the Fd.t was made of, and a number that is open is in fd_by_descr  *)
(* under the Fd.t it belongs to, so that create overwrites none.           *)
Alive(f) == state[f] \in {"Open", "Close_requested"}
FindsItsFile(f) == open_file[file_descr[f]] = file[f]
SameFile ==
  /\ \A f \in Fds :
       /\ Alive(f) => FindsItsFile(f) /\ fd_by_descr[file_descr[f]] = f
       /\ syscalls[f] > 0 => Alive(f)
       /\ closing[f] \in {"shutdown", "close"} => FindsItsFile(f)
       /\ state[f] = "opened" => fd_by_descr[file_descr[f]] = NoFd
  /\ \A k \in Keys : table[k].fd # NoFd =>
       Alive(table[k].fd) /\ file_descr[table[k].fd] = k[2]
  /\ \A k \in watched : table[k].fd # NoFd

(* What raw_fd.ml:80 and raw_scheduler.ml:187 assert: the system calls     *)
(* that count as active are those that threads are in, the entries of the  *)
(* watcher and what handle_post has yet to see to; so a descriptor that is *)
(* watched is never closed, and one that is not in use is.                 *)
CountsActive ==
  \A f \in Fds :
    /\ num_active_syscalls[f] =
         syscalls[f] + Cardinality(OfPost(f)) + Cardinality({k \in Keys : table[k].fd = f})
    /\ state[f] = "Close_requested" => num_active_syscalls[f] > 0
    /\ close_finished[f] => state[f] = "Closed"

(* A request that waits is in one place, from which it will be answered    *)
(* once; and one that cannot be interrupted is not (fd.ml:127).            *)
RequestsKept ==
  \A r \in Requests :
    /\ Cardinality({k \in Keys : table[k].request = r})
         + Cardinality({p \in post : p.entry.request = r})
         = (IF answer[r] = "waiting" THEN 1 ELSE 0)
    /\ answer[r] = "Interrupted" => interrupt[r] = "chosen"

(* The count of what a descriptor is used for is true, and so is the       *)
(* bookkeeping of the requests that it counts.                             *)
CallsAccounted == TypeOK /\ CountsActive /\ RequestsKept

(* A descriptor that is to be closed is closed, though it be watched and   *)
(* in use, and its requests are answered.                                  *)
IsClosed(f) == state[f] = "Closed" /\ closing[f] \in {"closed", "finished", "raised"}
ClosesInTheEnd ==
  /\ \A f \in Fds : state[f] = "Close_requested" ~> IsClosed(f)
  /\ \A r \in Requests, f \in Fds :
       answer[r] = "waiting" /\ asked[r].fd = f /\ state[f] = "Close_requested" ~>
         answer[r] # "waiting"

(* fd.mli: the result of close becomes determined once the underlying file *)
(* descriptor has been closed.                                             *)
CloseFinishes ==
  \A f \in Fds : IsClosed(f) ~> close_finished[f]
=============================================================================
