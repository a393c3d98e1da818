# A verification of Async and of the C stubs of Core

This directory holds TLA+ models of the concurrent heart of Jane Street's Core
libraries: Async's job scheduler, select loop, thread pool, descriptors, pipes,
throttles and writers, and the `Nano_mutex` of Core that guards the scheduler; and of
the parts written in C that carry a program's data across its border: the
binary protocol's codecs, the I/O of bigstrings and channels, and the functions
that fork and execute programs. TLC checks each model on small instances; TLAPS
proves the safety properties of most of them for every value of the constants. All paths
below are relative to `src/base/`; `async/core/lib/` is abbreviated to *core* and
`async/unix/lib/` to *unix*.

To check a model: `tlc -config MCPipe.cfg MCPipe.tla`. To check the proofs:
`tlapm PipeProofs.tla`. `PROJECT.json` lists the runs, the theorems, the source
lines that each definition translates, the hazards and the findings.

## 1. The system

Everything that runs in Async is a **job**. One thread at a time holds the Async
lock (a `Nano_mutex`) and runs a *cycle*: it takes batches of jobs from two
queues and runs each to its end. A job fills ivars, which adds the jobs of those
who wait for them. Between cycles the select loop gives up the lock and sleeps in
`select` until a descriptor is ready, a clock event is due, or another thread
interrupts it through a pipe. Functions that block run in a pool of threads and
come back through the same interrupt. On top of this stand pipes, throttles,
readers, writers, RPC and so on, all of which are code in jobs, so that their
concurrency is the *order of jobs and callbacks*, while that of the layers below
is of *threads*.

Below OCaml there are stubs in C. Those of Bin_prot turn values into bytes of a
bigstring and back; those of Bigstring and Unix move bytes between bigstrings,
channels and descriptors with system calls that transfer a part, are interrupted
or fail; `fork_exec` and `create_process` start programs. They give up the OCaml
lock while they block, so that other threads run meanwhile, and their loops must
come out right whichever system call stops in the middle.

```
   Rpc, Tcp, File_tail, Persistent_singleton            (async/extra)
   Reader, Writer, Fd, In_thread, Signal, Shutdown      (unix)
   Raw_scheduler: select loop, watcher, interruptor, thread pool
   Pipe, Throttle, Clock, Monitor, Stream               (core)
   Scheduler: run_cycle, Jobs;  Ivar, Deferred
   Nano_mutex, Squeue, Thread_safe_queue                (core/lib)
   ---- C ----
   Bin_prot stubs (bin_prot/lib);  Bigstring I/O (core/lib)
   fork_exec (core/extended), create_process (core/lib)
```

### Inventory

| Component | State | Operations | What is hard | What makes it correct |
|---|---|---|---|---|
| Pipe (core/pipe.ml) | buffer, pushback ivar, blocked reads and flushes, counters, closed | write, reads of four kinds, flushed, close, close_read, set_size_budget | order of calls and callbacks; old pushback ivars; batches that split | FIFO, nothing lost, each deferred answered once and truthfully |
| Nano_mutex (core/lib/nano_mutex.ml) | holder, blocker, its user count; global cache of blockers | lock, try_lock, unlock | thread switches between any two non-atomic lines | mutual exclusion, no missed signal, blockers not shared |
| Scheduler and Jobs (core/scheduler.ml, jobs.ml) | two queues, quotas, uncaught exception | add, run_cycle, set quota | jobs that add jobs; batches in reverse; exceptions | bounded cycles, no job lost or starved, truthful result |
| Thread pool (unix/in_thread.ml, block_group.ml, raw_scheduler.ml) | reservations, counts, queues of work | run, Helper_thread, block groups, finalizers | reservations against live threads; hand-over of freed threads | limits kept, no leak, every work runs |
| Throttle (core/throttle.ml) | pipe of jobs, runners | enqueue, prior_jobs_done, kill | hops through the job queue; failing jobs | at most n at once, order, all answered |
| Select loop (unix/raw_scheduler.ml, interruptor.ml, file_descr_watcher.ml) | flag and pipe of the interruptor, finalizer jobs, signals, watched descriptors | pre_check, select, post_check, clear, interrupt | finalizers and handlers run without the lock; select runs on a snapshot | no missed interrupt; no full pipe |
| Fd (unix/raw_fd.ml, fd.ml, fd_by_descr.ml) | state, active system calls, tables of watcher and numbers | create, replace, with_file_descr_deferred, ready_to, close | numbers are reused by the system; close waits for others | a number is used only for its own file |
| Writer (unix/writer.ml) | queue of iovecs, counters, flushes, close state | write, schedule, flush, close, save | partial writes, age check, EPIPE, close racing a write, crash in save | bytes in order, flushes truthful, close ends |
| Ivar, Deferred (core/raw_ivar.ml, deferred.ml) | graph of cells and indirections, handlers | fill, connect, upon, install and remove handler, choose | cells that merge while handlers wait | each handler runs once, with the value of its cell |
| Clock events (core/events.ml, clock_event.ml) | heap of events | at, after, every, abort, fire | abort against fire | an event happens or is aborted, never both |
| Monitor (core/monitor.ml) | tree of listeners | try_with, protect, send_exn | functions that raise late or twice | first answer wins, no exception vanishes |
| Stream, Tail | list of ivars | extend, close | - | follows from Ivar |
| Reader (unix/reader.ml) | buffer, Not_in_use / In_use / Closed | read of many kinds, close | close during a read | one reader at a time |
| Thread_safe (unix/thread_safe.ml) | - | run_in_async, block_on_async | lock against deadlock on itself | results reach the caller |
| Signal, Shutdown | table of handlers; status | manage; shutdown, at_shutdown | shutdown twice, late additions | each function runs once |
| Rpc (async/extra/lib/rpc.ml) | open queries, responses | dispatch, abort, heartbeat, close | close and errors against answers in flight | every query is answered once |
| Tcp | number of connections | connect, serve | accept loop entered from three places; timeouts | limit kept, sockets closed |
| File_tail, Lock_file, Persistent_singleton | files | stat loop; lock; get and save | crash between two steps, files replaced | no data lost silently |
| Squeue, Thread_safe_queue | queue, condition variables | push, pop, transfer | who passes a signal on | no element and no waiter forgotten |
| Rw_mutex, Semaphore, Update_queue (core/extended) | counts, conditions | lock, unlock, enqueue | preference; re-entrance | exclusion, no starvation of the kind ruled out |
| Containers of Core | maps, heaps, queues | - | sequential | agree with their reference meaning |
| Bin_prot (bin_prot/lib/write_stubs.c, read_stubs.c, common_stubs.h) | a bigstring, a position in it | write and read of some thirty types | widths of encodings, bytes that have not arrived, buffers that are full | what is written is read; a Buffer_short loses nothing |
| Bigstring I/O (core/lib/bigstring_stubs.c, unix_stubs.c) | channel buffers, position of the call | input, output, read, recv, write, send, close | partial transfers, EINTR, EAGAIN, failure after some bytes | no byte lost, repeated or reordered; min_len kept |
| Fork and exec (core/extended/lib/fork_exec.c, unix_stubs.c) | descriptor tables of parent and child, error pipe | fork_exec, create_process | descriptors in each other's way, failures in the child, other threads that fork | the program gets its files and no other; failures are told; nothing leaks |
| Sexplib, syntax extensions, the rest of Core | - | pure functions, code generation, bindings | no state that several steps share | round trips, tested by the repository |

`PROJECT.json` gives the sources, the status and the reason of each, and under
`hazards` what a test would hardly reach, each at its line with the properties
that would catch it. Lesser hazards, and those of parts planned for later, are
listed at the end of this file.

### What is modelled

| Module | Models | Abstract specification | Proofs |
|---|---|---|---|
| `Selection` | what a list, a queue or a batch keeps of its elements, as operators | | `SelectionProofs` |
| `Pipe` (extends `Selection`) | one pipe | `Channel`, refined | `PipeProofs` |
| `NanoMutex` | the mutex and the cache of blockers | `Lock`, refined | `NanoMutexProofs` |
| `Jobs` (extends `Selection`) | the job queue's operators, for two modules | | |
| `Scheduler` (extends `Jobs`) | run_cycle | | `SchedulerProofs` |
| `ThreadPool` (extends `Selection`) | In_thread, helper threads, block groups | | `SchedulerProofs` |
| `Throttle` (extends `Jobs`) | the throttle on a pipe and the job queue | | `ThrottleProofs` |
| `SelectLoop` | the loop, its interruptor, other threads | | `UnixProofs` |
| `Fd` | descriptors, the watcher's tables, the loop | | `FdProofs` |
| `Writer` | a writer: buffer, background writer, flushes, close | | `UnixProofs` |
| `WriterSave` (extends `Writer`) | Writer.save, with a crash of the machine | | `UnixProofs` |
| `BinProt` | the codecs, as operators | | |
| `BinBuffer` (extends `BinProt`) | a client that packs values and a peer that reads them as they arrive | | |
| `BigstringIO` | both ends of a pipe, through channels or descriptors | | `StubsProofs` |
| `Descriptors` | a process's descriptor table, as operators | | |
| `Processes` (extends `Descriptors`) | fork_exec and create_process, parent and child | | `StubsProofs` |

`MCx` is the instance of module `x` that TLC checks. In each module an operator
marked *mutant of X* is X with a plausible mistake; it is never used by the
specification. Put in the place of X, it makes one property of the runs fail,
which shows that the property depends on the code it is about.

## 2. The models and the code

Three conventions. What Async does in one job, or under its lock, is one action,
because nothing else can run meanwhile; code that runs without the lock is cut
into its single shared accesses. A value, a job or a file is a model value or a
number. Variables marked *history* record what happened and influence nothing.

**Pipe.** An action is a call of a function of pipe.ml, or the callback of a
deferred the pipe gave out (`Callback`, `WithWriteCallback`), which may run any
time after it was determined. A client stands for an Async task and holds at most
one deferred of the pipe. `write`, `write'` and a batch of zero to `MaxBatch`
values are one action, since they differ in the size of the batch; so are the
reads (`Wants`). The i-th value written is the number i. The loops of the source
are written in closed form: `Cuts` and `Served` say which values each blocked
read gets (fill_blocked_reads), `FlushesDue` how many flushes are filled
(fill_flushes). Within one call the source may call update_pushback more than
once; only the last matters, because an ivar made and filled in one job is seen
by nobody. Pushback ivars are numbered, so that a writer may wait for an old one.
with_write's f writes no value or one. `Channel` knows only the values in transit,
those handed out, and the promises to flushes.

**NanoMutex.** The source relies on OCaml switching threads only at allocation
and calls, and marks the regions in which it does not. An action is such a region
or one access between two points where a switch is possible; `pc[t]` names the
point reached. The blocker's mutex and condition variable are the system's:
`Condition.wait` may wake spuriously, `Mutex.lock` gives the mutex to any waiter.
The cache, a Thread_safe_queue, is a set, since nothing depends on which blocker
is reused. The asynchronous exceptions that with_blocker's protect is for are left
out. `Lock` says who holds a mutex and who wants it.

**Jobs and Scheduler.** `Jobs` has the FIFO queues and `Batch`: the list that
Jobs.get builds is reversed, because it pushes each job it dequeues on the front.
`RunCycle` is a step of run_cycle: its start (reset the quotas, add the jobs of
clock events), the run of one job, the next batch, or its end, where the result
is computed *before* the streams of cycle times are extended, which may add jobs.
`awake` says whether the select loop comes back by itself: after a cycle that said
that jobs remain, or when it is interrupted. Code that runs between cycles may
interrupt or not (`AddOutside`); the history `late` has the jobs that were added
without a word to a loop that sleeps. A job may add jobs, change the quota, or
raise. It is known by the function it runs and may be added again once it has
started, so that behaviours are endless although the state space is finite.
Execution contexts and backtraces are left out.

**ThreadPool.** Each step is a region that holds the Async lock, or the pop of a
queue, or a thread's last words (`dead`), which run without it. Pool threads have
no state between two works, so they are counted, not named. Works, groups and
helper threads may be used again. The pool's thread-safe queue is a sequence with
atomic operations. `Thread.create` does not fail.

**Throttle.** Three hops through the job queue lie between the pipe's answer to a
runner and the start of the job's work: the runner's callback (`Got`), the job's
own (`Go`), and the work that Monitor.try_with schedules (`Work`). They are kept,
with the reversal of batches, because the order of starts depends on them; the
quota is taken to be large enough. The hops after the work's end, which decide
nothing, are merged into `OneJobRunner`. The number of runners and
continue_on_error are chosen by `Init`. Enqueuing a `Job.t` twice is left out.

**SelectLoop.** The loop's labels follow raw_scheduler.ml:387-436: cycle, watch
the interruptor, pre_check, select (without the lock), take the lock, post_check,
clear, finalizers, signals, and the next cycle. Other threads take the lock and
run a cycle, or are interrupted by a finalizer or a signal handler and run it at
once, without the lock; both end in `Interrupt`, whose test of the flag, setting
it and writing a byte are cut where another thread may get in between. A thread
that uses Async without a cycle (`RunNoCycle`: its function raised or said
`Do_not_run_a_cycle`) interrupts the loop only if it watches a descriptor. A cycle
may leave jobs, add or remove clock events, watch and cease to watch descriptors,
or raise; it is left open which. The loop's own cycle may leave jobs and say that
none remain, those of the streams of cycle times. The history `untold` names what
came to be without a word to the loop. An exception no monitor handles ends the
program. EINTR is returned only if nothing is ready and the timeout is not zero.
`Programs` is a bound: which finalizers, signals and descriptors a program uses.

**Fd.** A file is known by the Fd.t that was first made of it, so that a number
that goes to another file is told apart. `OpenFile` is the system giving a
free number; `Create`, `Replace`, `BeginSyscall`/`EndSyscall` (a thread in
a system call), `ReadyTo`, `Interrupt`/`Interrupted`, `Close` and `Closer` (the
thread that shuts down and closes) are the operations, and `PreCheck`,
`PostCheck`, `HandlePost` the loop. Callers are jobs, or signal handlers, which
run between post_check and handle_post (phase "post"). Select may return any part
of what it watches. Whether a shutdown fails is left open. Left out: EBADF, a
close that fails, and synchronous with_file_descr, which is over within its job.

**Writer and WriterSave.** The record `t` is the source's, and an operator on such
a record is the function of its name; an action composes them as one job of
Async does. `t.job` says what the background writer will do next: its first job at
the end of the cycle (`start`), a ready_to (`ready`), a period (`after`) or a
write in a thread, whose iovecs are in `flight`. `mem` holds the bigstrings
that are in use, with numbers as names, so that bytes overwritten or destroyed
before the system has taken them are seen; bytes that nobody refers to are 0. A
write takes any part of what it is given (`SystemTakes`) or fails; whether it is
made at once or in a thread is left open for descriptors that do not block, since
long or mapped data go to the thread. A write_bin_prot may raise after give_buf.
The client's bytes are numbered, and `file` is what the system took. `AgeCheck` is
the loop that looks once a second, `Close` with its choose of four is
`CloseChosen`, and what Fd does after that is one step that waits for a write in
a thread (module `Fd`). Two histories correct the books: `skipped` counts the
bytes that an iovec's position takes off bytes_received, and `shrunk` says whether
bytes_received ever went down (section 4). In `WriterSave` a client of the writer
is either save, step by step, or free. A crash of the machine leaves of the new
file what was synced and any part of what was written after. Left out: set_fd, the
lock of with_file, attach_pipe, the flush at exit.

**BinProt and BinBuffer.** All thresholds of the codecs are powers of 256 or
halves of one; with a byte of `Byte` values they are powers of `Byte`. TLC uses
10, so that eight bytes fit its integers: codes change at 5, 50, 100, 5000 and
10,000, a long goes to 50,000,000 and an OCaml int, which has one bit less, to
25,000,000. A write is all or nothing, except of a matrix, whose first dimension
has a check for space of its own (`Mat`). A read answers a value, Buffer_short or
an error with a position; on any but success the caller's position stays
(`MLRead`). `BinBuffer` puts a client around them as Core's users write it: pack
until Buffer_short, send, start over; the peer reads what has arrived and tries
again on Buffer_short, and may read an integer as another integer type. Sizes
come from size.ml, which counts without writing. A size beyond what a block of
OCaml's heap can hold (`Max_wosize`, 2^54 - 1 words in the code, 1000 for TLC) is
an error for strings and arrays of floats, not for bigarrays. Left out: the 32-bit
and big-endian builds; the wrap of len * sizeof and dim1 * dim2 (read_stubs.c:495,
528-529), which no size that a writer wrote meets; and the release of the OCaml
lock for long copies, during which nobody else may use the buffer. The narrow
fixed-size integers are written with numbers that fit, as their stubs truncate.

**BigstringIO.** The writer's client has `Total` numbered bytes and always passes
the ones that follow those it was told were accepted, also after an error
(`IOError` says how many were). So a duplicate or a gap in what is delivered is
the stubs' doing. An action is one system call with the code up to the next one,
or the start of a call. `Kept` is the move of the unsent rest of the channel's
buffer to its front, `MayTryOneByte` the retry with one byte after EAGAIN,
`Enough` the loop for min_len. `Writev` and `send` on strings copy their iovecs
(`Copied`) because OCaml's may move. fixed_close_channel tries again a limited
number of times (1000 in the code, `Tries` here). A signal may end a recv with
MSG_WAITALL early (`Signals`); the history `astray` has the numbers of the bytes
that really_recv then puts in the wrong place. One writer, one reader: two
threads on one channel are in section 7. Left out: addresses of recvfrom, MSG_*
flags other than WAITALL, and the blits.

**Descriptors and Processes.** The parent is a process with threads; what one of
them does while it holds the OCaml lock is one action, so that what happens
between SpawnClose, SpawnRead and SpawnWait is visible to other threads' calls.
The child works on its own table, which nobody else sees, so its calls are
grouped up to those that can fail. A new descriptor is the lowest that is free:
this is what makes the order of dup2 and close matter, and why a parent without
stdin gets 0 as one end of its error pipe. `errpipe` counts the bytes of the
errno. A child that reports an error to a descriptor that is not its pipe writes it
to another file, or fails in that for ever, as report_errno_on_pipe tries any
failed write again, and spins. setuid makes the child root or another user, and it
and setgid may fail. A program ends some day or never. A client passes descriptors
that are open and its own.

## 3. What is checked

| Run | Instance | Asks |
|---|---|---|
| `pipe` | 3 clients, 3 values, batches of at most 2, budgets -1 to 1, 3 pushback ivars | `PipeInvariant`: what pipe.ml itself states; `NoForgottenDeferred`; `AnswersTrue`: flushes and reads answer truthfully; `FirstComeFirstServed`; `ImplementsChannel` |
| `nano_mutex` | 3 threads, 1 mutex | `FunctionInvariant`: users counted and blockers apart; `NoMissedSignal`; `RecursionTestStable`; `ImplementsLock`; `HandedOver` under fairness |
| `scheduler` | 2 normal jobs, 1 low, quotas 1 and 2, at most 2 additions in a step | `QuotaKept`; `JobsInvariant`: jobs accounted for, and the loop sleeps only on those it was not told of; `OvertakenInBatchOnly`; `NoStarvation` under fairness; no deadlock |
| `thread_pool` | 2 groups that reserve 1 to 2 of 3 threads, 3 works, 1 helper thread | `SchedulerInvariant`: limits kept and threads accounted for; `NoIdleWork`; `EveryWorkRuns`, no deadlock |
| `throttle` | 1 or 2 runners, 2 jobs that may be enqueued again, 2 calls of prior_jobs_done | `ThrottleInvariant`: jobs are in the runners' hands, prior_jobs_done answers truthfully; `OvertakesOnlyTakenJobs`; `EveryJobAnswered` |
| `select_loop` | 1 thread and the loop; a program with 1 finalizer and 1 signal, or one with 1 descriptor | `LoopInvariant`: the flag hides no interrupt, the watcher knows what select finds, the pipe stays short; `NoMissedInterrupt`; `EverythingIsSeenTo` under fairness |
| `fd` | 2 Fd.t's, 1 number, 1 direction, 2 requests, 1 system call at a time each | `SameFile`, `CallsAccounted`: active calls counted and requests kept; `ClosesInTheEnd` |
| `writer` | a file, a socket, a periodic writer without age limit; a buffer of 2, writes of 1 to 3 bytes, 4 in all, iovecs with positions within and beyond their length, at most 2 iovecs in a write; a save of 3 bytes | `WriterInvariant`: the writer's accounts; `StreamInOrder`: bytes come out in order and once, flushes are truthful; `ReplacesWithWhole`; `AnswersCome`: flushes and close |
| `save_crash` | the save alone | `SoundAfterCrash` (violated) |
| `bin_prot` | bytes of 10 values, a buffer of 13 bytes, programs of 2 or 3 values | `ReadsWhatWasWritten`, `AllRead`, no deadlock |
| `bigstring_io` | 5 bytes, a pipe of 3, channel buffers of 2, 2 faults, signals | `StreamIntact`, `CallsKeepTheirWord`, `BlockedOnlyWhenFull`, `AllDelivered`, no deadlock |
| `processes` | 2 calls, 4 sets of missing standard descriptors, 13 descriptors of which the parent uses up to 11 | `ProgramsGetTheirFiles`, `FailuresAreTold`, `NothingLeaks`, `SpawnReturns`, no deadlock |

Why these bounds are enough. *Pipe*: three clients let two wait in the same queue
while the third acts; three values in batches of two split a batch over two reads
and leave a rest; a budget of 0 or 1 is crossed both ways, -1 is refused; three
pushback ivars let a writer hold one that was replaced twice. *NanoMutex*: with
three threads there is a holder and a race of two for the blocker, and a blocker
goes from use to use through the cache; more threads and mutexes are covered by
the proof. *Scheduler*: two jobs make a batch that can be reversed and a queue
that outlives a cycle with quota 1; the low job can be starved if it can be at
all. *ThreadPool*: three threads for two groups with up to two each cannot all be
had; the third work must wait. *Throttle*: two runners and, with the dummies of
prior_jobs_done, up to six jobs, so that jobs wait in the pipe and two callers
compete for the runners. *SelectLoop*: a race is of a thread with the loop, or of
two writers (the loop also interrupts itself); any number of threads is covered
by the proof, and so are programs that have finalizers, signals and descriptors at
once. *Fd*: the one number passes from file to file and to a replacing Fd.t; two
requests compete for one direction; the tables of readers and writers
are alike. *Writer*: writes are shorter and longer than half the buffer, the rest of
it and all of it, so that each branch of give_buf is taken; three iovecs need two
writes, and each write may stop at every byte, within an iovec, between two,
and within the writer's own buffer, to which the client adds meanwhile.
*BinBuffer*: each integer type is read and written at both sides of
every threshold, and beyond the range of the reader's type; the buffer of 13 holds
the longest value and rarely two, so that Buffer_short comes at every kind of
value; bytes arrive one by one, so that the peer reads at every prefix. *Bigstring
I/O*: the pipe is larger than a channel's buffer and smaller than the longest
write, so that a writev ends in either iovec; a request may be shorter and longer
than the buffer; two faults let one call fail and its repetition fail differently.
*Processes*: descriptors are passed in place, rotated, equal, and above 2; with
`OwnUpTo` the table has room for nothing, one pipe, all three, or the duplicates
too; two calls let one thread fork at any point of the other's call. `SpawnReturns`
is a claim about two calls. With three, in a parent that lacks 0, 1 and 2, the first
call's pipe may get 0 and 1, the second's 2 and 3, and once the first has returned
the third's 0 and 1 again: a child of the third that spins then holds 3, the write
end of the second's pipe.

`Spec` allows finite behaviours to stop; the runs that check deadlock are those of
systems that always have a next step (`scheduler`, `thread_pool`), or whose end is
an action of its own, `Done` or `Settled`, so that to stop anywhere else is an
error (`bin_prot`, `bigstring_io`, `processes`). The others end legitimately: the
writes are bounded (`Pipe`), threads need not lock again (`NanoMutex`), a throttle
dies, a writer has nothing to write or is closed, the loop ends with an exception
or sleeps, all is closed (`Fd`).

### Fairness, and why the code has it

- `NanoMutex`: weak fairness of each thread's next step. The master lock and the
  operating system run every thread that can run; calling lock or unlock is up to
  the program and is not fair. Who gets the mutex is not fair either: the run
  shows that it does not stay free, not that a given thread gets it.
- `Scheduler`: weak fairness of the steps of a cycle, for a job returns and
  run_jobs goes on; and of the start of the next cycle *while the loop is awake*.
  A loop that sleeps need not wake: what was added without a word to it may wait.
  `NoStarvation` is about the jobs that are there while the loop is awake.
- `ThreadPool`: threads run, and functions given to run return. `EveryWorkRuns`
  is about programs without helper threads, since one that is never finalized
  keeps its thread.
- `Throttle`: Async runs each hop (`NoStarvation` of `Scheduler`) and each job's
  deferred is determined.
- `SelectLoop`: weak fairness of threads once they have begun, of the loop and of
  time. A select that finds something ready, or has a timeout, returns; EINTR
  (`SelectInterrupted`) is no step of the loop's and not fair, so that a select
  without a timeout that nothing ends sleeps for ever. Strong fairness
  of the loop's taking of the lock, for a thread gives it up each time and the
  scheduler does not favour others for ever. Strong fairness is more than
  Nano_mutex promises (see above) and is an assumption about the threads' use of
  Async. Descriptors, signals and finalizers are not fair.
- `Fd`: weak fairness of the loop, and of its select only once it is interrupted
  (`NoMissedInterrupt` of `SelectLoop`); strong fairness of the end of system
  calls and of the closing thread, whose steps wait for the Async lock.
- `Writer`: Async runs the background writer's jobs, a write in a thread returns,
  the age check looks, close goes on. A descriptor that does not block may be
  unready for ever; force_close comes or not, as `Close` chose.
- `BinBuffer`: the client goes on, bytes arrive, the peer reads.
- `BigstringIO`: weak fairness of system calls that can proceed; strong fairness
  of the clients' calls for one byte or more, because they may make any number of
  calls for no bytes in between. Faults are not fair and at most `Faults`.
- `Processes`: weak fairness of the parent's calls once begun and of the child up
  to exec. That a program ends is not fair: `SpawnReturns` is about programs that
  run for ever.

## 4. Where the code departs from what it says

1. **A save that is synced too early** (`save_crash`; unix/writer.ml:845,
   writer.mli:202). With fsync, "the target file will always be in a sound state,
   even after a machine crash". But save calls Unix.fsync on the descriptor right
   after write, which only fills the writer's buffer: the write that empties it is
   under way in another thread, and what it writes after the fsync is not synced
   before the rename. A crash after that may leave an empty target. Writer.fsync
   (writer.ml:768) flushes first.

The next six were found while the models were built. Each has a cfg of its own that
shows it (`tlc -config MCThreadPoolWaits.cfg MCThreadPool.tla`, and so on), in which
TLC finds the definition named violated; the runs above check what does hold.

2. **A listener to the cycle times that is not heard** (`BlocksWhenOutOfHandlers`
   of `SelectLoop`, MCSelectLoopLate.cfg; core/scheduler.ml:111,
   unix/raw_scheduler.ml:346). "When Async is out of handlers it blocks"
   (unix/scheduler.mli:15). But whether jobs remain is computed before the streams
   of cycle times are extended, and what their listeners have to do then is in the
   queue while select sleeps without a timeout. The comment at scheduler.ml:112
   shows that it is meant so; the handlers run when something else wakes the loop.
   `NoStarvation`, `NoMissedInterrupt` and `EverythingIsSeenTo` hold for
   everything else, and except these jobs by the name `late` or `untold`.
3. **Work left beside a spare thread** (`WaitsOnlyWhenFull` of `ThreadPool`,
   MCThreadPoolWaits.cfg; unix/in_thread.ml:56, core/block_group.ml:45). The
   finalizer of a helper thread gives its thread back to the group without a look
   at the group's queue, as the end of a work looks (in_thread.ml:80). What waits
   there goes on waiting although the group uses fewer threads than it has
   reserved, until another of its works is done; if none is running, for ever. The
   assertion of Block_group.invariant fails. `NoIdleWork` shows that this
   finalizer is the only step that brings it about.
4. **A helper thread that dies late** (`EnoughLiveThreads` of `ThreadPool`,
   MCThreadPoolLive.cfg; unix/raw_scheduler.ml:290).
   Between `finish_with_thread` and `dead` it is not blocked but counts as live, so
   a run in between creates no thread for its work, and the assertion at
   raw_scheduler.ml:206 fails: more threads are handed out than there are.
   `NoIdleWork` bounds what is missing by the helper threads in that state.
5. **An iovec with a position** (`ReceivedIsRight` of `Writer`,
   MCWriterReceived.cfg; unix/writer.ml:410). It counts as
   len - pos bytes received, although len bytes are scheduled. The assertions at
   writer.ml:113 and 123 fail; bytes_written overtakes bytes_received, at which
   write_finished makes the writer die; and a flush waits for fewer bytes than were
   passed. `WriterInvariant` states the books with the correction, for any position.
6. **A recv that a signal cuts short** (`DeliveredInOrder` of `BigstringIO`,
   MCBigstringIOSignals.cfg; core/lib/bigstring_stubs.c:215, bigstring.mli:148).
   The loop of really_recv moves its pointer by the length that is left, not by
   the length received: the bytes of the next recv leave a gap or overwrite those
   before them, and may go past the range that was asked for. MSG_WAITALL makes
   short results rare, but a caught signal ends the call early. `StreamIntact`
   shows that nothing but the bytes of that very call is wrong, and that no byte
   is lost to a later one.
7. **A spawn that hides its failure** (`EpermIsRaised` of `Processes`,
   MCProcessesEperm.cfg; core/extended/lib/fork_exec.c:250, extended_unix.mli:23).
   When the parent lacks a standard descriptor, the write end of the error pipe
   may be 0, 1 or 2, and the child's dup2 puts one of the program's files in its
   place: an error after that, such as EPERM, goes to that file, and the spawn
   returns as if all were well (`FailuresAreTold` excepts this case by name). The
   comment at fork_exec.c:229 has such descriptors in mind, but duplicates only
   the three that are passed.

Others were seen with TLC too. Each is seen again by adding the definition named
to the module's cfg, with the constants given:

- *A group that reserves nothing* (unix/in_thread.ml:80, in_thread.mli:35;
  `EveryWorkRuns` of `ThreadPool`, with `MinReserved` 0 and `MaxLive` 1). Its work
  waits in its own queue when all threads are reserved; threads given back by
  other groups look only at the queue of their own. The work is never run, though
  all threads are idle.
- *An age check that remembers* (unix/writer.ml:166; `TooOldIsTrue` of `Writer`).
  Once the data were too old, the ivar stays full although all were written,
  until the check finds newer ones that wait; a close in between takes it for a
  reason not to wait for the flush, and drops what was just written. And save
  (writer.ml:846) renames its file whatever made close end: after a failed or
  slow write, once the age check has fired, a part of the contents
  (`ReplacesWithWhole` excepts this case by name).
- *with_write* (core/pipe.ml:307, pipe.mli:142; `WithWriteHasSpace` of `Pipe`). It
  "waits until there is space available in the pipe", but what it waits for may be
  stale when its callback runs: another writer may have filled the pipe, and only
  is_closed is looked at again.
- *Throttles start jobs out of order* (core/throttle.ml:82, throttle.mli:38;
  `StartsInOrder` of `Throttle`). Two jobs enqueued at once, with two runners that
  wait, start in reverse order: three hops, each of which reverses the batch.
  `OvertakesOnlyTakenJobs` is what does hold: order for one runner, and no job
  overtakes one that is still in the pipe.
- *A shutdown that fails* (unix/fd.ml:61, fd.mli:68; `CloseFinishes` of `Fd`). The
  number is closed, but the protect around it raises, and close_finished is never
  filled.

Not counted as findings: `flushed` after close_read says `` `Ok `` although values
were dropped, which the pipe.ml comment accounts for (the pipe is empty); and
Nano_mutex.invariant (nano_mutex.ml:85) is false for a moment while a thread is
inside with_blocker, which `UsersCounted` states precisely. Since
setgid is tried only if getuid() is still 0, a spawn by root with both options
fails with EPERM after its setuid to another user (fork_exec.c:263-275;
extended_unix.mli:23 describes both for root).

## 5. What is proved

TLAPS checks these for all values of the constants that satisfy the named
assumptions, without any bound. TLC evaluates the assumptions on each run, and each
inductive invariant was checked with TLC before it was proved. With them every
safety property that the runs of `Pipe`, `NanoMutex`, `Scheduler`, `ThreadPool`,
`Throttle`, `SelectLoop`, `Fd`, `Writer`, `WriterSave`, `BigstringIO` and `Processes`
check is a theorem; the codecs have a run only. `SchedulerProofs` is about
`Scheduler` and `ThreadPool`, the two parts of raw_scheduler.ml; `UnixProofs` about
`SelectLoop`, `Writer` and `WriterSave`, what is above them in *unix*; `StubsProofs`
about `BigstringIO` and `Processes`, the stubs in C.

The proofs share two habits. An invariant is a conjunction of parts, each an
operator of the values it speaks of (the queue, the batch, the table), so that one
lemma says what an operation does to a part, before and after being two
arguments. And where the code counts, the invariant names the set that is counted.

**Selection.** The histories of the models keep the elements of a list that are in a
set, in order. `SelectSeq` is recursive, and nothing can be proved of it; `Selected`
gives the same sequence by the ranks of the positions kept (`MCScheduler` has TLC
compare the two). `SelectionProofs` shows that it has the elements it should, in
their order and without repetition. It also derives induction on the naturals in
a form that needs no operator as a parameter: `Smallest`, that a nonempty set of
naturals has a least element, from the library's well-founded inclusion of finite
sets, and from it `Induct`.

**Pipe** (assumes `PipeAssumption`: the bounds are naturals, budgets are integers).
- `PipeCorrect`: type correctness, `PipeInvariant` and `FifoDelivery`. These are
  not inductive. `IInv` adds that the full pushback ivars are among those made, so
  that a new one is empty; that a closed read end means a closed pipe, so that
  nothing is accepted into an emptied buffer; and that no flush waits for more
  values than were written, so that an empty buffer leaves no flush. The heart is
  `ConsumeInvariant`: handing out the first k values restores each part, whatever
  `Cuts` makes of them. One lemma for each operation follows.
- `EveryDeferredAnswered`: `NoForgottenDeferred` and `AnswersTrue`. `CInv` ties the
  clients to the pipe: each client that waits for a read or a flush has exactly one
  place in the queue of its kind (`Placed`, with the marks of what it waits for),
  and those that were answered were told the truth (`FlushesTold`, `ReadsTold`). The
  step that matters serves several reads with one write: `Cuts` never goes down
  (`Upward`, by `Induct`), so what each read gets are consecutive values.
- `ReadsAreServedInTurn`: `FirstComeFirstServed`. `WInv` says that the history of
  waiting clients is in the order of their places, which every operation keeps
  because reads are taken off at the front and added at the back.
- `PipeIsAChannel`: the refinement of `Channel`. Each step that preserves the two
  invariants maps to a step of the channel or to none.

**NanoMutex** (assumes that the threads are finitely many, and the two nulls apart).
- `NanoMutexCorrect` and `InvariantHolds`: mutual exclusion, `UsersCounted` and
  `BlockersApart` (together the run's `FunctionInvariant`) and `NoMissedSignal`, for
  any number of threads and mutexes that share the cache. `IInv` adds `Control`
  (what each label says of the thread's own variables), `MadeBefore` (a blocker in
  use was made, so that a new one is new) and `OneInside` (the blocker's mutex has
  one holder). `UsersCounted` rests on cardinalities: `UsersIncrement` and
  `UsersLeave` add and remove one user, `LastIsAlone` says that the one who leaves
  last is the only one, which is why it may take the blocker off. `NoMissedSignal`
  then goes by cases on who was going to wake the waiter and what step that thread
  takes; the case that matters is a thread that commits to wait after testing the
  mutex, which it does while it holds the blocker's mutex, so an unlocker has yet
  to get there.
- `RecursionIsDetected`: `RecursionTestStable`. Between the two tests of lock only
  the thread itself can make or unmake itself the holder.
- `ImplementsItsPromise`: the refinement of `Lock`. A call is visible in the step
  that tests and sets the holder and in the one that ends it; the dance with
  the blocker in between, and all of the cache, is stuttering.

**Scheduler** (assumes that quotas are positive and that no job has both
priorities).
- `CycleIsBounded`: `QuotaKept`. `IInv` has the balance *run + left + in the batch
  <= quota* for each priority, and that a batch holds jobs of one priority, so that
  it is charged to the right one.
- `JobsAreAccounted`: `JobsInvariant`, and `BatchesAreInOrder`:
  `OvertakenInBatchOnly`. `Accounts` says of the two queues, the batch and the
  history of jobs that were added and have not started: the first three are
  disjoint, without repetition, and together hold the elements of the fourth;
  jobs of the batch come before others of their priority; and the queues are in
  the order of the history. Adding (`AddedAccounts`) extends queues and history at
  their ends; get takes a prefix and reverses it (`BatchParts`), which is why only
  order *within* the batch is lost; running and an exception drop jobs from the
  batch and, by `Without`, from the history (`TakenAccounts`).

**ThreadPool** (assumes that a minimum does not exceed its maximum, that the
maximum of threads is positive, and that works, helpers and null are apart).
- `ThreadsAreAccounted`: `SchedulerInvariant`, and `NoWorkIsIdle`: `NoIdleWork`. For
  the latter, `RunOwes` and `OthersOweNoMore` say which step may promise a thread
  that is not there, and `TakenNotIdle`, `GivenElsewhere` and `OnlyFinishedIdles` which
  step may leave a group's work beside a spare thread. That a group's count of
  blocked threads is the number of those that occupy one is inductive only with
  the places of works: `InPool`, `InGroups` and `InHelpers` say that a work that
  was handed to run is in one place, once, and `Crew` that only a living helper
  has work. Then each operation adds or removes one occupant of one group
  (`OccupiedMore`, `OccupiedLess`). `Alive` has the second account, of the live
  threads against what the pool's queue and threads hold; a new thread is created
  exactly when it would fail (`RunStep`). The scheduler's totals are sums over the
  groups. A fold over a set is out of the provers' reach, so the sum of f is
  stated as the cardinality of `Slots(f, groups)`, the pairs of a group and a
  number from 1 to its f; that it moves with f at one group is `SlotsChanged`.
  `nb <= nr <= MaxLive`, which the code relies on when it creates a thread without
  asking, is `SlotsBelow`.

**Throttle** (assumes a positive number of runners, and that the dummies of
prior_jobs_done are jobs of its own).
- `JobsStayInRunnersHands`: `ThrottleInvariant`, and `SequencersStartInOrder`:
  `OvertakesOnlyTakenJobs`. The invariant follows a job through the three hops:
  `Hopping` gives each job that was taken and has not started exactly one hop in the
  job queue or the batch; `Serving` gives each job from taken to returned exactly
  one runner, and each runner one job; `Waiting` and `Piped` say that a runner waits
  only while the pipe is empty; `Lined` that of the jobs that have not started
  those in the pipe come last and in its order. With one runner there is at most
  one taken job, hence the order of a sequencer. For prior_jobs_done, `Asking` says
  that as long as one of the earlier jobs is in the pipe all n dummies are behind
  it (`Ahead`), and counts the dummies that run; when it reaches n every runner is in
  the hands of a dummy, so none of the earlier jobs can be running.

**SelectLoop** (assumes finitely many threads; the loop and null are apart).
- `NoInterruptIsMissed` and `LoopCorrect`, the latter from `FlagIsTrue`,
  `WhatIsFoundIsKnown` and `PipeIsShort`: the invariants of the run, from one `IInv`.
  `Announced` says that whatever the loop must see to is announced by a byte (or
  one about to be written), or the loop is at a label from which it looks at it
  before it sleeps again; each conjunct names the labels at which clear has
  happened and the look has not, which is where the order of clear, finalizers and
  signals matters. `FlagTruth` is needed because a thread that finds the flag set
  writes nothing. `Sleeping` says what pre_check hands to select. `Short` counts the
  bytes in the pipe and those to come: at most one of each actor, one more while
  the flag is set. It also justifies the model's pipe without a limit, whose writes
  are never dropped.

**Fd** (assumes that the nulls are apart and that numbers and directions are
finitely many; Fd.t's and requests may be without end).
- `NumbersNameTheirFiles`: `SameFile`. `OwnersApart` says that each number has one
  owner, from the system's open to its close or to a replacement; that under it is
  the owner's file; and that fd_by_descr knows owners only. What keeps it is that a
  Fd.t with an active system call stays alive (`Alive`) and an entry of the watcher
  counts as one (`EntriesTrue`).
- `CallsAreAccounted`: `CallsAccounted`. The active calls are those of callers, of
  entries and of what handle_post has yet to see to, counted as sets; `OnePlace`
  says that a request that waits is in exactly one entry or one result, which is
  why it is answered once although close, interrupt and select may all get at it.

**Writer and WriterSave** (assume `WriterAssumption` and `SaveAssumption`: a buffer and
a writev are not empty, sizes are naturals; buffers, strings, iovecs and streams may
have any length, and flushes any number).
- `TheStreamIsInOrder`: `StreamInOrder`. The bytes of the stream are numbered, and
  `Holds` says of an iovec that memory has in its place the bytes numbered on from
  some point. `Streams` says that the bytes not yet taken are those of the queue's
  iovecs, one after the other (`QueueHolds`), and then those of the buffer that are
  not scheduled; `LastUse` and `Below` that nothing in the queue is overwritten by a
  later `Blit` or destroyed before its time. Each operation that passes bytes keeps
  them where they are and adds its own behind (`Adds`: `BlitSound`, `ScheduledAll`,
  `OnItsOwnSound`, `GiveBufAdds`, `ScheduledPasses`); what writev gathers is then a
  stretch of the stream (`ContentsNumbered`), and `RemoveDoneSound` says that after a
  partial write the rest of the queue, cut in the middle of an iovec, holds what
  comes after it. While a write is in a thread, what it was given stays a prefix of
  the queue (`TheFlight`), so that its result, which comes later, is counted off
  the right iovecs. Sums over a queue are the recursive function `Ends`; that it exists
  is `EndsExist`, by `Induct`, and the other facts about it follow from the
  recursion in the same way.
- `TheWritersInvariant`: `WriterInvariant`, for iovecs of any position and length. The
  code subtracts the position from the length and counts what is left as received
  (writer.ml:410, section 4), which may even be negative. What is right for all of
  them is the account with `skipped`, and that nothing is forgotten; that no flush
  is, needs that bytes_received has not gone down (`shrunk`, by `ShrunkIsKept`),
  because the queue of flushes is then no longer in order. `TheJob`
  follows the background writer: a writer that runs has a job, unless its
  descriptor was closed. `FlushesWait` is about flushes: they are in the order of
  what they wait for, none of which has been written or exceeds what was received.
- `SaveReplacesWithWhole`: `ReplacesWithWhole`. `TheSave` says, step by step, what save
  has passed to the writer, and that close ends only when its flush was answered or
  the data were too old; with `TheFlushes` (an answered flush was truthful) the
  file then has all of it.

**BigstringIO** (assumes `IOAssumption`: sizes are naturals, and a request's minimum is
at most its length, which fits in the window).
- `NoByteIsLost`: `StreamIntact`, `CallsDoWhatTheyPromise`: `CallsKeepTheirWord`, and
  `OutputBlocksOnlyWhenFull`: `BlockedOnlyWhenFull`, for all sizes of the pipe and
  of the buffers. The stream is in up to five places: given to the reader's client,
  in the call under way, in the reading channel, in the pipe, in the writing
  channel. `ReaderStream` and `WriterStream` say of each that its bytes are numbered
  on from those of the place before it, so that no concatenation has to be taken
  apart: a transfer moves the boundary between two places, and `PartOf` and `Joins`
  renumber. `WriterFits` and `ReaderFits` are what the stubs compute with (how much
  of a request is in the buffer and how much is to come), and imply the answers'
  promises. A really_recv that a signal cut short stores its bytes in the wrong place
  of its range (section 4): `NumberedBut` excepts those numbers, which `astray` names,
  and no others, and the range that it answers still has the right length, so that
  every transfer after it is right again. `WriterRoute` and `ReaderRoute` are needed
  because bytes are in a channel's buffer only if its client uses the channel.

**Processes** (assumes requests of their type, a positive size of an int, and that
no file is the null; calls and parents may be of any number and kind).
- `ProgramsOwnTheirFiles`: `ProgramsGetTheirFiles`, `ChildFailuresAreTold`:
  `FailuresAreTold`, and `CallsLeaveNothing`: `NothingLeaks`. `ProcessIInv` gives each
  call one `Story`: it has not begun (`NotCalled`), it failed before it forked
  (`Forkless`), or it is a spawn or a create whose child is in one of its states
  (`Spawned`, `Created`). Of the child's table a story says where the files of the
  call are (`Stands`), and that what is above 2 closes on exec (`Clean`), which exec
  makes into the first theorem (`RunsExecuted`). That the child's error pipe stays
  open until exec, unless its descriptor is one of 0 to 2, makes the second: the
  parent sees its end only when the child has executed or has written a whole errno
  (`SpawnErrno`). For the third, `Accounted` says that the pipes in the parent's
  table are those of calls under way and what clients were given, and a failure
  restores the table exactly (`Undoing`). All of it rests on which descriptor is the
  lowest free one: `LowestFree` says that the k chosen ones are free, apart, and
  all that are free below the last. Hence the duplicates that the child takes do
  not hit its sources, six new ones include whichever of 0 to 2 were missing
  (`LowOnesAreTaken`), and the duplicates of create, taken after them, are above 2.

### What is only model-checked

- Liveness (`NoStarvation`, `EveryWorkRuns`, `EveryJobAnswered`,
  `EverythingIsSeenTo`, `ClosesInTheEnd`, `HandedOver`, `AnswersCome`, `AllRead`,
  `AllDelivered`, `SpawnReturns`): fairness and ENABLED are beyond the prover.
- `BinBuffer` (`ReadsWhatWasWritten`): what the codecs compute rests on powers and on
  folds over bytes.
- What a recursive definition computes for every input: the library's induction
  theorems take an operator as a parameter, which the provers cannot instantiate.
  For this reason loops are in closed form. `Ends` of `Writer` is the exception, a
  recursive function of the naturals whose facts follow by `Induct`, each property
  being written as a set of numbers. No module declares a RECURSIVE operator, with
  which the SMT prover would be lost.

## 6. Plan

Done, in this order: `Pipe`, `NanoMutex`, `Jobs` and `Scheduler`, `ThreadPool`,
`Throttle`, `SelectLoop`, `Fd`: first what every Async program rests on, from the
data structure with the most operations to the loop with the most races. Then the
stubs in C: `BinProt` and `BinBuffer`, `BigstringIO`, `Descriptors` and
`Processes`, which no type checker looks at; and `Writer` with `WriterSave`, the
largest state machine of *unix* above the loop.

Next, in this order:

1. `Ivar`: cells, indirections and handlers, against an abstract specification
   with one cell for each class of connected ivars; then choose on top of it.
   Theorem: each handler is scheduled at most once.
2. `PipeTransfer`: two instances of `Pipe` and the copy loop between them, shown
   to implement one `Channel`; close at either end.
3. Clock events: at, abort, fire over the heap.
4. `Rpc` over two channels: each query answered once, also when the connection
   ends; rpc.ml:576 and :606 are to be looked at.
5. `Monitor`; `Reader`; `Squeue`; the mutexes and update_queue of Core_extended;
   Tcp's accept loop; File_tail.

Proofs to add: `JobsInvariant` of `Scheduler` and `ThrottleInvariant` suggest one
lemma about `Jobs` that both would use, in place of the two they have. What the
codecs compute (`BinBuffer`) needs facts about powers that the provers do not have.

Abstract specifications worth stating besides `Channel` and `Lock`: a bag of
running jobs bounded by n (`Throttle`), one cell for each class (`Ivar`), a file
that is replaced atomically (`WriterSave`), a bounded buffer (`Squeue`).

Not planned, because there is no state machine to check: Sexplib, the syntax
extensions, the writers and readers of Bin_prot in OCaml, and the formatting and
remaining bindings of Core (most of unix_stubs.c, linux_ext_stubs.c and all of
backtrace_stubs.c): one system call each, or pure, or generated. The repository
tests them by round trips.

## 7. Further hazards

In modelled code, without a property of their own:

- nano_mutex.ml:85: `invariant`, which any thread may call, is false between the
  increment of the count and the installation of the blocker.
- scheduler.ml:72: an exception nobody catches drops the rest of its batch
  (modelled; the properties say what holds until then).
- raw_scheduler.ml:269: num_live_threads is incremented before Thread.create,
  which may raise; the thread then counts as live for ever. Not modelled.
- throttle.ml:44: a `Job.t` enqueued twice is started twice, and its second
  Ivar.fill raises in the runner, which never reads again. Not modelled.
- throttle.ml:148: prior_jobs_done is not answered when the throttle dies first
  (modelled; `EveryJobAnswered` excepts it).
- fd.ml:99: after `` `Interrupted `` the watcher's entry stays until select
  returns; who asks again before gets an exception (modelled: `ReadyTo` answers
  "raised"; no doc says what to expect).

- writer.ml:269: a writer that dies leaves its flushes undetermined, and close then
  rests on the age check (modelled; `AnswersCome` excepts it where there is none).
- pipe.ml:309 (with_write) and fd.ml:61 (close): see section 4.
- bigstring_stubs.c:294: what a channel's buffer holds is read before the
  channel's mutex is taken; with two threads on one channel the number is out of
  date when it is used. The model has one thread at each end.
- fork_exec.c:178: the flag close-on-exec is set after the pipe was made; the lock
  that is held in between keeps OCaml threads out, but not threads of C.

In code that is planned for later:

- raw_ivar.ml:281: two chains of indirections may lead to one cell, whose handlers
  must not be merged with themselves; deferred.ml:81: two choices of a choose may
  become determined in one job.
- squeue.ml:28: a signal taken by a waiter that finds the queue empty again must be
  passed on.
- rpc.ml:576: when a connection ends, the handlers of open queries are not called;
  rpc.ml:606: an error answered with Die calls a handler twice.
- tcp.ml:149: accept_loop is entered from three places, and must keep the limit.
- persistent_singleton.ml:45: load reads the value and then overwrites the file.
- update_queue.ml:35: clear_queue empties the queue after it gave up the mutex.
- raw_ivar.ml:176: a handler is removed from the cell its ivar leads to *now*.
- clock_event.ml:35: abort asserts that a waiting event is in the heap, which
  advance_clock empties before fire marks the events; events.ml:57: due events
  come latest first, and the batch reverses their jobs.
- monitor.ml:205: a function given to try_with may raise after it has returned.
- reader.ml:166: a read in a thread fills the buffer that close may touch;
  reader.ml:651: a read that raises after it returned leaves the reader In_use.
- thread_safe_queue.ml:51: the section is atomic only while the compiler puts no
  allocation in it.
- rpc.ml:251: an abort may come before, after or while its stream ends.
- tcp.ml:53: a connection attempt may time out just as it succeeds.
- file_tail.ml:284: the file may change between stat and open.
- rw_mutex.ml:97: each wait needs somebody who ends it, also when a third thread
  slips in before the one that was woken.
- shutdown.ml:22: functions added once shutdown has begun are not run.
- lock_file.ml:66: closing any descriptor of a file gives up the process's lockf
  locks on it.
