----------------------------- MODULE SelectLoop -----------------------------
(***************************************************************************)
(* Async's select loop (async/unix/lib/raw_scheduler.ml), its interruptor  *)
(* (interruptor.ml) and the watcher of file descriptors                    *)
(* (file_descr_watcher.ml).                                                *)
(*                                                                         *)
(* Threads other than the loop's do two things: they use Async, holding    *)
(* its lock (thread_safe.ml), or they run a finalizer or signal handler,   *)
(* without the lock and at any moment.  Both end with an interrupt of the  *)
(* select loop, which would else sleep on what they did.  Each shared      *)
(* access made without the lock is a step of its own.                      *)
(*                                                                         *)
(* What a cycle of Async does is up to the program: it may leave jobs, add *)
(* or remove clock events, watch and cease to watch file descriptors, and  *)
(* raise an exception that no monitor handles.                             *)
(*                                                                         *)
(* Two things come to be without a word to the loop, and untold names      *)
(* them: the jobs that the streams of cycle times add once run_cycle has   *)
(* its result, and what a thread did in Async that ran no cycle.           *)
(***************************************************************************)
EXTENDS Integers, FiniteSets

CONSTANTS
  Threads, Loop,      \* the thread that runs the select loop is Loop
  NoThread,
  Finalizers,         \* what the garbage collector may finalize
  Signals,            \* the signals that are handled
  Fds, Interruptor,   \* file descriptors; Interruptor is the one of its pipe
  Programs            \* bound: which of these a program may make use of

ASSUME SelectLoopAssumption ==
  /\ IsFiniteSet(Threads) /\ Loop \notin Threads
  /\ NoThread \notin Threads \cup {Loop}
  /\ Interruptor \notin Fds

VARIABLES
  lock,                 \* who holds the Async lock
  pc,                   \* where each thread is
  already_interrupted,
  pipe,                 \* the bytes in the interruptor's pipe
  finalizer_jobs, delivered,
  jobs,                 \* whether Async's queue holds a job
  next_event,           \* the next clock event: "none", "future" or "due"
  uncaught_exception,
  watching, stopping,   \* the descriptors watched, and those to stop watching
  maybe_jobs_remain, timeout,
  watched,              \* what select was called with
  found,                \* what it returned
  ready,                \* the descriptors the system would find ready
  uses,                 \* what the program that runs makes use of
  untold                \* history: what the loop was not told of since its cycle

interruptVars == <<already_interrupted, pipe>>
asyncVars == <<jobs, next_event, uncaught_exception>>
watcherVars == <<watching, stopping>>
selectVars == <<maybe_jobs_remain, timeout, watched, found>>
vars == <<lock, pc, interruptVars, finalizer_jobs, delivered, asyncVars,
          watcherVars, selectVars, ready, uses, untold>>
-----------------------------------------------------------------------------
Actors == Threads \cup {Loop}
LoopLabels == {"cycle", "interrupt", "write", "watch", "pre_check", "selecting",
               "returned", "post_check", "clear", "cleared", "finalizers", "signals",
               "stopped"}
ThreadLabels == {"idle", "locked", "interrupt", "write", "unlock"}

Nothing == [retry |-> FALSE, ready |-> {}]

At(a, label) == pc[a] = label
Goto(a, label) == pc' = [pc EXCEPT ![a] = label]

(* The loop begins with the lock, which Scheduler.go has taken.            *)
Init ==
  /\ lock = Loop
  /\ pc = [a \in Actors |-> IF a = Loop THEN "cycle" ELSE "idle"]
  /\ already_interrupted = FALSE /\ pipe = 0
  /\ finalizer_jobs = {} /\ delivered = {}
  /\ jobs \in BOOLEAN /\ next_event \in {"none", "future"}
  /\ uncaught_exception = FALSE
  /\ watching = {} /\ stopping = {}
  /\ maybe_jobs_remain = FALSE /\ timeout = "Zero" /\ watched = {} /\ found = Nothing
  /\ ready = {} /\ untold = {} /\ uses \in Programs
-----------------------------------------------------------------------------
(* thread_safe_interrupt: the test and set of already_interrupted, then    *)
(* the write.                                                              *)
After(a) == IF a = Loop THEN "watch" ELSE IF lock = a THEN "unlock" ELSE "idle"
MustWrite == ~already_interrupted
Interrupt(a) ==
  /\ At(a, "interrupt")
  /\ already_interrupted' = TRUE
  /\ Goto(a, IF MustWrite THEN "write" ELSE After(a))
  /\ UNCHANGED <<lock, pipe, finalizer_jobs, delivered, asyncVars, watcherVars,
                 selectVars, ready, uses, untold>>

WriteByte(a) ==
  /\ At(a, "write")
  /\ pipe' = pipe + 1
  /\ Goto(a, After(a))
  /\ UNCHANGED <<lock, already_interrupted, finalizer_jobs, delivered, asyncVars,
                 watcherVars, selectVars, ready, uses, untold>>

(* What a cycle does; started and stopped are the descriptors it begins    *)
(* and ceases to watch.  Clock events that are due have fired.             *)
StoppedAtOnce(stopped) == stopping  \* mutant of ToStop
ToStop(stopped) == stopping \cup stopped
WatchRequests(started, stopped) ==
  /\ started \subseteq (Fds \cap uses) \ (watching \cup stopping)
  /\ stopped \subseteq watching \cap Fds
  /\ watching' = (watching \cup started) \ stopped
  /\ stopping' = ToStop(stopped)
CycleEffects(started, stopped) ==
  /\ WatchRequests(started, stopped)
  /\ jobs' \in BOOLEAN
  /\ next_event' \in {"none", "future"}
  /\ uncaught_exception' \in {uncaught_exception, TRUE}

(* What code does to Async that runs outside a cycle: it adds jobs, adds   *)
(* and aborts clock events, and may send an exception to a monitor.        *)
CodeEffects ==
  /\ jobs' \in {jobs, TRUE}
  /\ next_event' \in {next_event, "none", "future"}
  /\ uncaught_exception' \in {uncaught_exception, TRUE}
NewToTheLoop ==
  {x \in {"jobs", "next_event", "uncaught_exception"} :
     \/ x = "jobs" /\ ~jobs /\ jobs'
     \/ x = "next_event" /\ next_event = "none" /\ next_event' # "none"
     \/ x = "uncaught_exception" /\ ~uncaught_exception /\ uncaught_exception'}
-----------------------------------------------------------------------------
(* Another thread uses Async: run_in_async and the like.                   *)
Lock(th) ==
  /\ At(th, "idle") /\ lock = NoThread
  /\ lock' = th
  /\ Goto(th, "locked")
  /\ UNCHANGED <<interruptVars, finalizer_jobs, delivered, asyncVars, watcherVars,
                 selectVars, ready, uses, untold>>

NoInterrupt(th) == "unlock"  \* mutant of AfterCycle
AfterCycle(th) == "interrupt"
RunACycle(th) ==
  /\ At(th, "locked")
  /\ \E started \in SUBSET Fds, stopped \in SUBSET Fds : CycleEffects(started, stopped)
  /\ Goto(th, AfterCycle(th))
  /\ untold' = {}
  /\ UNCHANGED <<lock, interruptVars, finalizer_jobs, delivered, selectVars, ready, uses>>

(* f said `Do_not_run_a_cycle, or raised: the loop hears of what f did     *)
(* only if f asked to watch a descriptor, or to cease.                     *)
RunNoCycle(th) ==
  /\ At(th, "locked")
  /\ \E started \in SUBSET Fds, stopped \in SUBSET Fds :
       /\ WatchRequests(started, stopped) /\ CodeEffects
       /\ \/ /\ started \cup stopped # {}
             /\ Goto(th, "interrupt") /\ untold' = {}
          \/ /\ started \cup stopped = {}
             /\ Goto(th, "unlock") /\ untold' = untold \cup NewToTheLoop
  /\ UNCHANGED <<lock, interruptVars, finalizer_jobs, delivered, selectVars, ready, uses>>

Unlock(th) ==
  /\ At(th, "unlock")
  /\ lock' = NoThread
  /\ Goto(th, "idle")
  /\ UNCHANGED <<interruptVars, finalizer_jobs, delivered, asyncVars, watcherVars,
                 selectVars, ready, uses, untold>>

(* The garbage collector finalizes an object, or a signal is handled.      *)
Finalize(th, f) ==
  /\ At(th, "idle") /\ f \in uses /\ f \notin finalizer_jobs
  /\ finalizer_jobs' = finalizer_jobs \cup {f}
  /\ Goto(th, "interrupt")
  /\ UNCHANGED <<lock, interruptVars, delivered, asyncVars, watcherVars, selectVars,
                 ready, uses, untold>>

HandleSignal(th, s) ==
  /\ At(th, "idle") /\ s \in uses /\ s \notin delivered
  /\ delivered' = delivered \cup {s}
  /\ Goto(th, "interrupt")
  /\ UNCHANGED <<lock, interruptVars, finalizer_jobs, asyncVars, watcherVars,
                 selectVars, ready, uses, untold>>
-----------------------------------------------------------------------------
(* The loop runs a cycle.  A request to watch a descriptor, or to cease,   *)
(* interrupts the select that follows.  Whether jobs remain is computed    *)
(* before the streams of cycle times are extended: if none did, those that *)
(* there are now, their listeners added.                                   *)
LoopCycle ==
  /\ At(Loop, "cycle")
  /\ \E started \in SUBSET Fds, stopped \in SUBSET Fds :
       /\ CycleEffects(started, stopped)
       /\ Goto(Loop, IF started \cup stopped # {} THEN "interrupt" ELSE "watch")
  /\ maybe_jobs_remain' \in {jobs', FALSE}
  /\ untold' = IF jobs' /\ ~maybe_jobs_remain' THEN {"jobs"} ELSE {}
  /\ UNCHANGED <<lock, interruptVars, finalizer_jobs, delivered, timeout, watched,
                 found, ready, uses>>

(* An exception that was not handled ends the loop; else it watches the    *)
(* interruptor, if it is not already.                                      *)
WatchInterruptor ==
  /\ At(Loop, "watch")
  /\ \/ uncaught_exception /\ Goto(Loop, "stopped") /\ lock' = NoThread
          /\ UNCHANGED watching
     \/ ~uncaught_exception /\ Goto(Loop, "pre_check")
          /\ watching' = watching \cup {Interruptor}
          /\ UNCHANGED lock
  /\ UNCHANGED <<interruptVars, finalizer_jobs, delivered, asyncVars, stopping,
                 selectVars, ready, uses, untold>>

TimeoutOfJobs ==  \* mutant of ComputeTimeout
  IF maybe_jobs_remain THEN "Zero" ELSE "Forever"
ComputeTimeout ==
  CASE maybe_jobs_remain \/ next_event = "due" -> "Zero"
    [] ~maybe_jobs_remain /\ next_event = "future" -> "Wait_for"
    [] ~maybe_jobs_remain /\ next_event = "none" -> "Forever"
PreCheck ==
  /\ At(Loop, "pre_check")
  /\ timeout' = ComputeTimeout
  /\ watched' = watching
  /\ lock' = NoThread
  /\ Goto(Loop, "selecting")
  /\ UNCHANGED <<interruptVars, finalizer_jobs, delivered, asyncVars, watcherVars,
                 maybe_jobs_remain, found, ready, uses, untold>>

(* select finds descriptors ready, or times out.  A signal may interrupt   *)
(* it (EINTR) while it sleeps, and nobody sees to it that one does.        *)
ReadyNow == {f \in watched : f \in ready \/ (f = Interruptor /\ pipe > 0)}
SelectEnds(outcome) ==
  /\ At(Loop, "selecting") /\ Goto(Loop, "returned")
  /\ found' = outcome
  /\ UNCHANGED <<lock, interruptVars, finalizer_jobs, delivered, asyncVars,
                 watcherVars, maybe_jobs_remain, timeout, watched, ready, uses, untold>>
SelectReturns ==
  /\ ReadyNow # {} \/ timeout # "Forever"
  /\ SelectEnds([retry |-> FALSE, ready |-> ReadyNow])
SelectInterrupted ==
  /\ ReadyNow = {} /\ timeout # "Zero"
  /\ SelectEnds([retry |-> TRUE, ready |-> {}])

LoopLock ==
  /\ At(Loop, "returned") /\ lock = NoThread
  /\ lock' = Loop
  /\ Goto(Loop, "post_check")
  /\ UNCHANGED <<interruptVars, finalizer_jobs, delivered, asyncVars, watcherVars,
                 selectVars, ready, uses, untold>>

(* post_check: those of the descriptors found that are still watched are   *)
(* reported, and requests to stop are done.                                *)
SelectForgotten ==  \* these are locals of a turn of the loop
  maybe_jobs_remain' = FALSE /\ timeout' = "Zero" /\ watched' = {} /\ found' = Nothing
PostCheck ==
  /\ At(Loop, "post_check")
  /\ \/ /\ found.retry
        /\ Goto(Loop, "pre_check")
        /\ UNCHANGED <<watcherVars, selectVars, untold>>
     \/ /\ ~found.retry
        /\ watching' = watching \ found.ready
        /\ stopping' = {}
        /\ Goto(Loop, "clear")
        /\ SelectForgotten
  /\ UNCHANGED <<lock, interruptVars, finalizer_jobs, delivered, asyncVars, ready, uses, untold>>

(* Interruptor.clear: read until nothing is left, then reset the flag.     *)
Clear ==
  /\ At(Loop, "clear")
  /\ pipe' = 0
  /\ Goto(Loop, IF pipe = 0 THEN "cleared" ELSE "clear")
  /\ UNCHANGED <<lock, already_interrupted, finalizer_jobs, delivered, asyncVars,
                 watcherVars, selectVars, ready, uses, untold>>

FlagCleared == FALSE
ResetFlag ==
  /\ At(Loop, "cleared")
  /\ already_interrupted' = FlagCleared
  /\ Goto(Loop, "finalizers")
  /\ UNCHANGED <<lock, pipe, finalizer_jobs, delivered, asyncVars, watcherVars,
                 selectVars, ready, uses, untold>>

HandleFinalizers ==
  /\ At(Loop, "finalizers")
  /\ jobs' = (jobs \/ finalizer_jobs # {})
  /\ finalizer_jobs' = {}
  /\ Goto(Loop, "signals")
  /\ UNCHANGED <<lock, interruptVars, delivered, next_event, uncaught_exception,
                 watcherVars, selectVars, ready, uses, untold>>

(* Handlers are run, then the ivars of the descriptors found are filled,   *)
(* which adds jobs.                                                        *)
HandleDelivered ==
  /\ At(Loop, "signals")
  /\ delivered' = {}
  /\ CodeEffects
  /\ Goto(Loop, "cycle")
  /\ UNCHANGED <<lock, interruptVars, finalizer_jobs, watcherVars, selectVars, ready,
                 uses, untold>>
-----------------------------------------------------------------------------
(* The world: time passes, descriptors become ready and cease to be.  The  *)
(* exception that stops the loop ends the program.                         *)
Tick ==
  /\ ~At(Loop, "stopped")
  /\ next_event = "future" /\ next_event' = "due"
  /\ UNCHANGED <<lock, pc, interruptVars, finalizer_jobs, delivered, jobs,
                 uncaught_exception, watcherVars, selectVars, ready, uses, untold>>

World ==
  /\ ~At(Loop, "stopped")
  /\ \E f \in Fds \cap uses : ready' = (ready \ {f}) \cup ({f} \ ready)
  /\ UNCHANGED <<lock, pc, interruptVars, finalizer_jobs, delivered, asyncVars,
                 watcherVars, selectVars, uses, untold>>

ThreadStep(th) ==
  /\ ~At(Loop, "stopped")
  /\ \/ Lock(th) \/ RunACycle(th) \/ RunNoCycle(th) \/ Unlock(th)
     \/ \E f \in Finalizers : Finalize(th, f)
     \/ \E s \in Signals : HandleSignal(th, s)
     \/ Interrupt(th) \/ WriteByte(th)

LoopStep ==
  \/ LoopCycle \/ Interrupt(Loop) \/ WriteByte(Loop) \/ WatchInterruptor \/ PreCheck
  \/ SelectReturns \/ LoopLock \/ PostCheck \/ Clear \/ ResetFlag \/ HandleFinalizers
  \/ HandleDelivered

Next ==
  (\E th \in Threads : ThreadStep(th)) \/ LoopStep \/ SelectInterrupted \/ Tick \/ World

Spec == Init /\ [][Next]_vars

(* Threads run, a thread gives up the lock and then the loop gets it in    *)
(* the end, and time passes.  A select that nothing ends sleeps for ever:  *)
(* no signal need interrupt it.                                            *)
FairSpec ==
  /\ Spec
  /\ \A th \in Threads : WF_vars(~At(th, "idle") /\ ThreadStep(th))
  /\ WF_vars(LoopStep) /\ SF_vars(LoopLock)
  /\ WF_vars(Tick)
-----------------------------------------------------------------------------
TypeOK ==
  /\ lock \in Actors \cup {NoThread}
  /\ pc \in [Actors -> LoopLabels \cup ThreadLabels]
  /\ \A a \in Actors : pc[a] \in IF a = Loop THEN LoopLabels ELSE ThreadLabels
  /\ already_interrupted \in BOOLEAN /\ pipe \in Nat
  /\ finalizer_jobs \subseteq Finalizers /\ delivered \subseteq Signals
  /\ jobs \in BOOLEAN /\ next_event \in {"none", "future", "due"}
  /\ uncaught_exception \in BOOLEAN
  /\ watching \subseteq Fds \cup {Interruptor} /\ stopping \subseteq Fds
  /\ maybe_jobs_remain \in BOOLEAN /\ timeout \in {"Zero", "Wait_for", "Forever"}
  /\ watched \subseteq Fds \cup {Interruptor}
  /\ found \in [retry : BOOLEAN, ready : SUBSET (Fds \cup {Interruptor})]
  /\ ready \subseteq Fds /\ uses \in Programs
  /\ untold \subseteq {"jobs", "next_event", "uncaught_exception"}

(* The flag never hides an interrupt (interruptor.ml:13): if it is set,    *)
(* the pipe is nonempty or about to be, unless the loop is clearing both.  *)
AboutToWrite == \E a \in Actors : At(a, "write")
FlagTruth ==
  already_interrupted => pipe > 0 \/ AboutToWrite \/ pc[Loop] \in {"clear", "cleared"}

(* Interrupts are not ignored (raw_scheduler.ml:357): while the loop is in *)
(* select, what it must see to is in select's arguments, or select will    *)
(* find the interruptor ready, now or when a thread has done its interrupt.*)
(* Of what came to be untold, the loop need not know.                      *)
Told(what) == what \notin untold
Roused == pipe > 0 \/ \E a \in Actors : pc[a] \in {"interrupt", "write"}
NoMissedInterrupt ==
  At(Loop, "selecting") =>
    /\ Interruptor \in watched
    /\ \/ Roused
       \/ /\ finalizer_jobs = {} /\ delivered = {}
          /\ uncaught_exception => ~Told("uncaught_exception")
          /\ jobs /\ Told("jobs") => timeout = "Zero"
          /\ next_event # "none" /\ Told("next_event") => timeout # "Forever"
          /\ watching \subseteq watched /\ stopping = {}

(* post_check finds every descriptor that select returns in its table      *)
(* (file_descr_watcher.ml:149): nothing is removed while select runs.      *)
KnowsWhatItFound ==
  /\ pc[Loop] \in {"selecting", "returned", "post_check"} =>
       watched \subseteq watching \cup stopping
  /\ pc[Loop] \in {"returned", "post_check"} => found.ready \subseteq watched
  /\ watching \cap stopping = {}

(* The interruptor's pipe never fills, so that no write is dropped: it     *)
(* holds at most a byte of each thread, and one.                           *)
PipeStaysShort == pipe <= Cardinality(Actors) + 1

(* The interruptor and the watcher keep their word to each other and to    *)
(* the loop, which gave up its lock to wait for both.                      *)
LoopInvariant == FlagTruth /\ KnowsWhatItFound /\ PipeStaysShort

(* Nothing that the loop was told of waits for ever unless the loop ends:  *)
(* finalizers and signal handlers are run, jobs get their cycle, clock     *)
(* events fire, a descriptor that stays ready is reported, and an          *)
(* exception ends the loop.  The jobs that the streams of cycle times add  *)
(* after the loop's cycle, and what a thread did that ran no cycle, may    *)
(* wait as long as the loop sleeps.                                        *)
Over == At(Loop, "stopped")
EverythingIsSeenTo ==
  /\ \A f \in Finalizers : f \in finalizer_jobs ~> f \notin finalizer_jobs \/ Over
  /\ \A s \in Signals : s \in delivered ~> s \notin delivered \/ Over
  /\ jobs /\ Told("jobs") ~> At(Loop, "cycle") \/ ~jobs \/ Over
  /\ next_event = "due" /\ Told("next_event") ~> next_event # "due" \/ Over
  /\ \A f \in Fds : ~<>[](f \in watching /\ f \in ready /\ ~Over)
  /\ uncaught_exception /\ Told("uncaught_exception") ~> Over

(* Async runs handlers until there are no more of them, and only when it   *)
(* is out of handlers does it block until the outside world schedules more *)
(* (scheduler.mli:13-16).  Not so: the jobs of those who listen to the     *)
(* streams of cycle times come after the loop has asked whether any remain.*)
BlocksWhenOutOfHandlers ==
  At(Loop, "selecting") /\ timeout = "Forever" /\ ~Roused => ~jobs
=============================================================================
