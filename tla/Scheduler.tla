------------------------------ MODULE Scheduler ------------------------------
(***************************************************************************)
(* Async's run_cycle (async/core/lib/scheduler.ml) on its job queues.      *)
(*                                                                         *)
(* A job is known by the function it runs, so that the same function may   *)
(* be scheduled again once it has started: behaviours are endless although *)
(* Ids is finite.  What a job does is up to the program: it adds jobs,     *)
(* changes the number of jobs per cycle, or raises an exception no monitor *)
(* handles.                                                                *)
(*                                                                         *)
(* Cycles are run by the select loop, and by threads that use Async.  The  *)
(* loop comes back on its own only when it is awake: run_cycle told it     *)
(* that jobs remain, or its interruptor was written to.  Else it sleeps    *)
(* until the outside world wakes it, which need never happen.              *)
(***************************************************************************)
EXTENDS Jobs, Selection

CONSTANTS
  NormalJobs, LowJobs,  \* the functions scheduled at each priority
  Quotas,               \* arguments of set_max_num_jobs_per_priority_per_cycle
  MaxAdds               \* bound: how many jobs are added in one step

ASSUME SchedulerAssumption ==
  /\ Quotas \subseteq Nat \ {0} /\ Quotas # {}
  /\ NormalJobs \cap LowJobs = {}
  /\ MaxAdds \in Nat

VARIABLES
  jobs,                  \* the queue of each priority
  jobs_left_this_cycle,  \* for each priority
  max_num_jobs_per_priority_per_cycle,
  uncaught_exception,
  batch,                 \* the jobs do_batch has yet to run
  phase,                 \* "between" cycles, or within a "cycle"
  result,                \* of the last cycle
  awake,                 \* whether the select loop will run another one by itself
  pending,  \* history: the jobs added and not yet started, oldest first
  late,     \* history: those among them that were added while it was not awake
  quota,    \* history: max_num_jobs_per_priority_per_cycle when the cycle began
  ran       \* history: how many jobs of each priority the cycle has run

queueVars == <<jobs, jobs_left_this_cycle>>
schedulerVars == <<max_num_jobs_per_priority_per_cycle, uncaught_exception, batch,
                   phase, result, awake>>
history == <<pending, late, quota, ran>>
vars == <<queueVars, schedulerVars, history>>
-----------------------------------------------------------------------------
Ids == NormalJobs \cup LowJobs
JobsOf(p) == IF p = "Normal" THEN NormalJobs ELSE LowJobs
PriorityOf(j) == IF j \in NormalJobs THEN "Normal" ELSE "Low"

(* What a step may add to each queue when the jobs in busy are queued or   *)
(* about to run.                                                           *)
Orders(js) == {s \in UNION {[1..n -> js] : n \in 0..MaxAdds} : NoRepeats(s)}
Additions(busy) ==
  {s \in [Priorities -> Orders(NormalJobs \ busy) \cup Orders(LowJobs \ busy)] :
     \A p \in Priorities : s[p] \in Orders(JobsOf(p) \ busy)}
Nothing == [p \in Priorities |-> << >>]
All(s) == s["Normal"] \o s["Low"]

(* add puts a job at the end of its priority's queue.                      *)
AddedInFront(s) == [p \in Priorities |-> s[p] \o jobs[p]]  \* mutant of Added
Added(s) == [p \in Priorities |-> jobs[p] \o s[p]]

(* The jobs that have been added and have not started.                     *)
Everywhere == jobs["Normal"] \o jobs["Low"] \o batch
-----------------------------------------------------------------------------
(* Scheduler.go runs a cycle first.                                        *)
Init ==
  /\ jobs = [p \in Priorities |-> << >>]
  /\ jobs_left_this_cycle = [p \in Priorities |-> 0]
  /\ max_num_jobs_per_priority_per_cycle \in Quotas
  /\ uncaught_exception = FALSE
  /\ batch = << >> /\ phase = "between" /\ result = "No_jobs_remain"
  /\ awake = TRUE
  /\ pending = << >> /\ late = {}
  /\ quota = 0 /\ ran = [p \in Priorities |-> 0]

(* Code that holds the scheduler lock between two cycles adds jobs: what   *)
(* the select loop does once it is back, or a thread, which interrupts the *)
(* loop or, when it runs no cycle (thread_safe.ml:29), may not.            *)
AddOutside(s, interrupts) ==
  /\ phase = "between" /\ s # Nothing
  /\ jobs' = Added(s)
  /\ awake' = (awake \/ interrupts)
  /\ pending' = pending \o All(s)
  /\ late' = IF awake' THEN {} ELSE late \cup Elements(All(s))
  /\ UNCHANGED <<jobs_left_this_cycle, max_num_jobs_per_priority_per_cycle,
                 uncaught_exception, batch, phase, result, quota, ran>>

(* The start of run_cycle.  The clock events that are due add the jobs s.  *)
ReplenishedNormal(m) ==  \* mutant of Replenished
  [jobs_left_this_cycle EXCEPT !["Normal"] = m]
Replenished(m) == [p \in Priorities |-> m]
StartCycle(s) ==
  /\ phase = "between" /\ phase' = "cycle"
  /\ jobs' = Added(s)
  /\ jobs_left_this_cycle' = Replenished(max_num_jobs_per_priority_per_cycle)
  /\ pending' = pending \o All(s) /\ late' = {}
  /\ quota' = max_num_jobs_per_priority_per_cycle
  /\ ran' = [p \in Priorities |-> 0]
  /\ UNCHANGED <<max_num_jobs_per_priority_per_cycle, uncaught_exception, batch, result,
                 awake>>

(* do_batch is over when its list is empty or when an exception was not    *)
(* caught: then the rest of the batch is forgotten.                        *)
BatchIsOver == batch = << >> \/ uncaught_exception
Source == GetsFrom(jobs, jobs_left_this_cycle)
HasMore == Amount(jobs[Source], jobs_left_this_cycle[Source]) > 0

GetBatch ==
  /\ phase = "cycle" /\ BatchIsOver /\ HasMore
  /\ LET p == Source IN
       /\ batch' = Batch(jobs[p], jobs_left_this_cycle[p])
       /\ jobs' = [jobs EXCEPT ![p] = Rest(@, jobs_left_this_cycle[p])]
       /\ jobs_left_this_cycle' =
            [jobs_left_this_cycle EXCEPT ![p] = @ - Amount(jobs[p], @)]
  /\ pending' = Without(pending, Elements(batch))
  /\ UNCHANGED <<max_num_jobs_per_priority_per_cycle, uncaught_exception, phase, result,
                 awake, late, quota, ran>>

(* do_batch runs a job, which adds the jobs s and may change the number of *)
(* jobs per cycle to m; if it raises, send_exn finds no monitor.           *)
RunJob(s, m, raises) ==
  /\ phase = "cycle" /\ batch # << >> /\ ~uncaught_exception
  /\ LET j == Head(batch) IN
       /\ jobs' = Added(s)
       /\ pending' = Without(pending, {j}) \o All(s)
       /\ ran' = [ran EXCEPT ![PriorityOf(j)] = @ + 1]
  /\ batch' = Tail(batch)
  /\ max_num_jobs_per_priority_per_cycle' = m
  /\ uncaught_exception' = raises
  /\ UNCHANGED <<jobs_left_this_cycle, phase, result, awake, late, quota>>

(* The end of run_cycle: whether jobs remain is computed before the        *)
(* streams of cycle times are extended, which adds the jobs s.  The loop   *)
(* will not sleep if jobs remain, or if it was interrupted: a thread that  *)
(* ran the cycle does so now, and code in the cycle may have.              *)
Remains(queues) == IF IsEmpty(queues) THEN "No_jobs_remain" ELSE "Jobs_remain"
EndCycle(s, interrupts) ==
  /\ phase = "cycle" /\ BatchIsOver /\ ~HasMore
  /\ phase' = "between" /\ batch' = << >>
  /\ result' = Remains(jobs)
  /\ awake' = (result' = "Jobs_remain" \/ interrupts)
  /\ jobs' = Added(s)
  /\ pending' = Without(pending, Elements(batch)) \o All(s)
  /\ late' = IF awake' THEN {} ELSE Elements(All(s))
  /\ UNCHANGED <<jobs_left_this_cycle, max_num_jobs_per_priority_per_cycle,
                 uncaught_exception, quota, ran>>

(* What goes on in a cycle.                                                *)
InCycle ==
  \/ \E s \in Additions(Elements(Everywhere)), interrupts \in BOOLEAN :
       EndCycle(s, interrupts)
  \/ GetBatch
  \/ /\ batch # << >>
     /\ \E s \in Additions(Elements(Everywhere) \ {Head(batch)}), m \in Quotas,
           raises \in BOOLEAN : RunJob(s, m, raises)

RunCycle == (\E s \in Additions(Elements(Everywhere)) : StartCycle(s)) \/ InCycle

Next ==
  \/ \E s \in Additions(Elements(Everywhere)), interrupts \in BOOLEAN :
       AddOutside(s, interrupts)
  \/ RunCycle

Spec == Init /\ [][Next]_vars

(* A job always returns and a cycle comes to its end.  The select loop     *)
(* runs another cycle when it is awake; nobody need wake it when it is not.*)
FairSpec ==
  /\ Spec /\ WF_vars(InCycle)
  /\ WF_vars(awake /\ \E s \in Additions(Elements(Everywhere)) : StartCycle(s))
-----------------------------------------------------------------------------
(* Every variable has its type, jobs are in the queue of their priority,   *)
(* and jobs_left_this_cycle is never negative (Jobs_at_priority.invariant). *)
TypeOK ==
  /\ jobs \in [Priorities -> Seq(Ids)] /\ \A p \in Priorities : jobs[p] \in Seq(JobsOf(p))
  /\ jobs_left_this_cycle \in [Priorities -> Nat]
  /\ max_num_jobs_per_priority_per_cycle \in Quotas
  /\ uncaught_exception \in BOOLEAN
  /\ batch \in Seq(Ids)
  /\ phase \in {"between", "cycle"} /\ result \in {"No_jobs_remain", "Jobs_remain"}
  /\ awake \in BOOLEAN
  /\ quota \in Nat /\ ran \in [Priorities -> Nat]

(* A cycle runs no more jobs of a priority than were allowed when it       *)
(* began, although jobs keep adding jobs: I/O is never starved.            *)
QuotaKept == phase = "cycle" => \A p \in Priorities : ran[p] <= quota

(* Every job that was added and has not started is in exactly one place,   *)
(* a queue or the batch, and there is nothing else there.                 *)
JobsAccounted ==
  ~uncaught_exception =>
    /\ Len(Everywhere) = Len(pending) /\ NoRepeats(Everywhere)
    /\ Elements(Everywhere) = Elements(pending)

(* Within a priority, a job is overtaken only by jobs of its own batch.    *)
Before(j, k) == \E i, n \in DOMAIN pending : i < n /\ pending[i] = j /\ pending[n] = k
OvertakenInBatchOnly ==
  [][\A j, k \in Elements(pending) :
       Before(j, k) /\ PriorityOf(j) = PriorityOf(k)
         /\ batch # << >> /\ k = Head(batch) /\ batch' = Tail(batch) =>
       j \in Elements(batch)]_vars

(* The select loop may sleep when no jobs remain and nobody interrupted    *)
(* it: the only jobs there can be were added after the cycle looked (by    *)
(* the streams of cycle times), or since, by code that did not say so.     *)
SleepsSoundly ==
  phase = "between" /\ ~awake /\ ~uncaught_exception => Elements(pending) \subseteq late

(* What is to be run is where run_cycle and the select loop look for it.   *)
JobsInvariant == JobsAccounted /\ SleepsSoundly

(* Every job added while the loop is awake is eventually run, whatever     *)
(* other jobs of either priority do, unless an exception is not caught.  A *)
(* late job is run too, unless the loop sleeps for ever: it needs one      *)
(* cycle, whoever runs it.                                                 *)
Runs(j) == batch # << >> /\ j = Head(batch)
NoStarvation ==
  \A j \in Ids :
    /\ j \in Elements(pending) \ late ~> uncaught_exception \/ Runs(j)
    /\ []<>(phase = "cycle") =>
         (j \in Elements(pending) ~> uncaught_exception \/ Runs(j))
=============================================================================
