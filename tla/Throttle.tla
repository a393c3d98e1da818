------------------------------ MODULE Throttle ------------------------------
(***************************************************************************)
(* Async's throttle (async/core/lib/throttle.ml): max_concurrent_jobs      *)
(* runners read jobs from a pipe.  A job starts three hops through Async's *)
(* job queue after a runner was given it: the runner's callback (got), the *)
(* job's own callback (go), and the job's work, which Monitor.try_with     *)
(* schedules (work).  These are kept, for they decide in which order jobs  *)
(* start; the cycle's quota is taken to be large enough for every batch.   *)
(* The hops between the end of the work and its runner's next step, which  *)
(* other jobs may delay, are one action.                                   *)
(*                                                                         *)
(* A user job may be enqueued again when it has ended.  A job may raise.   *)
(***************************************************************************)
EXTENDS Jobs, Selection

CONSTANTS
  UserJobs,       \* the jobs the program enqueues
  Priors,         \* the calls of prior_jobs_done
  MaxConcurrent   \* bound: max_concurrent_jobs of the throttles considered

ASSUME ThrottleAssumption ==
  /\ MaxConcurrent \in Nat \ {0}
  /\ \A p \in Priors, i \in 1..MaxConcurrent :
       <<p, i>> \notin UserJobs  \* prior_jobs_done makes jobs of its own

VARIABLES
  max_concurrent_jobs, continue_on_error,
  buffer,    \* the jobs in the pipe
  closed,    \* whether the pipe is closed: the throttle is dead
  readers,   \* the runners that wait in Pipe.read, oldest first
  serves,    \* the jobs each runner is running: one or none
  status,    \* of each job
  queue, batch,         \* Async's Normal jobs: added, and about to run
  dummy_jobs_running,   \* of each call of prior_jobs_done
  prior,                \* whether the call was made and has been answered
  pending,   \* history: the jobs enqueued, neither started nor aborted
  before     \* history: the jobs enqueued before prior_jobs_done that have not ended

throttleVars == <<max_concurrent_jobs, continue_on_error>>
pipeVars == <<buffer, closed, readers>>
priorVars == <<dummy_jobs_running, prior>>
history == <<pending, before>>
vars == <<throttleVars, pipeVars, serves, status, queue, batch, priorVars, history>>
-----------------------------------------------------------------------------
Runners == 1..max_concurrent_jobs
DummyButOne(p) == [i \in 1..(max_concurrent_jobs - 1) |-> <<p, i>>]  \* mutant of Dummy
Dummy(p) == [i \in Runners |-> <<p, i>>]
Dummies(p) == {<<p, i>> : i \in 1..MaxConcurrent}
AllJobs == UserJobs \cup UNION {Dummies(p) : p \in Priors}

Statuses == {"new", "queued", "taken", "started", "running", "returned", "raised",
             "aborted"}
Idle == {j \in AllJobs : status[j] \in {"new", "aborted"}}
Ended == {j \in AllJobs : status[j] \in {"returned", "raised"}}
WithStatus(js, s) == [j \in AllJobs |-> IF j \in js THEN s ELSE status[j]]

Init ==
  /\ max_concurrent_jobs \in 1..MaxConcurrent /\ continue_on_error \in BOOLEAN
  /\ buffer = << >> /\ closed = FALSE
  /\ readers = [r \in 1..max_concurrent_jobs |-> r]
  /\ serves = [r \in 1..MaxConcurrent |-> {}]
  /\ status = [j \in AllJobs |-> "new"]
  /\ queue = << >> /\ batch = << >>
  /\ dummy_jobs_running = [p \in Priors |-> 0]
  /\ prior = [p \in Priors |-> "none"]
  /\ pending = << >> /\ before = [p \in Priors |-> {}]

(* Pipe.write hands jobs to the waiting runners, if there are any.         *)
HandOver(js) == IF Len(js) < Len(readers) THEN Len(js) ELSE Len(readers)
EnqueuedInFront(js) == js \o buffer  \* mutant of Enqueued
Enqueued(js) == buffer \o js
EnqueueInOrder(js) ==
  LET n == HandOver(js)
      taken == SubSeq(js, 1, n)
      rest == SubSeq(js, n + 1, Len(js))
      At(r) == CHOOSE i \in 1..n : readers[i] = r
  IN /\ ~closed /\ Elements(js) \subseteq Idle
     /\ buffer' = Enqueued(rest)
     /\ readers' = SubSeq(readers, n + 1, Len(readers))
     /\ serves' = [r \in DOMAIN serves |->
          IF r \in Elements(SubSeq(readers, 1, n)) THEN {taken[At(r)]} ELSE serves[r]]
     /\ status' = [j \in AllJobs |-> IF j \in Elements(taken) THEN "taken"
                                     ELSE IF j \in Elements(rest) THEN "queued"
                                     ELSE status[j]]
     /\ queue' = queue \o [i \in 1..n |-> [do |-> "got", job |-> taken[i]]]
     /\ pending' = pending \o js
     /\ UNCHANGED <<throttleVars, closed, batch>>

Enqueue(j) ==
  EnqueueInOrder(<<j>>) /\ UNCHANGED <<priorVars, before>>

(* prior_jobs_done enqueues as many dummy jobs as there are runners; they  *)
(* wait until the last of them has started.                                *)
AllRunningSoon(n) == n >= max_concurrent_jobs - 1  \* mutant of AllRunning
AllRunning(n) == n = max_concurrent_jobs
FreshCount(p) == 0
PriorJobsDone(p) ==
  /\ EnqueueInOrder(Dummy(p))
  /\ prior' = [prior EXCEPT ![p] = "asked"]
  /\ dummy_jobs_running' = [dummy_jobs_running EXCEPT ![p] = FreshCount(p)]
  /\ before' = [before EXCEPT ![p] = UserJobs \ (Idle \cup Ended)]
-----------------------------------------------------------------------------
(* The next job of Async's queue, of the current batch or of a new one.    *)
NextHop == Head(IF batch = << >> THEN Batch(queue, Len(queue)) ELSE batch)
TakeHop(hop, added) ==
  /\ queue \o batch # << >> /\ NextHop = hop
  /\ batch' = Tail(IF batch = << >> THEN Batch(queue, Len(queue)) ELSE batch)
  /\ queue' = (IF batch = << >> THEN << >> ELSE queue) \o added

(* The runner fills start ...                                              *)
Got(j) ==
  /\ TakeHop([do |-> "got", job |-> j], <<[do |-> "go", job |-> j]>>)
  /\ status' = [status EXCEPT ![j] = "started"]
  /\ UNCHANGED <<throttleVars, pipeVars, serves, priorVars, history>>

(* ... whose callback calls Monitor.try_with ...                           *)
Go(j) ==
  /\ TakeHop([do |-> "go", job |-> j], <<[do |-> "work", job |-> j]>>)
  /\ UNCHANGED <<throttleVars, pipeVars, serves, status, priorVars, history>>

(* ... which schedules the work.  The last dummy to start releases all.    *)
Work(j) ==
  /\ TakeHop([do |-> "work", job |-> j], << >>)
  /\ status' = [status EXCEPT ![j] = "running"]
  /\ pending' = Without(pending, {j})
  /\ IF j \in UserJobs THEN UNCHANGED priorVars
     ELSE LET p == j[1]  n == dummy_jobs_running[p] + 1
          IN /\ dummy_jobs_running' = [dummy_jobs_running EXCEPT ![p] = n]
             /\ prior' = [prior EXCEPT ![p] = IF AllRunning(n) THEN "answered" ELSE @]
  /\ UNCHANGED <<throttleVars, pipeVars, serves, before>>

(* A user job ends as it likes, a dummy when all of its call have started. *)
WorkEnds(j) ==
  /\ status[j] = "running"
  /\ \/ j \in UserJobs /\ \E s \in {"returned", "raised"} :
                            status' = [status EXCEPT ![j] = s]
     \/ j \notin UserJobs /\ prior[j[1]] = "answered"
          /\ status' = [status EXCEPT ![j] = "returned"]
  /\ before' = [p \in Priors |-> before[p] \ {j}]
  /\ UNCHANGED <<throttleVars, pipeVars, serves, queue, batch, priorVars, pending>>
-----------------------------------------------------------------------------
(* A runner whose job has ended kills the throttle ...                     *)
AbortBuffer == buffer' = << >> /\ pending' = Without(pending, Elements(buffer))
Kill(j) ==
  /\ AbortBuffer
  /\ status' = [WithStatus(Elements(buffer) \ Elements(buffer'), "aborted")
                  EXCEPT ![j] = "new"]
  /\ before' = [p \in Priors |-> before[p] \ Elements(buffer)]
  /\ closed' = TRUE
  /\ readers' = << >>
  /\ UNCHANGED queue

(* ... or reads the next one ...                                           *)
First(s) == Head(s)
TakeNext(r, j) ==
  /\ buffer # << >>
  /\ buffer' = Tail(buffer)
  /\ status' = [status EXCEPT ![j] = "new", ![First(buffer)] = "taken"]
  /\ queue' = Append(queue, [do |-> "got", job |-> First(buffer)])
  /\ UNCHANGED <<closed, readers, history>>

(* ... or waits for one, unless the pipe is closed.                        *)
WaitForNext(r, j) ==
  /\ buffer = << >>
  /\ readers' = IF closed THEN readers ELSE Append(readers, r)
  /\ status' = [status EXCEPT ![j] = "new"]
  /\ UNCHANGED <<buffer, closed, queue, history>>

Stops(j) == status[j] = "raised" /\ ~continue_on_error
OneJobRunner(r) ==
  \E j \in serves[r] :
    /\ j \in Ended
    /\ \/ Stops(j) /\ Kill(j)
       \/ ~Stops(j) /\ (TakeNext(r, j) \/ WaitForNext(r, j))
    /\ serves' = [serves EXCEPT ![r] = IF Stops(j) \/ buffer = << >>
                                       THEN {} ELSE {First(buffer)}]
    /\ UNCHANGED <<throttleVars, batch, priorVars>>
-----------------------------------------------------------------------------
Next ==
  \/ \E j \in UserJobs : Enqueue(j)
  \/ \E p \in Priors : PriorJobsDone(p)
  \/ \E j \in AllJobs : Got(j) \/ Go(j) \/ Work(j) \/ WorkEnds(j)
  \/ \E r \in Runners : OneJobRunner(r)

Spec == Init /\ [][Next]_vars

(* Async runs its jobs, and the program's jobs end.                        *)
FairSpec ==
  /\ Spec
  /\ \A j \in AllJobs : WF_vars(Got(j) \/ Go(j) \/ Work(j)) /\ WF_vars(WorkEnds(j))
  /\ \A r \in 1..MaxConcurrent : WF_vars(r \in Runners /\ OneJobRunner(r))
-----------------------------------------------------------------------------
TypeOK ==
  /\ max_concurrent_jobs \in 1..MaxConcurrent /\ continue_on_error \in BOOLEAN
  /\ buffer \in Seq(AllJobs) /\ closed \in BOOLEAN /\ readers \in Seq(Runners)
  /\ serves \in [1..MaxConcurrent -> SUBSET AllJobs]
  /\ status \in [AllJobs -> Statuses]
  /\ queue \in Seq([do : {"got", "go", "work"}, job : AllJobs])
  /\ batch \in Seq([do : {"got", "go", "work"}, job : AllJobs])
  /\ dummy_jobs_running \in [Priors -> 0..MaxConcurrent]
  /\ prior \in [Priors -> {"none", "asked", "answered"}]
  /\ pending \in Seq(AllJobs) /\ before \in [Priors -> SUBSET UserJobs]

(* No more than max_concurrent_jobs jobs run at a time (throttle.mli:3),   *)
(* and none that still has to start is out of the runners' hands: it is in *)
(* the pipe, or one runner serves it and one hop will take it further.     *)
Hops(j) == {i \in DOMAIN (batch \o queue) : (batch \o queue)[i].job = j}
Servers(j) == {r \in Runners : j \in serves[r]}
InRunnersHands ==
  /\ Cardinality({j \in AllJobs : status[j] = "running"}) <= max_concurrent_jobs
  /\ \A j \in AllJobs :
       /\ status[j] = "queued" <=> j \in Elements(buffer)
       /\ status[j] \in {"taken", "started"} <=> Cardinality(Hops(j)) = 1
       /\ status[j] \in {"taken", "started", "running", "returned", "raised"}
            <=> Cardinality(Servers(j)) = 1

(* What prior_jobs_done promises (throttle.mli:45): when it is determined, *)
(* the jobs enqueued before the call have ended.                           *)
PriorJobsEnded == \A p \in Priors : prior[p] = "answered" => before[p] = {}

(* The throttle's own state, where each of its jobs is, and that an answer *)
(* to prior_jobs_done is true.                                             *)
ThrottleInvariant == TypeOK /\ InRunnersHands /\ PriorJobsEnded

(* Jobs are guaranteed to be started in the order they are enqueued        *)
(* (throttle.mli:38) ...                                                   *)
Starts(j) == status[j] = "started" /\ status'[j] = "running"
StartsInOrder == [][\A j \in AllJobs : Starts(j) => j = Head(pending)]_vars

(* ... which holds for sequencers; with more runners, a job may start      *)
(* before the ones that other runners have been given, but never before    *)
(* one that is still in the pipe.                                          *)
OvertakesOnlyTakenJobs ==
  [][\A j \in AllJobs : Starts(j) =>
       /\ max_concurrent_jobs = 1 => j = Head(pending)
       /\ \A i, k \in DOMAIN pending :
            pending[i] = j /\ k < i => status[pending[k]] # "queued"]_vars

(* Whoever asks the throttle for something is answered: every job that is  *)
(* enqueued runs, or is aborted when the throttle dies, and a call of      *)
(* prior_jobs_done is determined unless the throttle dies meanwhile.       *)
EveryJobAnswered ==
  /\ \A j \in AllJobs :
       status[j] \in {"queued", "taken"} ~> status[j] \in {"running", "aborted"}
  /\ \A p \in Priors : prior[p] = "asked" ~> prior[p] = "answered" \/ closed
=============================================================================
