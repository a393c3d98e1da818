----------------------------- MODULE ThreadPool -----------------------------
(***************************************************************************)
(* The threads in which Async runs functions that may block: In_thread.run *)
(* and Helper_thread (in_thread.ml), create_thread and the block groups'   *)
(* reservations (raw_scheduler.ml), each group's queue of work             *)
(* (block_group.ml).                                                       *)
(*                                                                         *)
(* Everything but popping a queue, running a function and a thread's last  *)
(* words (dead) happens holding the Async lock, and is one step.  A thread *)
(* of the pool has no state of its own between two works, so only their    *)
(* number is kept.  A work may be run again once it has finished.          *)
(***************************************************************************)
EXTENDS Selection

CONSTANTS
  Groups, Works, Helpers,
  None,                      \* no block group
  MaxLive,                   \* max_num_live_threads
  MinReserved, MaxReserved   \* of each group

ASSUME ThreadPoolAssumption ==
  /\ MaxLive \in Nat \ {0}
  /\ MinReserved \in [Groups -> Nat] /\ MaxReserved \in [Groups -> Nat]
  /\ \A g \in Groups : MinReserved[g] <= MaxReserved[g]
  /\ Works \cap Helpers = {} /\ None \notin Groups

VARIABLES
  numReserved, numBlocked, numLive,  \* the scheduler's num_..._threads
  groups,             \* the block groups that exist
  reserved, blocked,  \* num_reserved_threads, num_blocked_threads of each
  work,               \* the work of each that waits for a thread
  workForThreads,     \* work_for_threads, the pool's queue
  numPool,            \* the threads that serve it
  running,            \* the works those threads are running
  home,               \* the block group of a work that was handed to run
  helper,             \* the state and the block group of each helper thread
  helperQueue,        \* its work_queue
  helperRuns          \* the works it is running: one or none

countVars == <<numReserved, numBlocked, numLive, groups, reserved, blocked>>
poolVars == <<work, workForThreads, numPool, running>>
helperVars == <<helper, helperQueue, helperRuns>>
threadVars == <<countVars, poolVars, home, helperVars>>
-----------------------------------------------------------------------------
(* A helper thread exists in states "alive" (reachable) and "finished"     *)
(* (finalized, its thread has yet to stop).                                *)
HelperStates == {"none", "alive", "finished"}
NoHelper == [state |-> "none", group |-> None]
HelpersIn(state) == {h \in Helpers : helper[h].state = state}

InitPool ==
  /\ numReserved = 0 /\ numBlocked = 0 /\ numLive = 0
  /\ groups = {}
  /\ reserved = [g \in Groups |-> 0] /\ blocked = [g \in Groups |-> 0]
  /\ work = [g \in Groups |-> << >>]
  /\ workForThreads = << >> /\ numPool = 0 /\ running = {}
  /\ home = [w \in Works |-> None]
  /\ helper = [h \in Helpers |-> NoHelper]
  /\ helperQueue = [h \in Helpers |-> << >>]
  /\ helperRuns = [h \in Helpers |-> {}]

DeltaReserved(g, i) ==
  /\ numReserved' = numReserved + i
  /\ reserved' = [reserved EXCEPT ![g] = @ + i]
DeltaBlocked(g, i) ==
  /\ numBlocked' = numBlocked + i
  /\ blocked' = [blocked EXCEPT ![g] = @ + i]

(* get_thread answers `Ok when the group has a reserved thread to spare or *)
(* may reserve one more.                                                   *)
HasSpare(g) == blocked[g] < reserved[g]
MayReserveAny(g) == reserved[g] < MaxReserved[g]  \* mutant of MayReserve
MayReserve(g) == numReserved < MaxLive /\ reserved[g] < MaxReserved[g]
ThreadAvailable(g) == HasSpare(g) \/ MayReserve(g)
GetThread(g) ==
  /\ ThreadAvailable(g)
  /\ DeltaReserved(g, IF HasSpare(g) THEN 0 ELSE 1)
  /\ DeltaBlocked(g, 1)

FinishWithThread(g) ==
  /\ DeltaBlocked(g, -1)
  /\ DeltaReserved(g, IF reserved[g] > MinReserved[g] THEN -1 ELSE 0)
-----------------------------------------------------------------------------
(* create_block_group, when it does not answer `Out_of_threads.            *)
CreateGroup(g) ==
  /\ g \notin groups
  /\ numReserved + MinReserved[g] <= MaxLive
  /\ numReserved' = numReserved + MinReserved[g]
  /\ groups' = groups \cup {g}
  /\ reserved' = [reserved EXCEPT ![g] = MinReserved[g]]
  /\ UNCHANGED <<numBlocked, numLive, blocked, poolVars, home, helperVars>>

(* The garbage collector may finalize a group to which no work and no      *)
(* helper thread refers.                                                   *)
FinalizeBlockGroup(g) ==
  /\ g \in groups
  /\ \A w \in Works : home[w] # g
  /\ \A h \in HelpersIn("alive") : helper[h].group # g
  /\ numReserved' = numReserved - reserved[g]
  /\ groups' = groups \ {g}
  /\ reserved' = [reserved EXCEPT ![g] = 0]
  /\ UNCHANGED <<numBlocked, numLive, blocked, poolVars, home, helperVars>>

(* run, without a helper thread.                                           *)
CreateThread(grows) ==
  LET i == IF grows THEN 1 ELSE 0
  IN numLive' = numLive + i /\ numPool' = numPool + i
NeedsThreadLater == numBlocked > numLive  \* mutant of NeedsThread
NeedsThread == numBlocked + 1 > numLive
Run(w, g) ==
  /\ g \in groups /\ home[w] = None
  /\ home' = [home EXCEPT ![w] = g]
  /\ \/ /\ GetThread(g)
        /\ CreateThread(NeedsThread)
        /\ workForThreads' = Append(workForThreads, w)
        /\ UNCHANGED work
     \/ /\ ~ThreadAvailable(g)
        /\ work' = [work EXCEPT ![g] = Append(@, w)]
        /\ UNCHANGED <<numReserved, numBlocked, numLive, reserved, blocked,
                       workForThreads, numPool>>
  /\ UNCHANGED <<groups, running, helperVars>>

(* A thread of the pool pops a work and runs its function.                 *)
PoolPops ==
  /\ workForThreads # << >> /\ Cardinality(running) < numPool
  /\ running' = running \cup {Head(workForThreads)}
  /\ workForThreads' = Tail(workForThreads)
  /\ UNCHANGED <<countVars, work, numPool, home, helperVars>>

(* The function has returned or raised: its thread takes the lock and      *)
(* passes itself on to the next work of the group, or is given back.       *)
PassesNever(w) ==  \* mutant of PassesOn
  /\ FinishWithThread(home[w])
  /\ UNCHANGED <<numLive, groups, work, workForThreads, numPool>>
PassesOn(w) ==
  LET g == home[w] IN
  \/ /\ work[g] # << >>
     /\ work' = [work EXCEPT ![g] = Tail(@)]
     /\ workForThreads' = Append(workForThreads, Head(work[g]))
     /\ UNCHANGED <<countVars, numPool>>
  \/ /\ work[g] = << >>
     /\ FinishWithThread(g)
     /\ UNCHANGED <<numLive, groups, work, workForThreads, numPool>>
WorkDone(w) ==
  /\ w \in running
  /\ running' = running \ {w}
  /\ home' = [home EXCEPT ![w] = None]
  /\ PassesOn(w)
  /\ UNCHANGED helperVars
-----------------------------------------------------------------------------
(* Helper_thread.create, when it does not answer `Out_of_threads.          *)
CreateHelper(h, g) ==
  /\ g \in groups /\ helper[h].state = "none"
  /\ numLive # MaxLive
  /\ GetThread(g)
  /\ numLive' = numLive + 1
  /\ helper' = [helper EXCEPT ![h] = [state |-> "alive", group |-> g]]
  /\ UNCHANGED <<groups, poolVars, home, helperQueue, helperRuns>>

(* run, in a helper thread.                                                *)
RunInHelper(w, h, g) ==
  /\ g \in groups /\ home[w] = None /\ helper[h].state = "alive"
  /\ home' = [home EXCEPT ![w] = g]
  /\ helperQueue' = [helperQueue EXCEPT ![h] = Append(@, w)]
  /\ UNCHANGED <<countVars, poolVars, helper, helperRuns>>

HelperPops(h) ==
  /\ helperQueue[h] # << >> /\ helperRuns[h] = {}
  /\ helperRuns' = [helperRuns EXCEPT ![h] = {Head(helperQueue[h])}]
  /\ helperQueue' = [helperQueue EXCEPT ![h] = Tail(@)]
  /\ UNCHANGED <<countVars, poolVars, home, helper>>

HelperWorkDone(h) ==
  /\ helperRuns[h] # {}
  /\ helperRuns' = [helperRuns EXCEPT ![h] = {}]
  /\ home' = [w \in Works |-> IF w \in helperRuns[h] THEN None ELSE home[w]]
  /\ UNCHANGED <<countVars, poolVars, helper, helperQueue>>

(* finished: the finalizer of a helper thread to which no work refers      *)
(* gives its thread back and tells it to stop ...                          *)
HelperFinished(h) ==
  /\ helper[h].state = "alive"
  /\ helperQueue[h] = << >> /\ helperRuns[h] = {}
  /\ FinishWithThread(helper[h].group)
  /\ helper' = [helper EXCEPT ![h].state = "finished"]
  /\ UNCHANGED <<numLive, groups, poolVars, home, helperQueue, helperRuns>>

(* ... and when it does, it is no longer live.                             *)
HelperDead(h) ==
  /\ helper[h].state = "finished"
  /\ numLive' = numLive - 1
  /\ helper' = [helper EXCEPT ![h] = NoHelper]
  /\ UNCHANGED <<numReserved, numBlocked, groups, reserved, blocked, poolVars,
                 home, helperQueue, helperRuns>>
-----------------------------------------------------------------------------
NextPool ==
  \/ \E g \in Groups : CreateGroup(g) \/ FinalizeBlockGroup(g)
  \/ \E w \in Works, g \in Groups : Run(w, g)
  \/ PoolPops
  \/ \E w \in Works : WorkDone(w)
  \/ \E h \in Helpers, g \in Groups : CreateHelper(h, g)
  \/ \E w \in Works, h \in Helpers, g \in Groups : RunInHelper(w, h, g)
  \/ \E h \in Helpers : \/ HelperPops(h) \/ HelperWorkDone(h)
                        \/ HelperFinished(h) \/ HelperDead(h)

PoolSpec == InitPool /\ [][NextPool]_threadVars

(* Threads run, and the functions they run return.                         *)
FairPoolSpec ==
  /\ PoolSpec
  /\ WF_threadVars(PoolPops)
  /\ \A w \in Works : WF_threadVars(WorkDone(w))
  /\ \A h \in Helpers : /\ WF_threadVars(HelperPops(h))
                        /\ WF_threadVars(HelperWorkDone(h))
                        /\ WF_threadVars(HelperDead(h))
-----------------------------------------------------------------------------
PoolTypeOK ==
  /\ numReserved \in Nat /\ numBlocked \in Nat /\ numLive \in Nat /\ numPool \in Nat
  /\ groups \subseteq Groups
  /\ reserved \in [Groups -> Nat] /\ blocked \in [Groups -> Nat]
  /\ work \in [Groups -> Seq(Works)]
  /\ workForThreads \in Seq(Works)
  /\ running \subseteq Works
  /\ home \in [Works -> Groups \cup {None}]
  /\ helper \in [Helpers -> [state : HelperStates, group : Groups \cup {None}]]
  /\ helperQueue \in [Helpers -> Seq(Works)]
  /\ helperRuns \in [Helpers -> SUBSET Works]

(* The sum of f[g] over the groups gs, counted as that many slots: a form  *)
(* that theorems can be stated about.                                      *)
Slots(f, gs) == UNION {{g} \X (1..f[g]) : g \in gs}
InTotal(f) == Cardinality(Slots(f, groups))

(* Async keeps its promise to have no more threads than the maximum, and   *)
(* promises no more: neither the threads that live nor those reserved, the *)
(* groups' reservations together, exceed it (raw_scheduler.ml:208-214).    *)
WithinLimits ==
  /\ numLive <= MaxLive
  /\ numReserved <= MaxLive
  /\ numReserved = InTotal(reserved)
  /\ \A g \in groups : /\ MinReserved[g] <= reserved[g]
                       /\ reserved[g] <= MaxReserved[g]

(* No thread leaks: a group's blocked threads are exactly those that its   *)
(* works in the pool and its helper threads occupy, so that once they are  *)
(* done the group holds what it reserved and no more, and the number of    *)
(* live threads is that of the threads there are.                          *)
Occupying(g) ==
  {w \in running \cup Elements(workForThreads) : home[w] = g}
  \cup {h \in HelpersIn("alive") : helper[h].group = g}
ThreadsAccounted ==
  /\ \A g \in groups : /\ blocked[g] = Cardinality(Occupying(g))
                       /\ blocked[g] <= reserved[g]
                       /\ reserved[g] > MinReserved[g] => blocked[g] = reserved[g]
  /\ numBlocked = InTotal(blocked)
  /\ numLive = numPool + Cardinality(HelpersIn("alive") \cup HelpersIn("finished"))

(* What the scheduler and its block groups assert of themselves            *)
(* (raw_scheduler.ml:199-218 but :206-207, block_group.ml:38-43 but        *)
(* :44-45, which do not hold: see below), and of the threads there are.    *)
SchedulerInvariant == PoolTypeOK /\ WithinLimits /\ ThreadsAccounted

(* The works to which the pool owes a thread and has none, and the groups  *)
(* whose work waits though they have a thread to spare.                    *)
Owed == Len(workForThreads) + Cardinality(running) - numPool
Idle(g) == work[g] # << >> /\ blocked[g] < reserved[g]

(* Nothing but a helper thread's finalizer makes a work wait beside a      *)
(* thread that could run it.  The pool promises a work a thread that is    *)
(* not there only while finalized helper threads have yet to stop, for as  *)
(* many works as there are such threads (raw_scheduler.ml:290), and a      *)
(* group comes to leave its work beside a spare thread only when one of    *)
(* its own helper threads is finalized (in_thread.ml:55-56).               *)
NoIdleWork ==
  [][/\ Owed' > Owed /\ Owed' > 0 => Owed' <= Cardinality(HelpersIn("finished"))
     /\ \A g \in Groups :
          Idle(g)' /\ ~Idle(g)
            => \E h \in Helpers : /\ helper[h] = [state |-> "alive", group |-> g]
                                  /\ helper'[h].state = "finished"]_threadVars

(* What Block_group.invariant asserts (block_group.ml:44-45): work waits   *)
(* in a group only while the group uses all the threads it has reserved.   *)
(* It does not hold: a helper thread that is finalized gives its thread    *)
(* back without a look at the group's work, and that work waits until      *)
(* another of the group's works is done.                                   *)
WaitsOnlyWhenFull ==
  \A g \in groups : work[g] # << >> => blocked[g] = reserved[g]

(* What Scheduler.invariant asserts (raw_scheduler.ml:206-207): there are  *)
(* as many threads as are handed out.  It does not hold: between a helper  *)
(* thread's finalizer and its end its thread is counted as one to spare.   *)
EnoughLiveThreads == numBlocked <= numLive

(* run runs its function in another thread (in_thread.mli:35): sooner or   *)
(* later a work that run was given is run and its deferred determined, at  *)
(* least in programs that create no helper thread (one that is never       *)
(* finalized keeps its thread), and whose groups reserve a thread each.  A *)
(* group that reserves none may wait for ever (MinReserved 0, MaxLive 1).  *)
EveryWorkRuns ==
  [](HelpersIn("none") = Helpers)
    => \A w \in Works : home[w] # None ~> home[w] = None
=============================================================================
