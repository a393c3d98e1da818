--------------------------- MODULE SchedulerProofs ---------------------------
(***************************************************************************)
(* The two parts of raw_scheduler.ml, its cycle and its threads, which     *)
(* share no state.  For any jobs, quotas and additions: a cycle keeps to   *)
(* its quota, no job is lost or duplicated on its way through the queues,  *)
(* and jobs are overtaken in their batch only.  For any groups, works,     *)
(* helper threads and limits: Async keeps within its threads and           *)
(* reservations, loses none, and no work waits beside a thread that could  *)
(* run it.                                                                 *)
(***************************************************************************)
EXTENDS Scheduler, ThreadPool, SelectionProofs, SequenceTheorems, FiniteSetTheorems,
        TLAPS

(* The batch holds jobs of one priority, and what it will run was taken    *)
(* off the quota when get took it.                                         *)
OfPriority(p) == \A i \in DOMAIN batch : PriorityOf(batch[i]) = p
ToRun(p) == IF OfPriority(p) THEN Len(batch) ELSE 0
Balance(p) == ran[p] + jobs_left_this_cycle[p] + ToRun(p) <= quota
OnePriority == \E p \in Priorities : OfPriority(p)

IInv == /\ TypeOK /\ OnePriority
        /\ phase = "cycle" => \A p \in Priorities : Balance(p)
        /\ phase = "between" => batch = << >>
-----------------------------------------------------------------------------
LEMMA QuotasArePositive == \A m \in Quotas : m \in Nat
BY SchedulerAssumption

LEMMA AddedType ==
  ASSUME TypeOK, NEW busy, NEW s \in Additions(busy)
  PROVE  /\ Added(s) \in [Priorities -> Seq(Ids)]
         /\ \A p \in Priorities : Added(s)[p] \in Seq(JobsOf(p))
<1>1. \A p \in Priorities : s[p] \in Seq(JobsOf(p))
  <2> SUFFICES ASSUME NEW p \in Priorities PROVE s[p] \in Seq(JobsOf(p))
    OBVIOUS
  <2>1. s[p] \in Orders(JobsOf(p) \ busy)
    BY DEF Additions
  <2>2. PICK n \in 0..MaxAdds : s[p] \in [1..n -> JobsOf(p) \ busy]
    BY <2>1 DEF Orders
  <2>3. n \in Nat
    BY SchedulerAssumption
  <2> QED
    BY <2>2, <2>3
<1>2. \A p \in Priorities : jobs[p] \o s[p] \in Seq(JobsOf(p))
  <2> SUFFICES ASSUME NEW p \in Priorities PROVE jobs[p] \o s[p] \in Seq(JobsOf(p))
    OBVIOUS
  <2>1. jobs[p] \in Seq(JobsOf(p)) /\ s[p] \in Seq(JobsOf(p))
    BY <1>1 DEF TypeOK
  <2> QED
    BY <2>1, ConcatProperties
<1>3. \A p \in Priorities : JobsOf(p) \subseteq Ids
  BY DEF JobsOf, Ids
<1>4. \A p \in Priorities : jobs[p] \o s[p] \in Seq(Ids)
  BY <1>2, <1>3, SeqMonotonic
<1> QED
  BY <1>2, <1>4 DEF Added

(* What get takes and leaves.                                              *)
LEMMA BatchType ==
  ASSUME NEW J, NEW queue \in Seq(J), NEW left \in Nat
  PROVE  /\ Amount(queue, left) \in Nat /\ Amount(queue, left) <= left
         /\ Amount(queue, left) <= Len(queue)
         /\ Batch(queue, left) \in Seq(J)
         /\ Len(Batch(queue, left)) = Amount(queue, left)
         /\ Rest(queue, left) \in Seq(J)
<1> DEFINE n == Amount(queue, left)
           taken == SubSeq(queue, 1, n)
<1>1. n \in Nat /\ n <= left /\ n <= Len(queue)
  BY DEF Amount
<1> HIDE DEF n
<1>2. taken \in Seq(J) /\ Len(taken) = n /\ \A i \in 1..n : taken[i] = queue[i]
  BY <1>1
<1> HIDE DEF taken
<1>3. /\ Reversed(taken) \in Seq(J) /\ Len(Reversed(taken)) = n
      /\ \A i \in 1..n : Reversed(taken)[i] = taken[n + 1 - i]
  BY <1>1, <1>2 DEF Reversed
<1>6. Batch(queue, left) = Reversed(taken)
  BY DEF Batch, n, taken
<1>7. Rest(queue, left) \in Seq(J)
  BY <1>1 DEF Rest, n
<1> QED
  BY <1>1, <1>3, <1>6, <1>7 DEF n

LEMMA InitIInv == Init => IInv
<1> SUFFICES ASSUME Init PROVE IInv
  OBVIOUS
<1>1. TypeOK
  <2>1. \A p \in Priorities : jobs[p] = << >> /\ jobs[p] \in Seq(JobsOf(p))
    BY EmptySeq DEF Init
  <2>2. jobs \in [Priorities -> Seq(Ids)] /\ batch \in Seq(Ids)
    BY EmptySeq DEF Init
  <2>3. /\ jobs_left_this_cycle \in [Priorities -> Nat] /\ quota \in Nat
        /\ ran \in [Priorities -> Nat] /\ max_num_jobs_per_priority_per_cycle \in Quotas
    BY DEF Init
  <2> QED
    BY <2>1, <2>2, <2>3 DEF Init, TypeOK
<1>2. OnePriority
  BY DEF Init, OnePriority, OfPriority, Priorities
<1> QED
  BY <1>1, <1>2 DEF Init, IInv

(* The head of a batch of one priority is what the cycle pays for.         *)
LEMMA RunJobStep ==
  ASSUME IInv, NEW busy, NEW s \in Additions(busy), NEW m \in Quotas,
         NEW raises \in BOOLEAN, RunJob(s, m, raises)
  PROVE  IInv'
<1> USE DEF IInv, RunJob
<1>1. batch \in Seq(Ids) /\ batch # << >> /\ batch' = Tail(batch)
  BY DEF TypeOK
<1>2. /\ batch' \in Seq(Ids) /\ Len(batch') = Len(batch) - 1 /\ Len(batch) \in Nat \ {0}
      /\ Head(batch) = batch[1] /\ 1 \in DOMAIN batch
      /\ \A i \in DOMAIN batch' : i + 1 \in DOMAIN batch /\ batch'[i] = batch[i + 1]
  BY <1>1
<1>3. PriorityOf(Head(batch)) \in Priorities
  BY DEF PriorityOf, Priorities
<1>4. TypeOK'
  <2>1. ran' \in [Priorities -> Nat]
    BY <1>3 DEF TypeOK
  <2> QED
    BY <1>2, <2>1, AddedType DEF TypeOK
<1>5. \A p \in Priorities : OfPriority(p) => OfPriority(p)'
  BY <1>2 DEF OfPriority
<1>6. \A p \in Priorities : Balance(p)'
  <2> SUFFICES ASSUME NEW p \in Priorities PROVE Balance(p)'
    OBVIOUS
  <2>0. /\ ran[p] \in Nat /\ jobs_left_this_cycle[p] \in Nat /\ quota \in Nat
        /\ jobs_left_this_cycle'[p] = jobs_left_this_cycle[p] /\ quota' = quota
    BY DEF TypeOK
  <2>1. PICK q \in Priorities : OfPriority(q)
    BY DEF OnePriority
  <2>2. PriorityOf(Head(batch)) = q
    BY <1>2, <2>1 DEF OfPriority
  <2>3. CASE p = q
    <3>1. ran'[p] = ran[p] + 1
      BY <2>2, <2>3 DEF TypeOK
    <3>2. ToRun(p) = Len(batch)
      BY <2>1, <2>3 DEF ToRun
    <3>3. ToRun(p)' = Len(batch) - 1
      BY <1>2, <1>5, <2>1, <2>3 DEF ToRun
    <3>4. Balance(p)
      OBVIOUS
    <3> QED
      BY <1>2, <2>0, <3>1, <3>2, <3>3, <3>4 DEF Balance
  <2>4. CASE p # q
    <3>1. ran'[p] = ran[p]
      BY <2>2, <2>4 DEF TypeOK
    <3>2. ToRun(p) = 0
      BY <1>2, <2>2, <2>4 DEF ToRun, OfPriority
    <3>3. ToRun(p)' = 0
      <4>1. CASE Len(batch') = 0
        BY <4>1 DEF ToRun
      <4>2. CASE Len(batch') # 0
        <5>1. 1 \in DOMAIN batch' /\ PriorityOf(batch'[1]) = q
          <6>1. 1 \in DOMAIN batch'
            BY <1>2, <4>2
          <6> QED
            BY <1>2, <2>1, <6>1 DEF OfPriority
        <5> QED
          BY <2>4, <5>1 DEF ToRun, OfPriority
      <4> QED
        BY <4>1, <4>2
    <3>4. Balance(p)
      OBVIOUS
    <3> QED
      BY <2>0, <3>1, <3>2, <3>3, <3>4 DEF Balance
  <2> QED
    BY <2>3, <2>4
<1>7. OnePriority'
  BY <1>5 DEF OnePriority
<1> QED
  BY <1>4, <1>6, <1>7

(* get pays for a batch with the quota of its priority.                    *)
LEMMA GetBatchStep == IInv /\ GetBatch => IInv'
<1> SUFFICES ASSUME IInv, GetBatch PROVE IInv'
  OBVIOUS
<1> USE DEF IInv, GetBatch
<1>0. Source \in Priorities
  BY DEF Source, GetsFrom, Priorities
<1>1. PICK p \in Priorities : p = Source
  BY <1>0
<1>0a. PICK n : n = Amount(jobs[p], jobs_left_this_cycle[p])
  OBVIOUS
<1>2. jobs[p] \in Seq(JobsOf(p)) /\ jobs_left_this_cycle[p] \in Nat
  BY <1>1 DEF TypeOK
<1>3. /\ batch' = Batch(jobs[p], jobs_left_this_cycle[p])
      /\ jobs' = [jobs EXCEPT ![p] = Rest(jobs[p], jobs_left_this_cycle[p])]
      /\ jobs_left_this_cycle' = [jobs_left_this_cycle EXCEPT ![p] = jobs_left_this_cycle[p] - n]
  BY <1>1, <1>0a DEF TypeOK
<1>4. /\ n \in Nat /\ n <= jobs_left_this_cycle[p]
      /\ batch' \in Seq(JobsOf(p)) /\ Len(batch') = n
      /\ Rest(jobs[p], jobs_left_this_cycle[p]) \in Seq(JobsOf(p))
  <2> DEFINE left == jobs_left_this_cycle[p]
  <2>1. /\ Amount(jobs[p], left) \in Nat /\ Amount(jobs[p], left) <= left
        /\ Batch(jobs[p], left) \in Seq(JobsOf(p))
        /\ Len(Batch(jobs[p], left)) = Amount(jobs[p], left)
        /\ Rest(jobs[p], left) \in Seq(JobsOf(p))
    BY <1>2, BatchType
  <2> QED
    BY <1>0a, <1>3, <2>1
<1>5. JobsOf(p) \subseteq Ids
  BY DEF JobsOf, Ids
<1>6. batch' \in Seq(Ids) /\ Rest(jobs[p], jobs_left_this_cycle[p]) \in Seq(Ids)
  BY <1>4, <1>5, SeqMonotonic
<1>7. TypeOK'
  <2>1. jobs_left_this_cycle' \in [Priorities -> Nat]
    BY <1>1, <1>2, <1>3, <1>4 DEF TypeOK
  <2>2. /\ jobs' \in [Priorities -> Seq(Ids)]
        /\ \A q \in Priorities : jobs'[q] \in Seq(JobsOf(q))
    BY <1>1, <1>3, <1>4, <1>6 DEF TypeOK
  <2> QED
    BY <1>6, <2>1, <2>2 DEF TypeOK
<1>8. OfPriority(p)'
  <2>1. \A i \in DOMAIN batch' : batch'[i] \in JobsOf(p)
    BY <1>4
  <2>2. \A j \in JobsOf(p) : PriorityOf(j) = p
    BY <1>1, SchedulerAssumption DEF JobsOf, PriorityOf, Priorities
  <2> QED
    BY <2>1, <2>2 DEF OfPriority
<1>9. \A q \in Priorities : Balance(q)'
  <2> SUFFICES ASSUME NEW q \in Priorities PROVE Balance(q)'
    OBVIOUS
  <2>0. /\ ran[q] \in Nat /\ jobs_left_this_cycle[q] \in Nat /\ quota \in Nat
        /\ ran' = ran /\ quota' = quota /\ Balance(q)
    BY DEF TypeOK
  <2>1. ToRun(q) \in Nat
    BY DEF ToRun, TypeOK
  <2>2. CASE q = p
    <3>1. jobs_left_this_cycle'[q] = jobs_left_this_cycle[q] - n
      BY <1>3, <2>2 DEF TypeOK
    <3>2. ToRun(q)' = n
      BY <1>4, <1>8, <2>2 DEF ToRun
    <3> QED
      BY <1>4, <2>0, <2>1, <3>1, <3>2 DEF Balance
  <2>3. CASE q # p
    <3>1. jobs_left_this_cycle'[q] = jobs_left_this_cycle[q]
      BY <1>3, <2>3 DEF TypeOK
    <3>2. ToRun(q)' = 0
      <4>1. CASE n = 0
        BY <1>4, <4>1 DEF ToRun
      <4>2. CASE n # 0
        <5>1. 1 \in DOMAIN batch'
          BY <1>4, <4>2
        <5> QED
          BY <1>8, <2>3, <5>1 DEF ToRun, OfPriority
      <4> QED
        BY <4>1, <4>2
    <3> QED
      BY <2>0, <2>1, <3>1, <3>2 DEF Balance
  <2> QED
    BY <2>2, <2>3
<1> QED
  BY <1>1, <1>7, <1>8, <1>9 DEF OnePriority

LEMMA EmptyBatch == batch = << >> => OnePriority /\ \A p \in Priorities : ToRun(p) = 0
BY DEF OnePriority, OfPriority, Priorities, ToRun

LEMMA NextIInv == IInv /\ [Next]_vars => IInv'
<1> SUFFICES ASSUME IInv, [Next]_vars PROVE IInv'
  OBVIOUS
<1>1. CASE UNCHANGED vars
  BY <1>1 DEF vars, queueVars, schedulerVars, history, IInv, TypeOK, OnePriority, OfPriority,
              Balance, ToRun
<1>2. ASSUME NEW s \in Additions(Elements(Everywhere)), StartCycle(s) PROVE IInv'
  <2> USE <1>2 DEF StartCycle
  <2>0. TypeOK /\ batch = << >>
    BY DEF IInv
  <2>1. batch' = << >>
    BY <2>0
  <2>2. TypeOK'
    <3>1. max_num_jobs_per_priority_per_cycle \in Nat
      BY <2>0, QuotasArePositive DEF TypeOK
    <3>2. jobs_left_this_cycle' \in [Priorities -> Nat] /\ ran' \in [Priorities -> Nat]
      BY <3>1 DEF Replenished
    <3> QED
      BY <2>0, <3>1, <3>2, AddedType DEF TypeOK
  <2>3. \A p \in Priorities : ToRun(p)' = 0 /\ quota' \in Nat /\ ran'[p] = 0
                              /\ jobs_left_this_cycle'[p] = quota'
    BY <2>1, <2>2 DEF ToRun, Replenished, TypeOK
  <2>4. OnePriority'
    BY <2>1 DEF OnePriority, OfPriority, Priorities
  <2> QED
    BY <2>2, <2>3, <2>4 DEF Balance, IInv
<1>3. ASSUME NEW s \in Additions(Elements(Everywhere)), NEW i \in BOOLEAN, EndCycle(s, i)
      PROVE  IInv'
  <2>1. TypeOK' /\ batch' = << >> /\ phase' = "between"
    BY <1>3, AddedType DEF EndCycle, IInv, TypeOK, Remains
  <2> QED
    BY <2>1 DEF IInv, OnePriority, OfPriority, Priorities
<1>4. ASSUME NEW s \in Additions(Elements(Everywhere)), NEW i \in BOOLEAN,
             AddOutside(s, i)
      PROVE  IInv'
  <2>1. TypeOK' /\ batch' = batch /\ phase' = phase /\ phase = "between"
    BY <1>4, AddedType DEF AddOutside, IInv, TypeOK
  <2> QED
    BY <2>1 DEF IInv, OnePriority, OfPriority
<1> QED
  BY <1>1, <1>2, <1>3, <1>4, RunJobStep, GetBatchStep DEF Next, RunCycle, InCycle

(* However jobs add jobs and change the number of jobs per cycle, a cycle  *)
(* runs no more jobs of a priority than were allowed when it began         *)
(* (Jobs.get and run_cycle), and the queues keep their types.              *)
THEOREM CycleIsBounded == Spec => [](TypeOK /\ QuotaKept)
<1>1. IInv => TypeOK /\ QuotaKept
  <2> SUFFICES ASSUME IInv, phase = "cycle", NEW p \in Priorities PROVE ran[p] <= quota
    BY DEF IInv, QuotaKept
  <2>1. Balance(p) /\ ran[p] \in Nat /\ jobs_left_this_cycle[p] \in Nat /\ quota \in Nat
    BY DEF IInv, TypeOK
  <2>2. ToRun(p) \in Nat
    BY DEF IInv, TypeOK, ToRun
  <2> QED
    BY <2>1, <2>2 DEF Balance
<1> QED
  BY <1>1, InitIInv, NextIInv, PTL DEF Spec
-----------------------------------------------------------------------------
(* Where the jobs are: of queues q, a batch b and a history w, that the    *)
(* jobs of w are those of the queues and the batch, each in one place, and *)
(* that within a priority the batch holds the oldest, and the queue holds  *)
(* the others in their order.                                              *)
Apart(q, b) ==
  /\ NoRepeats(b)
  /\ \A p \in Priorities : NoRepeats(q[p]) /\ Elements(q[p]) \cap Elements(b) = {}
BatchFirst(b, w) ==
  \A i, n \in DOMAIN w : i < n /\ PriorityOf(w[i]) = PriorityOf(w[n]) =>
    (w[n] \in Elements(b) => w[i] \in Elements(b))
InQueueOrder(q, w) ==
  \A i, n \in DOMAIN w : i < n =>
    \A p \in Priorities : \A a, c \in DOMAIN q[p] : q[p][a] = w[i] /\ q[p][c] = w[n] => a < c
Queues == {q \in [Priorities -> Seq(Ids)] : \A p \in Priorities : q[p] \in Seq(JobsOf(p))}
Held(q, b) == Elements(q["Normal"]) \cup Elements(q["Low"]) \cup Elements(b)
Accounts(q, b, w) ==
  /\ q \in Queues /\ b \in Seq(Ids) /\ w \in Seq(Ids)
  /\ Apart(q, b) /\ NoRepeats(w) /\ Elements(w) = Held(q, b)
  /\ BatchFirst(b, w) /\ InQueueOrder(q, w)

(* What is added is new, of its priority, and each job once.               *)
Batches == {s \in [Priorities -> Seq(Ids)] :
              \A p \in Priorities : s[p] \in Seq(JobsOf(p)) /\ NoRepeats(s[p])}
Fresh(s, q, b) == \A p \in Priorities : Elements(s[p]) \cap Held(q, b) = {}

LEMMA AdditionsAreFresh ==
  ASSUME NEW busy, NEW s \in Additions(busy)
  PROVE  s \in Batches /\ \A p \in Priorities : Elements(s[p]) \cap busy = {}
<1>1. ASSUME NEW p \in Priorities
      PROVE  s[p] \in Seq(JobsOf(p)) /\ NoRepeats(s[p]) /\ Elements(s[p]) \cap busy = {}
  <2>1. s[p] \in Orders(JobsOf(p) \ busy)
    BY DEF Additions
  <2>2. NoRepeats(s[p]) /\ \E n \in 0..MaxAdds : s[p] \in [1..n -> JobsOf(p) \ busy]
    BY <2>1 DEF Orders
  <2>3. PICK n \in 0..MaxAdds : s[p] \in [1..n -> JobsOf(p) \ busy]
    BY <2>2
  <2>4. n \in Nat
    BY SchedulerAssumption
  <2> QED BY <2>2, <2>3, <2>4 DEF Elements
<1>2. \A p \in Priorities : JobsOf(p) \subseteq Ids
  BY DEF JobsOf, Ids
<1>3. \A p \in Priorities : s[p] \in Seq(Ids)
  BY <1>1, <1>2, SeqMonotonic
<1>4. s \in [Priorities -> Seq(Ids)]
  <2>1. DOMAIN s = Priorities /\ s = [p \in Priorities |-> s[p]]
    BY DEF Additions
  <2> QED BY <2>1, <1>3
<1> QED BY <1>1, <1>4 DEF Batches

LEMMA OneQueueEach ==
  ASSUME NEW q \in Queues, NEW p \in Priorities, NEW x \in Elements(q[p])
  PROVE  x \in JobsOf(p) /\ PriorityOf(x) = p
<1>1. x \in JobsOf(p)
  <2>1. q[p] \in Seq(JobsOf(p))
    BY DEF Queues
  <2> QED BY <2>1, ElementsOf
<1> QED BY <1>1, SchedulerAssumption DEF JobsOf, PriorityOf, Priorities

(* Jobs added at the end of the queues are accounted for.                  *)
Grown(q, s) == [p \in Priorities |-> q[p] \o s[p]]
LEMMA AddedAccounts ==
  ASSUME NEW q, NEW b, NEW w, Accounts(q, b, w), NEW s \in Batches, Fresh(s, q, b)
  PROVE  Accounts(Grown(q, s), b, w \o All(s))
<1>0. PICK g : g = Grown(q, s)
  OBVIOUS
<1>1. /\ q \in Queues /\ b \in Seq(Ids) /\ w \in Seq(Ids) /\ Apart(q, b) /\ NoRepeats(w)
      /\ Elements(w) = Held(q, b) /\ BatchFirst(b, w) /\ InQueueOrder(q, w)
  BY DEF Accounts
<1>2. \A p \in Priorities :
        /\ q[p] \in Seq(JobsOf(p)) /\ s[p] \in Seq(JobsOf(p)) /\ NoRepeats(s[p])
        /\ q[p] \in Seq(Ids) /\ s[p] \in Seq(Ids) /\ NoRepeats(q[p])
        /\ Elements(s[p]) \cap Elements(q[p]) = {} /\ Elements(s[p]) \cap Elements(b) = {}
        /\ Elements(s[p]) \cap Elements(w) = {} /\ g[p] = q[p] \o s[p]
        /\ Elements(q[p]) \cap Elements(b) = {}
  BY <1>0, <1>1 DEF Queues, Batches, Fresh, Apart, Held, Priorities, Grown
<1>3. \A p \in Priorities :
        /\ g[p] \in Seq(JobsOf(p)) /\ g[p] \in Seq(Ids) /\ NoRepeats(g[p])
        /\ Elements(g[p]) = Elements(q[p]) \cup Elements(s[p])
  <2> SUFFICES ASSUME NEW p \in Priorities
               PROVE  /\ g[p] \in Seq(JobsOf(p)) /\ g[p] \in Seq(Ids) /\ NoRepeats(g[p])
                      /\ Elements(g[p]) = Elements(q[p]) \cup Elements(s[p])
    OBVIOUS
  <2>1. PICK k, m, J : k = q[p] /\ m = s[p] /\ J = JobsOf(p)
    OBVIOUS
  <2>2. /\ k \in Seq(J) /\ m \in Seq(J) /\ k \in Seq(Ids) /\ m \in Seq(Ids)
        /\ NoRepeats(k) /\ NoRepeats(m) /\ Elements(k) \cap Elements(m) = {} /\ g[p] = k \o m
    BY <1>2, <2>1
  <2>3. /\ k \o m \in Seq(J) /\ k \o m \in Seq(Ids)
        /\ Elements(k \o m) = Elements(k) \cup Elements(m)
    BY <2>2, Joined
  <2>4. NoRepeats(k \o m)
    BY <2>2, JoinedApart
  <2> QED BY <2>1, <2>2, <2>3, <2>4
<1>4. g \in Queues /\ Apart(g, b)
  <2>1. g \in [Priorities -> Seq(Ids)]
    BY <1>0, <1>3 DEF Grown
  <2>2. \A p \in Priorities : Elements(g[p]) \cap Elements(b) = {}
    BY <1>2, <1>3
  <2> QED BY <1>1, <1>3, <2>1, <2>2 DEF Queues, Apart
<1>5. PICK N, L : N = s["Normal"] /\ L = s["Low"]
  OBVIOUS
<1>6. /\ N \in Seq(Ids) /\ L \in Seq(Ids) /\ NoRepeats(N) /\ NoRepeats(L)
      /\ N \in Seq(NormalJobs) /\ L \in Seq(LowJobs)
  <2>1. "Normal" \in Priorities /\ "Low" \in Priorities
    BY DEF Priorities
  <2>2. JobsOf("Normal") = NormalJobs /\ JobsOf("Low") = LowJobs
    BY DEF JobsOf
  <2> QED BY <1>2, <1>5, <2>1, <2>2
<1>7. Elements(N) \subseteq NormalJobs /\ Elements(L) \subseteq LowJobs
  BY <1>6, ElementsOf
<1>8. PICK t : t = N \o L
  OBVIOUS
<1>9. /\ t \in Seq(Ids) /\ NoRepeats(t) /\ Elements(t) = Elements(N) \cup Elements(L)
      /\ t = All(s)
  <2>1. Elements(N) \cap Elements(L) = {}
    BY <1>7, SchedulerAssumption
  <2> QED BY <1>5, <1>6, <1>8, <2>1, Joined, JoinedApart DEF All
<1>10. PICK v : v = w \o t
  OBVIOUS
<1>11. /\ v \in Seq(Ids) /\ NoRepeats(v) /\ Elements(v) = Elements(w) \cup Elements(t)
       /\ Elements(w) \cap Elements(t) = {}
  <2>1. Elements(w) \cap Elements(t) = {}
    BY <1>2, <1>5, <1>9 DEF Priorities
  <2> QED BY <1>1, <1>9, <1>10, <2>1, Joined, JoinedApart
<1>12. Elements(v) = Held(g, b)
  BY <1>1, <1>3, <1>5, <1>9, <1>11 DEF Held, Priorities
(* the places of v *)
<1>13. /\ DOMAIN v = 1..(Len(w) + Len(t)) /\ DOMAIN w = 1..Len(w) /\ DOMAIN t = 1..Len(t)
       /\ Len(w) \in Nat /\ Len(t) \in Nat
       /\ \A i \in 1..Len(w) : v[i] = w[i]
       /\ \A i \in 1..(Len(w) + Len(t)) :
            i \in 1..Len(w) \/ (i - Len(w) \in 1..Len(t) /\ v[i] = t[i - Len(w)])
  BY <1>1, <1>9, <1>10, Joined, LenProperties
<1>14. BatchFirst(b, v)
  <2> SUFFICES ASSUME NEW i \in DOMAIN v, NEW n \in DOMAIN v, i < n,
                      PriorityOf(v[i]) = PriorityOf(v[n]), v[n] \in Elements(b)
               PROVE  v[i] \in Elements(b)
    BY DEF BatchFirst
  <2>1. n \in 1..Len(w)
    <3>1. ASSUME v[n] \in Elements(t) PROVE FALSE
      BY <3>1, <1>2, <1>5, <1>9 DEF Priorities
    <3> QED BY <3>1, <1>13 DEF Elements
  <2>2. i \in 1..Len(w)
    BY <2>1, <1>13
  <2>3. v[i] = w[i] /\ v[n] = w[n] /\ i \in DOMAIN w /\ n \in DOMAIN w
    BY <2>1, <2>2, <1>13
  <2> QED BY <2>3, <1>1 DEF BatchFirst
<1>15. InQueueOrder(g, v)
  <2> SUFFICES ASSUME NEW i \in DOMAIN v, NEW n \in DOMAIN v, i < n, NEW p \in Priorities,
                      NEW a \in DOMAIN g[p], NEW c \in DOMAIN g[p], g[p][a] = v[i], g[p][c] = v[n]
               PROVE  a < c
    BY DEF InQueueOrder
  <2>1. PICK k, m : k = q[p] /\ m = s[p]
    OBVIOUS
  <2>2. /\ k \in Seq(Ids) /\ m \in Seq(Ids) /\ g[p] = k \o m /\ NoRepeats(m)
        /\ Elements(m) \cap Elements(w) = {}
    BY <2>1, <1>2
  <2>3. /\ DOMAIN g[p] = 1..(Len(k) + Len(m)) /\ DOMAIN k = 1..Len(k) /\ DOMAIN m = 1..Len(m)
        /\ Len(k) \in Nat /\ Len(m) \in Nat
        /\ \A x \in 1..Len(k) : g[p][x] = k[x]
        /\ \A x \in 1..(Len(k) + Len(m)) :
             x \in 1..Len(k) \/ (x - Len(k) \in 1..Len(m) /\ g[p][x] = m[x - Len(k)])
    BY <2>2, Joined, LenProperties
  <2>4. Elements(k) \cap Elements(t) = {}
    <3>1. Elements(k) \subseteq Elements(w)
      BY <1>1, <2>1 DEF Held, Priorities
    <3> QED BY <3>1, <1>11
  <2>5. CASE a \in 1..Len(k) /\ c \notin 1..Len(k)
    BY <2>5, <2>3
  <2>6. CASE a \in 1..Len(k) /\ c \in 1..Len(k)
    <3>1. g[p][a] = k[a] /\ g[p][c] = k[c]
      BY <2>6, <2>3
    <3>2. v[n] \in Elements(k)
      BY <2>3, <2>6, <3>1 DEF Elements
    <3>3. n \in 1..Len(w)
      <4>1. v[n] \notin Elements(t)
        BY <3>2, <2>4
      <4>2. n \in 1..(Len(w) + Len(t))
        BY <1>13
      <4>3. ASSUME n - Len(w) \in 1..Len(t), v[n] = t[n - Len(w)] PROVE FALSE
        BY <4>1, <4>3, <1>13 DEF Elements
      <4> QED BY <4>2, <4>3, <1>13
    <3>4. i \in 1..Len(w) /\ v[i] = w[i] /\ v[n] = w[n]
      BY <3>3, <1>13
    <3>5. /\ i \in DOMAIN w /\ n \in DOMAIN w /\ a \in DOMAIN q[p] /\ c \in DOMAIN q[p]
          /\ q[p][a] = w[i] /\ q[p][c] = w[n]
      BY <3>1, <3>3, <3>4, <2>1, <2>3, <2>6, <1>13
    <3> QED BY <3>5, <1>1 DEF InQueueOrder
  <2>7. CASE a \notin 1..Len(k)
    <3>1. a - Len(k) \in 1..Len(m) /\ v[i] = m[a - Len(k)]
      BY <2>3, <2>7
    <3>2. v[i] \in Elements(m)
      BY <3>1, <2>3 DEF Elements
    <3>3. i \notin 1..Len(w)
      BY <3>2, <2>2, <1>13 DEF Elements
    <3>4. n \notin 1..Len(w)
      BY <3>3, <1>13
    <3>5. /\ i - Len(w) \in 1..Len(t) /\ n - Len(w) \in 1..Len(t)
          /\ v[i] = t[i - Len(w)] /\ v[n] = t[n - Len(w)]
      BY <3>3, <3>4, <1>13
    <3>6. c - Len(k) \in 1..Len(m) /\ v[n] = m[c - Len(k)]
      <4>1. v[n] \in Elements(t)
        BY <3>5, <1>13 DEF Elements
      <4>2. c \notin 1..Len(k)
        BY <4>1, <2>3, <2>4 DEF Elements
      <4> QED BY <4>2, <2>3
    <3>7. PICK x, y : x = i - Len(w) /\ y = n - Len(w)
      OBVIOUS
    <3>8. x \in 1..Len(t) /\ y \in 1..Len(t) /\ x < y /\ v[i] = t[x] /\ v[n] = t[y]
      BY <3>5, <3>7, <1>13
    <3>9. PICK d, e : d = a - Len(k) /\ e = c - Len(k)
      OBVIOUS
    <3>10. d \in 1..Len(m) /\ e \in 1..Len(m) /\ t[x] = m[d] /\ t[y] = m[e]
      BY <3>1, <3>6, <3>8, <3>9
    <3>11. d < e
      <4>1. /\ Len(N) \in Nat /\ Len(L) \in Nat /\ Len(t) = Len(N) + Len(L)
            /\ \A z \in 1..Len(N) : t[z] = N[z]
            /\ \A z \in 1..(Len(N) + Len(L)) :
                 z \in 1..Len(N) \/ (z - Len(N) \in 1..Len(L) /\ t[z] = L[z - Len(N)])
            /\ DOMAIN N = 1..Len(N) /\ DOMAIN L = 1..Len(L)
        BY <1>6, <1>8, Joined, LenProperties
      <4>2. Elements(N) \cap Elements(L) = {}
        BY <1>7, SchedulerAssumption
      <4>3. CASE p = "Normal"
        <5>1. m = N
          BY <4>3, <2>1, <1>5
        <5>2. x \in 1..Len(N) /\ y \in 1..Len(N)
          <6>1. t[x] \in Elements(N) /\ t[y] \in Elements(N)
            BY <5>1, <4>1, <3>10 DEF Elements
          <6>2. ASSUME NEW z \in 1..Len(t), t[z] \in Elements(N) PROVE z \in 1..Len(N)
            <7>1. CASE z - Len(N) \in 1..Len(L) /\ t[z] = L[z - Len(N)]
              <8>1. t[z] \in Elements(L)
                BY <7>1, <4>1 DEF Elements
              <8> QED BY <8>1, <6>2, <4>2
            <7> QED BY <7>1, <4>1
          <6> QED BY <6>1, <6>2, <3>8
        <5>3. N[x] = N[d] /\ N[y] = N[e]
          BY <5>1, <5>2, <4>1, <3>10
        <5>4. x = d /\ y = e
          BY <5>1, <5>2, <5>3, <3>10, <4>1, <1>6 DEF NoRepeats
        <5> QED BY <5>4, <3>8
      <4>4. CASE p = "Low"
        <5>1. m = L
          BY <4>4, <2>1, <1>5
        <5>2. x \notin 1..Len(N) /\ y \notin 1..Len(N)
          BY <5>1, <4>1, <4>2, <3>10 DEF Elements
        <5>3. /\ x - Len(N) \in 1..Len(L) /\ L[x - Len(N)] = L[d]
              /\ y - Len(N) \in 1..Len(L) /\ L[y - Len(N)] = L[e]
          BY <5>1, <5>2, <4>1, <3>8, <3>10
        <5>4. x - Len(N) = d /\ y - Len(N) = e
          BY <5>1, <5>3, <3>10, <4>1, <1>6 DEF NoRepeats
        <5> QED BY <5>4, <4>1, <3>8
      <4> QED BY <4>3, <4>4 DEF Priorities
    <3>12. a \in Int /\ c \in Int /\ Len(k) \in Int
      BY <2>3
    <3>13. PICK l : l = Len(k)
      OBVIOUS
    <3>14. a - l < c - l /\ l \in Int
      BY <3>9, <3>11, <3>12, <3>13
    <3> QED BY <3>12, <3>14
  <2> QED BY <2>5, <2>6, <2>7
<1>16. Accounts(g, b, v)
  BY <1>1, <1>4, <1>11, <1>12, <1>14, <1>15 DEF Accounts
<1> QED BY <1>0, <1>9, <1>10, <1>16

(* Jobs of the batch are run, or forgotten with it.                        *)
LEMMA TakenAccounts ==
  ASSUME NEW q, NEW b, NEW w, Accounts(q, b, w), NEW c \in Seq(Ids), NoRepeats(c),
         NEW js, Elements(c) = Elements(b) \ js, js \subseteq Elements(b),
         NEW v, v = Without(w, js)
  PROVE  Accounts(q, c, v) /\ Held(q, c) = Held(q, b) \ js
<1>1. /\ q \in Queues /\ b \in Seq(Ids) /\ w \in Seq(Ids) /\ Apart(q, b) /\ NoRepeats(w)
      /\ Elements(w) = Held(q, b) /\ BatchFirst(b, w) /\ InQueueOrder(q, w)
  BY DEF Accounts
<1>2. /\ v \in Seq(Ids) /\ Elements(v) = Elements(w) \ js /\ NoRepeats(v)
      /\ \A i, n \in DOMAIN v : i < n =>
           \E a, d \in DOMAIN w : a < d /\ w[a] = v[i] /\ w[d] = v[n]
  BY <1>1, WithoutKeeps
<1>3. Apart(q, c) /\ Held(q, c) = Held(q, b) \ js
  BY <1>1 DEF Apart, Held, Priorities
<1>4. \A i \in DOMAIN v : v[i] \notin js
  BY <1>2 DEF Elements
<1>5. BatchFirst(c, v)
  <2> SUFFICES ASSUME NEW i \in DOMAIN v, NEW n \in DOMAIN v, i < n,
                      PriorityOf(v[i]) = PriorityOf(v[n]), v[n] \in Elements(c)
               PROVE  v[i] \in Elements(c)
    BY DEF BatchFirst
  <2>1. PICK a \in DOMAIN w, d \in DOMAIN w : a < d /\ w[a] = v[i] /\ w[d] = v[n]
    BY <1>2
  <2>2. v[i] \in Elements(b)
    BY <2>1, <1>1 DEF BatchFirst
  <2> QED BY <2>2, <1>4
<1>6. InQueueOrder(q, v)
  <2> SUFFICES ASSUME NEW i \in DOMAIN v, NEW n \in DOMAIN v, i < n, NEW p \in Priorities,
                      NEW x \in DOMAIN q[p], NEW y \in DOMAIN q[p], q[p][x] = v[i], q[p][y] = v[n]
               PROVE  x < y
    BY DEF InQueueOrder
  <2>1. PICK a \in DOMAIN w, d \in DOMAIN w : a < d /\ w[a] = v[i] /\ w[d] = v[n]
    BY <1>2
  <2> QED BY <2>1, <1>1 DEF InQueueOrder
<1> QED BY <1>1, <1>2, <1>3, <1>5, <1>6 DEF Accounts

(* What get takes of a queue and what it leaves.                           *)
LEMMA BatchParts ==
  ASSUME NEW J, NEW k \in Seq(J), NEW left \in Nat, NoRepeats(k),
         NEW b, b = Batch(k, left), NEW r, r = Rest(k, left), NEW n, n = Amount(k, left)
  PROVE  /\ b \in Seq(J) /\ r \in Seq(J) /\ n \in 0..Len(k)
         /\ NoRepeats(b) /\ NoRepeats(r) /\ Elements(b) \cap Elements(r) = {}
         /\ Elements(k) = Elements(b) \cup Elements(r)
         /\ \A i \in 1..Len(k) : k[i] \in Elements(b) <=> i <= n
         /\ \A i \in DOMAIN r : n + i \in 1..Len(k) /\ r[i] = k[n + i]
<1>0. Len(k) \in Nat /\ DOMAIN k = 1..Len(k)
  BY LenProperties
<1>1. n \in 0..Len(k) /\ n \in Nat
  BY <1>0 DEF Amount
<1>2. PICK t : t = SubSeq(k, 1, n)
  OBVIOUS
<1>3. t \in Seq(J) /\ Len(t) = n /\ DOMAIN t = 1..n /\ \A i \in 1..n : t[i] = k[i]
  BY <1>0, <1>1, <1>2
<1>4. b = [i \in 1..n |-> t[n + 1 - i]]
  BY <1>2, <1>3 DEF Batch, Reversed
<1>5. b \in Seq(J) /\ DOMAIN b = 1..n /\ \A i \in 1..n : b[i] = k[n + 1 - i] /\ n + 1 - i \in 1..n
  <2>1. \A i \in 1..n : n + 1 - i \in 1..n
    BY <1>1
  <2>2. \A i \in 1..n : t[i] \in J
    BY <1>3, ElementOfSeq
  <2>3. \A i \in 1..n : b[i] = k[n + 1 - i] /\ b[i] \in J
    BY <1>3, <1>4, <2>1, <2>2
  <2>4. b \in [1..n -> J]
    BY <1>4, <2>3
  <2>5. b \in Seq(J)
    BY <1>1, <2>4, SeqDef
  <2> QED BY <1>4, <2>1, <2>3, <2>5
<1>6. /\ r \in Seq(J) /\ DOMAIN r = 1..(Len(k) - n) /\ \A i \in 1..(Len(k) - n) : r[i] = k[n + i]
  <2>1. /\ SubSeq(k, n + 1, Len(k)) \in Seq(J) /\ Len(SubSeq(k, n + 1, Len(k))) = Len(k) - n
        /\ \A i \in 1..(Len(k) - n) : SubSeq(k, n + 1, Len(k))[i] = k[n + i]
    <3>1. /\ \A i \in (n + 1)..Len(k) : i \in 1..Len(k)
          /\ \A i \in 1..(Len(k) - n) : (n + 1) + i - 1 = n + i
          /\ Len(k) - (n + 1) + 1 = Len(k) - n
          /\ n + 1 \in Int /\ (n + 1 <= Len(k) \/ Len(k) = n)
      BY <1>0, <1>1
    <3>2. \A i \in (n + 1)..Len(k) : k[i] \in J
      BY <3>1, ElementOfSeq
    <3>3. /\ SubSeq(k, n + 1, Len(k)) \in Seq(J)
          /\ Len(SubSeq(k, n + 1, Len(k))) = IF n + 1 <= Len(k) THEN Len(k) - (n + 1) + 1 ELSE 0
          /\ \A i \in 1..(Len(k) - (n + 1) + 1) : SubSeq(k, n + 1, Len(k))[i] = k[(n + 1) + i - 1]
      BY <3>1, <3>2, <1>0, SubSeqProperties
    <3> QED BY <1>0, <1>1, <3>1, <3>3
  <2>2. r = SubSeq(k, n + 1, Len(k))
    BY DEF Rest
  <2> QED BY <2>1, <2>2, LenProperties
<1>7. \A i \in 1..(Len(k) - n) : n + i \in 1..Len(k) /\ n + i > n
  BY <1>0, <1>1
<1>8. ASSUME NEW i \in 1..Len(k) PROVE k[i] \in Elements(b) <=> i <= n
  <2>1. ASSUME k[i] \in Elements(b) PROVE i <= n
    <3>1. PICK j \in 1..n : b[j] = k[i]
      BY <2>1, <1>5 DEF Elements
    <3>2. PICK m : m = n + 1 - j
      OBVIOUS
    <3>3. m \in 1..n /\ m \in 1..Len(k)
      BY <3>2, <1>0, <1>1
    <3>4. k[m] = k[i]
      BY <3>1, <3>2, <1>5
    <3>5. m = i
      BY <3>3, <3>4, <1>0 DEF NoRepeats
    <3> QED BY <3>3, <3>5
  <2>2. ASSUME i <= n PROVE k[i] \in Elements(b)
    <3>1. n + 1 - i \in 1..n /\ n + 1 - (n + 1 - i) = i
      BY <2>2, <1>0, <1>1
    <3>2. b[n + 1 - i] = k[i]
      BY <3>1, <1>5
    <3> QED BY <3>1, <3>2, <1>5 DEF Elements
  <2> QED BY <2>1, <2>2
<1>9. ASSUME NEW i \in 1..Len(k), ~ (i <= n) PROVE k[i] \in Elements(r)
  <2>1. i - n \in 1..(Len(k) - n) /\ n + (i - n) = i
    BY <1>0, <1>1, <1>9
  <2>2. r[i - n] = k[i]
    BY <2>1, <1>6
  <2> QED BY <2>1, <2>2, <1>6 DEF Elements
<1>10. ASSUME NEW i \in DOMAIN r PROVE n + i \in 1..Len(k) /\ r[i] = k[n + i]
  BY <1>6, <1>7
<1>11. Elements(b) \cap Elements(r) = {}
  <2> SUFFICES ASSUME NEW i \in DOMAIN r, r[i] \in Elements(b) PROVE FALSE
    BY DEF Elements
  <2>1. n + i \in 1..Len(k) /\ r[i] = k[n + i] /\ i \in 1..(Len(k) - n)
    BY <1>6, <1>10
  <2>2. n + i <= n
    BY <2>1, <1>8
  <2> QED BY <2>1, <2>2, <1>0, <1>1
<1>12. Elements(k) = Elements(b) \cup Elements(r)
  <2>1. ASSUME NEW x \in Elements(k) PROVE x \in Elements(b) \cup Elements(r)
    BY <1>0, <1>8, <1>9 DEF Elements
  <2>2. ASSUME NEW x \in Elements(b) PROVE x \in Elements(k)
    <3>1. PICK j \in 1..n : b[j] = x
      BY <1>5 DEF Elements
    <3>2. PICK m : m = n + 1 - j
      OBVIOUS
    <3>3. m \in 1..Len(k)
      BY <3>2, <1>0, <1>1
    <3>4. k[m] = x
      BY <3>1, <3>2, <1>5
    <3> QED BY <3>3, <3>4, <1>0 DEF Elements
  <2>3. ASSUME NEW x \in Elements(r) PROVE x \in Elements(k)
    BY <1>0, <1>10 DEF Elements
  <2> QED BY <2>1, <2>2, <2>3
<1>13. ASSUME NEW i \in DOMAIN b, NEW j \in DOMAIN b, b[i] = b[j] PROVE i = j
  <2>1. /\ k[n + 1 - i] = k[n + 1 - j] /\ n + 1 - i \in 1..Len(k) /\ n + 1 - j \in 1..Len(k)
        /\ i \in 1..n /\ j \in 1..n
    <3>1. i \in 1..n /\ j \in 1..n
      BY <1>5
    <3>2. /\ k[n + 1 - i] = k[n + 1 - j]
          /\ n + 1 - i \in 1..n /\ n + 1 - j \in 1..n
      BY <3>1, <1>5, <1>13
    <3>3. \A x \in 1..n : x \in 1..Len(k)
      BY <1>0, <1>1
    <3> QED BY <3>1, <3>2, <3>3
  <2>2. n + 1 - i = n + 1 - j
    BY <2>1, <1>0 DEF NoRepeats
  <2> QED BY <2>1, <2>2, <1>1
<1>14. ASSUME NEW i \in DOMAIN r, NEW j \in DOMAIN r, r[i] = r[j] PROVE i = j
  <2>1. n + i = n + j /\ i \in Nat /\ j \in Nat
    BY <1>0, <1>6, <1>10, <1>14 DEF NoRepeats
  <2> QED BY <2>1, <1>1
<1> QED BY <1>1, <1>5, <1>6, <1>8, <1>10, <1>11, <1>12, <1>13, <1>14 DEF NoRepeats

LEMMA GottenAccounts ==
  ASSUME NEW q, NEW w, Accounts(q, << >>, w), NEW p \in Priorities, NEW left \in Nat,
         NEW b, b = Batch(q[p], left), NEW g, g = [q EXCEPT ![p] = Rest(q[p], left)]
  PROVE  Accounts(g, b, w) /\ Held(g, b) = Held(q, << >>)
<1>1. /\ q \in Queues /\ w \in Seq(Ids) /\ Apart(q, << >>) /\ NoRepeats(w)
      /\ Elements(w) = Held(q, << >>) /\ InQueueOrder(q, w)
  BY DEF Accounts
<1>2. PICK k, r, n : k = q[p] /\ r = Rest(q[p], left) /\ n = Amount(q[p], left)
  OBVIOUS
<1>3. k \in Seq(JobsOf(p)) /\ NoRepeats(k) /\ DOMAIN k = 1..Len(k) /\ Len(k) \in Nat
  <2>1. k \in Seq(JobsOf(p)) /\ NoRepeats(k)
    BY <1>1, <1>2 DEF Queues, Apart
  <2> QED BY <2>1, LenProperties
<1>4. /\ b \in Seq(JobsOf(p)) /\ r \in Seq(JobsOf(p)) /\ n \in 0..Len(k)
      /\ NoRepeats(b) /\ NoRepeats(r) /\ Elements(b) \cap Elements(r) = {}
      /\ Elements(k) = Elements(b) \cup Elements(r)
      /\ \A i \in 1..Len(k) : k[i] \in Elements(b) <=> i <= n
      /\ \A i \in DOMAIN r : n + i \in 1..Len(k) /\ r[i] = k[n + i]
  BY <1>2, <1>3, BatchParts
<1>5. JobsOf(p) \subseteq Ids
  BY DEF JobsOf, Ids
<1>6. b \in Seq(Ids) /\ r \in Seq(Ids)
  BY <1>4, <1>5, SeqMonotonic
<1>7. g[p] = r /\ (\A o \in Priorities \ {p} : g[o] = q[o]) /\ g \in Queues
  <2>1. q \in [Priorities -> Seq(Ids)] /\ \A o \in Priorities : q[o] \in Seq(JobsOf(o))
    BY <1>1 DEF Queues
  <2>2. g[p] = r /\ (\A o \in Priorities \ {p} : g[o] = q[o]) /\ g \in [Priorities -> Seq(Ids)]
    BY <2>1, <1>2, <1>6
  <2>3. \A o \in Priorities : g[o] \in Seq(JobsOf(o))
    BY <2>1, <2>2, <1>4
  <2> QED BY <2>2, <2>3 DEF Queues
<1>8. Elements(<< >>) = {}
  BY DEF Elements
<1>9. ASSUME NEW o \in Priorities, NEW x \in Elements(q[o]) PROVE PriorityOf(x) = o
  BY <1>1, OneQueueEach
<1>10. Apart(g, b)
  <2>1. ASSUME NEW o \in Priorities \ {p}
        PROVE  NoRepeats(q[o]) /\ Elements(q[o]) \cap Elements(b) = {}
    <3>1. Elements(b) \subseteq Elements(q[p])
      BY <1>2, <1>4
    <3> QED BY <3>1, <1>1, <1>9 DEF Apart
  <2> QED BY <2>1, <1>4, <1>7 DEF Apart
<1>11. Held(g, b) = Held(q, << >>)
  <2>1. CASE p = "Normal"
    BY <2>1, <1>2, <1>4, <1>7, <1>8 DEF Held, Priorities
  <2>2. CASE p = "Low"
    BY <2>2, <1>2, <1>4, <1>7, <1>8 DEF Held, Priorities
  <2> QED BY <2>1, <2>2 DEF Priorities
<1>12. BatchFirst(b, w)
  <2> SUFFICES ASSUME NEW i \in DOMAIN w, NEW m \in DOMAIN w, i < m,
                      PriorityOf(w[i]) = PriorityOf(w[m]), w[m] \in Elements(b)
               PROVE  w[i] \in Elements(b)
    BY DEF BatchFirst
  <2>1. w[m] \in Elements(q[p])
    BY <1>2, <1>4
  <2>2. PriorityOf(w[i]) = p
    BY <2>1, <1>9
  <2>3. \E o \in Priorities : w[i] \in Elements(q[o])
    <3>1. w[i] \in Held(q, << >>)
      BY <1>1 DEF Elements
    <3> QED BY <3>1, <1>8 DEF Held, Priorities
  <2>4. w[i] \in Elements(k)
    BY <2>2, <2>3, <1>2, <1>9
  <2>5. PICK x \in 1..Len(k), y \in 1..Len(k) : k[x] = w[i] /\ k[y] = w[m]
    BY <2>1, <2>4, <1>2, <1>3 DEF Elements
  <2>6. x < y
    BY <2>5, <1>1, <1>2, <1>3 DEF InQueueOrder
  <2>7. y <= n
    BY <2>5, <1>4
  <2>8. x <= n
    BY <2>6, <2>7, <1>4
  <2> QED BY <2>5, <2>8, <1>4
<1>13. InQueueOrder(g, w)
  <2> SUFFICES ASSUME NEW i \in DOMAIN w, NEW m \in DOMAIN w, i < m, NEW o \in Priorities,
                      NEW x \in DOMAIN g[o], NEW y \in DOMAIN g[o], g[o][x] = w[i], g[o][y] = w[m]
               PROVE  x < y
    BY DEF InQueueOrder
  <2>1. CASE o = p
    <3>1. /\ n + x \in 1..Len(k) /\ n + y \in 1..Len(k) /\ k[n + x] = w[i] /\ k[n + y] = w[m]
          /\ x \in Nat /\ y \in Nat /\ n \in Nat
      <4>1. x \in DOMAIN r /\ y \in DOMAIN r /\ r[x] = w[i] /\ r[y] = w[m]
        BY <2>1, <1>7
      <4> QED BY <4>1, <1>4, LenProperties
    <3>2. n + x < n + y
      BY <3>1, <1>1, <1>2, <1>3 DEF InQueueOrder
    <3> QED BY <3>1, <3>2
  <2>2. CASE o # p
    BY <2>2, <1>1, <1>7 DEF InQueueOrder
  <2> QED BY <2>1, <2>2
<1> QED BY <1>1, <1>6, <1>7, <1>10, <1>11, <1>12, <1>13 DEF Accounts
JInv == Accounts(jobs, batch, pending) /\ SleepsSoundly

LEMMA HeldEverywhere ==
  ASSUME TypeOK
  PROVE  /\ Everywhere \in Seq(Ids) /\ Elements(Everywhere) = Held(jobs, batch)
         /\ Apart(jobs, batch) /\ jobs \in Queues => NoRepeats(Everywhere)
<1>1. PICK N, L, b : N = jobs["Normal"] /\ L = jobs["Low"] /\ b = batch
  OBVIOUS
<1>2. N \in Seq(Ids) /\ L \in Seq(Ids) /\ b \in Seq(Ids)
  BY <1>1 DEF TypeOK, Priorities
<1>3. N \o L \in Seq(Ids) /\ Elements(N \o L) = Elements(N) \cup Elements(L)
  BY <1>2, Joined
<1>4. PICK k : k = N \o L
  OBVIOUS
<1>5. k \o b \in Seq(Ids) /\ Elements(k \o b) = Elements(k) \cup Elements(b)
  <2>1. k \in Seq(Ids) /\ b \in Seq(Ids)
    BY <1>2, <1>3, <1>4
  <2> QED BY <2>1, Joined
<1>6. Everywhere = k \o b
  BY <1>1, <1>4 DEF Everywhere
<1>7. ASSUME Apart(jobs, batch), jobs \in Queues PROVE NoRepeats(k \o b)
  <2>1. /\ NoRepeats(N) /\ NoRepeats(L) /\ NoRepeats(b)
        /\ Elements(N) \cap Elements(b) = {} /\ Elements(L) \cap Elements(b) = {}
    BY <1>1, <1>7 DEF Apart, Priorities
  <2>2. Elements(N) \cap Elements(L) = {}
    <3>1. \A x \in Elements(N) : PriorityOf(x) = "Normal"
      BY <1>1, <1>7, OneQueueEach DEF Priorities
    <3>2. \A x \in Elements(L) : PriorityOf(x) = "Low"
      BY <1>1, <1>7, OneQueueEach DEF Priorities
    <3> QED BY <3>1, <3>2
  <2>3. NoRepeats(k)
    BY <2>1, <2>2, <1>2, <1>4, JoinedApart
  <2>4. Elements(k) \cap Elements(b) = {}
    BY <2>1, <1>3, <1>4
  <2> QED BY <2>1, <2>3, <2>4, <1>2, <1>3, <1>4, JoinedApart
<1> QED BY <1>1, <1>3, <1>4, <1>5, <1>6, <1>7 DEF Held

(* Jobs that are added are new to the queues, to the batch, and to what    *)
(* of the batch is still to run.                                           *)
LEMMA AddedJobs ==
  ASSUME NEW q, NEW b, NEW w, Accounts(q, b, w), NEW s \in Additions(Held(q, b))
  PROVE  /\ Accounts(Grown(q, s), b, w \o All(s)) /\ s \in Batches
         /\ Elements(w \o All(s)) = Elements(w) \cup Elements(All(s))
<1>1. s \in Batches /\ Fresh(s, q, b)
  BY AdditionsAreFresh DEF Fresh
<1>2. s["Normal"] \in Seq(Ids) /\ s["Low"] \in Seq(Ids) /\ w \in Seq(Ids)
  BY <1>1 DEF Batches, Priorities, Accounts
<1>3. All(s) \in Seq(Ids)
  BY <1>2, Joined DEF All
<1>4. Elements(w \o All(s)) = Elements(w) \cup Elements(All(s))
  BY <1>2, <1>3, Joined
<1> QED BY <1>1, <1>4, AddedAccounts

LEMMA AdditionsGrow ==
  ASSUME NEW A, NEW B, B \subseteq A
  PROVE  Additions(A) \subseteq Additions(B)
<1>1. \A js, ks : js \subseteq ks => Orders(js) \subseteq Orders(ks)
  <2> SUFFICES ASSUME NEW js, NEW ks, js \subseteq ks, NEW s \in Orders(js) PROVE s \in Orders(ks)
    OBVIOUS
  <2>1. PICK n \in 0..MaxAdds : s \in [1..n -> js]
    BY DEF Orders
  <2>2. s \in [1..n -> ks]
    BY <2>1
  <2> QED BY <2>2 DEF Orders
<1>2. \A js : Orders(js \ A) \subseteq Orders(js \ B)
  BY <1>1
<1> SUFFICES ASSUME NEW s \in Additions(A) PROVE s \in Additions(B)
  OBVIOUS
<1>3. \A p \in Priorities : s[p] \in Orders(JobsOf(p) \ B)
  BY <1>2 DEF Additions
<1>4. \A p \in Priorities :
        s[p] \in Orders(NormalJobs \ B) \cup Orders(LowJobs \ B)
  BY <1>3 DEF JobsOf
<1>5. DOMAIN s = Priorities /\ s = [p \in Priorities |-> s[p]]
  BY DEF Additions
<1>6. s \in [Priorities -> Orders(NormalJobs \ B) \cup Orders(LowJobs \ B)]
  BY <1>4, <1>5
<1> QED BY <1>3, <1>6 DEF Additions

LEMMA InitJInv == Init => JInv
<1> SUFFICES ASSUME Init PROVE JInv
  OBVIOUS
<1>1. Elements(<< >>) = {} /\ NoRepeats(<< >>)
  BY DEF Elements, NoRepeats
<1>2. jobs \in Queues /\ \A p \in Priorities : jobs[p] = << >>
  BY InitIInv DEF IInv, TypeOK, Queues, Init
<1>3. Accounts(jobs, batch, pending)
  <2>1. batch = << >> /\ pending = << >> /\ << >> \in Seq(Ids)
    BY EmptySeq DEF Init
  <2>2. Held(jobs, batch) = {}
    BY <1>1, <1>2, <2>1 DEF Held, Priorities
  <2>3. Apart(jobs, batch)
    BY <1>1, <1>2, <2>1 DEF Apart
  <2>4. BatchFirst(batch, pending) /\ InQueueOrder(jobs, pending)
    BY <2>1 DEF BatchFirst, InQueueOrder
  <2> QED BY <1>1, <1>2, <2>1, <2>2, <2>3, <2>4 DEF Accounts
<1> QED BY <1>1, <1>3 DEF JInv, SleepsSoundly, Init

LEMMA NextJInv == IInv /\ JInv /\ [Next]_vars => JInv'
<1> SUFFICES ASSUME IInv, JInv, [Next]_vars PROVE JInv'
  OBVIOUS
<1>1. CASE UNCHANGED vars
  BY <1>1 DEF vars, queueVars, schedulerVars, history, JInv, SleepsSoundly
<1>2. /\ TypeOK /\ Accounts(jobs, batch, pending)
      /\ Elements(Everywhere) = Held(jobs, batch)
      /\ Elements(<< >>) = {} /\ NoRepeats(<< >>) /\ << >> \in Seq(Ids)
  BY HeldEverywhere, EmptySeq DEF IInv, JInv, Elements, NoRepeats
<1>3. PICK q, b, w : q = jobs /\ b = batch /\ w = pending
  OBVIOUS
<1>4. Accounts(q, b, w) /\ Elements(Everywhere) = Held(q, b)
  BY <1>2, <1>3
<1>5. ASSUME NEW s \in Additions(Elements(Everywhere)), NEW i \in BOOLEAN,
             AddOutside(s, i)
      PROVE  JInv'
  <2>1. /\ Accounts(Grown(q, s), b, w \o All(s))
        /\ Elements(w \o All(s)) = Elements(w) \cup Elements(All(s))
    BY <1>4, AddedJobs
  <2>2. /\ jobs' = Grown(q, s) /\ batch' = b /\ pending' = w \o All(s)
        /\ phase' = phase /\ uncaught_exception' = uncaught_exception
        /\ ~awake' => ~awake /\ late' = late \cup Elements(All(s))
    BY <1>2, <1>3, <1>5 DEF AddOutside, Added, Grown, TypeOK
  <2>3. SleepsSoundly'
    BY <1>3, <2>1, <2>2 DEF JInv, SleepsSoundly
  <2> QED BY <2>1, <2>2, <2>3 DEF JInv
<1>6. ASSUME NEW s \in Additions(Elements(Everywhere)), StartCycle(s) PROVE JInv'
  <2>1. Accounts(Grown(q, s), b, w \o All(s))
    BY <1>4, AddedJobs
  <2>2. jobs' = Grown(q, s) /\ batch' = b /\ pending' = w \o All(s) /\ phase' = "cycle"
    BY <1>3, <1>6 DEF StartCycle, Added, Grown
  <2> QED BY <2>1, <2>2 DEF JInv, SleepsSoundly
(* the batch is empty, or forgotten *)
<1>7. PICK v : v = Without(w, Elements(b))
  OBVIOUS
<1>8. /\ Accounts(q, << >>, v) /\ Held(q, << >>) = Held(q, b) \ Elements(b)
      /\ Elements(v) = Held(q, << >>)
  <2>1. PICK c, js : c = << >> /\ js = Elements(b)
    OBVIOUS
  <2>2a. /\ Elements(c) = Elements(b) \ js /\ js \subseteq Elements(b)
        /\ c \in Seq(Ids) /\ NoRepeats(c) /\ v = Without(w, js) /\ Accounts(q, b, w)
    BY <1>2, <1>4, <1>7, <2>1
  <2>2b. Accounts(q, c, v) /\ Held(q, c) = Held(q, b) \ js
    BY <2>2a, TakenAccounts
  <2>2. Accounts(q, << >>, v) /\ Held(q, << >>) = Held(q, b) \ Elements(b)
    BY <2>1, <2>2b
  <2> QED BY <2>2 DEF Accounts
<1>9. ASSUME NEW s \in Additions(Elements(Everywhere)), NEW i \in BOOLEAN, EndCycle(s, i)
      PROVE  JInv'
  <2>1. s \in Additions(Held(q, << >>))
    <3>1. \A A, B : B \subseteq A => Additions(A) \subseteq Additions(B)
      BY AdditionsGrow
    <3> QED BY <1>4, <1>8, <1>9, <3>1
  <2>2. /\ Accounts(Grown(q, s), << >>, v \o All(s))
        /\ Elements(v \o All(s)) = Elements(v) \cup Elements(All(s))
    BY <1>8, <2>1, AddedJobs
  <2>3. /\ jobs' = Grown(q, s) /\ batch' = << >> /\ pending' = v \o All(s)
    BY <1>3, <1>7, <1>9 DEF EndCycle, Added, Grown
  <2>4. ASSUME ~awake' PROVE Elements(pending') \subseteq late'
    <3>1. IsEmpty(jobs) /\ late' = Elements(All(s))
      BY <1>9, <2>4 DEF EndCycle, Remains
    <3>2. \A p \in Priorities : q[p] = << >>
      BY <1>3, <3>1 DEF IsEmpty
    <3>3. Held(q, << >>) = {}
      BY <3>2, <1>2 DEF Held, Priorities
    <3> QED BY <3>1, <3>3, <1>8, <2>2, <2>3
  <2> QED BY <2>2, <2>3, <2>4 DEF JInv, SleepsSoundly
<1>10. ASSUME GetBatch PROVE JInv'
  <2>1. PICK p \in Priorities : p = Source
    BY DEF Source, GetsFrom, Priorities
  <2>2. PICK left \in Nat : left = jobs_left_this_cycle[p]
    BY <1>2, <2>1 DEF TypeOK
  <2>3. /\ batch' = Batch(q[p], left) /\ jobs' = [q EXCEPT ![p] = Rest(q[p], left)]
        /\ pending' = v /\ phase' = "cycle"
    BY <1>3, <1>7, <1>10, <2>1, <2>2 DEF GetBatch
  <2>4. PICK c, g : c = Batch(q[p], left) /\ g = [q EXCEPT ![p] = Rest(q[p], left)]
    OBVIOUS
  <2>5. Accounts(g, c, v)
    BY <1>8, <2>4, GottenAccounts
  <2> QED BY <2>3, <2>4, <2>5 DEF JInv, SleepsSoundly
<1>11. ASSUME batch # << >>, NEW s \in Additions(Elements(Everywhere) \ {Head(batch)}),
              NEW m \in Quotas, NEW raises \in BOOLEAN, RunJob(s, m, raises)
       PROVE  JInv'
  <2>1. PICK j, c, u : j = Head(b) /\ c = Tail(b) /\ u = Without(w, {j})
    OBVIOUS
  <2>2. b \in Seq(Ids) /\ b # << >> /\ NoRepeats(b)
    BY <1>3, <1>4, <1>11 DEF Accounts, Apart
  <2>3. c \in Seq(Ids) /\ NoRepeats(c) /\ Elements(c) = Elements(b) \ {j} /\ j \in Elements(b)
    BY <2>1, <2>2, TailWithoutHead
  <2>4. Accounts(q, c, u) /\ Held(q, c) = Held(q, b) \ {j}
    <3>1. PICK js : js = {j}
      OBVIOUS
    <3>2. /\ Elements(c) = Elements(b) \ js /\ js \subseteq Elements(b)
          /\ c \in Seq(Ids) /\ NoRepeats(c) /\ u = Without(w, js) /\ Accounts(q, b, w)
      BY <1>4, <2>1, <2>3, <3>1
    <3>3. Accounts(q, c, u) /\ Held(q, c) = Held(q, b) \ js
      BY <3>2, TakenAccounts
    <3> QED BY <3>1, <3>3
  <2>5. s \in Additions(Held(q, c))
    BY <1>3, <1>4, <1>11, <2>1, <2>4
  <2>6. Accounts(Grown(q, s), c, u \o All(s))
    BY <2>4, <2>5, AddedJobs
  <2>7. /\ jobs' = Grown(q, s) /\ batch' = c /\ pending' = u \o All(s) /\ phase' = "cycle"
    BY <1>3, <1>11, <2>1 DEF RunJob, Added, Grown
  <2> QED BY <2>6, <2>7 DEF JInv, SleepsSoundly
<1> QED BY <1>1, <1>5, <1>6, <1>9, <1>10, <1>11 DEF Next, RunCycle, InCycle

LEMMA Accounted == IInv /\ JInv => JobsInvariant
<1> SUFFICES ASSUME IInv, JInv PROVE JobsInvariant
  OBVIOUS
<1>1. /\ Accounts(jobs, batch, pending) /\ TypeOK /\ SleepsSoundly
      /\ pending \in Seq(Ids) /\ NoRepeats(pending) /\ Elements(pending) = Held(jobs, batch)
      /\ Apart(jobs, batch) /\ jobs \in Queues
  BY DEF JInv, Accounts, IInv
<1>2. /\ Everywhere \in Seq(Ids) /\ NoRepeats(Everywhere)
      /\ Elements(Everywhere) = Elements(pending)
  BY <1>1, HeldEverywhere
<1>3. Len(Everywhere) = Len(pending)
  <2>1. PICK e, w : e = Everywhere /\ w = pending
    OBVIOUS
  <2>2. Cardinality(Elements(e)) = Len(e) /\ Cardinality(Elements(w)) = Len(w)
    BY <1>1, <1>2, <2>1, LengthOfSet
  <2> QED BY <1>2, <2>1, <2>2
<1> QED BY <1>1, <1>2, <1>3 DEF JobsInvariant, JobsAccounted

(* Every job that was added and has not started is in one queue or in the  *)
(* batch, once, whatever jobs are added by whom and when (Jobs.get,        *)
(* do_batch and run_cycle); and when the select loop may sleep, those that *)
(* there are were added after run_cycle looked, by code that did not       *)
(* interrupt the loop.                                                     *)
THEOREM JobsAreAccounted == Spec => []JobsInvariant
<1>1. IInv /\ JInv => JobsInvariant
  BY Accounted
<1> QED
  BY <1>1, InitIInv, NextIInv, InitJInv, NextJInv, PTL DEF Spec

(* A job that do_batch starts while an older job of its priority has not   *)
(* been started shares its batch with that older job (Jobs.get takes a     *)
(* batch in reverse).                                                      *)
THEOREM BatchesAreInOrder == Spec => OvertakenInBatchOnly
<1> DEFINE InBatch == \A j, k \in Elements(pending) :
             Before(j, k) /\ PriorityOf(j) = PriorityOf(k)
               /\ batch # << >> /\ k = Head(batch) /\ batch' = Tail(batch) =>
             j \in Elements(batch)
<1>1. IInv /\ JInv => InBatch
  <2> SUFFICES ASSUME JInv, NEW j, NEW k, Before(j, k), PriorityOf(j) = PriorityOf(k),
                      batch # << >>, k = Head(batch)
               PROVE  j \in Elements(batch)
    OBVIOUS
  <2>1. batch \in Seq(Ids) /\ BatchFirst(batch, pending)
    BY DEF JInv, Accounts
  <2>2. k \in Elements(batch)
    BY <2>1 DEF Elements
  <2>3. PICK i \in DOMAIN pending, n \in DOMAIN pending :
          i < n /\ pending[i] = j /\ pending[n] = k
    BY DEF Before
  <2> QED BY <2>1, <2>2, <2>3 DEF BatchFirst
<1>2. IInv /\ JInv => [InBatch]_vars
  BY <1>1
<1> QED
  BY <1>2, InitIInv, NextIInv, InitJInv, NextJInv, PTL DEF Spec, OvertakenInBatchOnly
-----------------------------------------------------------------------------
(* The threads: what raw_scheduler.ml counts of them and what In_thread    *)
(* does with them.                                                         *)

(* Reservations res and blocked threads blk of the groups G, nr and nb in  *)
(* all.  A group reserves more than its minimum only while it uses all.    *)
Counts(G, nr, nb, res, blk) ==
  /\ G \subseteq Groups /\ IsFiniteSet(G)
  /\ res \in [Groups -> Nat] /\ blk \in [Groups -> Nat]
  /\ nr = Cardinality(Slots(res, G)) /\ nr <= MaxLive
  /\ nb = Cardinality(Slots(blk, G))
  /\ \A g \in G : /\ MinReserved[g] <= res[g] /\ res[g] <= MaxReserved[g]
                  /\ blk[g] <= res[g] /\ (res[g] > MinReserved[g] => blk[g] = res[g])
  /\ \A g \in Groups \ G : blk[g] = 0

(* A work that was handed to run, and whose home hm is therefore a group,  *)
(* is in one place at most: the pool's queue q, its threads r, its group's *)
(* queue, or the queue or the hands of one helper thread.                  *)
Busy(q, r) == r \cup Elements(q)
InPool(q, r, hm, G) ==
  /\ q \in Seq(Works) /\ NoRepeats(q) /\ r \subseteq Works /\ IsFiniteSet(r)
  /\ Elements(q) \cap r = {}
  /\ hm \in [Works -> G \cup {None}]
  /\ \A w \in Busy(q, r) : hm[w] # None
InGroups(wk, q, r, hm) ==
  /\ wk \in [Groups -> Seq(Works)]
  /\ \A g \in Groups : NoRepeats(wk[g])
  /\ \A g \in Groups : \A w \in Elements(wk[g]) : hm[w] = g /\ w \notin Busy(q, r)
InHelper(hq, hr, h) == Elements(hq[h]) \cup hr[h]
InHelpers(hq, hr, wk, q, r, hm) ==
  /\ hq \in [Helpers -> Seq(Works)] /\ hr \in [Helpers -> SUBSET Works]
  /\ \A h \in Helpers : /\ NoRepeats(hq[h]) /\ hr[h] \cap Elements(hq[h]) = {}
                        /\ \A w, v \in hr[h] : w = v
  /\ \A h \in Helpers : \A w \in InHelper(hq, hr, h) :
       /\ hm[w] # None /\ w \notin Busy(q, r)
       /\ \A g \in Groups : w \notin Elements(wk[g])
       /\ \A k \in Helpers : w \in InHelper(hq, hr, k) => k = h

(* The helper threads hp: those that are alive have a group and, alone,    *)
(* works.                                                                  *)
In(hp, s) == {h \in Helpers : hp[h].state = s}
Crew(hp, hq, hr, G) ==
  /\ hp \in [Helpers -> [state : HelperStates, group : Groups \cup {None}]]
  /\ IsFiniteSet(In(hp, "alive")) /\ IsFiniteSet(In(hp, "finished"))
  /\ \A h \in In(hp, "alive") : hp[h].group \in G
  /\ \A h \in Helpers : h \notin In(hp, "alive") => hq[h] = << >> /\ hr[h] = {}

Occ(q, r, hm, hp, g) ==
  {w \in Busy(q, r) : hm[w] = g} \cup {h \in In(hp, "alive") : hp[h].group = g}
Occupied(G, blk, q, r, hm, hp) ==
  \A g \in G : blk[g] = Cardinality(Occ(q, r, hm, hp, g))

(* The live threads nl are np threads of the pool and the helpers', the    *)
(* blocked threads nb those of the pool's works and of the helpers.        *)
Alive(nb, nl, np, q, r, hp) ==
  /\ np \in Nat /\ nl <= MaxLive
  /\ nl = np + Cardinality(In(hp, "alive")) + Cardinality(In(hp, "finished"))
  /\ nb = Len(q) + Cardinality(r) + Cardinality(In(hp, "alive"))

PoolIInv ==
  /\ Counts(groups, numReserved, numBlocked, reserved, blocked)
  /\ InPool(workForThreads, running, home, groups)
  /\ InGroups(work, workForThreads, running, home)
  /\ InHelpers(helperQueue, helperRuns, work, workForThreads, running, home)
  /\ Crew(helper, helperQueue, helperRuns, groups)
  /\ Occupied(groups, blocked, workForThreads, running, home, helper)
  /\ Alive(numBlocked, numLive, numPool, workForThreads, running, helper)
-----------------------------------------------------------------------------
(* Sums over the groups.                                                   *)
LEMMA SlotsFinite ==
  ASSUME NEW G, IsFiniteSet(G), NEW f, \A g \in G : f[g] \in Nat
  PROVE  IsFiniteSet(Slots(f, G)) /\ Cardinality(Slots(f, G)) \in Nat
<1>1. PICK P : P = {{g} \X (1..f[g]) : g \in G}
  OBVIOUS
<1>2. PICK F : F = [g \in G |-> {g} \X (1..f[g])]
  OBVIOUS
<1>3. F \in Surjection(G, P)
  BY <1>1, <1>2 DEF Surjection
<1>4. IsFiniteSet(P)
  BY <1>3, FS_Surjection
<1>5. ASSUME NEW g \in G PROVE IsFiniteSet({g} \X (1..f[g]))
  <2>1. PICK k \in Nat : k = f[g]
    OBVIOUS
  <2>2. IsFiniteSet({g})
    BY FS_Singleton
  <2>3. IsFiniteSet(1..k)
    BY FS_Interval
  <2> QED BY <2>1, <2>2, <2>3, FS_Product
<1>6. \A T \in P : IsFiniteSet(T)
  BY <1>1, <1>5
<1>7. IsFiniteSet(UNION P)
  BY <1>4, <1>6, FS_UNION
<1> QED BY <1>1, <1>7, FS_CardinalityType DEF Slots

LEMMA SlotsSplit ==
  ASSUME NEW G, IsFiniteSet(G), NEW g \in G, NEW f, \A h \in G : f[h] \in Nat
  PROVE  Cardinality(Slots(f, G)) = Cardinality(Slots(f, G \ {g})) + f[g]
<1>1. PICK H : H = G \ {g}
  OBVIOUS
<1>2. IsFiniteSet(H) /\ \A h \in H : f[h] \in Nat
  BY <1>1, FS_RemoveElement
<1>3. IsFiniteSet(Slots(f, H)) /\ Cardinality(Slots(f, H)) \in Nat
  BY <1>2, SlotsFinite
<1>4. PICK S : S = {g} \X (1..f[g])
  OBVIOUS
<1>5. IsFiniteSet(S) /\ Cardinality(S) = f[g]
  <2>1. PICK k \in Nat : k = f[g]
    OBVIOUS
  <2>2. IsFiniteSet({g}) /\ Cardinality({g}) = 1
    BY FS_Singleton
  <2>3. IsFiniteSet(1..k) /\ Cardinality(1..k) = k
    BY FS_Interval
  <2>4. IsFiniteSet(S) /\ Cardinality(S) = 1 * k
    BY <1>4, <2>1, <2>2, <2>3, FS_Product
  <2> QED BY <2>1, <2>4
<1>6. Slots(f, G) = Slots(f, H) \cup S
  BY <1>1, <1>4 DEF Slots
<1>7. Slots(f, H) \cap S = {}
  BY <1>1, <1>4 DEF Slots
<1>8. Cardinality(Slots(f, H) \cap S) = 0
  BY <1>7, FS_EmptySet
<1>9. Cardinality(Slots(f, H) \cup S) = Cardinality(Slots(f, H)) + Cardinality(S) - 0
  BY <1>3, <1>5, <1>8, FS_Union
<1> QED BY <1>1, <1>3, <1>5, <1>6, <1>9

LEMMA SlotsSame ==
  ASSUME NEW G, NEW f, NEW e, \A g \in G : f[g] = e[g]
  PROVE  Slots(f, G) = Slots(e, G)
BY DEF Slots

LEMMA SlotsBelow ==
  ASSUME NEW G, IsFiniteSet(G), NEW f, NEW e,
         \A g \in G : f[g] \in Nat /\ e[g] \in Nat /\ f[g] <= e[g]
  PROVE  Cardinality(Slots(f, G)) <= Cardinality(Slots(e, G))
<1>1. Slots(f, G) \subseteq Slots(e, G)
  <2> SUFFICES ASSUME NEW x \in Slots(f, G) PROVE x \in Slots(e, G)
    OBVIOUS
  <2>1. PICK g \in G : x \in {g} \X (1..f[g])
    BY DEF Slots
  <2>2. x \in {g} \X (1..e[g])
    BY <2>1
  <2> QED BY <2>2 DEF Slots
<1>2. IsFiniteSet(Slots(e, G))
  BY SlotsFinite
<1> QED BY <1>1, <1>2, FS_Subset

(* f and e are the same but for g.                                         *)
OffOne(f, g, e) == \A h \in Groups : h # g => e[h] = f[h]

LEMMA SlotsChanged ==
  ASSUME NEW G \in SUBSET Groups, IsFiniteSet(G), NEW g \in G, NEW f \in [Groups -> Nat],
         NEW e \in [Groups -> Nat], OffOne(f, g, e)
  PROVE  Cardinality(Slots(e, G)) = Cardinality(Slots(f, G)) - f[g] + e[g]
<1>1. PICK H : H = G \ {g}
  OBVIOUS
<1>2. IsFiniteSet(H) /\ \A h \in H : f[h] \in Nat
  BY <1>1, FS_RemoveElement
<1>3. Cardinality(Slots(f, H)) \in Nat
  BY <1>2, SlotsFinite
<1>4. Slots(f, H) = Slots(e, H)
  <2>1. \A h \in H : f[h] = e[h]
    BY <1>1 DEF OffOne
  <2> QED BY <2>1, SlotsSame
<1>5. /\ Cardinality(Slots(f, G)) = Cardinality(Slots(f, H)) + f[g]
      /\ Cardinality(Slots(e, G)) = Cardinality(Slots(e, H)) + e[g]
  BY <1>1, SlotsSplit
<1>6. f[g] \in Nat /\ e[g] \in Nat
  OBVIOUS
<1> QED BY <1>3, <1>4, <1>5, <1>6
-----------------------------------------------------------------------------
LEMMA CountsHold ==
  ASSUME NEW G, NEW nr, NEW nb, NEW res, NEW blk, Counts(G, nr, nb, res, blk)
  PROVE  /\ nr \in Nat /\ nb \in Nat /\ MaxLive \in Nat /\ nb <= nr /\ nb <= MaxLive
         /\ \A g \in G : /\ g \in Groups /\ res[g] \in Nat /\ blk[g] \in Nat
                         /\ MinReserved[g] \in Nat /\ MaxReserved[g] \in Nat
<1>1. /\ G \subseteq Groups /\ IsFiniteSet(G)
      /\ res \in [Groups -> Nat] /\ blk \in [Groups -> Nat]
      /\ nr = Cardinality(Slots(res, G)) /\ nr <= MaxLive
      /\ nb = Cardinality(Slots(blk, G))
      /\ \A g \in G : blk[g] <= res[g]
  BY DEF Counts
<1>2. \A g \in G : res[g] \in Nat /\ blk[g] \in Nat
  BY <1>1
<1>3. nr \in Nat /\ nb \in Nat
  BY <1>1, <1>2, SlotsFinite
<1>4. nb <= nr
  BY <1>1, <1>2, SlotsBelow
<1> QED BY <1>1, <1>2, <1>3, <1>4, ThreadPoolAssumption

(* A thread is reserved (i = 1) or not, and handed out.                    *)
LEMMA CountsTaken ==
  ASSUME NEW G, NEW nr, NEW nb, NEW res, NEW blk, Counts(G, nr, nb, res, blk), NEW g \in G,
         NEW i, \/ i = 0 /\ blk[g] < res[g]
                \/ i = 1 /\ ~(blk[g] < res[g]) /\ nr < MaxLive /\ res[g] < MaxReserved[g],
         NEW s \in [Groups -> Nat], OffOne(res, g, s), s[g] = res[g] + i,
         NEW k \in [Groups -> Nat], OffOne(blk, g, k), k[g] = blk[g] + 1
  PROVE  Counts(G, nr + i, nb + 1, s, k)
<1>1. /\ G \subseteq Groups /\ IsFiniteSet(G)
      /\ res \in [Groups -> Nat] /\ blk \in [Groups -> Nat]
      /\ nr = Cardinality(Slots(res, G)) /\ nr <= MaxLive
      /\ nb = Cardinality(Slots(blk, G))
      /\ \A h \in G : /\ MinReserved[h] <= res[h] /\ res[h] <= MaxReserved[h]
                      /\ blk[h] <= res[h] /\ (res[h] > MinReserved[h] => blk[h] = res[h])
      /\ \A h \in Groups \ G : blk[h] = 0
  BY DEF Counts
<1>2. /\ nr \in Nat /\ nb \in Nat /\ MaxLive \in Nat
      /\ res[g] \in Nat /\ blk[g] \in Nat /\ MinReserved[g] \in Nat /\ MaxReserved[g] \in Nat
      /\ i \in {0, 1}
  BY CountsHold
<1>3. Cardinality(Slots(s, G)) = nr - res[g] + s[g]
  BY <1>1, SlotsChanged
<1>4. Cardinality(Slots(k, G)) = nb - blk[g] + k[g]
  BY <1>1, SlotsChanged
<1>5. nr + i = Cardinality(Slots(s, G)) /\ nr + i <= MaxLive /\ nb + 1 = Cardinality(Slots(k, G))
  BY <1>1, <1>2, <1>3, <1>4
<1>6. /\ MinReserved[g] <= s[g] /\ s[g] <= MaxReserved[g]
      /\ k[g] <= s[g] /\ (s[g] > MinReserved[g] => k[g] = s[g])
  BY <1>1, <1>2
<1>7. \A h \in Groups : h # g => s[h] = res[h] /\ k[h] = blk[h]
  BY DEF OffOne
<1>8. \A h \in G : /\ MinReserved[h] <= s[h] /\ s[h] <= MaxReserved[h]
                   /\ k[h] <= s[h] /\ (s[h] > MinReserved[h] => k[h] = s[h])
  BY <1>1, <1>6, <1>7
<1>9. \A h \in Groups \ G : k[h] = 0
  BY <1>1, <1>7
<1> QED BY <1>1, <1>5, <1>8, <1>9 DEF Counts

(* A thread is given back, and its reservation (i = 1) or not.             *)
LEMMA CountsGiven ==
  ASSUME NEW G, NEW nr, NEW nb, NEW res, NEW blk, Counts(G, nr, nb, res, blk), NEW g \in G,
         blk[g] > 0, NEW i, i = IF res[g] > MinReserved[g] THEN 1 ELSE 0,
         NEW s \in [Groups -> Nat], OffOne(res, g, s), s[g] = res[g] - i,
         NEW k \in [Groups -> Nat], OffOne(blk, g, k), k[g] = blk[g] - 1
  PROVE  Counts(G, nr - i, nb - 1, s, k)
<1>1. /\ G \subseteq Groups /\ IsFiniteSet(G)
      /\ res \in [Groups -> Nat] /\ blk \in [Groups -> Nat]
      /\ nr = Cardinality(Slots(res, G)) /\ nr <= MaxLive
      /\ nb = Cardinality(Slots(blk, G))
      /\ \A h \in G : /\ MinReserved[h] <= res[h] /\ res[h] <= MaxReserved[h]
                      /\ blk[h] <= res[h] /\ (res[h] > MinReserved[h] => blk[h] = res[h])
      /\ \A h \in Groups \ G : blk[h] = 0
  BY DEF Counts
<1>2. /\ nr \in Nat /\ nb \in Nat /\ MaxLive \in Nat
      /\ res[g] \in Nat /\ blk[g] \in Nat /\ MinReserved[g] \in Nat /\ MaxReserved[g] \in Nat
      /\ i \in {0, 1}
  BY CountsHold
<1>3. Cardinality(Slots(s, G)) = nr - res[g] + s[g]
  BY <1>1, SlotsChanged
<1>4. Cardinality(Slots(k, G)) = nb - blk[g] + k[g]
  BY <1>1, SlotsChanged
<1>5. nr - i = Cardinality(Slots(s, G)) /\ nr - i <= MaxLive /\ nb - 1 = Cardinality(Slots(k, G))
  BY <1>1, <1>2, <1>3, <1>4
<1>6. /\ MinReserved[g] <= s[g] /\ s[g] <= MaxReserved[g]
      /\ k[g] <= s[g] /\ (s[g] > MinReserved[g] => k[g] = s[g])
  BY <1>1, <1>2
<1>7. \A h \in Groups : h # g => s[h] = res[h] /\ k[h] = blk[h]
  BY DEF OffOne
<1>8. \A h \in G : /\ MinReserved[h] <= s[h] /\ s[h] <= MaxReserved[h]
                   /\ k[h] <= s[h] /\ (s[h] > MinReserved[h] => k[h] = s[h])
  BY <1>1, <1>6, <1>7
<1>9. \A h \in Groups \ G : k[h] = 0
  BY <1>1, <1>7
<1> QED BY <1>1, <1>5, <1>8, <1>9 DEF Counts

(* A group is created, and one that no work and no helper refers to goes.  *)
LEMMA CountsGrown ==
  ASSUME NEW G, NEW nr, NEW nb, NEW res, NEW blk, Counts(G, nr, nb, res, blk),
         NEW g \in Groups \ G, nr + MinReserved[g] <= MaxLive,
         NEW s \in [Groups -> Nat], OffOne(res, g, s), s[g] = MinReserved[g],
         NEW H, H = G \cup {g}
  PROVE  Counts(H, nr + MinReserved[g], nb, s, blk)
<1>1. /\ G \subseteq Groups /\ IsFiniteSet(G)
      /\ res \in [Groups -> Nat] /\ blk \in [Groups -> Nat]
      /\ nr = Cardinality(Slots(res, G)) /\ nb = Cardinality(Slots(blk, G))
      /\ \A h \in G : /\ MinReserved[h] <= res[h] /\ res[h] <= MaxReserved[h]
                      /\ blk[h] <= res[h] /\ (res[h] > MinReserved[h] => blk[h] = res[h])
      /\ \A h \in Groups \ G : blk[h] = 0
  BY DEF Counts
<1>2. /\ nr \in Nat /\ nb \in Nat /\ MinReserved[g] \in Nat /\ MaxReserved[g] \in Nat
      /\ MinReserved[g] <= MaxReserved[g]
  BY CountsHold, ThreadPoolAssumption
<1>3. H \subseteq Groups /\ IsFiniteSet(H) /\ g \in H /\ H \ {g} = G
  BY <1>1, FS_AddElement
<1>4. \A h \in G : s[h] = res[h]
  BY <1>1 DEF OffOne
<1>5. Slots(s, G) = Slots(res, G)
  BY <1>4, SlotsSame
<1>6. /\ Cardinality(Slots(s, H)) = Cardinality(Slots(s, G)) + s[g]
      /\ Cardinality(Slots(blk, H)) = Cardinality(Slots(blk, G)) + blk[g]
  <2>1. \A h \in H : s[h] \in Nat /\ blk[h] \in Nat
    BY <1>1, <1>3
  <2> QED BY <2>1, <1>3, SlotsSplit
<1>7. nr + MinReserved[g] = Cardinality(Slots(s, H)) /\ nb = Cardinality(Slots(blk, H))
  BY <1>1, <1>2, <1>5, <1>6
<1>8. /\ MinReserved[g] <= s[g] /\ s[g] <= MaxReserved[g]
      /\ blk[g] <= s[g] /\ (s[g] > MinReserved[g] => blk[g] = s[g])
  BY <1>1, <1>2
<1>9. \A h \in H : /\ MinReserved[h] <= s[h] /\ s[h] <= MaxReserved[h]
                   /\ blk[h] <= s[h] /\ (s[h] > MinReserved[h] => blk[h] = s[h])
  BY <1>1, <1>4, <1>8
<1>10. \A h \in Groups \ H : blk[h] = 0
  BY <1>1
<1> QED BY <1>1, <1>3, <1>7, <1>9, <1>10 DEF Counts

LEMMA CountsShrunk ==
  ASSUME NEW G, NEW nr, NEW nb, NEW res, NEW blk, Counts(G, nr, nb, res, blk),
         NEW g \in G, blk[g] = 0, NEW s \in [Groups -> Nat], OffOne(res, g, s),
         NEW H, H = G \ {g}
  PROVE  Counts(H, nr - res[g], nb, s, blk)
<1>1. /\ G \subseteq Groups /\ IsFiniteSet(G)
      /\ res \in [Groups -> Nat] /\ blk \in [Groups -> Nat]
      /\ nr = Cardinality(Slots(res, G)) /\ nr <= MaxLive /\ nb = Cardinality(Slots(blk, G))
      /\ \A h \in G : /\ MinReserved[h] <= res[h] /\ res[h] <= MaxReserved[h]
                      /\ blk[h] <= res[h] /\ (res[h] > MinReserved[h] => blk[h] = res[h])
      /\ \A h \in Groups \ G : blk[h] = 0
  BY DEF Counts
<1>2. nr \in Nat /\ nb \in Nat /\ MaxLive \in Nat /\ res[g] \in Nat
  BY CountsHold
<1>3. H \subseteq G /\ IsFiniteSet(H)
  BY <1>1, FS_RemoveElement
<1>4. \A h \in H : s[h] = res[h]
  BY <1>1 DEF OffOne
<1>5. Slots(s, H) = Slots(res, H)
  BY <1>4, SlotsSame
<1>6. /\ Cardinality(Slots(res, G)) = Cardinality(Slots(res, H)) + res[g]
      /\ Cardinality(Slots(blk, G)) = Cardinality(Slots(blk, H)) + blk[g]
  <2>1. \A h \in G : res[h] \in Nat /\ blk[h] \in Nat
    BY <1>1
  <2> QED BY <2>1, <1>1, SlotsSplit
<1>7. Cardinality(Slots(res, H)) \in Nat /\ Cardinality(Slots(blk, H)) \in Nat
  <2>1. \A h \in H : res[h] \in Nat /\ blk[h] \in Nat
    BY <1>1, <1>3
  <2> QED BY <2>1, <1>3, SlotsFinite
<1>8. /\ nr - res[g] = Cardinality(Slots(s, H)) /\ nr - res[g] <= MaxLive
      /\ nb = Cardinality(Slots(blk, H))
  BY <1>1, <1>2, <1>5, <1>6, <1>7
<1>9. \A h \in H : /\ MinReserved[h] <= s[h] /\ s[h] <= MaxReserved[h]
                   /\ blk[h] <= s[h] /\ (s[h] > MinReserved[h] => blk[h] = s[h])
  BY <1>1, <1>3, <1>4
<1>10. \A h \in Groups \ H : blk[h] = 0
  BY <1>1
<1> QED BY <1>1, <1>3, <1>8, <1>9, <1>10 DEF Counts
-----------------------------------------------------------------------------
LEMMA ThreadTaken ==
  ASSUME PoolIInv, NEW g \in groups, GetThread(g)
  PROVE  /\ Counts(groups, numReserved', numBlocked', reserved', blocked')
         /\ numBlocked' = numBlocked + 1
         /\ OffOne(blocked, g, blocked') /\ blocked'[g] = blocked[g] + 1
<1>1. PICK nr, nb, res, blk, s, k, G :
        /\ nr = numReserved /\ nb = numBlocked /\ res = reserved /\ blk = blocked
        /\ s = reserved' /\ k = blocked' /\ G = groups
  OBVIOUS
<1>2. Counts(G, nr, nb, res, blk) /\ G \subseteq Groups
      /\ res \in [Groups -> Nat] /\ blk \in [Groups -> Nat]
      /\ blk[g] <= res[g]
  BY <1>1 DEF PoolIInv, Counts
<1>3. res[g] \in Nat /\ blk[g] \in Nat
  BY <1>1, <1>2
<1>4. PICK i : i = IF blk[g] < res[g] THEN 0 ELSE 1
  OBVIOUS
<1>5. /\ numReserved' = nr + i /\ numBlocked' = nb + 1
      /\ s = [res EXCEPT ![g] = @ + i] /\ k = [blk EXCEPT ![g] = @ + 1]
  BY <1>1, <1>4 DEF GetThread, HasSpare, DeltaReserved, DeltaBlocked
<1>6. /\ s \in [Groups -> Nat] /\ OffOne(res, g, s) /\ s[g] = res[g] + i
      /\ k \in [Groups -> Nat] /\ OffOne(blk, g, k) /\ k[g] = blk[g] + 1
  BY <1>1, <1>2, <1>3, <1>4, <1>5 DEF OffOne
<1>7. \/ i = 0 /\ blk[g] < res[g]
      \/ i = 1 /\ ~(blk[g] < res[g]) /\ nr < MaxLive /\ res[g] < MaxReserved[g]
  BY <1>1, <1>4 DEF GetThread, ThreadAvailable, HasSpare, MayReserve
<1>8. Counts(G, nr + i, nb + 1, s, k)
  BY <1>1, <1>2, <1>6, <1>7, CountsTaken
<1> QED BY <1>1, <1>5, <1>6, <1>8

LEMMA ThreadGiven ==
  ASSUME PoolIInv, NEW g \in groups, FinishWithThread(g), blocked[g] > 0
  PROVE  /\ Counts(groups, numReserved', numBlocked', reserved', blocked')
         /\ numBlocked' = numBlocked - 1
         /\ OffOne(blocked, g, blocked') /\ blocked'[g] = blocked[g] - 1
<1>1. PICK nr, nb, res, blk, s, k, G :
        /\ nr = numReserved /\ nb = numBlocked /\ res = reserved /\ blk = blocked
        /\ s = reserved' /\ k = blocked' /\ G = groups
  OBVIOUS
<1>2. Counts(G, nr, nb, res, blk) /\ G \subseteq Groups
      /\ res \in [Groups -> Nat] /\ blk \in [Groups -> Nat]
  BY <1>1 DEF PoolIInv, Counts
<1>3. res[g] \in Nat /\ blk[g] \in Nat /\ MinReserved[g] \in Nat /\ nr \in Nat /\ blk[g] > 0
  BY <1>1, <1>2, CountsHold
<1>4. PICK i : i = IF res[g] > MinReserved[g] THEN 1 ELSE 0
  OBVIOUS
<1>5. PICK d : d = IF res[g] > MinReserved[g] THEN -1 ELSE 0
  OBVIOUS
<1>6. /\ numReserved' = nr + d /\ numBlocked' = nb + (-1)
      /\ s = [res EXCEPT ![g] = @ + d] /\ k = [blk EXCEPT ![g] = @ + (-1)]
  BY <1>1, <1>5 DEF FinishWithThread, DeltaReserved, DeltaBlocked
<1>7. res[g] + d = res[g] - i /\ res[g] - i \in Nat /\ nr + d = nr - i
      /\ blk[g] + (-1) = blk[g] - 1 /\ blk[g] - 1 \in Nat /\ nb + (-1) = nb - 1
  <2>1. nb \in Nat
    BY <1>2, CountsHold
  <2> QED BY <2>1, <1>3, <1>4, <1>5
<1>8. /\ s \in [Groups -> Nat] /\ OffOne(res, g, s) /\ s[g] = res[g] - i
      /\ k \in [Groups -> Nat] /\ OffOne(blk, g, k) /\ k[g] = blk[g] - 1
  BY <1>1, <1>2, <1>6, <1>7 DEF OffOne
<1>9. Counts(G, nr - i, nb - 1, s, k)
  BY <1>1, <1>2, <1>3, <1>4, <1>8, CountsGiven
<1> QED BY <1>1, <1>6, <1>7, <1>8, <1>9
-----------------------------------------------------------------------------
LEMMA Appended ==
  ASSUME NEW T, NEW s \in Seq(T), NoRepeats(s), NEW x \in T, x \notin Elements(s)
  PROVE  /\ Append(s, x) \in Seq(T) /\ NoRepeats(Append(s, x))
         /\ Elements(Append(s, x)) = Elements(s) \cup {x}
         /\ Len(Append(s, x)) = Len(s) + 1
<1>0. PICK v : v = Append(s, x)
  OBVIOUS
<1>1. PICK one : one = <<x>>
  OBVIOUS
<1>2. one \in Seq(T) /\ NoRepeats(one) /\ Elements(one) = {x} /\ Len(one) = 1
  BY <1>1 DEF NoRepeats, Elements
<1>3. v = s \o one
  BY <1>0, <1>1
<1>4. s \o one \in Seq(T) /\ Len(s \o one) = Len(s) + Len(one)
  BY <1>2, ConcatProperties
<1>6. Elements(s \o one) = Elements(s) \cup Elements(one)
  BY <1>2, Joined
<1>5. NoRepeats(s \o one)
  BY <1>2, JoinedApart
<1> QED BY <1>0, <1>2, <1>3, <1>4, <1>5, <1>6

LEMMA FirstTaken ==
  ASSUME NEW T, NEW s \in Seq(T), NoRepeats(s), s # << >>
  PROVE  /\ Head(s) \in T /\ Head(s) \in Elements(s) /\ Tail(s) \in Seq(T) /\ NoRepeats(Tail(s))
         /\ Elements(Tail(s)) = Elements(s) \ {Head(s)}
         /\ Len(Tail(s)) = Len(s) - 1 /\ Len(s) \in Nat
<1>1. /\ Tail(s) \in Seq(T) /\ NoRepeats(Tail(s)) /\ Head(s) \in Elements(s)
      /\ Elements(Tail(s)) = Elements(s) \ {Head(s)}
  BY TailWithoutHead
<1>2. Elements(s) \subseteq T /\ Len(s) \in Nat
  BY ElementsOf
<1>3. Len(Tail(s)) = Len(s) - 1
  BY HeadTailProperties
<1> QED BY <1>1, <1>2, <1>3

LEMMA ElementsFinite ==
  ASSUME NEW T, NEW s \in Seq(T)
  PROVE  IsFiniteSet(Elements(s))
<1>1. DOMAIN s = 1..Len(s) /\ Len(s) \in Nat
  BY LenProperties
<1>2. s \in [1..Len(s) -> Elements(s)]
  BY <1>1 DEF Elements
<1>3. s \in Surjection(1..Len(s), Elements(s))
  BY <1>1, <1>2 DEF Surjection, Elements
<1>4. IsFiniteSet(1..Len(s))
  BY <1>1, FS_Interval
<1> QED BY <1>3, <1>4, FS_Surjection
-----------------------------------------------------------------------------
(* Where works are.                                                        *)
LEMMA Homeless ==
  ASSUME NEW G \in SUBSET Groups, NEW q, NEW r, NEW hm, NEW wk, NEW hq, NEW hr,
         InPool(q, r, hm, G), InGroups(wk, q, r, hm), InHelpers(hq, hr, wk, q, r, hm),
         NEW w \in Works, hm[w] = None
  PROVE  /\ w \notin Busy(q, r)
         /\ \A g \in Groups : w \notin Elements(wk[g])
         /\ \A h \in Helpers : w \notin InHelper(hq, hr, h)
<1>1. w \notin Busy(q, r)
  BY DEF InPool
<1>2. \A g \in Groups : w \notin Elements(wk[g])
  BY ThreadPoolAssumption DEF InGroups
<1>3. \A h \in Helpers : w \notin InHelper(hq, hr, h)
  BY DEF InHelpers
<1> QED BY <1>1, <1>2, <1>3

LEMMA GroupsKept ==
  ASSUME NEW wk, NEW q, NEW r, NEW hm, InGroups(wk, q, r, hm), NEW c, NEW t, NEW hn,
         \A g \in Groups : \A w \in Elements(wk[g]) : hn[w] = hm[w] /\ w \notin Busy(c, t)
  PROVE  InGroups(wk, c, t, hn)
BY DEF InGroups

LEMMA HelpersKept ==
  ASSUME NEW hq, NEW hr, NEW wk, NEW q, NEW r, NEW hm, InHelpers(hq, hr, wk, q, r, hm),
         NEW wl, NEW c, NEW t, NEW hn,
         \A h \in Helpers : \A w \in InHelper(hq, hr, h) :
           hn[w] # None /\ w \notin Busy(c, t) /\ \A g \in Groups : w \notin Elements(wl[g])
  PROVE  InHelpers(hq, hr, wl, c, t, hn)
BY DEF InHelpers

LEMMA OccFinite ==
  ASSUME NEW G, NEW q, NEW r, NEW hm, InPool(q, r, hm, G), NEW hp, IsFiniteSet(In(hp, "alive"))
  PROVE  \A g : IsFiniteSet(Occ(q, r, hm, hp, g))
<1>1. IsFiniteSet(Elements(q)) /\ IsFiniteSet(r)
  BY ElementsFinite DEF InPool
<1>2. IsFiniteSet(Busy(q, r))
  BY <1>1, FS_Union DEF Busy
<1>3. PICK A : A = Busy(q, r) \cup In(hp, "alive")
  OBVIOUS
<1>4. IsFiniteSet(A)
  BY <1>2, <1>3, FS_Union
<1>5. \A g : Occ(q, r, hm, hp, g) \in SUBSET A
  BY <1>3 DEF Occ
<1> QED BY <1>4, <1>5, FS_Subset

LEMMA BusyWorks ==
  ASSUME NEW G, NEW q, NEW r, NEW hm, InPool(q, r, hm, G)
  PROVE  Busy(q, r) \subseteq Works /\ \A x \in Busy(q, r) : x \notin Helpers
<1>1. Elements(q) \subseteq Works /\ r \subseteq Works
  BY ElementsOf DEF InPool
<1> QED BY <1>1, ThreadPoolAssumption DEF Busy

(* One more, or one less, occupies a thread of g.                          *)
Others(G, g, q, r, hm, hp, c, t, hn, ho) ==
  \A h \in G : h # g => Occ(c, t, hn, ho, h) = Occ(q, r, hm, hp, h)

LEMMA OccupiedMore ==
  ASSUME NEW G \in SUBSET Groups, NEW blk, NEW q, NEW r, NEW hm, NEW hp,
         Occupied(G, blk, q, r, hm, hp), NEW g \in G, IsFiniteSet(Occ(q, r, hm, hp, g)),
         NEW k, OffOne(blk, g, k), k[g] = blk[g] + 1, NEW c, NEW t, NEW hn, NEW ho,
         Others(G, g, q, r, hm, hp, c, t, hn, ho), NEW x, x \notin Occ(q, r, hm, hp, g),
         Occ(c, t, hn, ho, g) = Occ(q, r, hm, hp, g) \cup {x}
  PROVE  Occupied(G, k, c, t, hn, ho)
<1>1. \A h \in G : blk[h] = Cardinality(Occ(q, r, hm, hp, h))
  BY DEF Occupied
<1>2. k[g] = Cardinality(Occ(c, t, hn, ho, g))
  <2>1. PICK S : S = Occ(q, r, hm, hp, g)
    OBVIOUS
  <2>2. Cardinality(S \cup {x}) = Cardinality(S) + 1
    BY <2>1, FS_AddElement
  <2> QED BY <1>1, <2>1, <2>2
<1> QED BY <1>1, <1>2 DEF Occupied, OffOne, Others

LEMMA OccupiedLess ==
  ASSUME NEW G \in SUBSET Groups, NEW blk, NEW q, NEW r, NEW hm, NEW hp,
         Occupied(G, blk, q, r, hm, hp), NEW g \in G, IsFiniteSet(Occ(q, r, hm, hp, g)),
         NEW k, OffOne(blk, g, k), k[g] = blk[g] - 1, NEW c, NEW t, NEW hn, NEW ho,
         Others(G, g, q, r, hm, hp, c, t, hn, ho), NEW x, x \in Occ(q, r, hm, hp, g),
         Occ(c, t, hn, ho, g) = Occ(q, r, hm, hp, g) \ {x}
  PROVE  Occupied(G, k, c, t, hn, ho)
<1>1. \A h \in G : blk[h] = Cardinality(Occ(q, r, hm, hp, h))
  BY DEF Occupied
<1>2. k[g] = Cardinality(Occ(c, t, hn, ho, g))
  <2>1. PICK S : S = Occ(q, r, hm, hp, g)
    OBVIOUS
  <2>2. Cardinality(S \ {x}) = Cardinality(S) - 1
    BY <2>1, FS_RemoveElement
  <2> QED BY <1>1, <2>1, <2>2
<1> QED BY <1>1, <1>2 DEF Occupied, OffOne, Others

LEMMA OccupiedKept ==
  ASSUME NEW G, NEW blk, NEW q, NEW r, NEW hm, NEW hp, Occupied(G, blk, q, r, hm, hp),
         NEW c, NEW t, NEW hn, NEW ho, Busy(c, t) = Busy(q, r), In(ho, "alive") = In(hp, "alive"),
         \A w \in Busy(q, r) : hn[w] = hm[w],
         \A h \in In(hp, "alive") : ho[h].group = hp[h].group
  PROVE  Occupied(G, blk, c, t, hn, ho)
<1>1. \A g : Occ(c, t, hn, ho, g) = Occ(q, r, hm, hp, g)
  BY DEF Occ
<1> QED BY <1>1 DEF Occupied

(* At least one thread is blocked for a work that has one.                 *)
LEMMA OccupiedByOne ==
  ASSUME NEW G \in SUBSET Groups, NEW blk \in [Groups -> Nat], NEW q, NEW r, NEW hm, NEW hp,
         Occupied(G, blk, q, r, hm, hp), NEW g \in G, IsFiniteSet(Occ(q, r, hm, hp, g)),
         Occ(q, r, hm, hp, g) # {}
  PROVE  blk[g] > 0
<1>1. blk[g] = Cardinality(Occ(q, r, hm, hp, g)) /\ blk[g] \in Nat
  BY DEF Occupied
<1>2. Cardinality(Occ(q, r, hm, hp, g)) # 0
  BY FS_EmptySet
<1> QED BY <1>1, <1>2
-----------------------------------------------------------------------------
LEMMA RunStep == ASSUME PoolIInv, NEW w \in Works, NEW g \in Groups, Run(w, g) PROVE PoolIInv'
<1>1. PICK G, nb, nl, np, blk, q, r, wk, hm, hn, hq, hr, hp :
        /\ G = groups /\ nb = numBlocked /\ nl = numLive /\ np = numPool /\ blk = blocked
        /\ q = workForThreads /\ r = running /\ wk = work /\ hm = home /\ hn = home'
        /\ hq = helperQueue /\ hr = helperRuns /\ hp = helper
  OBVIOUS
<1>2. /\ Counts(G, numReserved, nb, reserved, blk) /\ InPool(q, r, hm, G)
      /\ InGroups(wk, q, r, hm) /\ InHelpers(hq, hr, wk, q, r, hm) /\ Crew(hp, hq, hr, G)
      /\ Occupied(G, blk, q, r, hm, hp) /\ Alive(nb, nl, np, q, r, hp)
  BY <1>1 DEF PoolIInv
<1>3. /\ g \in G /\ hm[w] = None /\ hn = [hm EXCEPT ![w] = g]
      /\ UNCHANGED <<groups, running, helperVars>>
  BY <1>1 DEF Run
<1>4. /\ G \subseteq Groups /\ g # None
      /\ q \in Seq(Works) /\ NoRepeats(q) /\ r \subseteq Works /\ IsFiniteSet(r)
      /\ Elements(q) \cap r = {} /\ hm \in [Works -> G \cup {None}]
      /\ \A v \in Busy(q, r) : hm[v] # None
  BY <1>2, ThreadPoolAssumption DEF Counts, InPool
<1>5. /\ w \notin Busy(q, r)
      /\ \A h \in Groups : w \notin Elements(wk[h])
      /\ \A h \in Helpers : w \notin InHelper(hq, hr, h)
  BY <1>2, <1>3, <1>4, Homeless
<1>6. /\ hn \in [Works -> G \cup {None}] /\ hn[w] = g
      /\ \A v \in Works : v # w => hn[v] = hm[v]
  BY <1>3, <1>4
<1>7. /\ Busy(q, r) \subseteq Works /\ \A x \in Busy(q, r) : x \notin Helpers
      /\ \A h \in Groups : Elements(wk[h]) \subseteq Works
      /\ \A h \in Helpers : InHelper(hq, hr, h) \subseteq Works
  <2>1. \A h \in Groups : wk[h] \in Seq(Works)
    BY <1>2 DEF InGroups
  <2>2. \A h \in Helpers : hq[h] \in Seq(Works) /\ hr[h] \subseteq Works
    BY <1>2 DEF InHelpers
  <2>3. \A h \in Helpers : Elements(hq[h]) \subseteq Works
    BY <2>2, ElementsOf
  <2> QED BY <2>1, <2>2, <2>3, <1>2, BusyWorks, ElementsOf DEF InHelper
<1>8. Crew(hp, hq, hr, G) /\ IsFiniteSet(In(hp, "alive"))
  BY <1>2 DEF Crew
<1>9. CASE /\ GetThread(g) /\ CreateThread(NeedsThread)
           /\ workForThreads' = Append(workForThreads, w) /\ UNCHANGED work
  <2>1. PICK k : k = blocked'
    OBVIOUS
  <2>2. /\ Counts(G, numReserved', numBlocked', reserved', k)
        /\ numBlocked' = nb + 1 /\ OffOne(blk, g, k) /\ k[g] = blk[g] + 1
    BY <1>1, <1>3, <1>9, <2>1, ThreadTaken
  <2>3. PICK c : c = Append(q, w)
    OBVIOUS
  <2>4. /\ c \in Seq(Works) /\ NoRepeats(c) /\ Elements(c) = Elements(q) \cup {w}
        /\ Len(c) = Len(q) + 1
    <3>1. q \in Seq(Works) /\ NoRepeats(q) /\ w \notin Elements(q)
      BY <1>4, <1>5 DEF Busy
    <3> QED BY <3>1, <2>3, Appended
  <2>5. Busy(c, r) = Busy(q, r) \cup {w}
    BY <2>4 DEF Busy
  <2>6. InPool(c, r, hn, G)
    <3>1. \A v \in Busy(c, r) : hn[v] # None
      BY <2>5, <1>4, <1>6, <1>7
    <3>2. Elements(c) \cap r = {}
      BY <2>4, <1>4, <1>5 DEF Busy
    <3> QED BY <3>1, <3>2, <2>4, <1>4, <1>6 DEF InPool
  <2>7. InGroups(wk, c, r, hn)
    <3>1. \A h \in Groups : \A v \in Elements(wk[h]) : hn[v] = hm[v] /\ v \notin Busy(c, r)
      BY <1>2, <1>5, <1>6, <1>7, <2>5 DEF InGroups
    <3> QED BY <3>1, <1>2, GroupsKept
  <2>8. InHelpers(hq, hr, wk, c, r, hn)
    <3>1. \A h \in Helpers : \A v \in InHelper(hq, hr, h) :
            hn[v] # None /\ v \notin Busy(c, r) /\ \A o \in Groups : v \notin Elements(wk[o])
      BY <1>2, <1>5, <1>6, <1>7, <2>5 DEF InHelpers
    <3> QED BY <3>1, <1>2, HelpersKept
  <2>9. Occupied(G, k, c, r, hn, hp)
    <3>1. \A v \in Busy(q, r) : v # w /\ hn[v] = hm[v]
      BY <1>5, <1>6, <1>7
    <3>2. Others(G, g, q, r, hm, hp, c, r, hn, hp)
      BY <2>5, <3>1, <1>6 DEF Others, Occ
    <3>3. w \notin Occ(q, r, hm, hp, g)
      BY <1>5, ThreadPoolAssumption DEF Occ, In
    <3>4. Occ(c, r, hn, hp, g) = Occ(q, r, hm, hp, g) \cup {w}
      BY <2>5, <3>1, <1>6 DEF Occ
    <3>5. IsFiniteSet(Occ(q, r, hm, hp, g))
      BY <1>2, <1>8, OccFinite
    <3> QED BY <3>2, <3>3, <3>4, <3>5, <2>2, <1>2, <1>3, <1>4, OccupiedMore
  <2>10. Alive(nb + 1, numLive', numPool', c, r, hp)
    <3>1. PICK i : i = IF nb + 1 > nl THEN 1 ELSE 0
      OBVIOUS
    <3>2. numLive' = nl + i /\ numPool' = np + i
      BY <1>1, <1>9, <3>1 DEF CreateThread, NeedsThread
    <3>3. PICK a, f, l, n : /\ a = Cardinality(In(hp, "alive")) /\ l = Len(q) /\ n = Cardinality(r)
                            /\ f = Cardinality(In(hp, "finished"))
      OBVIOUS
    <3>4. a \in Nat /\ f \in Nat /\ l \in Nat /\ n \in Nat
      BY <3>3, <1>2, <1>4, FS_CardinalityType, LenProperties DEF Crew
    <3>5. np \in Nat /\ nl <= MaxLive /\ nl = np + a + f /\ nb = l + n + a
      BY <1>2, <3>3 DEF Alive
    <3>6. MaxLive \in Nat /\ nb + 1 <= MaxLive
      BY <2>2, CountsHold
    <3>7. /\ np + i \in Nat /\ nl + i <= MaxLive /\ nl + i = (np + i) + a + f
          /\ nb + 1 = (l + 1) + n + a
      BY <3>1, <3>4, <3>5, <3>6
    <3> QED BY <3>2, <3>3, <3>5, <3>7, <2>4 DEF Alive
  <2>11. /\ workForThreads' = c /\ work' = wk /\ home' = hn
    BY <1>1, <1>9, <2>3
  <2> QED BY <1>1, <1>3, <1>8, <2>1, <2>2, <2>6, <2>7, <2>8, <2>9, <2>10, <2>11
          DEF PoolIInv, helperVars
<1>10. CASE /\ ~ThreadAvailable(g) /\ work' = [work EXCEPT ![g] = Append(@, w)]
            /\ UNCHANGED <<numReserved, numBlocked, numLive, reserved, blocked,
                           workForThreads, numPool>>
  <2>1. PICK s, wl, res : s = wk[g] /\ wl = work' /\ res = reserved
    OBVIOUS
  <2>2. wk \in [Groups -> Seq(Works)] /\ (\A h \in Groups : NoRepeats(wk[h])) /\ s \in Seq(Works)
    BY <1>2, <2>1 DEF InGroups
  <2>3. wl = [wk EXCEPT ![g] = Append(s, w)]
    BY <1>1, <1>10, <2>1
  <2>4. PICK t : t = Append(s, w)
    OBVIOUS
  <2>5. t \in Seq(Works) /\ NoRepeats(t) /\ Elements(t) = Elements(s) \cup {w}
    <3>1. NoRepeats(s) /\ w \notin Elements(s)
      BY <2>1, <2>2, <1>5
    <3> QED BY <3>1, <2>2, <2>4, Appended
  <2>6. wl \in [Groups -> Seq(Works)] /\ wl[g] = t /\ \A h \in Groups : h # g => wl[h] = wk[h]
    BY <2>2, <2>3, <2>4, <2>5
  <2>7. InPool(q, r, hn, G)
    <3>1. \A v \in Busy(q, r) : hn[v] # None
      BY <1>4, <1>5, <1>6, <1>7
    <3> QED BY <3>1, <1>4, <1>6 DEF InPool
  <2>8. InGroups(wl, q, r, hn)
    <3>1. \A h \in Groups : NoRepeats(wl[h])
      BY <2>2, <2>5, <2>6
    <3>2. ASSUME NEW h \in Groups, NEW v \in Elements(wl[h])
          PROVE  hn[v] = h /\ v \notin Busy(q, r)
      <4>1. CASE v = w
        <5>1. h = g
          BY <4>1, <3>2, <2>6, <1>5
        <5> QED BY <4>1, <5>1, <1>5, <1>6
      <4>2. CASE v # w
        <5>1. v \in Elements(wk[h])
          BY <4>2, <3>2, <2>1, <2>5, <2>6
        <5>2. v \in Works /\ hm[v] = h /\ v \notin Busy(q, r)
          BY <5>1, <1>2, <1>7 DEF InGroups
        <5> QED BY <5>2, <4>2, <1>6
      <4> QED BY <4>1, <4>2
    <3> QED BY <3>1, <3>2, <2>6 DEF InGroups
  <2>9. InHelpers(hq, hr, wl, q, r, hn)
    <3>1. \A h \in Helpers : \A v \in InHelper(hq, hr, h) :
            v # w /\ v \in Works /\ hm[v] # None /\ v \notin Busy(q, r)
            /\ \A o \in Groups : v \notin Elements(wk[o])
      BY <1>2, <1>5, <1>7 DEF InHelpers
    <3>2. \A h \in Helpers : \A v \in InHelper(hq, hr, h) :
            hn[v] # None /\ v \notin Busy(q, r) /\ \A o \in Groups : v \notin Elements(wl[o])
      BY <3>1, <1>6, <2>1, <2>5, <2>6
    <3> QED BY <3>2, <1>2, HelpersKept
  <2>10. Occupied(G, blk, q, r, hn, hp)
    <3>1. \A v \in Busy(q, r) : hn[v] = hm[v]
      BY <1>5, <1>6, <1>7
    <3> QED BY <3>1, <1>2, OccupiedKept
  <2> QED BY <1>1, <1>2, <1>3, <1>10, <2>1, <2>7, <2>8, <2>9, <2>10
          DEF PoolIInv, helperVars
<1> QED BY <1>9, <1>10 DEF Run

(* The facts of the places that the steps share.                           *)
LEMMA Places ==
  ASSUME NEW G, NEW nr, NEW nb, NEW res, NEW blk, Counts(G, nr, nb, res, blk),
         NEW q, NEW r, NEW wk, NEW hm, NEW hq, NEW hr,
         InPool(q, r, hm, G), InGroups(wk, q, r, hm), InHelpers(hq, hr, wk, q, r, hm)
  PROVE  /\ G \subseteq Groups /\ None \notin G
         /\ q \in Seq(Works) /\ NoRepeats(q) /\ r \subseteq Works /\ IsFiniteSet(r)
         /\ Elements(q) \cap r = {} /\ hm \in [Works -> G \cup {None}]
         /\ Elements(q) \subseteq Works
         /\ \A v \in Busy(q, r) : hm[v] # None /\ v \in Works /\ v \notin Helpers
         /\ \A h \in Groups : Elements(wk[h]) \subseteq Works
         /\ \A h \in Helpers : InHelper(hq, hr, h) \subseteq Works
<1>1. \A h \in Groups : Elements(wk[h]) \subseteq Works
  <2>1. \A h \in Groups : wk[h] \in Seq(Works)
    BY DEF InGroups
  <2> QED BY <2>1, ElementsOf
<1>2. \A h \in Helpers : InHelper(hq, hr, h) \subseteq Works
  <2>1. \A h \in Helpers : hq[h] \in Seq(Works) /\ hr[h] \subseteq Works
    BY DEF InHelpers
  <2>2. \A h \in Helpers : Elements(hq[h]) \subseteq Works
    BY <2>1, ElementsOf
  <2> QED BY <2>1, <2>2 DEF InHelper
<1>3. /\ q \in Seq(Works) /\ NoRepeats(q) /\ r \subseteq Works /\ IsFiniteSet(r)
      /\ Elements(q) \cap r = {} /\ hm \in [Works -> G \cup {None}]
      /\ \A v \in Busy(q, r) : hm[v] # None
  BY DEF InPool
<1>4. Elements(q) \subseteq Works
  BY <1>3, ElementsOf
<1>5. \A v \in Busy(q, r) : v \in Works /\ v \notin Helpers
  BY <1>3, <1>4, ThreadPoolAssumption DEF Busy
<1>6. G \subseteq Groups /\ None \notin G
  BY ThreadPoolAssumption DEF Counts
<1> QED BY <1>1, <1>2, <1>3, <1>4, <1>5, <1>6

(* The numbers of the threads, as numbers.                                 *)
LEMMA Numbers ==
  ASSUME NEW G, NEW q, NEW r, NEW hm, InPool(q, r, hm, G), NEW hp, NEW hq, NEW hr,
         Crew(hp, hq, hr, G)
  PROVE  /\ Cardinality(In(hp, "alive")) \in Nat /\ Cardinality(In(hp, "finished")) \in Nat
         /\ Len(q) \in Nat /\ Cardinality(r) \in Nat
         /\ In(hp, "finished") = {} => Cardinality(In(hp, "finished")) = 0
         /\ \A g : IsFiniteSet(Occ(q, r, hm, hp, g))
<1>1. IsFiniteSet(In(hp, "alive")) /\ IsFiniteSet(In(hp, "finished"))
  BY DEF Crew
<1>2. q \in Seq(Works) /\ IsFiniteSet(r)
  BY DEF InPool
<1>3. \A g : IsFiniteSet(Occ(q, r, hm, hp, g))
  BY <1>1, OccFinite
<1>4. Len(q) \in Nat
  BY <1>2, LenProperties
<1> QED BY <1>1, <1>2, <1>3, <1>4, FS_CardinalityType, FS_EmptySet

LEMMA PoolPopsStep == ASSUME PoolIInv, PoolPops PROVE PoolIInv'
<1>1. PICK G, nb, nl, np, q, r, wk, hm, hq, hr, hp :
        /\ G = groups /\ nb = numBlocked /\ nl = numLive /\ np = numPool
        /\ q = workForThreads /\ r = running /\ wk = work /\ hm = home
        /\ hq = helperQueue /\ hr = helperRuns /\ hp = helper
  OBVIOUS
<1>2. /\ Counts(G, numReserved, nb, reserved, blocked) /\ InPool(q, r, hm, G)
      /\ InGroups(wk, q, r, hm) /\ InHelpers(hq, hr, wk, q, r, hm) /\ Crew(hp, hq, hr, G)
      /\ Occupied(G, blocked, q, r, hm, hp) /\ Alive(nb, nl, np, q, r, hp)
  BY <1>1 DEF PoolIInv
<1>3. PICK v, c, t : v = Head(q) /\ c = Tail(q) /\ t = r \cup {v}
  OBVIOUS
<1>4. /\ q # << >> /\ running' = t /\ workForThreads' = c
      /\ UNCHANGED <<countVars, work, numPool, home, helperVars>>
  BY <1>1, <1>3 DEF PoolPops
<1>5. /\ q \in Seq(Works) /\ NoRepeats(q) /\ r \subseteq Works /\ IsFiniteSet(r)
      /\ Elements(q) \cap r = {} /\ hm \in [Works -> G \cup {None}]
      /\ \A u \in Busy(q, r) : hm[u] # None
  BY <1>2 DEF InPool
<1>6. /\ v \in Works /\ v \in Elements(q) /\ c \in Seq(Works) /\ NoRepeats(c)
      /\ Elements(c) = Elements(q) \ {v} /\ Len(c) = Len(q) - 1
  BY <1>3, <1>4, <1>5, FirstTaken
<1>7. IsFiniteSet(t) /\ Cardinality(t) = Cardinality(r) + 1
  BY <1>3, <1>5, <1>6, FS_AddElement
<1>8. Busy(c, t) = Busy(q, r)
  BY <1>3, <1>6 DEF Busy
<1>9. InPool(c, t, hm, G)
  BY <1>3, <1>5, <1>6, <1>7, <1>8 DEF InPool
<1>10. InGroups(wk, c, t, hm)
  BY <1>2, <1>8 DEF InGroups
<1>11. InHelpers(hq, hr, wk, c, t, hm)
  BY <1>2, <1>8 DEF InHelpers
<1>12. Occupied(G, blocked, c, t, hm, hp)
  <2>1. PICK blk : blk = blocked
    OBVIOUS
  <2>2. Occupied(G, blk, c, t, hm, hp)
    BY <2>1, <1>2, <1>8, OccupiedKept
  <2> QED BY <2>1, <2>2
<1>13. Alive(nb, nl, np, c, t, hp)
  <2>1. Len(q) \in Nat /\ Cardinality(r) \in Nat
    BY <1>2, Numbers
  <2>2. Len(c) + Cardinality(t) = Len(q) + Cardinality(r)
    BY <2>1, <1>6, <1>7
  <2> QED BY <2>2, <1>2 DEF Alive
<1> QED BY <1>1, <1>2, <1>4, <1>9, <1>10, <1>11, <1>12, <1>13 DEF PoolIInv, countVars, helperVars

LEMMA WorkDoneStep == ASSUME PoolIInv, NEW w \in Works, WorkDone(w) PROVE PoolIInv'
<1>1. PICK G, nb, nl, np, blk, res, q, r, wk, hm, hn, hq, hr, hp :
        /\ G = groups /\ nb = numBlocked /\ nl = numLive /\ np = numPool /\ blk = blocked
        /\ res = reserved /\ q = workForThreads /\ r = running /\ wk = work /\ hm = home
        /\ hn = home' /\ hq = helperQueue /\ hr = helperRuns /\ hp = helper
  OBVIOUS
<1>2. /\ Counts(G, numReserved, nb, res, blk) /\ InPool(q, r, hm, G)
      /\ InGroups(wk, q, r, hm) /\ InHelpers(hq, hr, wk, q, r, hm) /\ Crew(hp, hq, hr, G)
      /\ Occupied(G, blk, q, r, hm, hp) /\ Alive(nb, nl, np, q, r, hp)
  BY <1>1 DEF PoolIInv
<1>3. PICK g, t : g = hm[w] /\ t = r \ {w}
  OBVIOUS
<1>4. /\ w \in r /\ running' = t /\ hn = [hm EXCEPT ![w] = None]
      /\ PassesOn(w) /\ UNCHANGED helperVars
  BY <1>1, <1>3 DEF WorkDone
<1>5. /\ G \subseteq Groups /\ None \notin G
      /\ q \in Seq(Works) /\ NoRepeats(q) /\ r \subseteq Works /\ IsFiniteSet(r)
      /\ Elements(q) \cap r = {} /\ hm \in [Works -> G \cup {None}]
      /\ Elements(q) \subseteq Works
      /\ \A v \in Busy(q, r) : hm[v] # None /\ v \in Works /\ v \notin Helpers
      /\ \A h \in Groups : Elements(wk[h]) \subseteq Works
      /\ \A h \in Helpers : InHelper(hq, hr, h) \subseteq Works
  BY <1>2, Places
<1>6. w \in Busy(q, r) /\ g \in G /\ g \in Groups
  <2>1. w \in Busy(q, r)
    BY <1>4 DEF Busy
  <2> QED BY <2>1, <1>3, <1>5
<1>7. /\ hn \in [Works -> G \cup {None}] /\ \A v \in Works : v # w => hn[v] = hm[v]
  BY <1>4, <1>5
<1>8. IsFiniteSet(t) /\ Cardinality(t) = Cardinality(r) - 1 /\ t \subseteq r /\ w \notin t
  BY <1>3, <1>4, <1>5, FS_RemoveElement
<1>9. /\ w \in Occ(q, r, hm, hp, g) /\ IsFiniteSet(Occ(q, r, hm, hp, g))
      /\ Len(q) \in Nat /\ Cardinality(r) \in Nat /\ Cardinality(In(hp, "alive")) \in Nat
  <2>1. w \in Occ(q, r, hm, hp, g)
    BY <1>3, <1>6 DEF Occ
  <2> QED BY <2>1, <1>2, Numbers
<1>10. CASE /\ wk[g] # << >> /\ work' = [work EXCEPT ![g] = Tail(@)]
            /\ workForThreads' = Append(workForThreads, Head(work[g]))
            /\ UNCHANGED <<countVars, numPool>>
  <2>1. PICK s, v, o, c, wl : /\ s = wk[g] /\ v = Head(s) /\ o = Tail(s) /\ c = Append(q, v)
                              /\ wl = work'
    OBVIOUS
  <2>2. /\ wk \in [Groups -> Seq(Works)] /\ \A h \in Groups : NoRepeats(wk[h])
        /\ \A h \in Groups : \A u \in Elements(wk[h]) : hm[u] = h /\ u \notin Busy(q, r)
    BY <1>2 DEF InGroups
  <2>3. s \in Seq(Works) /\ NoRepeats(s) /\ s # << >>
    BY <2>1, <2>2, <1>6, <1>10
  <2>4. /\ v \in Works /\ v \in Elements(s) /\ o \in Seq(Works) /\ NoRepeats(o)
        /\ Elements(o) = Elements(s) \ {v}
    BY <2>1, <2>3, FirstTaken
  <2>5. hm[v] = g /\ v \notin Busy(q, r) /\ v # w
    BY <2>1, <2>2, <2>4, <1>6
  <2>6. wl = [wk EXCEPT ![g] = o] /\ workForThreads' = c
    BY <2>1, <1>1, <1>10
  <2>7. wl \in [Groups -> Seq(Works)] /\ wl[g] = o /\ \A h \in Groups : h # g => wl[h] = wk[h]
    BY <2>2, <2>4, <2>6, <1>6
  <2>8. /\ c \in Seq(Works) /\ NoRepeats(c) /\ Elements(c) = Elements(q) \cup {v}
        /\ Len(c) = Len(q) + 1
    <3>1. v \notin Elements(q)
      BY <2>5 DEF Busy
    <3> QED BY <3>1, <2>1, <2>4, <1>5, Appended
  <2>9. Busy(c, t) = (Busy(q, r) \ {w}) \cup {v}
    <3>1. w \notin Elements(q)
      BY <1>4, <1>5
    <3> QED BY <3>1, <2>8, <1>3 DEF Busy
  <2>10. InPool(c, t, hn, G)
    <3>1. \A u \in Busy(c, t) : hn[u] # None
      BY <2>4, <2>5, <2>9, <1>5, <1>6, <1>7
    <3>2. Elements(c) \cap t = {}
      BY <2>5, <2>8, <1>5, <1>8 DEF Busy
    <3> QED BY <3>1, <3>2, <2>8, <1>5, <1>7, <1>8 DEF InPool
  <2>11. InGroups(wl, c, t, hn)
    <3>1. \A h \in Groups : NoRepeats(wl[h])
      BY <2>2, <2>4, <2>7
    <3>2. ASSUME NEW h \in Groups, NEW u \in Elements(wl[h])
          PROVE  hn[u] = h /\ u \notin Busy(c, t)
      <4>1. u \in Elements(wk[h]) /\ u # v
        <5>1. CASE h = g
          BY <5>1, <3>2, <2>1, <2>4, <2>7
        <5>2. CASE h # g
          BY <5>2, <3>2, <2>2, <2>5, <2>7
        <5> QED BY <5>1, <5>2
      <4>2. u \in Works /\ hm[u] = h /\ u \notin Busy(q, r) /\ u # w
        BY <4>1, <2>2, <1>5, <1>6
      <4> QED BY <4>1, <4>2, <2>9, <1>7
    <3> QED BY <3>1, <3>2, <2>7 DEF InGroups
  <2>12. InHelpers(hq, hr, wl, c, t, hn)
    <3>1. \A h \in Helpers : \A u \in InHelper(hq, hr, h) :
            u # v /\ u # w /\ u \in Works /\ hm[u] # None /\ u \notin Busy(q, r)
            /\ \A e \in Groups : u \notin Elements(wk[e])
      BY <2>1, <2>4, <1>2, <1>5, <1>6 DEF InHelpers
    <3>2. \A h \in Helpers : \A u \in InHelper(hq, hr, h) :
            hn[u] # None /\ u \notin Busy(c, t) /\ \A e \in Groups : u \notin Elements(wl[e])
      <4> SUFFICES ASSUME NEW h \in Helpers, NEW u \in InHelper(hq, hr, h)
                   PROVE  /\ hn[u] # None /\ u \notin Busy(c, t)
                          /\ \A e \in Groups : u \notin Elements(wl[e])
        OBVIOUS
      <4>1. /\ u # v /\ u # w /\ u \in Works /\ hm[u] # None /\ u \notin Busy(q, r)
            /\ \A e \in Groups : u \notin Elements(wk[e])
        BY <3>1
      <4>2. hn[u] # None
        BY <4>1, <1>7
      <4>3. u \notin Busy(c, t)
        BY <4>1, <2>9
      <4>4. ASSUME NEW e \in Groups PROVE u \notin Elements(wl[e])
        <5>1. CASE e = g
          BY <5>1, <4>1, <2>1, <2>4, <2>7
        <5>2. CASE e # g
          BY <5>2, <4>1, <2>7
        <5> QED BY <5>1, <5>2
      <4> QED BY <4>2, <4>3, <4>4
    <3> QED BY <3>2, <1>2, HelpersKept
  <2>13. Occupied(G, blk, c, t, hn, hp)
    <3>1. PICK S : S = Occ(q, r, hm, hp, g)
      OBVIOUS
    <3>2. \A u \in Busy(q, r) : u # w => hn[u] = hm[u]
      BY <1>5, <1>7
    <3>3. hn[v] = g /\ hn[w] = None /\ v \notin In(hp, "alive") /\ w \notin In(hp, "alive")
      BY <2>4, <2>5, <1>4, <1>5, <1>6, <1>7, ThreadPoolAssumption DEF In
    <3>4. Occ(c, t, hn, hp, g) = (S \ {w}) \cup {v}
      BY <3>1, <3>2, <3>3, <2>5, <2>9, <1>5, <1>6 DEF Occ
    <3>5. v \notin S
      BY <3>1, <3>3, <2>5 DEF Occ
    <3>6. Cardinality((S \ {w}) \cup {v}) = Cardinality(S)
      <4>1. IsFiniteSet(S) /\ w \in S
        BY <3>1, <1>9
      <4>2. IsFiniteSet(S \ {w}) /\ Cardinality(S \ {w}) = Cardinality(S) - 1
        BY <4>1, FS_RemoveElement
      <4>3. Cardinality((S \ {w}) \cup {v}) = Cardinality(S \ {w}) + 1
        BY <4>2, <3>5, FS_AddElement
      <4>4. Cardinality(S) \in Nat
        BY <4>1, FS_CardinalityType
      <4> QED BY <4>2, <4>3, <4>4
    <3>7. \A h \in G : h # g => Occ(c, t, hn, hp, h) = Occ(q, r, hm, hp, h)
      BY <3>2, <3>3, <2>5, <2>9, <1>3, <1>5, <1>6 DEF Occ
    <3> QED BY <3>1, <3>4, <3>6, <3>7, <1>2 DEF Occupied
  <2>14. Alive(nb, nl, np, c, t, hp)
    <3>1. Len(c) + Cardinality(t) = Len(q) + Cardinality(r)
      BY <2>8, <1>8, <1>9
    <3> QED BY <3>1, <1>2 DEF Alive
  <2> QED BY <1>1, <1>2, <1>4, <1>10, <2>1, <2>6, <2>10, <2>11, <2>12, <2>13, <2>14
          DEF PoolIInv, countVars, helperVars
<1>11. CASE /\ wk[g] = << >> /\ FinishWithThread(g)
            /\ UNCHANGED <<numLive, groups, work, workForThreads, numPool>>
  <2>1. blk[g] > 0
    <3>1. blk \in [Groups -> Nat]
      BY <1>2 DEF Counts
    <3> QED BY <3>1, <1>2, <1>5, <1>6, <1>9, OccupiedByOne
  <2>2. PICK k : k = blocked'
    OBVIOUS
  <2>3. /\ Counts(G, numReserved', numBlocked', reserved', k) /\ numBlocked' = nb - 1
        /\ OffOne(blk, g, k) /\ k[g] = blk[g] - 1
    BY <1>1, <1>6, <1>11, <2>1, <2>2, ThreadGiven
  <2>4. Busy(q, t) = Busy(q, r) \ {w}
    <3>1. w \notin Elements(q)
      BY <1>4, <1>5
    <3> QED BY <3>1, <1>3 DEF Busy
  <2>5. InPool(q, t, hn, G)
    <3>1. \A u \in Busy(q, t) : hn[u] # None
      BY <2>4, <1>5, <1>7
    <3> QED BY <3>1, <1>5, <1>7, <1>8 DEF InPool
  <2>6. InGroups(wk, q, t, hn)
    <3>1. \A h \in Groups : \A u \in Elements(wk[h]) : hn[u] = hm[u] /\ u \notin Busy(q, t)
      BY <2>4, <1>2, <1>5, <1>6, <1>7 DEF InGroups
    <3> QED BY <3>1, <1>2, GroupsKept
  <2>7. InHelpers(hq, hr, wk, q, t, hn)
    <3>1. \A h \in Helpers : \A u \in InHelper(hq, hr, h) :
            hn[u] # None /\ u \notin Busy(q, t) /\ \A e \in Groups : u \notin Elements(wk[e])
      BY <2>4, <1>2, <1>5, <1>6, <1>7 DEF InHelpers
    <3> QED BY <3>1, <1>2, HelpersKept
  <2>8. Occupied(G, k, q, t, hn, hp)
    <3>1. \A u \in Busy(q, r) : u # w => hn[u] = hm[u]
      BY <1>5, <1>7
    <3>2. w \notin In(hp, "alive")
      BY <1>5, <1>6 DEF In
    <3>3. Occ(q, t, hn, hp, g) = Occ(q, r, hm, hp, g) \ {w}
      BY <3>1, <3>2, <2>4 DEF Occ
    <3>4. Others(G, g, q, r, hm, hp, q, t, hn, hp)
      BY <3>1, <2>4, <1>3 DEF Others, Occ
    <3> QED BY <3>3, <3>4, <2>3, <1>2, <1>5, <1>6, <1>9, OccupiedLess
  <2>9. Alive(nb - 1, nl, np, q, t, hp)
    <3>1. PICK a, l, n : /\ a = Cardinality(In(hp, "alive")) /\ l = Len(q) /\ n = Cardinality(r)
      OBVIOUS
    <3>2. np \in Nat /\ nb = l + n + a /\ a \in Nat /\ l \in Nat /\ n \in Nat
      BY <3>1, <1>2, <1>9 DEF Alive
    <3>3. nb - 1 = l + (n - 1) + a
      BY <3>2
    <3> QED BY <3>1, <3>2, <3>3, <1>2, <1>8 DEF Alive
  <2> QED BY <1>1, <1>2, <1>4, <1>11, <2>2, <2>3, <2>5, <2>6, <2>7, <2>8, <2>9
          DEF PoolIInv, helperVars
<1> QED BY <1>1, <1>3, <1>4, <1>10, <1>11 DEF PassesOn
-----------------------------------------------------------------------------
LEMMA NothingWaits ==
  ASSUME NEW wk, NEW q, NEW r, NEW hm, InGroups(wk, q, r, hm), NEW g \in Groups,
         \A w \in Works : hm[w] # g
  PROVE  wk[g] = << >>
<1> SUFFICES ASSUME wk[g] # << >> PROVE FALSE
  OBVIOUS
<1>1. PICK s : s = wk[g]
  OBVIOUS
<1>2. s \in Seq(Works) /\ NoRepeats(s) /\ s # << >> /\ \A w \in Elements(s) : hm[w] = g
  BY <1>1 DEF InGroups
<1>3. Head(s) \in Works /\ Head(s) \in Elements(s)
  BY <1>2, FirstTaken
<1> QED BY <1>2, <1>3

LEMMA CreateGroupStep == ASSUME PoolIInv, NEW g \in Groups, CreateGroup(g) PROVE PoolIInv'
<1>1. PICK G, nr, nb, blk, res, s, q, r, wk, hm, hq, hr, hp :
        /\ G = groups /\ nr = numReserved /\ nb = numBlocked /\ blk = blocked /\ res = reserved
        /\ s = reserved' /\ q = workForThreads /\ r = running /\ wk = work /\ hm = home
        /\ hq = helperQueue /\ hr = helperRuns /\ hp = helper
  OBVIOUS
<1>2. /\ Counts(G, nr, nb, res, blk) /\ InPool(q, r, hm, G)
      /\ InGroups(wk, q, r, hm) /\ InHelpers(hq, hr, wk, q, r, hm) /\ Crew(hp, hq, hr, G)
      /\ Occupied(G, blk, q, r, hm, hp) /\ Alive(nb, numLive, numPool, q, r, hp)
  BY <1>1 DEF PoolIInv
<1>3. PICK H : H = G \cup {g}
  OBVIOUS
<1>4. /\ g \in Groups \ G /\ groups' = H /\ nr + MinReserved[g] <= MaxLive
      /\ numReserved' = nr + MinReserved[g] /\ s = [res EXCEPT ![g] = MinReserved[g]]
      /\ UNCHANGED <<numBlocked, numLive, blocked, poolVars, home, helperVars>>
  BY <1>1, <1>3 DEF CreateGroup
<1>5. /\ G \subseteq Groups /\ None \notin G /\ hm \in [Works -> G \cup {None}] /\ g # None
      /\ \A v \in Busy(q, r) : v \in Works
  BY <1>2, Places, ThreadPoolAssumption
<1>6. \A w \in Works : hm[w] # g
  BY <1>4, <1>5
<1>7. Counts(H, nr + MinReserved[g], nb, s, blk)
  <2>1. res \in [Groups -> Nat] /\ MinReserved[g] \in Nat
    BY <1>2, ThreadPoolAssumption DEF Counts
  <2>2. s \in [Groups -> Nat] /\ OffOne(res, g, s) /\ s[g] = MinReserved[g]
    BY <2>1, <1>4 DEF OffOne
  <2> QED BY <2>2, <1>2, <1>3, <1>4, CountsGrown
<1>8. InPool(q, r, hm, H)
  <2>1. hm \in [Works -> H \cup {None}]
    BY <1>3, <1>5
  <2> QED BY <2>1, <1>2 DEF InPool
<1>9. Crew(hp, hq, hr, H)
  BY <1>2, <1>3 DEF Crew
<1>10. Occupied(H, blk, q, r, hm, hp)
  <2>1. Occ(q, r, hm, hp, g) = {}
    BY <1>2, <1>4, <1>5, <1>6 DEF Occ, Crew
  <2>2. blk[g] = 0
    BY <1>2, <1>4 DEF Counts
  <2>3. blk[g] = Cardinality(Occ(q, r, hm, hp, g))
    BY <2>1, <2>2, FS_EmptySet
  <2> QED BY <2>3, <1>2, <1>3 DEF Occupied
<1> QED BY <1>1, <1>2, <1>4, <1>7, <1>8, <1>9, <1>10 DEF PoolIInv, poolVars, helperVars

LEMMA FinalizeBlockGroupStep ==
  ASSUME PoolIInv, NEW g \in Groups, FinalizeBlockGroup(g)
  PROVE  PoolIInv'
<1>1. PICK G, nr, nb, blk, res, s, q, r, wk, hm, hq, hr, hp :
        /\ G = groups /\ nr = numReserved /\ nb = numBlocked /\ blk = blocked /\ res = reserved
        /\ s = reserved' /\ q = workForThreads /\ r = running /\ wk = work /\ hm = home
        /\ hq = helperQueue /\ hr = helperRuns /\ hp = helper
  OBVIOUS
<1>2. /\ Counts(G, nr, nb, res, blk) /\ InPool(q, r, hm, G)
      /\ InGroups(wk, q, r, hm) /\ InHelpers(hq, hr, wk, q, r, hm) /\ Crew(hp, hq, hr, G)
      /\ Occupied(G, blk, q, r, hm, hp) /\ Alive(nb, numLive, numPool, q, r, hp)
  BY <1>1 DEF PoolIInv
<1>3. PICK H : H = G \ {g}
  OBVIOUS
<1>4. /\ g \in G /\ groups' = H /\ numReserved' = nr - res[g] /\ s = [res EXCEPT ![g] = 0]
      /\ \A w \in Works : hm[w] # g
      /\ \A h \in In(hp, "alive") : hp[h].group # g
      /\ UNCHANGED <<numBlocked, numLive, blocked, poolVars, home, helperVars>>
  BY <1>1, <1>3 DEF FinalizeBlockGroup, HelpersIn, In
<1>5. /\ G \subseteq Groups /\ hm \in [Works -> G \cup {None}]
      /\ \A v \in Busy(q, r) : v \in Works
  BY <1>2, Places
<1>6. blk[g] = 0
  <2>1. Occ(q, r, hm, hp, g) = {}
    BY <1>4, <1>5 DEF Occ
  <2> QED BY <2>1, <1>2, <1>4, FS_EmptySet DEF Occupied
<1>7. res \in [Groups -> Nat] /\ s \in [Groups -> Nat] /\ OffOne(res, g, s)
  <2>1. res \in [Groups -> Nat]
    BY <1>2 DEF Counts
  <2> QED BY <2>1, <1>4 DEF OffOne
<1>8. Counts(H, nr - res[g], nb, s, blk)
  BY <1>2, <1>3, <1>4, <1>6, <1>7, CountsShrunk
<1>9. InPool(q, r, hm, H)
  <2>1. hm \in [Works -> H \cup {None}]
    BY <1>3, <1>4, <1>5
  <2> QED BY <2>1, <1>2 DEF InPool
<1>10. Crew(hp, hq, hr, H)
  BY <1>2, <1>3, <1>4 DEF Crew
<1>11. Occupied(H, blk, q, r, hm, hp)
  BY <1>2, <1>3 DEF Occupied
<1> QED BY <1>1, <1>2, <1>4, <1>8, <1>9, <1>10, <1>11 DEF PoolIInv, poolVars, helperVars
-----------------------------------------------------------------------------
LEMMA CreateHelperStep ==
  ASSUME PoolIInv, NEW h \in Helpers, NEW g \in Groups, CreateHelper(h, g)
  PROVE  PoolIInv'
<1>1. PICK G, nb, nl, np, blk, k, q, r, wk, hm, hq, hr, hp, ho :
        /\ G = groups /\ nb = numBlocked /\ nl = numLive /\ np = numPool /\ blk = blocked
        /\ k = blocked' /\ q = workForThreads /\ r = running /\ wk = work /\ hm = home
        /\ hq = helperQueue /\ hr = helperRuns /\ hp = helper /\ ho = helper'
  OBVIOUS
<1>2. /\ Counts(G, numReserved, nb, reserved, blk) /\ InPool(q, r, hm, G)
      /\ InGroups(wk, q, r, hm) /\ InHelpers(hq, hr, wk, q, r, hm) /\ Crew(hp, hq, hr, G)
      /\ Occupied(G, blk, q, r, hm, hp) /\ Alive(nb, nl, np, q, r, hp)
  BY <1>1 DEF PoolIInv
<1>3. /\ g \in G /\ hp[h].state = "none" /\ nl # MaxLive /\ GetThread(g)
      /\ numLive' = nl + 1 /\ ho = [hp EXCEPT ![h] = [state |-> "alive", group |-> g]]
      /\ UNCHANGED <<groups, poolVars, home, helperQueue, helperRuns>>
  BY <1>1 DEF CreateHelper
<1>4. /\ Counts(G, numReserved', numBlocked', reserved', k)
      /\ numBlocked' = nb + 1 /\ OffOne(blk, g, k) /\ k[g] = blk[g] + 1
  BY <1>1, <1>3, ThreadTaken
<1>5. /\ hp \in [Helpers -> [state : HelperStates, group : Groups \cup {None}]]
      /\ IsFiniteSet(In(hp, "alive")) /\ IsFiniteSet(In(hp, "finished"))
      /\ \A e \in In(hp, "alive") : hp[e].group \in G
      /\ \A e \in Helpers : e \notin In(hp, "alive") => hq[e] = << >> /\ hr[e] = {}
  BY <1>2 DEF Crew
<1>6. /\ ho \in [Helpers -> [state : HelperStates, group : Groups \cup {None}]]
      /\ ho[h].state = "alive" /\ ho[h].group = g
      /\ \A e \in Helpers : e # h => ho[e] = hp[e]
  BY <1>3, <1>5 DEF HelperStates
<1>7. /\ In(ho, "alive") = In(hp, "alive") \cup {h} /\ h \notin In(hp, "alive")
      /\ In(ho, "finished") = In(hp, "finished")
  BY <1>3, <1>6 DEF In
<1>8. /\ IsFiniteSet(In(ho, "alive"))
      /\ Cardinality(In(ho, "alive")) = Cardinality(In(hp, "alive")) + 1
  <2>1. PICK A : A = In(hp, "alive")
    OBVIOUS
  <2>2. IsFiniteSet(A \cup {h}) /\ Cardinality(A \cup {h}) = Cardinality(A) + 1
    BY <2>1, <1>5, <1>7, FS_AddElement
  <2> QED BY <2>1, <2>2, <1>7
<1>9. Crew(ho, hq, hr, G)
  <2>1. \A e \in In(ho, "alive") : ho[e].group \in G
    BY <1>3, <1>5, <1>6, <1>7 DEF In
  <2> QED BY <2>1, <1>5, <1>6, <1>7, <1>8 DEF Crew
<1>10. Occupied(G, k, q, r, hm, ho)
  <2>1. \A e \in In(hp, "alive") : ho[e].group = hp[e].group
    BY <1>6, <1>7 DEF In
  <2>2. Others(G, g, q, r, hm, hp, q, r, hm, ho)
    BY <2>1, <1>6, <1>7 DEF Others, Occ
  <2>3. h \notin Occ(q, r, hm, hp, g)
    <3>1. h \notin Busy(q, r)
      BY <1>2, BusyWorks
    <3> QED BY <3>1, <1>7 DEF Occ
  <2>4. Occ(q, r, hm, ho, g) = Occ(q, r, hm, hp, g) \cup {h}
    BY <2>1, <1>6, <1>7 DEF Occ
  <2>5. IsFiniteSet(Occ(q, r, hm, hp, g)) /\ G \subseteq Groups
    BY <1>2, Numbers DEF Counts
  <2> QED BY <2>2, <2>3, <2>4, <2>5, <1>2, <1>3, <1>4, OccupiedMore
<1>11. Alive(nb + 1, nl + 1, np, q, r, ho)
  <2>1. PICK a, f, l, n : /\ a = Cardinality(In(hp, "alive")) /\ l = Len(q)
                          /\ f = Cardinality(In(hp, "finished")) /\ n = Cardinality(r)
    OBVIOUS
  <2>2. a \in Nat /\ f \in Nat /\ l \in Nat /\ n \in Nat /\ MaxLive \in Nat
    BY <2>1, <1>2, Numbers, ThreadPoolAssumption
  <2>3. np \in Nat /\ nl <= MaxLive /\ nl = np + a + f /\ nb = l + n + a
    BY <2>1, <1>2 DEF Alive
  <2>4. nl + 1 <= MaxLive /\ nl + 1 = np + (a + 1) + f /\ nb + 1 = l + n + (a + 1)
    BY <2>2, <2>3, <1>3
  <2> QED BY <2>1, <2>4, <1>2, <1>7, <1>8 DEF Alive
<1> QED BY <1>1, <1>2, <1>3, <1>4, <1>9, <1>10, <1>11 DEF PoolIInv, poolVars

LEMMA RunInHelperStep ==
  ASSUME PoolIInv, NEW w \in Works, NEW h \in Helpers, NEW g \in Groups, RunInHelper(w, h, g)
  PROVE  PoolIInv'
<1>1. PICK G, nb, blk, res, q, r, wk, hm, hn, hq, iq, hr, hp :
        /\ G = groups /\ nb = numBlocked /\ blk = blocked /\ res = reserved
        /\ q = workForThreads /\ r = running /\ wk = work /\ hm = home /\ hn = home'
        /\ hq = helperQueue /\ iq = helperQueue' /\ hr = helperRuns /\ hp = helper
  OBVIOUS
<1>2. /\ Counts(G, numReserved, nb, res, blk) /\ InPool(q, r, hm, G)
      /\ InGroups(wk, q, r, hm) /\ InHelpers(hq, hr, wk, q, r, hm) /\ Crew(hp, hq, hr, G)
      /\ Occupied(G, blk, q, r, hm, hp)
      /\ Alive(nb, numLive, numPool, q, r, hp)
  BY <1>1 DEF PoolIInv
<1>3. PICK s, t : s = hq[h] /\ t = Append(s, w)
  OBVIOUS
<1>4. /\ g \in G /\ hm[w] = None /\ hp[h].state = "alive" /\ hn = [hm EXCEPT ![w] = g]
      /\ iq = [hq EXCEPT ![h] = t]
      /\ UNCHANGED <<countVars, poolVars, helper, helperRuns>>
  BY <1>1, <1>3 DEF RunInHelper
<1>5. /\ G \subseteq Groups /\ None \notin G /\ hm \in [Works -> G \cup {None}]
      /\ \A v \in Busy(q, r) : hm[v] # None /\ v \in Works
      /\ \A e \in Groups : Elements(wk[e]) \subseteq Works
      /\ \A e \in Helpers : InHelper(hq, hr, e) \subseteq Works
  BY <1>2, Places
<1>6. /\ w \notin Busy(q, r)
      /\ \A e \in Groups : w \notin Elements(wk[e])
      /\ \A e \in Helpers : w \notin InHelper(hq, hr, e)
  BY <1>2, <1>4, <1>5, Homeless
<1>7. /\ hn \in [Works -> G \cup {None}] /\ hn[w] # None
      /\ \A v \in Works : v # w => hn[v] = hm[v]
  BY <1>4, <1>5
<1>8. InPool(q, r, hn, G)
  <2>1. \A v \in Busy(q, r) : hn[v] # None
    BY <1>5, <1>6, <1>7
  <2> QED BY <2>1, <1>2, <1>7 DEF InPool
<1>9. InGroups(wk, q, r, hn)
  <2>1. \A e \in Groups : \A v \in Elements(wk[e]) : hn[v] = hm[v] /\ v \notin Busy(q, r)
    BY <1>2, <1>5, <1>6, <1>7 DEF InGroups
  <2> QED BY <2>1, <1>2, GroupsKept
<1>10. /\ hq \in [Helpers -> Seq(Works)] /\ hr \in [Helpers -> SUBSET Works]
       /\ \A e \in Helpers : /\ NoRepeats(hq[e]) /\ hr[e] \cap Elements(hq[e]) = {}
                             /\ \A v, u \in hr[e] : v = u
       /\ \A e \in Helpers : \A v \in InHelper(hq, hr, e) :
            /\ hm[v] # None /\ v \notin Busy(q, r)
            /\ \A o \in Groups : v \notin Elements(wk[o])
            /\ \A o \in Helpers : v \in InHelper(hq, hr, o) => o = e
  BY <1>2 DEF InHelpers
<1>11. t \in Seq(Works) /\ NoRepeats(t) /\ Elements(t) = Elements(s) \cup {w}
  <2>1. s \in Seq(Works) /\ NoRepeats(s) /\ w \notin Elements(s)
    BY <1>3, <1>6, <1>10 DEF InHelper
  <2> QED BY <2>1, <1>3, Appended
<1>12. /\ iq \in [Helpers -> Seq(Works)] /\ iq[h] = t
       /\ \A e \in Helpers : e # h => iq[e] = hq[e]
  BY <1>4, <1>10, <1>11
<1>13. /\ InHelper(iq, hr, h) = InHelper(hq, hr, h) \cup {w}
       /\ \A e \in Helpers : e # h => InHelper(iq, hr, e) = InHelper(hq, hr, e)
  BY <1>3, <1>11, <1>12 DEF InHelper
<1>14. InHelpers(iq, hr, wk, q, r, hn)
  <2>1. ASSUME NEW e \in Helpers
        PROVE  /\ NoRepeats(iq[e]) /\ hr[e] \cap Elements(iq[e]) = {}
               /\ \A v, u \in hr[e] : v = u
    <3>1. CASE e = h
      <4>1. w \notin hr[h]
        BY <1>6 DEF InHelper
      <4> QED BY <3>1, <4>1, <1>3, <1>10, <1>11, <1>12
    <3>2. CASE e # h
      BY <3>2, <1>10, <1>12
    <3> QED BY <3>1, <3>2
  <2>2. ASSUME NEW e \in Helpers, NEW v \in InHelper(iq, hr, e)
        PROVE  /\ hn[v] # None /\ v \notin Busy(q, r)
               /\ \A o \in Groups : v \notin Elements(wk[o])
               /\ \A o \in Helpers : v \in InHelper(iq, hr, o) => o = e
    <3>1. CASE v = w
      BY <3>1, <2>2, <1>6, <1>7, <1>13
    <3>2. CASE v # w
      <4>1. v \in InHelper(hq, hr, e) /\ v \in Works
        BY <3>2, <2>2, <1>5, <1>13
      <4>2. \A o \in Helpers : v \in InHelper(iq, hr, o) => v \in InHelper(hq, hr, o)
        BY <3>2, <1>13
      <4> QED BY <3>2, <4>1, <4>2, <1>7, <1>10
    <3> QED BY <3>1, <3>2
  <2> QED BY <2>1, <2>2, <1>10, <1>12 DEF InHelpers
<1>15. Crew(hp, iq, hr, G)
  <2>1. \A e \in Helpers : e \notin In(hp, "alive") => e # h
    BY <1>4 DEF In
  <2> QED BY <2>1, <1>2, <1>12 DEF Crew
<1>16. Occupied(G, blk, q, r, hn, hp)
  <2>1. \A v \in Busy(q, r) : hn[v] = hm[v]
    BY <1>5, <1>6, <1>7
  <2> QED BY <2>1, <1>2, OccupiedKept
<1> QED BY <1>1, <1>2, <1>4, <1>8, <1>9, <1>14, <1>15, <1>16 DEF PoolIInv, countVars, poolVars

LEMMA HelperPopsStep == ASSUME PoolIInv, NEW h \in Helpers, HelperPops(h) PROVE PoolIInv'
<1>1. PICK G, nb, blk, res, q, r, wk, hm, hq, iq, hr, ir, hp :
        /\ G = groups /\ nb = numBlocked /\ blk = blocked /\ res = reserved
        /\ q = workForThreads /\ r = running /\ wk = work /\ hm = home
        /\ hq = helperQueue /\ iq = helperQueue' /\ hr = helperRuns /\ ir = helperRuns'
        /\ hp = helper
  OBVIOUS
<1>2. InHelpers(hq, hr, wk, q, r, hm) /\ Crew(hp, hq, hr, G)
  BY <1>1 DEF PoolIInv
<1>3. PICK s, v, t : s = hq[h] /\ v = Head(s) /\ t = Tail(s)
  OBVIOUS
<1>4. /\ s # << >> /\ hr[h] = {} /\ ir = [hr EXCEPT ![h] = {v}] /\ iq = [hq EXCEPT ![h] = t]
      /\ UNCHANGED <<countVars, poolVars, home, helper>>
  BY <1>1, <1>3 DEF HelperPops
<1>5. /\ hq \in [Helpers -> Seq(Works)] /\ hr \in [Helpers -> SUBSET Works]
      /\ \A e \in Helpers : /\ NoRepeats(hq[e]) /\ hr[e] \cap Elements(hq[e]) = {}
                            /\ \A x, y \in hr[e] : x = y
      /\ \A e \in Helpers : \A x \in InHelper(hq, hr, e) :
           /\ hm[x] # None /\ x \notin Busy(q, r)
           /\ \A o \in Groups : x \notin Elements(wk[o])
           /\ \A o \in Helpers : x \in InHelper(hq, hr, o) => o = e
  BY <1>2 DEF InHelpers
<1>6. /\ v \in Works /\ v \in Elements(s) /\ t \in Seq(Works) /\ NoRepeats(t)
      /\ Elements(t) = Elements(s) \ {v}
  <2>1. s \in Seq(Works) /\ NoRepeats(s)
    BY <1>3, <1>5
  <2> QED BY <2>1, <1>3, <1>4, FirstTaken
<1>7. /\ iq \in [Helpers -> Seq(Works)] /\ iq[h] = t
      /\ ir \in [Helpers -> SUBSET Works] /\ ir[h] = {v}
      /\ \A e \in Helpers : e # h => iq[e] = hq[e] /\ ir[e] = hr[e]
  BY <1>4, <1>5, <1>6
<1>8. \A e \in Helpers : InHelper(iq, ir, e) = InHelper(hq, hr, e)
  <2>1. InHelper(iq, ir, h) = InHelper(hq, hr, h)
    BY <1>3, <1>4, <1>6, <1>7 DEF InHelper
  <2> QED BY <2>1, <1>7 DEF InHelper
<1>9. InHelpers(iq, ir, wk, q, r, hm)
  <2>1. ASSUME NEW e \in Helpers
        PROVE  /\ NoRepeats(iq[e]) /\ ir[e] \cap Elements(iq[e]) = {}
               /\ \A x, y \in ir[e] : x = y
    <3>1. CASE e = h
      BY <3>1, <1>6, <1>7
    <3>2. CASE e # h
      BY <3>2, <1>5, <1>7
    <3> QED BY <3>1, <3>2
  <2> QED BY <2>1, <1>5, <1>7, <1>8 DEF InHelpers
<1>10. Crew(hp, iq, ir, G)
  <2>1. \A e \in Helpers : e \notin In(hp, "alive") => e # h
    BY <1>2, <1>3, <1>4 DEF Crew
  <2> QED BY <2>1, <1>2, <1>7 DEF Crew
<1> QED BY <1>1, <1>4, <1>9, <1>10 DEF PoolIInv, countVars, poolVars

LEMMA HelperWorkDoneStep == ASSUME PoolIInv, NEW h \in Helpers, HelperWorkDone(h) PROVE PoolIInv'
<1>1. PICK G, nb, blk, res, q, r, wk, hm, hn, hq, hr, ir, hp :
        /\ G = groups /\ nb = numBlocked /\ blk = blocked /\ res = reserved
        /\ q = workForThreads /\ r = running /\ wk = work /\ hm = home /\ hn = home'
        /\ hq = helperQueue /\ hr = helperRuns /\ ir = helperRuns' /\ hp = helper
  OBVIOUS
<1>2. /\ Counts(G, numReserved, nb, res, blk) /\ InPool(q, r, hm, G)
      /\ InGroups(wk, q, r, hm) /\ InHelpers(hq, hr, wk, q, r, hm) /\ Crew(hp, hq, hr, G)
      /\ Occupied(G, blk, q, r, hm, hp)
  BY <1>1 DEF PoolIInv
<1>3. PICK d : d = hr[h]
  OBVIOUS
<1>4. /\ ir = [hr EXCEPT ![h] = {}]
      /\ hn = [w \in Works |-> IF w \in d THEN None ELSE hm[w]]
      /\ UNCHANGED <<countVars, poolVars, helper, helperQueue>>
  BY <1>1, <1>3 DEF HelperWorkDone
<1>5. /\ G \subseteq Groups /\ None \notin G /\ hm \in [Works -> G \cup {None}]
      /\ \A v \in Busy(q, r) : hm[v] # None /\ v \in Works
      /\ \A e \in Groups : Elements(wk[e]) \subseteq Works
      /\ \A e \in Helpers : InHelper(hq, hr, e) \subseteq Works
  BY <1>2, Places
<1>6. /\ hn \in [Works -> G \cup {None}] /\ \A v \in Works : v \notin d => hn[v] = hm[v]
  BY <1>4, <1>5
<1>7. /\ hq \in [Helpers -> Seq(Works)] /\ hr \in [Helpers -> SUBSET Works]
      /\ \A e \in Helpers : /\ NoRepeats(hq[e]) /\ hr[e] \cap Elements(hq[e]) = {}
                            /\ \A x, y \in hr[e] : x = y
      /\ \A e \in Helpers : \A x \in InHelper(hq, hr, e) :
           /\ hm[x] # None /\ x \notin Busy(q, r)
           /\ \A o \in Groups : x \notin Elements(wk[o])
           /\ \A o \in Helpers : x \in InHelper(hq, hr, o) => o = e
  BY <1>2 DEF InHelpers
<1>8. d \subseteq InHelper(hq, hr, h)
  BY <1>3 DEF InHelper
<1>9. /\ \A v \in Busy(q, r) : v \notin d
      /\ \A e \in Groups : \A v \in Elements(wk[e]) : v \notin d
  BY <1>7, <1>8
<1>10. InPool(q, r, hn, G)
  <2>1. \A v \in Busy(q, r) : hn[v] # None
    BY <1>5, <1>6, <1>9
  <2> QED BY <2>1, <1>2, <1>6 DEF InPool
<1>11. InGroups(wk, q, r, hn)
  <2>1. \A e \in Groups : \A v \in Elements(wk[e]) : hn[v] = hm[v] /\ v \notin Busy(q, r)
    BY <1>2, <1>5, <1>6, <1>9 DEF InGroups
  <2> QED BY <2>1, <1>2, GroupsKept
<1>12. /\ ir \in [Helpers -> SUBSET Works] /\ ir[h] = {}
       /\ \A e \in Helpers : e # h => ir[e] = hr[e]
  BY <1>4, <1>7
<1>13. \A e \in Helpers : InHelper(hq, ir, e) \subseteq InHelper(hq, hr, e) \ d
  <2>1. InHelper(hq, ir, h) \subseteq InHelper(hq, hr, h) \ d
    BY <1>3, <1>7, <1>12 DEF InHelper
  <2>2. ASSUME NEW e \in Helpers, e # h
        PROVE  InHelper(hq, ir, e) \subseteq InHelper(hq, hr, e) \ d
    <3>1. InHelper(hq, ir, e) = InHelper(hq, hr, e)
      BY <2>2, <1>12 DEF InHelper
    <3> QED BY <3>1, <2>2, <1>7, <1>8
  <2> QED BY <2>1, <2>2
<1>14. InHelpers(hq, ir, wk, q, r, hn)
  <2>1. \A e \in Helpers : /\ NoRepeats(hq[e]) /\ ir[e] \cap Elements(hq[e]) = {}
                           /\ \A x, y \in ir[e] : x = y
    BY <1>7, <1>12
  <2>2. ASSUME NEW e \in Helpers, NEW x \in InHelper(hq, ir, e)
        PROVE  /\ hn[x] # None /\ x \notin Busy(q, r)
               /\ \A o \in Groups : x \notin Elements(wk[o])
               /\ \A o \in Helpers : x \in InHelper(hq, ir, o) => o = e
    <3>1. x \in InHelper(hq, hr, e) /\ x \notin d /\ x \in Works
      BY <2>2, <1>5, <1>13
    <3> QED BY <3>1, <1>6, <1>7, <1>13
  <2> QED BY <2>1, <2>2, <1>7, <1>12 DEF InHelpers
<1>15. Crew(hp, hq, ir, G)
  BY <1>2, <1>12 DEF Crew
<1>16. Occupied(G, blk, q, r, hn, hp)
  <2>1. \A v \in Busy(q, r) : hn[v] = hm[v]
    BY <1>5, <1>6, <1>9
  <2> QED BY <2>1, <1>2, OccupiedKept
<1> QED BY <1>1, <1>4, <1>10, <1>11, <1>14, <1>15, <1>16 DEF PoolIInv, countVars, poolVars

LEMMA HelperFinishedStep == ASSUME PoolIInv, NEW h \in Helpers, HelperFinished(h) PROVE PoolIInv'
<1>1. PICK G, nb, nl, np, blk, k, q, r, wk, hm, hq, hr, hp, ho :
        /\ G = groups /\ nb = numBlocked /\ nl = numLive /\ np = numPool /\ blk = blocked
        /\ k = blocked' /\ q = workForThreads /\ r = running /\ wk = work /\ hm = home
        /\ hq = helperQueue /\ hr = helperRuns /\ hp = helper /\ ho = helper'
  OBVIOUS
<1>2. /\ Counts(G, numReserved, nb, reserved, blk) /\ InPool(q, r, hm, G)
      /\ InGroups(wk, q, r, hm) /\ InHelpers(hq, hr, wk, q, r, hm) /\ Crew(hp, hq, hr, G)
      /\ Occupied(G, blk, q, r, hm, hp) /\ Alive(nb, nl, np, q, r, hp)
  BY <1>1 DEF PoolIInv
<1>3. PICK g : g = hp[h].group
  OBVIOUS
<1>4. /\ hp[h].state = "alive" /\ hq[h] = << >> /\ hr[h] = {} /\ FinishWithThread(g)
      /\ ho = [hp EXCEPT ![h].state = "finished"]
      /\ UNCHANGED <<numLive, groups, poolVars, home, helperQueue, helperRuns>>
  BY <1>1, <1>3 DEF HelperFinished
<1>5. /\ hp \in [Helpers -> [state : HelperStates, group : Groups \cup {None}]]
      /\ IsFiniteSet(In(hp, "alive")) /\ IsFiniteSet(In(hp, "finished"))
      /\ \A e \in In(hp, "alive") : hp[e].group \in G
      /\ \A e \in Helpers : e \notin In(hp, "alive") => hq[e] = << >> /\ hr[e] = {}
  BY <1>2 DEF Crew
<1>6. /\ ho \in [Helpers -> [state : HelperStates, group : Groups \cup {None}]]
      /\ ho[h].state = "finished" /\ \A e \in Helpers : e # h => ho[e] = hp[e]
  BY <1>4, <1>5 DEF HelperStates
<1>7. h \in In(hp, "alive") /\ h \notin In(hp, "finished") /\ g \in G
  BY <1>3, <1>4, <1>5 DEF In
<1>8. /\ In(ho, "alive") = In(hp, "alive") \ {h}
      /\ In(ho, "finished") = In(hp, "finished") \cup {h}
  BY <1>6, <1>7 DEF In
<1>9. /\ IsFiniteSet(In(ho, "alive")) /\ IsFiniteSet(In(ho, "finished"))
      /\ Cardinality(In(ho, "alive")) = Cardinality(In(hp, "alive")) - 1
      /\ Cardinality(In(ho, "finished")) = Cardinality(In(hp, "finished")) + 1
  <2>1. PICK A, F : A = In(hp, "alive") /\ F = In(hp, "finished")
    OBVIOUS
  <2>2. IsFiniteSet(A \ {h}) /\ Cardinality(A \ {h}) = Cardinality(A) - 1
    BY <2>1, <1>5, <1>7, FS_RemoveElement
  <2>3. IsFiniteSet(F \cup {h}) /\ Cardinality(F \cup {h}) = Cardinality(F) + 1
    BY <2>1, <1>5, <1>7, FS_AddElement
  <2> QED BY <2>1, <2>2, <2>3, <1>8
<1>10. /\ G \subseteq Groups /\ blk \in [Groups -> Nat] /\ IsFiniteSet(Occ(q, r, hm, hp, g))
       /\ h \in Occ(q, r, hm, hp, g)
  <2>1. h \in Occ(q, r, hm, hp, g)
    BY <1>3, <1>7 DEF Occ
  <2> QED BY <2>1, <1>2, Numbers DEF Counts
<1>11. blk[g] > 0
  BY <1>2, <1>7, <1>10, OccupiedByOne
<1>12. /\ Counts(G, numReserved', numBlocked', reserved', k)
       /\ numBlocked' = nb - 1 /\ OffOne(blk, g, k) /\ k[g] = blk[g] - 1
  BY <1>1, <1>4, <1>7, <1>11, ThreadGiven
<1>13. Crew(ho, hq, hr, G)
  <2>1. \A e \in In(ho, "alive") : ho[e].group \in G
    BY <1>5, <1>6, <1>8 DEF In
  <2> QED BY <2>1, <1>4, <1>5, <1>6, <1>8, <1>9 DEF Crew
<1>14. Occupied(G, k, q, r, hm, ho)
  <2>1. \A e \in In(ho, "alive") : ho[e].group = hp[e].group
    BY <1>6, <1>8 DEF In
  <2>2. Others(G, g, q, r, hm, hp, q, r, hm, ho)
    BY <2>1, <1>3, <1>8 DEF Others, Occ
  <2>3. h \notin Busy(q, r)
    BY <1>2, BusyWorks
  <2>4. Occ(q, r, hm, ho, g) = Occ(q, r, hm, hp, g) \ {h}
    BY <2>1, <2>3, <1>8 DEF Occ
  <2> QED BY <2>2, <2>4, <1>2, <1>7, <1>10, <1>12, OccupiedLess
<1>15. Alive(nb - 1, nl, np, q, r, ho)
  <2>1. PICK a, f, l, n : /\ a = Cardinality(In(hp, "alive")) /\ l = Len(q)
                          /\ f = Cardinality(In(hp, "finished")) /\ n = Cardinality(r)
    OBVIOUS
  <2>2. a \in Nat /\ f \in Nat /\ l \in Nat /\ n \in Nat
    BY <2>1, <1>2, Numbers
  <2>3. np \in Nat /\ nl <= MaxLive /\ nl = np + a + f /\ nb = l + n + a
    BY <2>1, <1>2 DEF Alive
  <2>4. nl = np + (a - 1) + (f + 1) /\ nb - 1 = l + n + (a - 1)
    BY <2>2, <2>3
  <2> QED BY <2>1, <2>3, <2>4, <1>9 DEF Alive
<1> QED BY <1>1, <1>2, <1>4, <1>12, <1>13, <1>14, <1>15 DEF PoolIInv, poolVars

LEMMA HelperDeadStep == ASSUME PoolIInv, NEW h \in Helpers, HelperDead(h) PROVE PoolIInv'
<1>1. PICK G, nb, nl, np, blk, q, r, hm, hq, hr, hp, ho :
        /\ G = groups /\ nb = numBlocked /\ nl = numLive /\ np = numPool /\ blk = blocked
        /\ q = workForThreads /\ r = running /\ hm = home
        /\ hq = helperQueue /\ hr = helperRuns /\ hp = helper /\ ho = helper'
  OBVIOUS
<1>2. /\ InPool(q, r, hm, G) /\ Crew(hp, hq, hr, G)
      /\ Occupied(G, blk, q, r, hm, hp) /\ Alive(nb, nl, np, q, r, hp)
  BY <1>1 DEF PoolIInv
<1>3. /\ hp[h].state = "finished" /\ numLive' = nl - 1 /\ ho = [hp EXCEPT ![h] = NoHelper]
      /\ UNCHANGED <<numReserved, numBlocked, groups, reserved, blocked, poolVars,
                     home, helperQueue, helperRuns>>
  BY <1>1 DEF HelperDead
<1>4. /\ hp \in [Helpers -> [state : HelperStates, group : Groups \cup {None}]]
      /\ IsFiniteSet(In(hp, "alive")) /\ IsFiniteSet(In(hp, "finished"))
      /\ \A e \in In(hp, "alive") : hp[e].group \in G
      /\ \A e \in Helpers : e \notin In(hp, "alive") => hq[e] = << >> /\ hr[e] = {}
  BY <1>2 DEF Crew
<1>5. /\ ho \in [Helpers -> [state : HelperStates, group : Groups \cup {None}]]
      /\ ho[h].state = "none" /\ \A e \in Helpers : e # h => ho[e] = hp[e]
  BY <1>3, <1>4 DEF HelperStates, NoHelper
<1>6. /\ h \in In(hp, "finished") /\ h \notin In(hp, "alive")
      /\ In(ho, "alive") = In(hp, "alive") /\ In(ho, "finished") = In(hp, "finished") \ {h}
  BY <1>3, <1>5 DEF In
<1>7. /\ IsFiniteSet(In(ho, "finished"))
      /\ Cardinality(In(ho, "finished")) = Cardinality(In(hp, "finished")) - 1
  <2>1. PICK F : F = In(hp, "finished")
    OBVIOUS
  <2>2. IsFiniteSet(F \ {h}) /\ Cardinality(F \ {h}) = Cardinality(F) - 1
    BY <2>1, <1>4, <1>6, FS_RemoveElement
  <2> QED BY <2>1, <2>2, <1>6
<1>8. Crew(ho, hq, hr, G)
  <2>1. \A e \in In(hp, "alive") : ho[e].group \in G
    BY <1>4, <1>5, <1>6 DEF In
  <2> QED BY <2>1, <1>4, <1>5, <1>6, <1>7 DEF Crew
<1>9. Occupied(G, blk, q, r, hm, ho)
  <2>1. \A e \in In(hp, "alive") : ho[e].group = hp[e].group
    BY <1>5, <1>6 DEF In
  <2> QED BY <2>1, <1>2, <1>6, OccupiedKept
<1>10. Alive(nb, nl - 1, np, q, r, ho)
  <2>1. PICK a, f : a = Cardinality(In(hp, "alive")) /\ f = Cardinality(In(hp, "finished"))
    OBVIOUS
  <2>2. a \in Nat /\ f \in Nat /\ MaxLive \in Nat
    BY <2>1, <1>2, Numbers, ThreadPoolAssumption
  <2>3. np \in Nat /\ nl <= MaxLive /\ nl = np + a + f
    BY <2>1, <1>2 DEF Alive
  <2>4. nl - 1 = np + a + (f - 1) /\ nl - 1 <= MaxLive
    BY <2>2, <2>3
  <2> QED BY <2>1, <2>3, <2>4, <1>2, <1>6, <1>7 DEF Alive
<1> QED BY <1>1, <1>3, <1>8, <1>9, <1>10 DEF PoolIInv, poolVars
-----------------------------------------------------------------------------
LEMMA InitPoolIInv == InitPool => PoolIInv
<1> SUFFICES ASSUME InitPool PROVE PoolIInv
  OBVIOUS
<1> USE DEF InitPool
<1>1. IsFiniteSet({}) /\ Cardinality({}) = 0
  BY FS_EmptySet
<1>2. Slots(reserved, groups) = {} /\ Slots(blocked, groups) = {}
  BY DEF Slots
<1>3. MaxLive \in Nat /\ None \notin Groups
  BY ThreadPoolAssumption
<1>4. Counts(groups, numReserved, numBlocked, reserved, blocked)
  <2>1. groups = {} /\ numReserved = 0 /\ numBlocked = 0 /\ numReserved <= MaxLive
    BY <1>3
  <2>2. /\ reserved \in [Groups -> Nat] /\ blocked \in [Groups -> Nat]
        /\ \A g \in Groups : blocked[g] = 0
    OBVIOUS
  <2>3. Cardinality(Slots(reserved, groups)) = 0 /\ Cardinality(Slots(blocked, groups)) = 0
    BY <1>1, <1>2
  <2> HIDE DEF InitPool
  <2> QED BY <1>1, <2>1, <2>2, <2>3 DEF Counts
<1>5. << >> \in Seq(Works) /\ Elements(<< >>) = {} /\ NoRepeats(<< >>) /\ Len(<< >>) = 0
  BY DEF Elements, NoRepeats
<1>6. InPool(workForThreads, running, home, groups)
  BY <1>1, <1>5 DEF InPool, Busy
<1>7. InGroups(work, workForThreads, running, home)
  BY <1>5 DEF InGroups, Busy
<1>8. InHelpers(helperQueue, helperRuns, work, workForThreads, running, home)
  BY <1>5 DEF InHelpers, InHelper, Busy
<1>9. In(helper, "alive") = {} /\ In(helper, "finished") = {}
  BY DEF In, NoHelper
<1>10. Crew(helper, helperQueue, helperRuns, groups)
  BY <1>1, <1>9 DEF Crew, NoHelper, HelperStates
<1>11. Occupied(groups, blocked, workForThreads, running, home, helper)
  BY DEF Occupied
<1>12. Alive(numBlocked, numLive, numPool, workForThreads, running, helper)
  <2>1. /\ numBlocked = 0 /\ numLive = 0 /\ numPool = 0
        /\ Len(workForThreads) = 0 /\ Cardinality(running) = 0
        /\ Cardinality(In(helper, "alive")) = 0 /\ Cardinality(In(helper, "finished")) = 0
    BY <1>1, <1>5, <1>9
  <2> HIDE DEF InitPool
  <2>2. /\ numPool \in Nat /\ numLive <= MaxLive
        /\ numLive = numPool + Cardinality(In(helper, "alive"))
                             + Cardinality(In(helper, "finished"))
        /\ numBlocked = Len(workForThreads) + Cardinality(running)
                                            + Cardinality(In(helper, "alive"))
    BY <2>1, <1>3
  <2> QED BY <2>2 DEF Alive
<1> QED BY <1>4, <1>6, <1>7, <1>8, <1>10, <1>11, <1>12 DEF PoolIInv

LEMMA NextPoolIInv == PoolIInv /\ [NextPool]_threadVars => PoolIInv'
<1> SUFFICES ASSUME PoolIInv, [NextPool]_threadVars PROVE PoolIInv'
  OBVIOUS
<1>1. CASE UNCHANGED threadVars
  BY <1>1 DEF threadVars, countVars, poolVars, helperVars, PoolIInv
<1>2. CASE NextPool
  <2>1. ASSUME NEW g \in Groups, CreateGroup(g) \/ FinalizeBlockGroup(g) PROVE PoolIInv'
    BY <2>1, CreateGroupStep, FinalizeBlockGroupStep
  <2>2. ASSUME NEW w \in Works, NEW g \in Groups, Run(w, g) PROVE PoolIInv'
    BY <2>2, RunStep
  <2>3. CASE PoolPops
    BY <2>3, PoolPopsStep
  <2>4. ASSUME NEW w \in Works, WorkDone(w) PROVE PoolIInv'
    BY <2>4, WorkDoneStep
  <2>5. ASSUME NEW h \in Helpers, NEW g \in Groups, CreateHelper(h, g) PROVE PoolIInv'
    BY <2>5, CreateHelperStep
  <2>6. ASSUME NEW w \in Works, NEW h \in Helpers, NEW g \in Groups, RunInHelper(w, h, g)
        PROVE  PoolIInv'
    BY <2>6, RunInHelperStep
  <2>7. ASSUME NEW h \in Helpers,
               HelperPops(h) \/ HelperWorkDone(h) \/ HelperFinished(h) \/ HelperDead(h)
        PROVE  PoolIInv'
    BY <2>7, HelperPopsStep, HelperWorkDoneStep, HelperFinishedStep, HelperDeadStep
  <2> QED BY <1>2, <2>1, <2>2, <2>3, <2>4, <2>5, <2>6, <2>7 DEF NextPool
<1> QED BY <1>1, <1>2
-----------------------------------------------------------------------------
LEMMA IInvTyped == PoolIInv => PoolTypeOK
<1> SUFFICES ASSUME PoolIInv PROVE PoolTypeOK
  OBVIOUS
<1>1. /\ numReserved \in Nat /\ numBlocked \in Nat /\ groups \subseteq Groups
      /\ reserved \in [Groups -> Nat] /\ blocked \in [Groups -> Nat]
  BY CountsHold DEF PoolIInv, Counts
<1>2. /\ workForThreads \in Seq(Works) /\ running \subseteq Works
      /\ home \in [Works -> Groups \cup {None}]
  BY <1>1 DEF PoolIInv, InPool
<1>3. /\ work \in [Groups -> Seq(Works)]
      /\ helperQueue \in [Helpers -> Seq(Works)] /\ helperRuns \in [Helpers -> SUBSET Works]
  BY DEF PoolIInv, InGroups, InHelpers
<1>4. helper \in [Helpers -> [state : HelperStates, group : Groups \cup {None}]]
  BY DEF PoolIInv, Crew
<1>5. numPool \in Nat /\ numLive \in Nat
  <2>1. Cardinality(In(helper, "alive")) \in Nat /\ Cardinality(In(helper, "finished")) \in Nat
    BY FS_CardinalityType DEF PoolIInv, Crew
  <2> QED BY <2>1 DEF PoolIInv, Alive
<1> QED BY <1>1, <1>2, <1>3, <1>4, <1>5 DEF PoolTypeOK

LEMMA IInvAccounts == PoolIInv => WithinLimits /\ ThreadsAccounted
<1> SUFFICES ASSUME PoolIInv PROVE WithinLimits /\ ThreadsAccounted
  OBVIOUS
<1>1. WithinLimits
  BY DEF PoolIInv, Counts, Alive, WithinLimits, InTotal
<1>2. \A s : In(helper, s) = HelpersIn(s)
  BY DEF In, HelpersIn
<1>3. \A g : Occ(workForThreads, running, home, helper, g) = Occupying(g)
  BY <1>2 DEF Occ, Busy, Occupying
<1>4. \A g \in groups : /\ blocked[g] = Cardinality(Occupying(g))
                        /\ blocked[g] <= reserved[g]
                        /\ reserved[g] > MinReserved[g] => blocked[g] = reserved[g]
  BY <1>3 DEF PoolIInv, Counts, Occupied
<1>5. numBlocked = InTotal(blocked)
  BY DEF PoolIInv, Counts, InTotal
<1>6. numLive = numPool + Cardinality(HelpersIn("alive") \cup HelpersIn("finished"))
  <2>1. PICK A, F : A = HelpersIn("alive") /\ F = HelpersIn("finished")
    OBVIOUS
  <2>2. IsFiniteSet(A) /\ IsFiniteSet(F) /\ Cardinality(A) \in Nat /\ Cardinality(F) \in Nat
    BY <2>1, <1>2, FS_CardinalityType DEF PoolIInv, Crew
  <2>3. A \cap F = {}
    BY <2>1 DEF HelpersIn
  <2>4. Cardinality(A \cap F) = 0
    BY <2>3, FS_EmptySet
  <2>5. Cardinality(A \cup F) = Cardinality(A) + Cardinality(F) - 0
    BY <2>2, <2>4, FS_Union
  <2>6. numPool \in Nat /\ numLive = numPool + Cardinality(A) + Cardinality(F)
    BY <2>1, <1>2 DEF PoolIInv, Alive
  <2> QED BY <2>1, <2>2, <2>5, <2>6
<1> QED BY <1>1, <1>4, <1>5, <1>6 DEF ThreadsAccounted

(* For any groups, works, helper threads and limits, no thread is lost and *)
(* none is promised twice: the live threads and the reservations stay      *)
(* within max_num_live_threads, the scheduler's three counts are those of  *)
(* the threads there are, and a group's blocked threads are exactly those  *)
(* that works and helper threads occupy (raw_scheduler.ml:199-218).        *)
THEOREM ThreadsAreAccounted == PoolSpec => []SchedulerInvariant
<1>1. PoolIInv => SchedulerInvariant
  BY IInvTyped, IInvAccounts DEF SchedulerInvariant
<1> QED BY InitPoolIInv, NextPoolIInv, <1>1, PTL DEF PoolSpec

(* A step makes the pool owe more works a thread only when it hands run's  *)
(* work to a thread that is counted as live: one of the finalized helper   *)
(* threads that have yet to stop.                                          *)
LEMMA RunOwes ==
  ASSUME PoolIInv, NEW w \in Works, NEW g \in Groups, Run(w, g), Owed' > Owed, Owed' > 0
  PROVE  Owed' <= Cardinality(HelpersIn("finished"))
<1>1. PICK q, r, nb, nl, np, a, f, l, n :
        /\ q = workForThreads /\ r = running /\ nb = numBlocked /\ nl = numLive /\ np = numPool
        /\ a = Cardinality(HelpersIn("alive")) /\ f = Cardinality(HelpersIn("finished"))
        /\ l = Len(q) /\ n = Cardinality(r)
  OBVIOUS
<1>2. /\ np \in Nat /\ a \in Nat /\ f \in Nat /\ l \in Nat /\ n \in Nat
      /\ nl = np + a + f /\ nb = l + n + a /\ q \in Seq(Works)
  <2>1. \A s : HelpersIn(s) = In(helper, s)
    BY DEF HelpersIn, In
  <2>2. InPool(q, r, home, groups) /\ Crew(helper, helperQueue, helperRuns, groups)
        /\ Alive(nb, nl, np, q, r, helper)
    BY <1>1 DEF PoolIInv
  <2>3. a \in Nat /\ f \in Nat /\ l \in Nat /\ n \in Nat
    BY <2>1, <2>2, <1>1, Numbers
  <2>4. q \in Seq(Works)
    BY <2>2 DEF InPool
  <2> QED BY <2>1, <2>2, <2>3, <2>4, <1>1 DEF Alive
<1>3. Owed = l + n - np
  BY <1>1 DEF Owed
<1>4. running' = running
  BY DEF Run
<1>5. CASE CreateThread(NeedsThread) /\ workForThreads' = Append(workForThreads, w)
  <2>1. PICK i : i = IF nb + 1 > nl THEN 1 ELSE 0
    OBVIOUS
  <2>2. numPool' = np + i
    BY <1>1, <1>5, <2>1 DEF CreateThread, NeedsThread
  <2>3. Len(workForThreads') = l + 1
    BY <1>1, <1>2, <1>5, AppendProperties
  <2>4. Owed' = (l + 1) + n - (np + i)
    BY <1>1, <1>4, <2>2, <2>3 DEF Owed
  <2>5. PICK o : o = Owed'
    OBVIOUS
  <2>6. o = (l + 1) + n - (np + i) /\ o > l + n - np
    BY <1>3, <2>4, <2>5
  <2>7. o <= f
    BY <1>2, <2>1, <2>6
  <2> QED BY <2>5, <2>7, <1>1
<1>6. CASE UNCHANGED <<workForThreads, numPool>>
  <2>1. Owed' = l + n - np
    BY <1>1, <1>4, <1>6 DEF Owed
  <2> QED BY <1>2, <1>3, <2>1
<1> QED BY <1>5, <1>6 DEF Run

(* No other step does.                                                     *)
LEMMA OthersOweNoMore ==
  ASSUME PoolIInv, [NextPool]_threadVars, \A w \in Works, g \in Groups : ~Run(w, g)
  PROVE  ~(Owed' > Owed)
<1>1. PICK q, r, np, l, n : /\ q = workForThreads /\ r = running /\ np = numPool
                            /\ l = Len(q) /\ n = Cardinality(r)
  OBVIOUS
<1>2. /\ q \in Seq(Works) /\ NoRepeats(q) /\ r \subseteq Works /\ IsFiniteSet(r)
      /\ Elements(q) \cap r = {} /\ np \in Nat
  BY <1>1 DEF PoolIInv, InPool, Alive
<1>3. l \in Nat /\ n \in Nat
  BY <1>1, <1>2, LenProperties, FS_CardinalityType
<1>4. Owed = l + n - np
  BY <1>1 DEF Owed
<1>5. ASSUME UNCHANGED <<workForThreads, numPool, running>> PROVE ~(Owed' > Owed)
  <2>1. Owed' = l + n - np
    BY <1>1, <1>5 DEF Owed
  <2> QED BY <1>3, <1>2, <1>4, <2>1
<1>6. CASE PoolPops
  <2>1. PICK v, c, t : v = Head(q) /\ c = Tail(q) /\ t = r \cup {v}
    OBVIOUS
  <2>2. q # << >> /\ running' = t /\ workForThreads' = c /\ numPool' = np
    BY <1>1, <1>6, <2>1 DEF PoolPops
  <2>3. v \in Elements(q) /\ Len(c) = l - 1
    BY <1>1, <1>2, <2>1, <2>2, FirstTaken
  <2>4. Cardinality(t) = n + 1
    BY <1>1, <1>2, <2>1, <2>3, FS_AddElement
  <2>5. Owed' = (l - 1) + (n + 1) - np
    BY <2>2, <2>3, <2>4 DEF Owed
  <2> QED BY <1>2, <1>3, <1>4, <2>5
<1>7. ASSUME NEW w \in Works, WorkDone(w) PROVE ~(Owed' > Owed)
  <2>1. PICK t : t = r \ {w}
    OBVIOUS
  <2>2. w \in r /\ running' = t /\ PassesOn(w)
    BY <1>1, <1>7, <2>1 DEF WorkDone
  <2>3. Cardinality(t) = n - 1
    BY <1>1, <1>2, <2>1, <2>2, FS_RemoveElement
  <2>4. numPool' = np /\ (workForThreads' = q \/ \E x : workForThreads' = Append(q, x))
    BY <1>1, <2>2 DEF PassesOn
  <2>5. PICK d \in {0, 1} : Len(workForThreads') = l + d
    <3>1. CASE workForThreads' = q
      BY <3>1, <1>1, <1>3
    <3>2. CASE \E x : workForThreads' = Append(q, x)
      <4>1. PICK x : workForThreads' = Append(q, x)
        BY <3>2
      <4>2. Len(Append(q, x)) = l + 1
        BY <1>1, <1>2
      <4> QED BY <4>1, <4>2
    <3> QED BY <2>4, <3>1, <3>2
  <2>6. Owed' = (l + d) + (n - 1) - np
    BY <2>2, <2>3, <2>4, <2>5 DEF Owed
  <2> QED BY <1>2, <1>3, <1>4, <2>6
<1>8. ASSUME NEW g \in Groups, CreateGroup(g) \/ FinalizeBlockGroup(g) PROVE ~(Owed' > Owed)
  BY <1>5, <1>8 DEF CreateGroup, FinalizeBlockGroup, poolVars
<1>9. ASSUME NEW h \in Helpers, NEW g \in Groups, CreateHelper(h, g) PROVE ~(Owed' > Owed)
  BY <1>5, <1>9 DEF CreateHelper, poolVars
<1>10. ASSUME NEW w \in Works, NEW h \in Helpers, NEW g \in Groups, RunInHelper(w, h, g)
       PROVE  ~(Owed' > Owed)
  BY <1>5, <1>10 DEF RunInHelper, poolVars
<1>11. ASSUME NEW h \in Helpers,
              HelperPops(h) \/ HelperWorkDone(h) \/ HelperFinished(h) \/ HelperDead(h)
       PROVE  ~(Owed' > Owed)
  BY <1>5, <1>11 DEF HelperPops, HelperWorkDone, HelperFinished, HelperDead, poolVars
<1>12. CASE UNCHANGED threadVars
  BY <1>5, <1>12 DEF threadVars, poolVars
<1> QED BY <1>6, <1>7, <1>8, <1>9, <1>10, <1>11, <1>12 DEF NextPool

(* A group to which only a thread was handed out does not become idle.     *)
LEMMA TakenNotIdle ==
  ASSUME PoolIInv, NEW g \in Groups, NEW o \in groups, GetThread(o), work' = work, ~Idle(g)
  PROVE  ~Idle(g)'
<1>1. PICK b, c, res, s, i : /\ b = blocked /\ c = blocked' /\ res = reserved /\ s = reserved'
                             /\ i = IF b[o] < res[o] THEN 0 ELSE 1
  OBVIOUS
<1>2. /\ b \in [Groups -> Nat] /\ res \in [Groups -> Nat] /\ o \in Groups /\ b[o] <= res[o]
  BY <1>1 DEF PoolIInv, Counts
<1>3. c = [b EXCEPT ![o] = @ + 1] /\ s = [res EXCEPT ![o] = @ + i]
  BY <1>1 DEF GetThread, DeltaBlocked, DeltaReserved, HasSpare
<1>4. CASE g # o
  <2>1. c[g] = b[g] /\ s[g] = res[g]
    BY <1>2, <1>3, <1>4
  <2> QED BY <2>1, <1>1 DEF Idle
<1>5. CASE g = o /\ b[o] < res[o]
  <2>1. work[g] = << >>
    BY <1>1, <1>5 DEF Idle
  <2> QED BY <2>1 DEF Idle
<1>6. CASE g = o /\ ~(b[o] < res[o])
  <2>1. PICK x \in Nat, y \in Nat : x = b[o] /\ y = res[o]
    BY <1>2
  <2>2. c[o] = x + 1 /\ s[o] = y + i
    BY <2>1, <1>2, <1>3
  <2>3. i = 1 /\ x <= y /\ ~(x < y)
    BY <2>1, <1>1, <1>2, <1>6
  <2>4. ~(x + 1 < y + i)
    BY <2>3
  <2> QED BY <2>2, <2>4, <1>1, <1>6 DEF Idle
<1> QED BY <1>4, <1>5, <1>6

(* Nor does another group than the one that got a thread back.             *)
LEMMA GivenElsewhere ==
  ASSUME PoolIInv, NEW g \in Groups, NEW o, o # g, FinishWithThread(o), work' = work, ~Idle(g)
  PROVE  ~Idle(g)'
<1>1. blocked \in [Groups -> Nat] /\ reserved \in [Groups -> Nat]
  BY DEF PoolIInv, Counts
<1>2. blocked'[g] = blocked[g] /\ reserved'[g] = reserved[g]
  BY <1>1 DEF FinishWithThread, DeltaBlocked, DeltaReserved
<1> QED BY <1>2 DEF Idle

LEMMA OnlyFinishedIdles ==
  ASSUME PoolIInv, [NextPool]_threadVars, NEW g \in Groups, ~Idle(g), Idle(g)'
  PROVE  \E h \in Helpers : /\ helper[h] = [state |-> "alive", group |-> g]
                            /\ helper'[h].state = "finished"
<1>1. ASSUME UNCHANGED <<work, reserved, blocked>> PROVE FALSE
  BY <1>1 DEF Idle
<1>2. blocked \in [Groups -> Nat] /\ reserved \in [Groups -> Nat] /\ groups \subseteq Groups
  BY DEF PoolIInv, Counts
<1>3. ASSUME NEW o \in Groups, CreateGroup(o) PROVE FALSE
  <2>1. o \notin groups /\ UNCHANGED <<work, blocked>>
        /\ reserved' = [reserved EXCEPT ![o] = MinReserved[o]]
    BY <1>3 DEF CreateGroup, poolVars
  <2>2. CASE o = g
    <3>1. home \in [Works -> groups \cup {None}] /\ None \notin Groups
          /\ InGroups(work, workForThreads, running, home)
      BY ThreadPoolAssumption DEF PoolIInv, InPool
    <3>2. \A w \in Works : home[w] # g
      BY <3>1, <2>1, <2>2
    <3>3. work[g] = << >>
      BY <3>1, <3>2, NothingWaits
    <3> QED BY <3>3, <2>1 DEF Idle
  <2>3. CASE o # g
    <3>1. reserved'[g] = reserved[g]
      BY <2>1, <2>3, <1>2
    <3> QED BY <3>1, <2>1 DEF Idle
  <2> QED BY <2>2, <2>3
<1>4. ASSUME NEW o \in Groups, FinalizeBlockGroup(o) PROVE FALSE
  <2>1. UNCHANGED <<work, blocked>> /\ reserved' = [reserved EXCEPT ![o] = 0]
    BY <1>4 DEF FinalizeBlockGroup, poolVars
  <2>2. CASE o = g
    <3>1. reserved'[g] = 0 /\ blocked'[g] \in Nat
      BY <2>1, <2>2, <1>2
    <3> QED BY <3>1 DEF Idle
  <2>3. CASE o # g
    <3>1. reserved'[g] = reserved[g]
      BY <2>1, <2>3, <1>2
    <3> QED BY <3>1, <2>1 DEF Idle
  <2> QED BY <2>2, <2>3
<1>5. ASSUME NEW w \in Works, NEW o \in Groups, Run(w, o) PROVE FALSE
  <2>1. o \in groups
    BY <1>5 DEF Run
  <2>2. CASE GetThread(o) /\ UNCHANGED work
    BY <2>1, <2>2, TakenNotIdle
  <2>3. CASE /\ ~ThreadAvailable(o) /\ work' = [work EXCEPT ![o] = Append(@, w)]
             /\ UNCHANGED <<reserved, blocked>>
    <3>1. CASE o = g
      BY <3>1, <2>3 DEF ThreadAvailable, HasSpare, Idle
    <3>2. CASE o # g
      <4>1. work \in [Groups -> Seq(Works)]
        BY DEF PoolIInv, InGroups
      <4>2. work'[g] = work[g]
        BY <4>1, <3>2, <2>3
      <4> QED BY <4>2, <2>3 DEF Idle
    <3> QED BY <3>1, <3>2
  <2> QED BY <2>2, <2>3, <1>5 DEF Run
<1>6. ASSUME NEW w \in Works, WorkDone(w) PROVE FALSE
  <2>1. PICK o : o = home[w]
    OBVIOUS
  <2>2. CASE /\ work[o] # << >> /\ work' = [work EXCEPT ![o] = Tail(@)]
             /\ UNCHANGED <<reserved, blocked>>
    <3>1. work \in [Groups -> Seq(Works)]
      BY DEF PoolIInv, InGroups
    <3>2. work[g] = << >> => work'[g] = << >>
      BY <3>1, <2>2
    <3> QED BY <3>2, <2>2 DEF Idle
  <2>3. CASE work[o] = << >> /\ FinishWithThread(o) /\ UNCHANGED work
    <3>1. CASE o = g
      BY <3>1, <2>3 DEF Idle
    <3> QED BY <3>1, <2>3, GivenElsewhere
  <2> QED BY <2>1, <2>2, <2>3, <1>6 DEF WorkDone, PassesOn, countVars
<1>7. ASSUME NEW h \in Helpers, NEW o \in Groups, CreateHelper(h, o) PROVE FALSE
  <2>1. o \in groups /\ GetThread(o) /\ work' = work
    BY <1>7 DEF CreateHelper, poolVars
  <2> QED BY <2>1, TakenNotIdle
<1>8. CASE PoolPops
  BY <1>1, <1>8 DEF PoolPops, countVars
<1>9. ASSUME NEW w \in Works, NEW h \in Helpers, NEW o \in Groups, RunInHelper(w, h, o)
      PROVE  FALSE
  BY <1>1, <1>9 DEF RunInHelper, poolVars, countVars
<1>10. ASSUME NEW h \in Helpers, HelperPops(h) \/ HelperWorkDone(h) \/ HelperDead(h) PROVE FALSE
  BY <1>1, <1>10 DEF HelperPops, HelperWorkDone, HelperDead, poolVars, countVars
<1>11. ASSUME NEW h \in Helpers, HelperFinished(h)
       PROVE  \E k \in Helpers : /\ helper[k] = [state |-> "alive", group |-> g]
                                 /\ helper'[k].state = "finished"
  <2>1. PICK hp, ho : hp = helper /\ ho = helper'
    OBVIOUS
  <2>2. /\ hp[h].state = "alive" /\ FinishWithThread(hp[h].group) /\ work' = work
        /\ ho = [hp EXCEPT ![h].state = "finished"]
    BY <2>1, <1>11 DEF HelperFinished, poolVars
  <2>3. hp \in [Helpers -> [state : HelperStates, group : Groups \cup {None}]]
    BY <2>1 DEF PoolIInv, Crew
  <2>4. hp[h].group = g
    BY <2>2, GivenElsewhere
  <2>5. hp[h] = [state |-> "alive", group |-> g]
    BY <2>2, <2>3, <2>4
  <2>6. ho[h].state = "finished"
    BY <2>2, <2>3
  <2> QED BY <2>1, <2>5, <2>6
<1>12. CASE UNCHANGED threadVars
  BY <1>1, <1>12 DEF threadVars, poolVars, countVars
<1> QED BY <1>3, <1>4, <1>5, <1>6, <1>7, <1>8, <1>9, <1>10, <1>11, <1>12 DEF NextPool

(* For any groups, works, helper threads and limits: nothing but a helper  *)
(* thread's finalizer makes a work wait beside a thread that could run it. *)
(* The pool owes works no more threads than there are finalized helper     *)
(* threads yet to stop, whenever it comes to owe them, and a group becomes *)
(* idle only as one of its helper threads is finalized (in_thread.ml:56,   *)
(* raw_scheduler.ml:290).                                                  *)
THEOREM NoWorkIsIdle == PoolSpec => NoIdleWork
<1>1. ASSUME PoolIInv, [NextPool]_threadVars
      PROVE  /\ Owed' > Owed /\ Owed' > 0 => Owed' <= Cardinality(HelpersIn("finished"))
             /\ \A g \in Groups :
                  Idle(g)' /\ ~Idle(g)
                    => \E h \in Helpers : /\ helper[h] = [state |-> "alive", group |-> g]
                                          /\ helper'[h].state = "finished"
  <2>1. ASSUME Owed' > Owed, Owed' > 0
        PROVE  Owed' <= Cardinality(HelpersIn("finished"))
    <3>1. CASE \E w \in Works, g \in Groups : Run(w, g)
      BY <3>1, <2>1, <1>1, RunOwes
    <3>2. CASE \A w \in Works, g \in Groups : ~Run(w, g)
      <4>1. ~(Owed' > Owed)
        BY <3>2, <1>1, OthersOweNoMore
      <4> QED BY <4>1, <2>1
    <3> QED BY <3>1, <3>2
  <2> QED BY <2>1, <1>1, OnlyFinishedIdles
<1>2. PoolIInv /\ [NextPool]_threadVars
        => [/\ Owed' > Owed /\ Owed' > 0 => Owed' <= Cardinality(HelpersIn("finished"))
            /\ \A g \in Groups :
                 Idle(g)' /\ ~Idle(g)
                   => \E h \in Helpers : /\ helper[h] = [state |-> "alive", group |-> g]
                                         /\ helper'[h].state = "finished"]_threadVars
  BY <1>1
<1> QED BY InitPoolIInv, NextPoolIInv, <1>2, PTL DEF PoolSpec, NoIdleWork
=============================================================================
