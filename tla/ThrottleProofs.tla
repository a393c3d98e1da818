--------------------------- MODULE ThrottleProofs ---------------------------
(***************************************************************************)
(* For any number of runners, jobs and calls of prior_jobs_done: a         *)
(* throttle keeps its jobs in its runners' hands, prior_jobs_done is       *)
(* answered when the jobs before it have ended, and only jobs that runners *)
(* hold are overtaken.                                                     *)
(***************************************************************************)
EXTENDS Throttle, SelectionProofs, SequenceTheorems, FiniteSetTheorems, TLAPS

(* Of a batch b and a queue q of hops: one for each job that a runner was  *)
(* given and that has not started, according to how far it has come.       *)
Hop == [do : {"got", "go", "work"}, job : AllJobs]
HopsIn(b, q) == Elements(b) \cup Elements(q)
OneHopEach(h) == \A x, y \in h : x.job = y.job => x = y
Reached(x) == IF x.do = "got" THEN "taken" ELSE "started"
Hopping(b, q, st) ==
  /\ b \in Seq(Hop) /\ q \in Seq(Hop) /\ NoRepeats(b) /\ NoRepeats(q)
  /\ Elements(b) \cap Elements(q) = {} /\ OneHopEach(HopsIn(b, q))
  /\ \A x \in HopsIn(b, q) : st[x.job] = Reached(x)
  /\ \A j \in AllJobs : st[j] \in {"taken", "started"} => \E x \in HopsIn(b, q) : x.job = j

(* Of n runners: one serves one job at most, and a job that the runners    *)
(* were given has one of them until that one has read its result.          *)
Given == {"taken", "started", "running", "returned", "raised"}
Serving(n, sv, st) ==
  /\ sv \in [1..MaxConcurrent -> SUBSET AllJobs]
  /\ \A r \in 1..MaxConcurrent : \A j, k \in sv[r] : j = k /\ r \in 1..n
  /\ \A r, t \in 1..MaxConcurrent : \A j \in AllJobs : j \in sv[r] /\ j \in sv[t] => r = t
  /\ \A j \in AllJobs : (\E r \in 1..MaxConcurrent : j \in sv[r]) <=> st[j] \in Given

Waiting(n, rd, sv) ==
  /\ rd \in Seq(1..n) /\ NoRepeats(rd)
  /\ \A r \in Elements(rd) : sv[r] = {}

(* The pipe holds the queued jobs, and no runner waits while it has one.   *)
Piped(b, rd, st) ==
  /\ b \in Seq(AllJobs) /\ NoRepeats(b)
  /\ \A j \in AllJobs : st[j] = "queued" <=> j \in Elements(b)
  /\ b # << >> => rd = << >>

(* The jobs that were enqueued and have not started: those that runners    *)
(* hold come first, and the others are in the order of the pipe.           *)
Unstarted == {"queued", "taken", "started"}
QueuedLast(w, st) ==
  \A i, k \in DOMAIN w : i < k => (st[w[i]] = "queued" => st[w[k]] = "queued")
InPipeOrder(w, b) ==
  \A i, k \in DOMAIN w : i < k =>
    \A a, c \in DOMAIN b : b[a] = w[i] /\ b[c] = w[k] => a < c
Lined(w, b, st) ==
  /\ w \in Seq(AllJobs) /\ NoRepeats(w)
  /\ \A j \in AllJobs : j \in Elements(w) <=> st[j] \in Unstarted
  /\ QueuedLast(w, st) /\ InPipeOrder(w, b)

(* A call p of prior_jobs_done that d dummies have answered so far: while  *)
(* one of the jobs B it waits for is in the pipe, all its dummies are in   *)
(* the pipe behind it.                                                     *)
Live == {"queued", "taken", "started", "running"}
DummiesOf(n, p) == {<<p, i>> : i \in 1..n}
RunningOf(n, p, st) == {x \in DummiesOf(n, p) : st[x] = "running"}
Ahead(b, B, D) == \A a, c \in DOMAIN b : b[a] \in B /\ b[c] \in D => a < c
Asked(n, p, d, B, b, st) ==
  /\ d = Cardinality(RunningOf(n, p, st)) /\ d < n
  /\ \A x \in DummiesOf(n, p) : st[x] \in Live \cup {"aborted"}
  /\ \A j \in B : st[j] = "queued" => \A x \in DummiesOf(n, p) : st[x] = "queued"
  /\ Ahead(b, B, DummiesOf(n, p))
Asking(n, p, d, pr, B, b, st) ==
  /\ pr \in {"none", "asked", "answered"} /\ d \in 0..MaxConcurrent
  /\ B \subseteq UserJobs /\ \A j \in B : st[j] \in Live
  /\ \A x \in Dummies(p) \ DummiesOf(n, p) : st[x] = "new"
  /\ pr = "none" => B = {} /\ \A x \in DummiesOf(n, p) : st[x] = "new"
  /\ pr = "asked" => Asked(n, p, d, B, b, st)
  /\ pr = "answered" =>
       B = {} /\ \A x \in DummiesOf(n, p) : st[x] \in {"running", "returned", "new"}

Basics ==
  /\ max_concurrent_jobs \in 1..MaxConcurrent /\ continue_on_error \in BOOLEAN
  /\ closed \in BOOLEAN /\ status \in [AllJobs -> Statuses]
  /\ dummy_jobs_running \in [Priors -> 0..MaxConcurrent]
  /\ prior \in [Priors -> {"none", "asked", "answered"}]
  /\ before \in [Priors -> SUBSET UserJobs]
JobsInv ==
  /\ Hopping(batch, queue, status) /\ Serving(max_concurrent_jobs, serves, status)
  /\ Waiting(max_concurrent_jobs, readers, serves)
  /\ Piped(buffer, readers, status) /\ Lined(pending, buffer, status)
PriorsInv ==
  \A p \in Priors :
    Asking(max_concurrent_jobs, p, dummy_jobs_running[p], prior[p], before[p], buffer, status)
IInv == Basics /\ JobsInv /\ PriorsInv
-----------------------------------------------------------------------------
LEMMA DummyJobs ==
  ASSUME NEW p \in Priors, NEW n \in 1..MaxConcurrent
  PROVE  /\ DummiesOf(n, p) \subseteq Dummies(p) /\ Dummies(p) \subseteq AllJobs
         /\ Dummies(p) \cap UserJobs = {}
         /\ \A x \in Dummies(p) : x[1] = p
         /\ \A o \in Priors : o # p => Dummies(p) \cap Dummies(o) = {}
<1>1. MaxConcurrent \in Nat
  BY ThrottleAssumption
<1>2. DummiesOf(n, p) \subseteq Dummies(p)
  BY <1>1 DEF DummiesOf, Dummies
<1>3. Dummies(p) \subseteq AllJobs
  BY DEF AllJobs
<1>4. Dummies(p) \cap UserJobs = {}
  BY ThrottleAssumption DEF Dummies
<1>5. \A x \in Dummies(p) : x[1] = p
  BY DEF Dummies
<1>6. \A o \in Priors : o # p => Dummies(p) \cap Dummies(o) = {}
  BY DEF Dummies
<1> QED BY <1>2, <1>3, <1>4, <1>5, <1>6

LEMMA CountOfDummies ==
  ASSUME NEW p \in Priors, NEW n \in 1..MaxConcurrent
  PROVE  IsFiniteSet(DummiesOf(n, p)) /\ Cardinality(DummiesOf(n, p)) = n
<1>1. n \in Nat /\ MaxConcurrent \in Nat
  BY ThrottleAssumption
<1>2. IsFiniteSet(1..n) /\ Cardinality(1..n) = n
  BY <1>1, FS_Interval
<1>3. PICK f : f = [i \in 1..n |-> <<p, i>>]
  OBVIOUS
<1>4. f \in Bijection(1..n, DummiesOf(n, p))
  <2>1. f \in [1..n -> DummiesOf(n, p)]
    BY <1>3 DEF DummiesOf
  <2>2. \A i, k \in 1..n : f[i] = f[k] => i = k
    BY <1>3
  <2>3. \A x \in DummiesOf(n, p) : \E i \in 1..n : f[i] = x
    BY <1>3 DEF DummiesOf
  <2> QED BY <2>1, <2>2, <2>3 DEF Bijection, Injection, Surjection, IsInjective
<1>5. ExistsBijection(1..n, DummiesOf(n, p))
  BY <1>4 DEF ExistsBijection
<1> QED BY <1>2, <1>5, FS_Bijection
-----------------------------------------------------------------------------
(* What the invariant is for.                                              *)
LEMMA HopsCounted ==
  ASSUME IInv, NEW j \in AllJobs
  PROVE  status[j] \in {"taken", "started"} <=> Cardinality(Hops(j)) = 1
<1>1. PICK h : h = batch \o queue
  OBVIOUS
<1>2. Hopping(batch, queue, status)
  BY DEF IInv, JobsInv
<1>3. /\ batch \in Seq(Hop) /\ queue \in Seq(Hop) /\ NoRepeats(batch) /\ NoRepeats(queue)
      /\ Elements(batch) \cap Elements(queue) = {} /\ OneHopEach(HopsIn(batch, queue))
  BY <1>2 DEF Hopping
<1>4. NoRepeats(h) /\ Elements(h) = HopsIn(batch, queue)
  BY <1>1, <1>3, Joined, JoinedApart DEF HopsIn
<1>5. Hops(j) = {i \in DOMAIN h : h[i].job = j}
  BY <1>1 DEF Hops
<1>6. ASSUME status[j] \in {"taken", "started"} PROVE Cardinality(Hops(j)) = 1
  <2>1. PICK x \in HopsIn(batch, queue) : x.job = j
    BY <1>2, <1>6 DEF Hopping
  <2>2. PICK i \in DOMAIN h : h[i] = x
    BY <1>4, <2>1 DEF Elements
  <2>3. \A k \in DOMAIN h : h[k].job = j => k = i
    <3> SUFFICES ASSUME NEW k \in DOMAIN h, h[k].job = j PROVE k = i
      OBVIOUS
    <3>1. h[k] \in HopsIn(batch, queue)
      BY <1>4 DEF Elements
    <3>2. h[k] = x
      BY <3>1, <2>1, <1>3 DEF OneHopEach
    <3> QED BY <3>2, <2>2, <1>4 DEF NoRepeats
  <2>4. Hops(j) = {i}
    BY <1>5, <2>1, <2>2, <2>3
  <2> QED BY <2>4, FS_Singleton
<1>7. ASSUME Cardinality(Hops(j)) = 1 PROVE status[j] \in {"taken", "started"}
  <2>1. Hops(j) # {}
    BY <1>7, FS_EmptySet
  <2>2. PICK i \in DOMAIN h : h[i].job = j
    BY <1>5, <2>1
  <2>3. h[i] \in HopsIn(batch, queue)
    BY <1>4 DEF Elements
  <2>4. status[h[i].job] = Reached(h[i])
    BY <1>2, <2>3 DEF Hopping
  <2> QED BY <2>2, <2>4 DEF Reached
<1> QED BY <1>6, <1>7

LEMMA ServersCounted ==
  ASSUME IInv, NEW j \in AllJobs
  PROVE  status[j] \in Given <=> Cardinality(Servers(j)) = 1
<1>1. PICK n : n = max_concurrent_jobs
  OBVIOUS
<1>2. Serving(n, serves, status) /\ Runners = 1..n /\ n \in 1..MaxConcurrent
  BY <1>1 DEF IInv, JobsInv, Basics, Runners
<1>3. MaxConcurrent \in Nat /\ 1..n \subseteq 1..MaxConcurrent
  BY <1>2, ThrottleAssumption
<1>4. Servers(j) = {r \in 1..n : j \in serves[r]}
  BY <1>2 DEF Servers
<1>5. ASSUME status[j] \in Given PROVE Cardinality(Servers(j)) = 1
  <2>1. PICK r \in 1..MaxConcurrent : j \in serves[r]
    BY <1>2, <1>5 DEF Serving
  <2>2. r \in 1..n
    BY <1>2, <2>1 DEF Serving
  <2>3. \A t \in 1..n : j \in serves[t] => t = r
    BY <1>2, <1>3, <2>1 DEF Serving
  <2>4. Servers(j) = {r}
    BY <1>4, <2>1, <2>2, <2>3
  <2> QED BY <2>4, FS_Singleton
<1>6. ASSUME Cardinality(Servers(j)) = 1 PROVE status[j] \in Given
  <2>1. Servers(j) # {}
    BY <1>6, FS_EmptySet
  <2>2. PICK r \in 1..MaxConcurrent : j \in serves[r]
    BY <1>3, <1>4, <2>1
  <2> QED BY <1>2, <2>2 DEF Serving
<1> QED BY <1>5, <1>6

(* Jobs that runners serve are no more than the runners; if as many, every *)
(* runner serves one of them.                                              *)
LEMMA ServedJobs ==
  ASSUME NEW n \in 1..MaxConcurrent, NEW sv, NEW st, Serving(n, sv, st),
         NEW S \in SUBSET AllJobs, \A j \in S : st[j] \in Given
  PROVE  /\ IsFiniteSet(S) /\ Cardinality(S) <= n
         /\ Cardinality(S) = n => \A r \in 1..n : \E j \in S : j \in sv[r]
<1>1. MaxConcurrent \in Nat /\ n \in Nat /\ 1..n \subseteq 1..MaxConcurrent
  BY ThrottleAssumption
<1>2. IsFiniteSet(1..n) /\ Cardinality(1..n) = n
  BY <1>1, FS_Interval
<1>3. \A j \in S : \E r \in 1..n : j \in sv[r]
  BY DEF Serving
<1>4. PICK f : f = [j \in S |-> CHOOSE r \in 1..n : j \in sv[r]]
  OBVIOUS
<1>5. f \in [S -> 1..n] /\ \A j \in S : j \in sv[f[j]]
  BY <1>3, <1>4
<1>6. \A j, k \in S : f[j] = f[k] => j = k
  BY <1>1, <1>5 DEF Serving
<1>7. f \in Injection(S, 1..n)
  BY <1>5, <1>6 DEF Injection, IsInjective
<1>8. /\ IsFiniteSet(S) /\ Cardinality(S) <= Cardinality(1..n)
      /\ Cardinality(S) = Cardinality(1..n) <=> f \in Surjection(S, 1..n)
  BY <1>2, <1>7, FS_Injection
<1>9. ASSUME f \in Surjection(S, 1..n), NEW r \in 1..n PROVE \E j \in S : j \in sv[r]
  <2>1. PICK j \in S : f[j] = r
    BY <1>9 DEF Surjection
  <2> QED BY <2>1, <1>5
<1> QED BY <1>2, <1>8, <1>9

LEMMA ThrottleStands == IInv => ThrottleInvariant
<1> SUFFICES ASSUME IInv PROVE ThrottleInvariant
  OBVIOUS
<1>1. PICK n : n = max_concurrent_jobs
  OBVIOUS
<1>2. /\ Basics /\ n \in 1..MaxConcurrent /\ Runners = 1..n
      /\ Hopping(batch, queue, status) /\ Serving(n, serves, status)
      /\ Waiting(n, readers, serves) /\ Piped(buffer, readers, status)
      /\ Lined(pending, buffer, status)
  BY <1>1 DEF IInv, JobsInv, Basics, Runners
<1>3. TypeOK
  <2>1. buffer \in Seq(AllJobs) /\ readers \in Seq(Runners) /\ pending \in Seq(AllJobs)
    BY <1>2 DEF Waiting, Piped, Lined
  <2>2. /\ batch \in Seq([do : {"got", "go", "work"}, job : AllJobs])
        /\ queue \in Seq([do : {"got", "go", "work"}, job : AllJobs])
    BY <1>2 DEF Hopping, Hop
  <2>3. serves \in [1..MaxConcurrent -> SUBSET AllJobs]
    BY <1>2 DEF Serving
  <2> QED BY <1>2, <2>1, <2>2, <2>3 DEF Basics, TypeOK
<1>4. Cardinality({j \in AllJobs : status[j] = "running"}) <= n
  <2>1. PICK S : S = {j \in AllJobs : status[j] = "running"}
    OBVIOUS
  <2>2. S \in SUBSET AllJobs /\ \A j \in S : status[j] \in Given
    BY <2>1 DEF Given
  <2>3. Cardinality(S) <= n
    BY <1>2, <2>2, ServedJobs
  <2> QED BY <2>1, <2>3
<1>5. \A j \in AllJobs : status[j] = "queued" <=> j \in Elements(buffer)
  BY <1>2 DEF Piped
<1>6. \A j \in AllJobs : status[j] \in {"taken", "started"} <=> Cardinality(Hops(j)) = 1
  BY HopsCounted
<1>7. \A j \in AllJobs :
        status[j] \in {"taken", "started", "running", "returned", "raised"}
          <=> Cardinality(Servers(j)) = 1
  BY ServersCounted DEF Given
<1>8. PriorJobsEnded
  BY DEF IInv, PriorsInv, Asking, PriorJobsEnded
<1> QED BY <1>1, <1>3, <1>4, <1>5, <1>6, <1>7, <1>8 DEF ThrottleInvariant, InRunnersHands

LEMMA OnlyTakenJobs ==
  ASSUME IInv, NEW j \in AllJobs, status[j] = "started"
  PROVE  /\ max_concurrent_jobs = 1 => j = Head(pending)
         /\ \A i, k \in DOMAIN pending :
              pending[i] = j /\ k < i => status[pending[k]] # "queued"
<1>1. PICK n, w, st, sv : n = max_concurrent_jobs /\ w = pending /\ st = status /\ sv = serves
  OBVIOUS
<1>2. Lined(w, buffer, st) /\ Serving(n, sv, st)
  BY <1>1 DEF IInv, JobsInv
<1>3. w \in Seq(AllJobs) /\ NoRepeats(w) /\ QueuedLast(w, st)
  BY <1>2 DEF Lined
<1>4. \A i, k \in DOMAIN w : w[i] = j /\ k < i => st[w[k]] # "queued"
  BY <1>1, <1>3 DEF QueuedLast
<1>5. ASSUME n = 1 PROVE j = Head(w)
  <2>1. PICK i \in DOMAIN w : w[i] = j
    <3>1. st[j] \in Unstarted
      BY <1>1 DEF Unstarted
    <3> QED BY <3>1, <1>2 DEF Lined, Elements
  <2>2. DOMAIN w = 1..Len(w) /\ Len(w) \in Nat
    BY <1>3, LenProperties
  <2>3. PICK r \in 1..MaxConcurrent : j \in sv[r]
    <3>1. st[j] \in Given
      BY <1>1 DEF Given
    <3> QED BY <3>1, <1>2 DEF Serving
  <2>4. r = 1
    BY <1>2, <1>5, <2>3 DEF Serving
  <2>5. ASSUME i # 1 PROVE FALSE
    <3>1. 1 \in DOMAIN w /\ 1 < i /\ w[1] \in AllJobs
      BY <2>1, <2>2, <2>5, <1>3, ElementOfSeq
    <3>2. st[w[1]] # "queued"
      BY <3>1, <2>1, <1>4
    <3>3. st[w[1]] \in Unstarted
      BY <3>1, <1>2 DEF Lined, Elements
    <3>4. st[w[1]] \in Given
      BY <3>2, <3>3 DEF Given, Unstarted
    <3>5. PICK t \in 1..MaxConcurrent : w[1] \in sv[t]
      BY <3>1, <3>4, <1>2 DEF Serving
    <3>6. t = 1
      BY <1>2, <1>5, <3>5 DEF Serving
    <3>7. w[1] = j
      BY <2>3, <2>4, <3>5, <3>6, <1>2 DEF Serving
    <3> QED BY <3>1, <3>7, <2>1, <1>3 DEF NoRepeats
  <2> QED BY <2>1, <2>2, <2>5, <1>3
<1> QED BY <1>1, <1>4, <1>5
-----------------------------------------------------------------------------
(* Async's queue: a hop is taken from it, and at most one is added.        *)
Moved(b, q, x, added, c, o) ==
  /\ x \in HopsIn(b, q)
  /\ c \in Seq(Hop) /\ o \in Seq(Hop) /\ NoRepeats(c) /\ NoRepeats(o)
  /\ Elements(c) \cap Elements(o) = {}
  /\ HopsIn(c, o) = (HopsIn(b, q) \ {x}) \cup Elements(added)

LEMMA WholeBatch ==
  ASSUME NEW q \in Seq(Hop), NoRepeats(q)
  PROVE  LET v == Batch(q, Len(q))
         IN v \in Seq(Hop) /\ NoRepeats(v) /\ Elements(v) = Elements(q)
<1>1. PICK n : n = Len(q)
  OBVIOUS
<1>2. n \in Nat /\ DOMAIN q = 1..n
  BY <1>1, LenProperties
<1>3. PICK v : v = Batch(q, n)
  OBVIOUS
<1>4. PICK t : t = SubSeq(q, 1, n)
  OBVIOUS
<1>5. t \in Seq(Hop) /\ Len(t) = n /\ \A i \in 1..n : t[i] = q[i]
  BY <1>1, <1>2, <1>4
<1>6. v = [i \in 1..n |-> t[n + 1 - i]]
  BY <1>1, <1>3, <1>4, <1>5 DEF Batch, Reversed, Amount
<1>7. \A i \in 1..n : n + 1 - i \in 1..n /\ n + 1 - (n + 1 - i) = i
  BY <1>2
<1>8. \A i \in 1..n : v[i] = q[n + 1 - i] /\ q[i] \in Hop
  BY <1>2, <1>5, <1>6, <1>7, ElementOfSeq
<1>9. v \in [1..n -> Hop]
  BY <1>6, <1>7, <1>8
<1>10. v \in Seq(Hop) /\ DOMAIN v = 1..n
  BY <1>2, <1>9, SeqDef
<1>11. ASSUME NEW i \in 1..n, NEW k \in 1..n, v[i] = v[k] PROVE i = k
  <2>1. n + 1 - i = n + 1 - k
    BY <1>2, <1>7, <1>8, <1>11 DEF NoRepeats
  <2> QED BY <2>1, <1>2
<1>12. Elements(v) = Elements(q)
  <2>1. ASSUME NEW x \in Elements(q) PROVE x \in Elements(v)
    <3>1. PICK i \in 1..n : q[i] = x
      BY <1>2 DEF Elements
    <3>2. v[n + 1 - i] = x /\ n + 1 - i \in DOMAIN v
      BY <3>1, <1>7, <1>8, <1>10
    <3> QED BY <3>2 DEF Elements
  <2>2. ASSUME NEW x \in Elements(v) PROVE x \in Elements(q)
    BY <1>2, <1>7, <1>8, <1>10 DEF Elements
  <2> QED BY <2>1, <2>2
<1>13. NoRepeats(v)
  BY <1>10, <1>11 DEF NoRepeats
<1> QED BY <1>1, <1>3, <1>10, <1>12, <1>13

LEMMA HopMoved ==
  ASSUME NEW st, Hopping(batch, queue, st), NEW x, NEW added \in Seq(Hop), NoRepeats(added),
         \A y \in Elements(added) : y.job = x.job /\ y # x, TakeHop(x, added)
  PROVE  Moved(batch, queue, x, added, batch', queue') /\ st[x.job] = Reached(x)
<1>1. PICK b, q, c, o : b = batch /\ q = queue /\ c = batch' /\ o = queue'
  OBVIOUS
<1>2. /\ b \in Seq(Hop) /\ q \in Seq(Hop) /\ NoRepeats(b) /\ NoRepeats(q)
      /\ Elements(b) \cap Elements(q) = {}
  BY <1>1 DEF Hopping
<1>3. PICK v, r : /\ v = IF b = << >> THEN Batch(q, Len(q)) ELSE b
                  /\ r = IF b = << >> THEN << >> ELSE q
  OBVIOUS
<1>4. /\ b \o q # << >> /\ x = Head(v) /\ c = Tail(v) /\ o = r \o added
  BY <1>1, <1>3 DEF TakeHop, NextHop
<1>5. Elements(<< >>) = {} /\ NoRepeats(<< >>) /\ << >> \in Seq(Hop)
  BY EmptySeq DEF Elements, NoRepeats
<1>6. /\ v \in Seq(Hop) /\ r \in Seq(Hop) /\ NoRepeats(v) /\ NoRepeats(r) /\ v # << >>
      /\ Elements(v) \cap Elements(r) = {} /\ HopsIn(v, r) = HopsIn(b, q)
  <2>1. CASE b # << >>
    BY <2>1, <1>2, <1>3
  <2>2. CASE b = << >>
    <3>1. v = Batch(q, Len(q)) /\ r = << >>
      BY <2>2, <1>3
    <3>2. v \in Seq(Hop) /\ NoRepeats(v) /\ Elements(v) = Elements(q)
      BY <3>1, <1>2, WholeBatch
    <3>3. q # << >>
      BY <2>2, <1>2, <1>4
    <3>4. Elements(q) # {}
      <4>1. 1 \in DOMAIN q
        BY <3>3, <1>2
      <4> QED BY <4>1 DEF Elements
    <3>5. v # << >>
      BY <3>2, <3>4, <1>5
    <3> QED BY <2>2, <3>1, <3>2, <3>5, <1>5 DEF HopsIn
  <2> QED BY <2>1, <2>2
<1>7. /\ c \in Seq(Hop) /\ NoRepeats(c) /\ x \in Elements(v)
      /\ Elements(c) = Elements(v) \ {x}
  BY <1>4, <1>6, TailWithoutHead
<1>8. Elements(r) \cap Elements(added) = {} /\ Elements(v) \cap Elements(added) = {}
  <2>1. x \in HopsIn(b, q)
    BY <1>6, <1>7 DEF HopsIn
  <2>2. \A y \in Elements(added) : y \notin HopsIn(b, q)
    BY <1>1, <2>1 DEF Hopping, OneHopEach
  <2> QED BY <2>2, <1>6 DEF HopsIn
<1>9. /\ o \in Seq(Hop) /\ NoRepeats(o) /\ Elements(o) = Elements(r) \cup Elements(added)
  BY <1>4, <1>6, <1>8, Joined, JoinedApart
<1>10. Moved(b, q, x, added, c, o)
  <2>1. x \in HopsIn(b, q)
    BY <1>6, <1>7 DEF HopsIn
  <2>2. Elements(c) \cap Elements(o) = {}
    BY <1>6, <1>7, <1>8, <1>9
  <2>3. HopsIn(c, o) = (HopsIn(b, q) \ {x}) \cup Elements(added)
    <3>1. x \notin Elements(r)
      BY <1>6, <1>7
    <3>2. HopsIn(b, q) = Elements(v) \cup Elements(r)
      BY <1>6 DEF HopsIn
    <3> QED BY <3>1, <3>2, <1>7, <1>9 DEF HopsIn
  <2> QED BY <1>7, <1>9, <2>1, <2>2, <2>3 DEF Moved
<1>11. st[x.job] = Reached(x)
  BY <1>1, <1>10 DEF Moved, Hopping
<1> QED BY <1>1, <1>10, <1>11

LEMMA HopDone ==
  ASSUME NEW b, NEW q, NEW st, Hopping(b, q, st), NEW x, NEW c, NEW o, NEW added, NEW u,
         Moved(b, q, x, added, c, o),
         \/ added = << >> /\ u[x.job] \notin {"taken", "started"}
         \/ \E y \in Hop : added = <<y>> /\ y.job = x.job /\ u[x.job] = Reached(y),
         \A j \in AllJobs : j # x.job => u[j] = st[j]
  PROVE  Hopping(c, o, u)
<1>1. /\ OneHopEach(HopsIn(b, q)) /\ b \in Seq(Hop) /\ q \in Seq(Hop)
      /\ \A z \in HopsIn(b, q) : st[z.job] = Reached(z)
      /\ \A j \in AllJobs : st[j] \in {"taken", "started"} =>
           \E z \in HopsIn(b, q) : z.job = j
  BY DEF Hopping
<1>2. \A z \in HopsIn(b, q) : z.job \in AllJobs
  <2>1. HopsIn(b, q) \subseteq Hop
    BY <1>1, ElementsOf DEF HopsIn
  <2> QED BY <2>1 DEF Hop
<1>3. /\ x \in HopsIn(b, q) /\ HopsIn(c, o) = (HopsIn(b, q) \ {x}) \cup Elements(added)
  BY DEF Moved
<1>4. \A z \in HopsIn(b, q) \ {x} : z.job # x.job /\ u[z.job] = Reached(z)
  BY <1>1, <1>2, <1>3 DEF OneHopEach
<1>5. \A y : added = <<y>> => Elements(added) = {y}
  BY DEF Elements
<1>6. added = << >> => Elements(added) = {}
  BY DEF Elements
<1>7. \A z \in Elements(added) : z.job = x.job /\ u[z.job] = Reached(z)
  BY <1>5, <1>6
<1>8. OneHopEach(HopsIn(c, o))
  <2>1. \A y, z \in Elements(added) : y = z
    BY <1>5, <1>6
  <2> QED BY <2>1, <1>1, <1>3, <1>4, <1>7 DEF OneHopEach
<1>9. \A z \in HopsIn(c, o) : u[z.job] = Reached(z)
  BY <1>3, <1>4, <1>7
<1>10. ASSUME NEW j \in AllJobs, u[j] \in {"taken", "started"}
       PROVE  \E z \in HopsIn(c, o) : z.job = j
  <2>1. CASE j = x.job
    BY <2>1, <1>3, <1>5, <1>10
  <2>2. CASE j # x.job
    <3>1. PICK z \in HopsIn(b, q) : z.job = j
      BY <2>2, <1>1, <1>10
    <3> QED BY <2>2, <3>1, <1>3
  <2> QED BY <2>1, <2>2
<1> QED BY <1>8, <1>9, <1>10 DEF Hopping, Moved

(* Hops that Async's queue gets.                                           *)
LEMMA HopsAdded ==
  ASSUME NEW b, NEW q, NEW st, Hopping(b, q, st), NEW g \in Seq(Hop), NoRepeats(g),
         OneHopEach(Elements(g)), NEW u,
         \A x \in Elements(g) : u[x.job] = Reached(x) /\ st[x.job] \notin {"taken", "started"},
         \A j \in AllJobs : u[j] # st[j] /\ {u[j], st[j]} \cap {"taken", "started"} # {} =>
           \E x \in Elements(g) : x.job = j
  PROVE  Hopping(b, q \o g, u)
<1>1. /\ OneHopEach(HopsIn(b, q)) /\ b \in Seq(Hop) /\ q \in Seq(Hop)
      /\ NoRepeats(q) /\ NoRepeats(b) /\ Elements(b) \cap Elements(q) = {}
      /\ \A z \in HopsIn(b, q) : st[z.job] = Reached(z)
      /\ \A j \in AllJobs : st[j] \in {"taken", "started"} =>
           \E z \in HopsIn(b, q) : z.job = j
  BY DEF Hopping
<1>2. \A x \in HopsIn(b, q) : st[x.job] \in {"taken", "started"} /\ x.job \in AllJobs
  <2>1. HopsIn(b, q) \subseteq Hop
    BY <1>1, ElementsOf DEF HopsIn
  <2> QED BY <2>1, <1>1 DEF Hop, Reached
<1>3. \A x \in HopsIn(b, q), y \in Elements(g) : x.job # y.job
  BY <1>2
<1>4. Elements(g) \cap HopsIn(b, q) = {}
  BY <1>3
<1>5. q \o g \in Seq(Hop) /\ NoRepeats(q \o g) /\ Elements(q \o g) = Elements(q) \cup Elements(g)
  <2>1. Elements(q) \cap Elements(g) = {}
    BY <1>4 DEF HopsIn
  <2> QED BY <2>1, <1>1, Joined, JoinedApart
<1>6. HopsIn(b, q \o g) = HopsIn(b, q) \cup Elements(g) /\ Elements(b) \cap Elements(q \o g) = {}
  BY <1>1, <1>4, <1>5 DEF HopsIn
<1>7. OneHopEach(HopsIn(b, q \o g))
  BY <1>1, <1>3, <1>6 DEF OneHopEach
<1>8. \A x \in HopsIn(b, q) : u[x.job] = Reached(x)
  <2> SUFFICES ASSUME NEW x \in HopsIn(b, q) PROVE u[x.job] = Reached(x)
    OBVIOUS
  <2>1. u[x.job] = st[x.job]
    BY <1>2, <1>3
  <2> QED BY <2>1, <1>1
<1>9. ASSUME NEW j \in AllJobs, u[j] \in {"taken", "started"}
      PROVE  \E z \in HopsIn(b, q \o g) : z.job = j
  <2>1. CASE u[j] = st[j]
    BY <2>1, <1>1, <1>6, <1>9
  <2>2. CASE u[j] # st[j]
    BY <2>2, <1>6, <1>9
  <2> QED BY <2>1, <2>2
<1> QED BY <1>1, <1>5, <1>6, <1>7, <1>8, <1>9 DEF Hopping

LEMMA HopsKept ==
  ASSUME NEW b, NEW q, NEW st, Hopping(b, q, st), NEW u,
         \A j \in AllJobs : {u[j], st[j]} \cap {"taken", "started"} # {} => u[j] = st[j]
  PROVE  Hopping(b, q, u)
<1>1. /\ OneHopEach(HopsIn(b, q)) /\ b \in Seq(Hop) /\ q \in Seq(Hop)
      /\ \A z \in HopsIn(b, q) : st[z.job] = Reached(z)
  BY DEF Hopping
<1>2. \A x \in HopsIn(b, q) : st[x.job] \in {"taken", "started"} /\ x.job \in AllJobs
  <2>1. HopsIn(b, q) \subseteq Hop
    BY <1>1, ElementsOf DEF HopsIn
  <2> QED BY <2>1, <1>1 DEF Hop, Reached
<1>3. \A x \in HopsIn(b, q) : u[x.job] = Reached(x)
  <2> SUFFICES ASSUME NEW x \in HopsIn(b, q) PROVE u[x.job] = Reached(x)
    OBVIOUS
  <2>1. u[x.job] = st[x.job]
    BY <1>2
  <2> QED BY <2>1, <1>1
<1>4. \A j \in AllJobs : u[j] \in {"taken", "started"} => \E x \in HopsIn(b, q) : x.job = j
  BY DEF Hopping
<1> QED BY <1>3, <1>4 DEF Hopping
-----------------------------------------------------------------------------
(* The runners: jobs go on in their hands, or one is put down and perhaps  *)
(* another taken up.                                                       *)
LEMMA ServingKept ==
  ASSUME NEW n, NEW sv, NEW st, Serving(n, sv, st), NEW u,
         \A j \in AllJobs : st[j] \in Given <=> u[j] \in Given
  PROVE  Serving(n, sv, u)
BY DEF Serving

LEMMA ServingNext ==
  ASSUME NEW n \in 1..MaxConcurrent, NEW sv, NEW st, Serving(n, sv, st), NEW r \in 1..n,
         NEW j \in sv[r],
         NEW u, u[j] \notin Given,
         NEW S \in SUBSET AllJobs, \A k \in S : st[k] \notin Given /\ u[k] \in Given,
         \A k, l \in S : k = l,
         \A k \in AllJobs : k # j /\ k \notin S => (st[k] \in Given <=> u[k] \in Given),
         NEW tv, tv = [sv EXCEPT ![r] = S]
  PROVE  Serving(n, tv, u)
<1>1. /\ sv \in [1..MaxConcurrent -> SUBSET AllJobs]
      /\ \A t \in 1..MaxConcurrent : \A k, l \in sv[t] : k = l /\ t \in 1..n
      /\ \A t, q \in 1..MaxConcurrent : \A k \in AllJobs : k \in sv[t] /\ k \in sv[q] => t = q
      /\ \A k \in AllJobs : (\E t \in 1..MaxConcurrent : k \in sv[t]) <=> st[k] \in Given
  BY DEF Serving
<1>2. r \in 1..MaxConcurrent /\ sv[r] = {j} /\ j \in AllJobs
  <2>1. r \in 1..MaxConcurrent
    BY ThrottleAssumption
  <2> QED BY <2>1, <1>1
<1>3. /\ tv \in [1..MaxConcurrent -> SUBSET AllJobs] /\ tv[r] = S
      /\ \A t \in 1..MaxConcurrent : t # r => tv[t] = sv[t]
  BY <1>1, <1>2
<1>4. \A t \in 1..MaxConcurrent : \A k, l \in tv[t] : k = l /\ t \in 1..n
  BY <1>1, <1>3
<1>5. \A t \in 1..MaxConcurrent : \A k \in AllJobs : t # r /\ k \in tv[t] =>
        st[k] \in Given /\ k # j /\ k \notin S
  BY <1>1, <1>2, <1>3
<1>6. ASSUME NEW t \in 1..MaxConcurrent, NEW q \in 1..MaxConcurrent, NEW k \in AllJobs,
             k \in tv[t], k \in tv[q]
      PROVE  t = q
  <2>1. CASE t # r /\ q # r
    BY <2>1, <1>1, <1>3, <1>6
  <2>2. CASE t = r /\ q # r
    BY <2>2, <1>3, <1>5, <1>6
  <2>3. CASE t # r /\ q = r
    BY <2>3, <1>3, <1>5, <1>6
  <2> QED BY <2>1, <2>2, <2>3
<1>7. ASSUME NEW k \in AllJobs
      PROVE  (\E t \in 1..MaxConcurrent : k \in tv[t]) <=> u[k] \in Given
  <2>1. ASSUME NEW t \in 1..MaxConcurrent, k \in tv[t] PROVE u[k] \in Given
    <3>1. CASE t = r
      BY <2>1, <3>1, <1>3
    <3>2. CASE t # r
      BY <2>1, <3>2, <1>5
    <3> QED BY <3>1, <3>2
  <2>2. ASSUME u[k] \in Given PROVE \E t \in 1..MaxConcurrent : k \in tv[t]
    <3>1. CASE k \in S
      BY <3>1, <1>2, <1>3
    <3>2. CASE k \notin S
      <4>1. k # j /\ st[k] \in Given
        BY <2>2, <3>2
      <4>2. PICK t \in 1..MaxConcurrent : k \in sv[t]
        BY <4>1, <1>1
      <4>3. t # r
        BY <4>1, <4>2, <1>2
      <4> QED BY <4>2, <4>3, <1>3
    <3> QED BY <3>1, <3>2
  <2> QED BY <2>1, <2>2
<1> QED BY <1>3, <1>4, <1>6, <1>7 DEF Serving

(* The pipe.                                                               *)
LEMMA PipedKept ==
  ASSUME NEW b, NEW rd, NEW st, Piped(b, rd, st), NEW u,
         \A j \in AllJobs : st[j] = "queued" <=> u[j] = "queued"
  PROVE  Piped(b, rd, u)
BY DEF Piped

LEMMA PipedNext ==
  ASSUME NEW b, NEW rd, NEW st, Piped(b, rd, st), b # << >>, NEW u,
         u[Head(b)] # "queued",
         \A j \in AllJobs : j # Head(b) => (st[j] = "queued" <=> u[j] = "queued")
  PROVE  /\ Piped(Tail(b), rd, u) /\ Head(b) \in Elements(b)
         /\ Head(b) \in AllJobs /\ st[Head(b)] = "queued"
<1>1. b \in Seq(AllJobs) /\ NoRepeats(b)
  BY DEF Piped
<1>2. /\ Tail(b) \in Seq(AllJobs) /\ NoRepeats(Tail(b)) /\ Head(b) \in Elements(b)
      /\ Elements(Tail(b)) = Elements(b) \ {Head(b)}
  BY <1>1, TailWithoutHead
<1>3. Head(b) \in AllJobs /\ st[Head(b)] = "queued" /\ rd = << >>
  BY <1>1, <1>2, ElementsOf DEF Piped
<1>4. \A j \in AllJobs : u[j] = "queued" <=> j \in Elements(Tail(b))
  BY <1>2, <1>3 DEF Piped
<1> QED BY <1>2, <1>3, <1>4 DEF Piped

(* The line of what was enqueued: some of it goes.                         *)
Within(v, w) ==
  \A i, k \in DOMAIN v : i < k => \E a, c \in DOMAIN w : a < c /\ w[a] = v[i] /\ w[c] = v[k]
Reflects(c, b) ==
  \A x, y \in DOMAIN c : \E a, e \in DOMAIN b :
    b[a] = c[x] /\ b[e] = c[y] /\ (a < e => x < y)

LEMMA LineKept ==
  ASSUME NEW w, NEW b, NEW st, Lined(w, b, st), NEW v \in Seq(AllJobs), NoRepeats(v),
         Within(v, w), NEW c, Reflects(c, b), NEW u,
         \A j \in AllJobs : j \in Elements(v) <=> u[j] \in Unstarted,
         QueuedLast(v, u)
  PROVE  Lined(v, c, u)
<1>1. InPipeOrder(v, c)
  <2> SUFFICES ASSUME NEW i \in DOMAIN v, NEW k \in DOMAIN v, i < k,
                      NEW x \in DOMAIN c, NEW y \in DOMAIN c, c[x] = v[i], c[y] = v[k]
               PROVE  x < y
    BY DEF InPipeOrder
  <2>1. PICK a \in DOMAIN w, e \in DOMAIN w : a < e /\ w[a] = v[i] /\ w[e] = v[k]
    BY DEF Within
  <2>2. PICK f \in DOMAIN b, h \in DOMAIN b : b[f] = c[x] /\ b[h] = c[y] /\ (f < h => x < y)
    BY DEF Reflects
  <2>3. f < h
    BY <2>1, <2>2 DEF Lined, InPipeOrder
  <2> QED BY <2>2, <2>3
<1> QED BY <1>1 DEF Lined

LEMMA Same ==
  ASSUME NEW w
  PROVE  Within(w, w) /\ Reflects(w, w)
BY DEF Within, Reflects

LEMMA NoneLeft ==
  ASSUME NEW w
  PROVE  Reflects(<< >>, w)
BY DEF Reflects

LEMMA TailReflects ==
  ASSUME NEW T, NEW b \in Seq(T), b # << >>
  PROVE  Reflects(Tail(b), b)
<1>1. PICK n, c : n = Len(b) /\ c = Tail(b)
  OBVIOUS
<1>2. /\ n \in Nat /\ DOMAIN b = 1..n
      /\ DOMAIN c = 1..(n - 1) /\ \A i \in 1..(n - 1) : c[i] = b[i + 1]
  <2>1. n \in Nat /\ DOMAIN b = 1..n
    BY <1>1, LenProperties
  <2>2. c \in Seq(T) /\ Len(c) = n - 1 /\ \A i \in 1..(n - 1) : c[i] = b[i + 1]
    BY <1>1, HeadTailProperties
  <2> QED BY <2>1, <2>2, LenProperties
<1>3. \A i \in 1..(n - 1) : i + 1 \in 1..n
  BY <1>2
<1>4. \A i, k \in 1..(n - 1) : i + 1 < k + 1 => i < k
  BY <1>2
<1>5. ASSUME NEW x \in DOMAIN c, NEW y \in DOMAIN c
      PROVE  \E a, e \in DOMAIN b : b[a] = c[x] /\ b[e] = c[y] /\ (a < e => x < y)
  BY <1>2, <1>3, <1>4
<1> QED BY <1>1, <1>5 DEF Reflects

LEMMA OthersLined ==
  ASSUME NEW w, NEW b, NEW st, Lined(w, b, st), NEW u,
         \A j \in AllJobs : st[j] \in Unstarted <=> u[j] \in Unstarted,
         \A j \in AllJobs : st[j] = "queued" <=> u[j] = "queued"
  PROVE  Lined(w, b, u)
<1>1. w \in Seq(AllJobs) /\ \A i \in DOMAIN w : w[i] \in AllJobs
  BY ElementOfSeq, LenProperties DEF Lined
<1>2. QueuedLast(w, u)
  BY <1>1 DEF Lined, QueuedLast
<1> QED BY <1>2 DEF Lined

(* Jobs js leave the line: u is their status from then on.                 *)
LEMMA LineWithout ==
  ASSUME NEW w, NEW b, NEW st, Lined(w, b, st), NEW js, NEW v, v = Without(w, js),
         NEW c, Reflects(c, b), NEW u,
         \A j \in AllJobs : j \in js => u[j] \notin Unstarted,
         \A j \in AllJobs : j \notin js => (st[j] \in Unstarted <=> u[j] \in Unstarted),
         \A j \in AllJobs : j \notin js => (st[j] = "queued" <=> u[j] = "queued")
  PROVE  Lined(v, c, u)
<1>1. /\ w \in Seq(AllJobs) /\ NoRepeats(w) /\ QueuedLast(w, st)
      /\ \A j \in AllJobs : j \in Elements(w) <=> st[j] \in Unstarted
  BY DEF Lined
<1>2. /\ v \in Seq(AllJobs) /\ Elements(v) = Elements(w) \ js /\ NoRepeats(v)
      /\ Within(v, w)
  BY <1>1, WithoutKeeps DEF Within
<1>3. \A j \in AllJobs : j \in Elements(v) <=> u[j] \in Unstarted
  BY <1>1, <1>2
<1>4. \A i \in DOMAIN v : v[i] \in AllJobs /\ v[i] \notin js
  BY <1>2, ElementsOf DEF Elements
<1>5. QueuedLast(v, u)
  <2> SUFFICES ASSUME NEW i \in DOMAIN v, NEW k \in DOMAIN v, i < k, u[v[i]] = "queued"
               PROVE  u[v[k]] = "queued"
    BY DEF QueuedLast
  <2>1. PICK a \in DOMAIN w, e \in DOMAIN w : a < e /\ w[a] = v[i] /\ w[e] = v[k]
    BY <1>2 DEF Within
  <2>2. st[v[i]] = "queued"
    BY <1>4
  <2>3. st[v[k]] = "queued"
    BY <2>1, <2>2, <1>1 DEF QueuedLast
  <2> QED BY <2>3, <1>4
<1> QED BY <1>2, <1>3, <1>5, LineKept

(* The first job of the pipe is taken.                                     *)
LEMMA LineTaken ==
  ASSUME NEW w, NEW b \in Seq(AllJobs), NEW st, Lined(w, b, st), b # << >>,
         \A j \in AllJobs : st[j] = "queued" <=> j \in Elements(b), NEW u,
         u[Head(b)] = "taken",
         \A j \in AllJobs : j # Head(b) => (st[j] \in Unstarted <=> u[j] \in Unstarted),
         \A j \in AllJobs : j # Head(b) => (st[j] = "queued" <=> u[j] = "queued")
  PROVE  Lined(w, Tail(b), u)
<1>1. /\ w \in Seq(AllJobs) /\ NoRepeats(w) /\ QueuedLast(w, st) /\ InPipeOrder(w, b)
      /\ \A j \in AllJobs : j \in Elements(w) <=> st[j] \in Unstarted
  BY DEF Lined
<1>2. \A i \in DOMAIN w : w[i] \in AllJobs
  BY <1>1, ElementOfSeq, LenProperties
<1>3. 1 \in DOMAIN b /\ b[1] = Head(b) /\ Head(b) \in AllJobs /\ Head(b) \in Elements(b)
  <2>1. 1 \in DOMAIN b /\ b[1] = Head(b)
    OBVIOUS
  <2> QED BY <2>1, ElementsOf DEF Elements
<1>4. st[Head(b)] = "queued"
  BY <1>3
<1>5. QueuedLast(w, u)
  <2> SUFFICES ASSUME NEW i \in DOMAIN w, NEW k \in DOMAIN w, i < k, u[w[i]] = "queued"
               PROVE  u[w[k]] = "queued"
    BY DEF QueuedLast
  <2>1. w[i] # Head(b) /\ st[w[i]] = "queued"
    BY <1>2
  <2>2. st[w[k]] = "queued"
    BY <2>1, <1>1 DEF QueuedLast
  <2>3. ASSUME w[k] = Head(b) PROVE FALSE
    <3>1. PICK a \in DOMAIN b : b[a] = w[i]
      BY <2>1, <1>2 DEF Elements
    <3>2. a < 1
      BY <2>3, <3>1, <1>1, <1>3 DEF InPipeOrder
    <3> QED BY <3>1, <3>2, LenProperties
  <2> QED BY <2>2, <2>3, <1>2
<1>6. \A j \in AllJobs : j \in Elements(w) <=> u[j] \in Unstarted
  <2>1. u[Head(b)] \in Unstarted /\ st[Head(b)] \in Unstarted
    BY <1>4 DEF Unstarted
  <2> QED BY <2>1, <1>1
<1>7. Within(w, w) /\ Reflects(Tail(b), b)
  BY Same, TailReflects
<1> QED BY <1>1, <1>5, <1>6, <1>7, LineKept
-----------------------------------------------------------------------------
(* The calls of prior_jobs_done: how far a dummy is tells how far the call *)
(* is.                                                                     *)
LEMMA DummyStatus ==
  ASSUME NEW p \in Priors, NEW n \in 1..MaxConcurrent, NEW d, NEW pr, NEW B, NEW b, NEW st,
         Asking(n, p, d, pr, B, b, st), NEW x \in Dummies(p)
  PROVE  /\ st[x] \in {"queued", "taken", "started", "aborted"} =>
              pr = "asked" /\ x \in DummiesOf(n, p)
         /\ st[x] = "returned" => pr = "answered" /\ x \in DummiesOf(n, p)
         /\ st[x] # "raised"
<1>1. CASE x \notin DummiesOf(n, p)
  BY <1>1 DEF Asking
<1>2. CASE x \in DummiesOf(n, p)
  <2>1. CASE pr = "none"
    BY <1>2, <2>1 DEF Asking
  <2>2. CASE pr = "asked"
    BY <1>2, <2>2 DEF Asking, Asked, Live
  <2>3. CASE pr = "answered"
    BY <1>2, <2>3 DEF Asking
  <2> QED BY <2>1, <2>2, <2>3 DEF Asking
<1> QED BY <1>1, <1>2

(* A step that lets the dummies of p start none: they go on as jobs do.    *)
GoesOn(pr, s, t) ==
  \/ s = t
  \/ pr = "asked" /\ <<s, t>> \in {<<"queued", "taken">>, <<"queued", "aborted">>,
                                   <<"taken", "started">>}
  \/ pr = "answered" /\ <<s, t>> \in {<<"running", "returned">>, <<"returned", "new">>}
LEMMA AskingKept ==
  ASSUME NEW p \in Priors, NEW n \in 1..MaxConcurrent, NEW d, NEW pr, NEW B, NEW b, NEW st,
         Asking(n, p, d, pr, B, b, st), NEW A \in SUBSET B, NEW c, Reflects(c, b), NEW u,
         \A x \in DummiesOf(n, p) : GoesOn(pr, st[x], u[x]),
         \A x \in Dummies(p) \ DummiesOf(n, p) : u[x] = st[x],
         \A j \in A : u[j] \in Live /\ (u[j] = "queued" => st[j] = "queued"),
         \A j \in A : u[j] = "queued" =>
           \A x \in DummiesOf(n, p) : st[x] = "queued" => u[x] = "queued"
  PROVE  Asking(n, p, d, pr, A, c, u)
<1>1. /\ pr \in {"none", "asked", "answered"} /\ d \in 0..MaxConcurrent
      /\ B \subseteq UserJobs /\ \A j \in B : st[j] \in Live
      /\ \A x \in Dummies(p) \ DummiesOf(n, p) : st[x] = "new"
  BY DEF Asking
<1>2. ASSUME pr = "none" PROVE A = {} /\ \A x \in DummiesOf(n, p) : u[x] = "new"
  BY <1>2 DEF Asking, GoesOn
<1>3. ASSUME pr = "answered"
      PROVE  A = {} /\ \A x \in DummiesOf(n, p) : u[x] \in {"running", "returned", "new"}
  BY <1>3 DEF Asking, GoesOn
<1>4. ASSUME pr = "asked" PROVE Asked(n, p, d, A, c, u)
  <2>1. Asked(n, p, d, B, b, st)
    BY <1>4 DEF Asking
  <2>2. \A x \in DummiesOf(n, p) : /\ u[x] \in Live \cup {"aborted"}
                                   /\ u[x] = "running" <=> st[x] = "running"
    BY <1>4, <2>1 DEF Asked, GoesOn, Live
  <2>3. RunningOf(n, p, u) = RunningOf(n, p, st)
    BY <2>2 DEF RunningOf
  <2>4. Ahead(c, A, DummiesOf(n, p))
    <3> SUFFICES ASSUME NEW x \in DOMAIN c, NEW y \in DOMAIN c,
                        c[x] \in A, c[y] \in DummiesOf(n, p)
                 PROVE  x < y
      BY DEF Ahead
    <3>1. PICK a \in DOMAIN b, e \in DOMAIN b : b[a] = c[x] /\ b[e] = c[y] /\ (a < e => x < y)
      BY DEF Reflects
    <3> QED BY <2>1, <3>1 DEF Asked, Ahead
  <2>5. \A j \in A : u[j] = "queued" => \A x \in DummiesOf(n, p) : u[x] = "queued"
    BY <2>1 DEF Asked
  <2> QED BY <2>1, <2>2, <2>3, <2>4, <2>5 DEF Asked
<1> QED BY <1>1, <1>2, <1>3, <1>4 DEF Asking

(* Jobs R are enqueued that are none of p's.                               *)
LEMMA AskingEnqueued ==
  ASSUME NEW p \in Priors, NEW n \in 1..MaxConcurrent, NEW d, NEW pr, NEW B,
         NEW b \in Seq(AllJobs), NEW st,
         Asking(n, p, d, pr, B, b, st), NEW js, js \cap Dummies(p) = {},
         \A j \in js : st[j] \notin Live,
         NEW R \in Seq(AllJobs), Elements(R) \subseteq js,
         NEW u, \A j \in AllJobs : j \notin js => u[j] = st[j]
  PROVE  Asking(n, p, d, pr, B, b \o R, u)
<1>1. /\ pr \in {"none", "asked", "answered"} /\ d \in 0..MaxConcurrent
      /\ B \subseteq UserJobs /\ \A j \in B : st[j] \in Live
      /\ \A x \in Dummies(p) \ DummiesOf(n, p) : st[x] = "new"
  BY DEF Asking
<1>2. \A x \in Dummies(p) : u[x] = st[x]
  BY DummyJobs
<1>3. DummiesOf(n, p) \subseteq Dummies(p)
  BY DummyJobs
<1>4. \A j \in B : u[j] = st[j] /\ j \notin js
  BY <1>1 DEF AllJobs
<1>5. ASSUME pr = "asked" PROVE Asked(n, p, d, B, b \o R, u)
  <2>1. Asked(n, p, d, B, b, st)
    BY <1>5 DEF Asking
  <2>2. RunningOf(n, p, u) = RunningOf(n, p, st)
    BY <1>2, <1>3 DEF RunningOf
  <2>3. PICK c : c = b \o R
    OBVIOUS
  <2>4. /\ DOMAIN c = 1..(Len(b) + Len(R)) /\ DOMAIN b = 1..Len(b)
        /\ \A i \in 1..Len(b) : c[i] = b[i]
        /\ \A i \in 1..(Len(b) + Len(R)) : i \in 1..Len(b) \/ c[i] \in Elements(R)
    <3>1. /\ c \in Seq(AllJobs) /\ Len(c) = Len(b) + Len(R)
          /\ \A i \in 1..Len(b) : c[i] = b[i]
          /\ \A i \in 1..(Len(b) + Len(R)) :
               i \in 1..Len(b) \/ (i - Len(b) \in 1..Len(R) /\ c[i] = R[i - Len(b)])
      BY <2>3, Joined
    <3>2. DOMAIN R = 1..Len(R)
      BY LenProperties
    <3> QED BY <3>1, <3>2, LenProperties DEF Elements
  <2>5. Ahead(c, B, DummiesOf(n, p))
    <3> SUFFICES ASSUME NEW x \in DOMAIN c, NEW y \in DOMAIN c,
                        c[x] \in B, c[y] \in DummiesOf(n, p)
                 PROVE  x < y
      BY DEF Ahead
    <3>1. c[x] \notin js /\ c[y] \notin js
      BY <1>3, <1>4
    <3>2. x \in 1..Len(b) /\ y \in 1..Len(b) /\ c[x] = b[x] /\ c[y] = b[y]
      BY <2>4, <3>1
    <3>3. x \in DOMAIN b /\ y \in DOMAIN b /\ b[x] \in B /\ b[y] \in DummiesOf(n, p)
      BY <2>4, <3>2
    <3> QED BY <2>1, <3>3 DEF Asked, Ahead
  <2>6. \A x \in DummiesOf(n, p) : u[x] \in Live \cup {"aborted"}
    BY <1>2, <1>3, <2>1 DEF Asked
  <2>7. \A j \in B : u[j] = "queued" => \A x \in DummiesOf(n, p) : u[x] = "queued"
    BY <1>2, <1>3, <1>4, <2>1 DEF Asked
  <2> QED BY <2>1, <2>2, <2>3, <2>5, <2>6, <2>7 DEF Asked
<1>6. /\ pr = "none" => B = {} /\ \A x \in DummiesOf(n, p) : u[x] = "new"
      /\ pr = "answered" =>
           B = {} /\ \A x \in DummiesOf(n, p) : u[x] \in {"running", "returned", "new"}
  BY <1>2, <1>3 DEF Asking
<1>7. /\ \A j \in B : u[j] \in Live
      /\ \A x \in Dummies(p) \ DummiesOf(n, p) : u[x] = "new"
  BY <1>1, <1>2, <1>4
<1> QED BY <1>1, <1>5, <1>6, <1>7 DEF Asking

(* One more dummy of p starts.  The last one tells that no earlier job is  *)
(* left: none is in the pipe, for it would be ahead of a dummy that has    *)
(* left it, and no runner has one, for every runner serves a dummy.        *)
LEMMA DummyStarts ==
  ASSUME NEW p \in Priors, NEW n \in 1..MaxConcurrent, NEW d, NEW pr, NEW B, NEW b, NEW st,
         Asking(n, p, d, pr, B, b, st), NEW sv, Serving(n, sv, st),
         NEW x \in Dummies(p), st[x] = "started",
         NEW u, u[x] = "running", \A j \in AllJobs : j # x => u[j] = st[j],
         NEW e, e = d + 1, NEW qr, qr = IF e = n THEN "answered" ELSE pr
  PROVE  Asking(n, p, e, qr, B, b, u)
<1>1. pr = "asked" /\ x \in DummiesOf(n, p)
  BY DummyStatus
<1>2. Asked(n, p, d, B, b, st)
  BY <1>1 DEF Asking
<1>3. /\ B \subseteq UserJobs /\ \A j \in B : st[j] \in Live
      /\ \A y \in Dummies(p) \ DummiesOf(n, p) : st[y] = "new"
      /\ d \in 0..MaxConcurrent
  BY DEF Asking
<1>4. /\ DummiesOf(n, p) \subseteq Dummies(p) /\ Dummies(p) \subseteq AllJobs
      /\ Dummies(p) \cap UserJobs = {}
  BY DummyJobs
<1>5. IsFiniteSet(DummiesOf(n, p)) /\ Cardinality(DummiesOf(n, p)) = n
  BY CountOfDummies
<1>6. /\ n \in Nat /\ n <= MaxConcurrent /\ MaxConcurrent \in Nat /\ d < n /\ d \in Nat
      /\ d = Cardinality(RunningOf(n, p, st))
  BY <1>2, <1>3, ThrottleAssumption DEF Asked
<1>7. RunningOf(n, p, u) = RunningOf(n, p, st) \cup {x} /\ x \notin RunningOf(n, p, st)
  BY <1>1, <1>4 DEF RunningOf
<1>8. IsFiniteSet(RunningOf(n, p, st)) /\ RunningOf(n, p, u) \subseteq DummiesOf(n, p)
  <2>1. RunningOf(n, p, st) \subseteq DummiesOf(n, p) /\ RunningOf(n, p, u) \subseteq DummiesOf(n, p)
    BY DEF RunningOf
  <2> QED BY <1>5, <2>1, FS_Subset
<1>9. Cardinality(RunningOf(n, p, u)) = e
  BY <1>6, <1>7, <1>8, FS_AddElement
<1>10. e \in 0..MaxConcurrent /\ e <= n
  BY <1>6
<1>11. \A j \in B : j \in AllJobs /\ j # x /\ u[j] = st[j] /\ st[j] # "queued"
  <2> SUFFICES ASSUME NEW j \in B
               PROVE  j \in AllJobs /\ j # x /\ u[j] = st[j] /\ st[j] # "queued"
    OBVIOUS
  <2>1. j \in AllJobs /\ j # x
    BY <1>3, <1>4 DEF AllJobs
  <2>2. st[j] # "queued"
    BY <1>1, <1>2 DEF Asked
  <2> QED BY <2>1, <2>2
<1>12. \A y \in Dummies(p) \ DummiesOf(n, p) : u[y] = "new"
  BY <1>1, <1>3, <1>4
<1>13. CASE e = n
  <2>1. RunningOf(n, p, u) = DummiesOf(n, p)
    BY <1>5, <1>8, <1>9, <1>13, FS_Subset
  <2>2. \A y \in DummiesOf(n, p) : u[y] = "running"
    BY <2>1 DEF RunningOf
  <2>3. \A y \in DummiesOf(n, p) : st[y] \in Given
    BY <2>2, <1>4 DEF Given
  <2>4. \A r \in 1..n : \E y \in DummiesOf(n, p) : y \in sv[r]
    <3>1. PICK S : S = DummiesOf(n, p)
      OBVIOUS
    <3>2. S \in SUBSET AllJobs /\ Cardinality(S) = n /\ \A y \in S : st[y] \in Given
      BY <3>1, <1>4, <1>5, <2>3
    <3>3. \A r \in 1..n : \E y \in S : y \in sv[r]
      BY <3>2, ServedJobs
    <3> QED BY <3>1, <3>3
  <2>5. ASSUME NEW j \in B PROVE FALSE
    <3>1. st[j] \in Given
      BY <1>3, <1>11 DEF Live, Given
    <3>2. PICK r \in 1..MaxConcurrent : j \in sv[r]
      BY <3>1, <1>11 DEF Serving
    <3>3. r \in 1..n
      BY <3>2 DEF Serving
    <3>4. PICK y \in DummiesOf(n, p) : y \in sv[r]
      BY <2>4, <3>3
    <3>5. y = j
      BY <3>2, <3>4 DEF Serving
    <3> QED BY <3>5, <3>4, <1>3, <1>4
  <2>6. B = {}
    BY <2>5
  <2> QED BY <2>2, <2>6, <1>10, <1>12, <1>13 DEF Asking
<1>14. CASE e # n
  <2>1. \A y \in DummiesOf(n, p) : u[y] \in Live \cup {"aborted"}
    BY <1>2, <1>4 DEF Asked, Live
  <2>2. \A j \in B : u[j] # "queued" /\ u[j] \in Live
    BY <1>3, <1>11
  <2>3. Asked(n, p, e, B, b, u)
    BY <1>2, <1>6, <1>9, <1>10, <1>14, <2>1, <2>2 DEF Asked
  <2> QED BY <1>1, <1>3, <1>10, <1>12, <1>14, <2>2, <2>3 DEF Asking
<1> QED BY <1>13, <1>14
-----------------------------------------------------------------------------
(* Steps in which one job goes on and the pipe, the runners and the other  *)
(* jobs stay as they are.                                                  *)
LEMMA OneJobMoves ==
  ASSUME NEW n \in 1..MaxConcurrent, NEW sv, NEW st, NEW rd, NEW b, NEW w,
         Serving(n, sv, st), Piped(b, rd, st), Lined(w, b, st),
         NEW j \in AllJobs, st[j] \in Given, NEW u, u[j] \in Given,
         st[j] \in Unstarted <=> u[j] \in Unstarted,
         \A k \in AllJobs : k # j => u[k] = st[k]
  PROVE  Serving(n, sv, u) /\ Piped(b, rd, u) /\ Lined(w, b, u)
<1>1. \A k \in AllJobs : /\ st[k] \in Given <=> u[k] \in Given
                         /\ st[k] = "queued" <=> u[k] = "queued"
                         /\ st[k] \in Unstarted <=> u[k] \in Unstarted
  BY DEF Given
<1> QED BY <1>1, ServingKept, PipedKept, OthersLined

LEMMA OneDummyMoves ==
  ASSUME NEW p \in Priors, NEW n \in 1..MaxConcurrent, NEW d, NEW pr, NEW B, NEW b, NEW st,
         Asking(n, p, d, pr, B, b, st), NEW j \in AllJobs, NEW u,
         \A k \in AllJobs : k # j => u[k] = st[k],
         j \in Dummies(p) => GoesOn(pr, st[j], u[j]) /\ j \in DummiesOf(n, p),
         st[j] # "queued", u[j] # "queued",
         NEW A \in SUBSET B, j \in A => u[j] \in Live
  PROVE  Asking(n, p, d, pr, A, b, u)
<1>1. /\ DummiesOf(n, p) \subseteq Dummies(p) /\ Dummies(p) \subseteq AllJobs
      /\ B \subseteq AllJobs /\ \A k \in B : st[k] \in Live
  BY DummyJobs DEF Asking, AllJobs
<1>2. \A x \in DummiesOf(n, p) : GoesOn(pr, st[x], u[x])
  BY <1>1 DEF GoesOn
<1>3. \A x \in Dummies(p) \ DummiesOf(n, p) : u[x] = st[x]
  BY <1>1
<1>4. \A k \in A : u[k] \in Live /\ (u[k] = "queued" => st[k] = "queued")
  BY <1>1
<1>5. \A x \in DummiesOf(n, p) : st[x] = "queued" => u[x] = "queued"
  BY <1>1
<1>6. Reflects(b, b)
  BY Same
<1> QED BY <1>2, <1>3, <1>4, <1>5, <1>6, AskingKept

LEMMA GotStep == ASSUME IInv, NEW j \in AllJobs, Got(j) PROVE IInv'
<1>1. PICK n, st, u : n = max_concurrent_jobs /\ st = status /\ u = status'
  OBVIOUS
<1>2. PICK x, y : x = [do |-> "got", job |-> j] /\ y = [do |-> "go", job |-> j]
  OBVIOUS
<1>3. x \in Hop /\ y \in Hop /\ y.job = x.job /\ y # x /\ x.job = j
      /\ Reached(x) = "taken" /\ Reached(y) = "started"
  BY <1>2 DEF Hop, Reached
<1>4. /\ Basics /\ Hopping(batch, queue, st) /\ Serving(n, serves, st)
      /\ Waiting(n, readers, serves) /\ Piped(buffer, readers, st) /\ Lined(pending, buffer, st)
      /\ n \in 1..MaxConcurrent
  BY <1>1 DEF IInv, JobsInv, Basics
<1>5. /\ TakeHop(x, <<y>>) /\ u = [st EXCEPT ![j] = "started"]
      /\ UNCHANGED <<throttleVars, pipeVars, serves, priorVars, history>>
  BY <1>1, <1>2 DEF Got
<1>6. u[j] = "started" /\ (\A k \in AllJobs : k # j => u[k] = st[k])
      /\ u \in [AllJobs -> Statuses]
  BY <1>1, <1>4, <1>5 DEF Basics, Statuses
<1>7. Moved(batch, queue, x, <<y>>, batch', queue') /\ st[j] = "taken"
  <2>1. <<y>> \in Seq(Hop) /\ NoRepeats(<<y>>) /\ Elements(<<y>>) = {y}
    BY <1>3 DEF NoRepeats, Elements
  <2>2. PICK added : added = <<y>>
    OBVIOUS
  <2>3. Moved(batch, queue, x, added, batch', queue') /\ st[x.job] = Reached(x)
    BY <1>3, <1>4, <1>5, <2>1, <2>2, HopMoved
  <2> QED BY <1>3, <2>2, <2>3
<1>8. Hopping(batch', queue', u)
  BY <1>3, <1>4, <1>6, <1>7, HopDone
<1>9. Serving(n, serves, u) /\ Piped(buffer, readers, u) /\ Lined(pending, buffer, u)
  BY <1>4, <1>6, <1>7, OneJobMoves DEF Given, Unstarted
<1>10. JobsInv'
  BY <1>1, <1>4, <1>5, <1>8, <1>9 DEF JobsInv, throttleVars, pipeVars, history
<1>11. Basics'
  BY <1>1, <1>4, <1>5, <1>6 DEF Basics, throttleVars, pipeVars, priorVars, history
<1>12. PriorsInv'
  <2> SUFFICES ASSUME NEW p \in Priors
               PROVE  Asking(n, p, dummy_jobs_running[p], prior[p], before[p], buffer, u)
    BY <1>1, <1>5 DEF PriorsInv, throttleVars, pipeVars, priorVars, history
  <2>1. PICK d, pr, B, b : d = dummy_jobs_running[p] /\ pr = prior[p] /\ B = before[p] /\ b = buffer
    OBVIOUS
  <2>2. Asking(n, p, d, pr, B, b, st)
    BY <1>1, <2>1 DEF IInv, PriorsInv
  <2>3. j \in Dummies(p) => GoesOn(pr, st[j], u[j]) /\ j \in DummiesOf(n, p)
    BY <1>4, <1>6, <1>7, <2>2, DummyStatus DEF GoesOn
  <2>4. Asking(n, p, d, pr, B, b, u)
    BY <1>4, <1>6, <1>7, <2>2, <2>3, OneDummyMoves DEF Live
  <2> QED BY <2>1, <2>4
<1> QED BY <1>10, <1>11, <1>12 DEF IInv

LEMMA GoStep == ASSUME IInv, NEW j \in AllJobs, Go(j) PROVE IInv'
<1>1. PICK n, st : n = max_concurrent_jobs /\ st = status
  OBVIOUS
<1>2. PICK x, y : x = [do |-> "go", job |-> j] /\ y = [do |-> "work", job |-> j]
  OBVIOUS
<1>3. x \in Hop /\ y \in Hop /\ y.job = x.job /\ y # x /\ x.job = j
      /\ Reached(x) = "started" /\ Reached(y) = "started"
  BY <1>2 DEF Hop, Reached
<1>4. Hopping(batch, queue, st)
  BY <1>1 DEF IInv, JobsInv
<1>5. /\ TakeHop(x, <<y>>)
      /\ UNCHANGED <<throttleVars, pipeVars, serves, status, priorVars, history>>
  BY <1>2 DEF Go
<1>7. Moved(batch, queue, x, <<y>>, batch', queue') /\ st[j] = "started"
  <2>1. <<y>> \in Seq(Hop) /\ NoRepeats(<<y>>) /\ Elements(<<y>>) = {y}
    BY <1>3 DEF NoRepeats, Elements
  <2>2. PICK added : added = <<y>>
    OBVIOUS
  <2>3. Moved(batch, queue, x, added, batch', queue') /\ st[x.job] = Reached(x)
    BY <1>3, <1>4, <1>5, <2>1, <2>2, HopMoved
  <2> QED BY <1>3, <2>2, <2>3
<1>8. Hopping(batch', queue', st)
  BY <1>3, <1>4, <1>7, HopDone
<1> QED
  BY <1>1, <1>5, <1>8 DEF IInv, Basics, JobsInv, PriorsInv, throttleVars, pipeVars, priorVars,
                          history

LEMMA WorkStep == ASSUME IInv, NEW j \in AllJobs, Work(j) PROVE IInv'
<1>1. PICK n, st, u, w : n = max_concurrent_jobs /\ st = status /\ u = status' /\ w = pending
  OBVIOUS
<1>2. PICK x : x = [do |-> "work", job |-> j]
  OBVIOUS
<1>3. x \in Hop /\ x.job = j /\ Reached(x) = "started"
  BY <1>2 DEF Hop, Reached
<1>4. /\ Basics /\ Hopping(batch, queue, st) /\ Serving(n, serves, st)
      /\ Waiting(n, readers, serves) /\ Piped(buffer, readers, st) /\ Lined(w, buffer, st)
      /\ n \in 1..MaxConcurrent
  BY <1>1 DEF IInv, JobsInv, Basics
<1>5. /\ TakeHop(x, << >>) /\ u = [st EXCEPT ![j] = "running"] /\ pending' = Without(w, {j})
      /\ UNCHANGED <<throttleVars, pipeVars, serves, before>>
  BY <1>1, <1>2 DEF Work
<1>6. u[j] = "running" /\ (\A k \in AllJobs : k # j => u[k] = st[k])
      /\ u \in [AllJobs -> Statuses]
  BY <1>1, <1>4, <1>5 DEF Basics, Statuses
<1>7. Moved(batch, queue, x, << >>, batch', queue') /\ st[j] = "started"
  <2>1. << >> \in Seq(Hop) /\ NoRepeats(<< >>) /\ Elements(<< >>) = {}
    BY EmptySeq DEF NoRepeats, Elements
  <2>2. PICK added : added = << >>
    OBVIOUS
  <2>3. Moved(batch, queue, x, added, batch', queue') /\ st[x.job] = Reached(x)
    BY <1>3, <1>4, <1>5, <2>1, <2>2, HopMoved
  <2> QED BY <1>3, <2>2, <2>3
<1>8. Hopping(batch', queue', u)
  BY <1>3, <1>4, <1>6, <1>7, HopDone
<1>9. Serving(n, serves, u) /\ Piped(buffer, readers, u)
  <2>1. \A k \in AllJobs : /\ st[k] \in Given <=> u[k] \in Given
                           /\ st[k] = "queued" <=> u[k] = "queued"
    BY <1>6, <1>7 DEF Given
  <2> QED BY <1>4, <2>1, ServingKept, PipedKept
<1>10. Lined(pending', buffer, u)
  <2>1. PICK v, js : v = pending' /\ js = {j}
    OBVIOUS
  <2>2. /\ \A k \in AllJobs : k \in js => u[k] \notin Unstarted
        /\ \A k \in AllJobs : k \notin js => (st[k] \in Unstarted <=> u[k] \in Unstarted)
        /\ \A k \in AllJobs : k \notin js => (st[k] = "queued" <=> u[k] = "queued")
    BY <1>6, <2>1 DEF Unstarted
  <2>3. v = Without(w, js) /\ Reflects(buffer, buffer)
    BY <1>5, <2>1, Same
  <2>4. Lined(v, buffer, u)
    BY <1>4, <2>2, <2>3, LineWithout
  <2> QED BY <2>1, <2>4
<1>11. JobsInv'
  BY <1>1, <1>4, <1>5, <1>8, <1>9, <1>10 DEF JobsInv, throttleVars, pipeVars
<1>12. ASSUME NEW p \in Priors, j \notin Dummies(p)
       PROVE  Asking(n, p, dummy_jobs_running[p], prior[p], before[p], buffer, u)
  <2>1. PICK d, pr, B, b : d = dummy_jobs_running[p] /\ pr = prior[p] /\ B = before[p] /\ b = buffer
    OBVIOUS
  <2>2. Asking(n, p, d, pr, B, b, st)
    BY <1>1, <2>1 DEF IInv, PriorsInv
  <2>4. Asking(n, p, d, pr, B, b, u)
    BY <1>4, <1>6, <1>7, <1>12, <2>2, OneDummyMoves DEF Live
  <2> QED BY <2>1, <2>4
<1>13. CASE j \in UserJobs
  <2>1. \A p \in Priors : j \notin Dummies(p)
    BY <1>13, DummyJobs, <1>4
  <2>2. UNCHANGED priorVars
    BY <1>13 DEF Work
  <2>3. PriorsInv'
    BY <1>1, <1>5, <1>12, <2>1, <2>2 DEF PriorsInv, throttleVars, pipeVars, priorVars
  <2>4. Basics'
    BY <1>1, <1>4, <1>5, <1>6, <2>2 DEF Basics, throttleVars, pipeVars, priorVars
  <2> QED BY <1>11, <2>3, <2>4 DEF IInv
<1>14. CASE j \notin UserJobs
  <2>1. PICK o \in Priors : j \in Dummies(o)
    BY <1>14 DEF AllJobs
  <2>2. j[1] = o
    BY <2>1, <1>4, DummyJobs
  <2>3. PICK d, pr, B, b, e, qr :
          /\ d = dummy_jobs_running[o] /\ pr = prior[o] /\ B = before[o] /\ b = buffer
          /\ e = d + 1 /\ qr = IF e = n THEN "answered" ELSE pr
    OBVIOUS
  <2>4. /\ dummy_jobs_running' = [dummy_jobs_running EXCEPT ![o] = e]
        /\ prior' = [prior EXCEPT ![o] = qr]
    BY <1>1, <1>14, <2>2, <2>3 DEF Work, AllRunning
  <2>5. Asking(n, o, d, pr, B, b, st)
    BY <1>1, <2>3 DEF IInv, PriorsInv
  <2>6. Asking(n, o, e, qr, B, b, u)
    <3>1. PICK sv : sv = serves
      OBVIOUS
    <3> QED BY <1>4, <1>6, <1>7, <2>1, <2>3, <2>5, <3>1, DummyStarts
  <2>7. e \in 0..MaxConcurrent /\ qr \in {"none", "asked", "answered"}
    BY <2>6 DEF Asking
  <2>8. Basics'
    BY <1>1, <1>4, <1>5, <1>6, <2>4, <2>7 DEF Basics, throttleVars, pipeVars
  <2>9. ASSUME NEW p \in Priors
        PROVE  Asking(n, p, dummy_jobs_running'[p], prior'[p], before[p], buffer, u)
    <3>1. CASE p = o
      <4>1. dummy_jobs_running'[p] = e /\ prior'[p] = qr
        BY <3>1, <1>4, <2>4 DEF Basics
      <4> QED BY <3>1, <4>1, <2>3, <2>6
    <3>2. CASE p # o
      <4>1. dummy_jobs_running'[p] = dummy_jobs_running[p] /\ prior'[p] = prior[p]
        BY <3>2, <1>4, <2>4 DEF Basics
      <4>2. j \notin Dummies(p)
        BY <3>2, <2>1, <1>4, DummyJobs
      <4> QED BY <4>1, <4>2, <1>12
    <3> QED BY <3>1, <3>2
  <2>10. PriorsInv'
    BY <1>1, <1>5, <2>9 DEF PriorsInv, throttleVars, pipeVars
  <2> QED BY <1>11, <2>8, <2>10 DEF IInv
<1> QED BY <1>13, <1>14

LEMMA WorkEndsStep == ASSUME IInv, NEW j \in AllJobs, WorkEnds(j) PROVE IInv'
<1>1. PICK n, st, u : n = max_concurrent_jobs /\ st = status /\ u = status'
  OBVIOUS
<1>2. /\ Basics /\ Hopping(batch, queue, st) /\ Serving(n, serves, st)
      /\ Waiting(n, readers, serves) /\ Piped(buffer, readers, st) /\ Lined(pending, buffer, st)
      /\ n \in 1..MaxConcurrent
  BY <1>1 DEF IInv, JobsInv, Basics
<1>3. PICK s \in {"returned", "raised"} :
        /\ u = [st EXCEPT ![j] = s]
        /\ j \notin UserJobs => s = "returned" /\ prior[j[1]] = "answered"
  BY <1>1 DEF WorkEnds
<1>4. /\ st[j] = "running" /\ before' = [p \in Priors |-> before[p] \ {j}]
      /\ UNCHANGED <<throttleVars, pipeVars, serves, queue, batch, priorVars, pending>>
  BY <1>1 DEF WorkEnds
<1>5. u[j] = s /\ (\A k \in AllJobs : k # j => u[k] = st[k])
      /\ u \in [AllJobs -> Statuses]
  BY <1>1, <1>2, <1>3 DEF Basics, Statuses
<1>6. Serving(n, serves, u) /\ Piped(buffer, readers, u) /\ Lined(pending, buffer, u)
  BY <1>2, <1>4, <1>5, OneJobMoves DEF Given, Unstarted
<1>7. Hopping(batch, queue, u)
  <2>1. \A k \in AllJobs : {u[k], st[k]} \cap {"taken", "started"} # {} => u[k] = st[k]
    BY <1>4, <1>5
  <2> QED BY <2>1, <1>2, HopsKept
<1>8. JobsInv'
  BY <1>1, <1>2, <1>4, <1>6, <1>7 DEF JobsInv, throttleVars, pipeVars
<1>9. Basics'
  BY <1>1, <1>2, <1>4, <1>5 DEF Basics, throttleVars, pipeVars, priorVars
<1>10. PriorsInv'
  <2> SUFFICES ASSUME NEW p \in Priors
               PROVE  Asking(n, p, dummy_jobs_running[p], prior[p], before[p] \ {j}, buffer, u)
    BY <1>1, <1>4 DEF PriorsInv, throttleVars, pipeVars, priorVars
  <2>1. PICK d, pr, B, b, A : /\ d = dummy_jobs_running[p] /\ pr = prior[p] /\ B = before[p]
                              /\ b = buffer /\ A = B \ {j}
    OBVIOUS
  <2>2. Asking(n, p, d, pr, B, b, st)
    BY <1>1, <2>1 DEF IInv, PriorsInv
  <2>3. ASSUME j \in Dummies(p) PROVE GoesOn(pr, st[j], u[j]) /\ j \in DummiesOf(n, p)
    <3>1. j[1] = p /\ j \notin UserJobs
      BY <1>2, <2>3, DummyJobs
    <3>2. pr = "answered" /\ u[j] = "returned"
      BY <1>3, <1>5, <2>1, <3>1
    <3>3. j \in DummiesOf(n, p)
      BY <1>4, <2>2, <2>3 DEF Asking
    <3> QED BY <1>4, <3>2, <3>3 DEF GoesOn
  <2>4. Asking(n, p, d, pr, A, b, u)
    <3>1. A \in SUBSET B /\ j \notin A /\ st[j] # "queued" /\ u[j] # "queued"
      BY <1>4, <1>5, <2>1
    <3> QED BY <1>2, <1>5, <2>2, <2>3, <3>1, OneDummyMoves
  <2> QED BY <2>1, <2>4
<1> QED BY <1>8, <1>9, <1>10 DEF IInv

(* A runner waits that does not serve a job.                               *)
LEMMA WaitersKept ==
  ASSUME NEW n, NEW rd, NEW sv, Waiting(n, rd, sv), NEW r, sv[r] # {}, NEW tv,
         \A t \in 1..n : t # r => tv[t] = sv[t]
  PROVE  Waiting(n, rd, tv)
<1>1. rd \in Seq(1..n) /\ Elements(rd) \subseteq 1..n /\ r \notin Elements(rd)
  BY ElementsOf DEF Waiting
<1> QED BY <1>1 DEF Waiting

LEMMA WaiterJoins ==
  ASSUME NEW n, NEW rd, NEW sv, Waiting(n, rd, sv), NEW r \in 1..n, sv[r] # {}, NEW tv,
         tv[r] = {}, \A t \in 1..n : t # r => tv[t] = sv[t]
  PROVE  Waiting(n, Append(rd, r), tv)
<1>1. rd \in Seq(1..n) /\ Elements(rd) \subseteq 1..n /\ r \notin Elements(rd) /\ NoRepeats(rd)
  BY ElementsOf DEF Waiting
<1>2. PICK one : one = <<r>>
  OBVIOUS
<1>3. one \in Seq(1..n) /\ NoRepeats(one) /\ Elements(one) = {r}
  BY <1>2 DEF NoRepeats, Elements
<1>4. Append(rd, r) = rd \o one
  BY <1>1, <1>2
<1>5. /\ rd \o one \in Seq(1..n) /\ NoRepeats(rd \o one)
      /\ Elements(rd \o one) = Elements(rd) \cup {r}
  BY <1>1, <1>3, Joined, JoinedApart
<1>6. \A t \in Elements(rd) \cup {r} : tv[t] = {}
  BY <1>1 DEF Waiting
<1> QED BY <1>4, <1>5, <1>6 DEF Waiting

(* A runner's job ends: what every way to go on has in common.             *)
EndedJob(r, j) == r \in Runners /\ j \in serves[r] /\ j \in Ended
RestOfRunner(r, j) ==
  /\ serves' = [serves EXCEPT ![r] = IF Stops(j) \/ buffer = << >>
                                     THEN {} ELSE {First(buffer)}]
  /\ UNCHANGED <<throttleVars, batch, priorVars>>

LEMMA WaitsStep ==
  ASSUME IInv, NEW r, NEW j, EndedJob(r, j), WaitForNext(r, j), RestOfRunner(r, j)
  PROVE  IInv'
<1>1. PICK n, st, u, sv, tv, S :
        /\ n = max_concurrent_jobs /\ st = status /\ u = status' /\ sv = serves /\ tv = serves'
        /\ S = {}
  OBVIOUS
<1>2. /\ Basics /\ Hopping(batch, queue, st) /\ Serving(n, sv, st)
      /\ Waiting(n, readers, sv) /\ Piped(buffer, readers, st) /\ Lined(pending, buffer, st)
      /\ n \in 1..MaxConcurrent /\ r \in 1..n /\ j \in sv[r] /\ j \in AllJobs
      /\ st[j] \in {"returned", "raised"}
  BY <1>1 DEF IInv, JobsInv, Basics, EndedJob, Ended, Runners
<1>3. /\ buffer = << >> /\ u = [st EXCEPT ![j] = "new"] /\ tv = [sv EXCEPT ![r] = S]
      /\ readers' = IF closed THEN readers ELSE Append(readers, r)
      /\ UNCHANGED <<throttleVars, batch, priorVars, buffer, closed, queue, history>>
  BY <1>1 DEF WaitForNext, RestOfRunner
<1>4. u[j] = "new" /\ (\A k \in AllJobs : k # j => u[k] = st[k])
      /\ u \in [AllJobs -> Statuses]
  BY <1>1, <1>2, <1>3 DEF Basics, Statuses
<1>5. Serving(n, tv, u)
  <2>1. /\ u[j] \notin Given /\ S \in SUBSET AllJobs
        /\ \A k \in S : st[k] \notin Given /\ u[k] \in Given
        /\ \A k, l \in S : k = l
        /\ \A k \in AllJobs : k # j /\ k \notin S => (st[k] \in Given <=> u[k] \in Given)
    BY <1>1, <1>4 DEF Given
  <2> QED BY <1>2, <1>3, <2>1, ServingNext
<1>6. Waiting(n, readers', tv)
  <2>1. sv[r] # {} /\ tv[r] = {} /\ \A t \in 1..n : t # r => tv[t] = sv[t]
    <3>1. sv \in [1..MaxConcurrent -> SUBSET AllJobs] /\ 1..n \subseteq 1..MaxConcurrent
      BY <1>2, ThrottleAssumption DEF Serving
    <3> QED BY <3>1, <1>1, <1>2, <1>3
  <2>2. PICK rd : rd = readers
    OBVIOUS
  <2>3. Waiting(n, rd, tv) /\ Waiting(n, Append(rd, r), tv)
    BY <1>2, <2>1, <2>2, WaitersKept, WaiterJoins
  <2> QED BY <1>3, <2>2, <2>3
<1>7. Piped(buffer, readers', u)
  BY <1>2, <1>3, <1>4 DEF Piped
<1>8. Lined(pending, buffer, u)
  <2>1. /\ \A k \in AllJobs : st[k] \in Unstarted <=> u[k] \in Unstarted
        /\ \A k \in AllJobs : st[k] = "queued" <=> u[k] = "queued"
    BY <1>2, <1>4 DEF Unstarted
  <2> QED BY <1>2, <2>1, OthersLined
<1>9. Hopping(batch, queue, u)
  <2>1. \A k \in AllJobs : {u[k], st[k]} \cap {"taken", "started"} # {} => u[k] = st[k]
    BY <1>2, <1>4
  <2> QED BY <2>1, <1>2, HopsKept
<1>10. JobsInv'
  BY <1>1, <1>3, <1>5, <1>6, <1>7, <1>8, <1>9 DEF JobsInv, throttleVars, history
<1>11. Basics'
  BY <1>1, <1>2, <1>3, <1>4 DEF Basics, throttleVars, priorVars, history
<1>12. PriorsInv'
  <2> SUFFICES ASSUME NEW p \in Priors
               PROVE  Asking(n, p, dummy_jobs_running[p], prior[p], before[p], buffer, u)
    BY <1>1, <1>3 DEF PriorsInv, throttleVars, priorVars, history
  <2>1. PICK d, pr, B, b : d = dummy_jobs_running[p] /\ pr = prior[p] /\ B = before[p] /\ b = buffer
    OBVIOUS
  <2>2. Asking(n, p, d, pr, B, b, st)
    BY <1>1, <2>1 DEF IInv, PriorsInv
  <2>3. j \in Dummies(p) => GoesOn(pr, st[j], u[j]) /\ j \in DummiesOf(n, p)
    BY <1>2, <1>4, <2>2, DummyStatus DEF GoesOn
  <2>4. j \notin B
    BY <1>2, <2>2 DEF Asking, Live
  <2>5. Asking(n, p, d, pr, B, b, u)
    BY <1>2, <1>4, <2>2, <2>3, <2>4, OneDummyMoves
  <2> QED BY <2>1, <2>5
<1> QED BY <1>10, <1>11, <1>12 DEF IInv

LEMMA TakesStep ==
  ASSUME IInv, NEW r, NEW j, EndedJob(r, j), ~Stops(j), TakeNext(r, j), RestOfRunner(r, j)
  PROVE  IInv'
<1>1. PICK n, st, u, sv, tv, b, k, S :
        /\ n = max_concurrent_jobs /\ st = status /\ u = status' /\ sv = serves /\ tv = serves'
        /\ b = buffer /\ k = Head(b) /\ S = {k}
  OBVIOUS
<1>2. /\ Basics /\ Hopping(batch, queue, st) /\ Serving(n, sv, st)
      /\ Waiting(n, readers, sv) /\ Piped(b, readers, st) /\ Lined(pending, b, st)
      /\ n \in 1..MaxConcurrent /\ r \in 1..n /\ j \in sv[r] /\ j \in AllJobs
      /\ st[j] \in {"returned", "raised"}
  BY <1>1 DEF IInv, JobsInv, Basics, EndedJob, Ended, Runners
<1>3. /\ b # << >> /\ buffer' = Tail(b) /\ u = [st EXCEPT ![j] = "new", ![k] = "taken"]
      /\ queue' = Append(queue, [do |-> "got", job |-> k])
      /\ tv = [sv EXCEPT ![r] = S]
      /\ UNCHANGED <<throttleVars, batch, priorVars, closed, readers, history>>
  BY <1>1 DEF TakeNext, RestOfRunner, First
<1>4. k \in AllJobs /\ st[k] = "queued" /\ k # j /\ b \in Seq(AllJobs) /\ NoRepeats(b)
  <2>1. b \in Seq(AllJobs) /\ NoRepeats(b) /\ k \in Elements(b)
    BY <1>1, <1>2, <1>3, TailWithoutHead DEF Piped
  <2>2. k \in AllJobs /\ st[k] = "queued"
    BY <2>1, <1>2, ElementsOf DEF Piped
  <2> QED BY <2>1, <2>2, <1>2
<1>5. u[j] = "new" /\ u[k] = "taken" /\ (\A l \in AllJobs : l \notin {j, k} => u[l] = st[l])
      /\ u \in [AllJobs -> Statuses]
  BY <1>1, <1>2, <1>3, <1>4 DEF Basics, Statuses
<1>6. Serving(n, tv, u)
  <2>1. /\ u[j] \notin Given /\ S \in SUBSET AllJobs
        /\ \A l \in S : st[l] \notin Given /\ u[l] \in Given
        /\ \A l, m \in S : l = m
        /\ \A l \in AllJobs : l # j /\ l \notin S => (st[l] \in Given <=> u[l] \in Given)
    BY <1>1, <1>4, <1>5 DEF Given
  <2> QED BY <1>2, <1>3, <2>1, ServingNext
<1>7. Waiting(n, readers, tv)
  <2>1. sv[r] # {} /\ \A t \in 1..n : t # r => tv[t] = sv[t]
    <3>1. sv \in [1..MaxConcurrent -> SUBSET AllJobs] /\ 1..n \subseteq 1..MaxConcurrent
      BY <1>2, ThrottleAssumption DEF Serving
    <3> QED BY <3>1, <1>2, <1>3
  <2>2. PICK rd : rd = readers
    OBVIOUS
  <2>3. Waiting(n, rd, tv)
    BY <1>2, <2>1, <2>2, WaitersKept
  <2> QED BY <2>2, <2>3
<1>8. Piped(Tail(b), readers, u)
  <2>1. /\ u[Head(b)] # "queued"
        /\ \A l \in AllJobs : l # Head(b) => (st[l] = "queued" <=> u[l] = "queued")
    BY <1>1, <1>2, <1>5
  <2> QED BY <1>2, <1>3, <2>1, PipedNext
<1>9. Lined(pending, Tail(b), u)
  <2>1. /\ u[Head(b)] = "taken"
        /\ \A l \in AllJobs : l # Head(b) => (st[l] \in Unstarted <=> u[l] \in Unstarted)
        /\ \A l \in AllJobs : l # Head(b) => (st[l] = "queued" <=> u[l] = "queued")
    BY <1>1, <1>2, <1>5 DEF Unstarted
  <2>2. \A l \in AllJobs : st[l] = "queued" <=> l \in Elements(b)
    BY <1>2 DEF Piped
  <2> QED BY <1>2, <1>3, <1>4, <2>1, <2>2, LineTaken
<1>10. Hopping(batch, queue', u)
  <2>1. PICK x, g : x = [do |-> "got", job |-> k] /\ g = <<x>>
    OBVIOUS
  <2>2. /\ x \in Hop /\ x.job = k /\ Reached(x) = "taken" /\ g \in Seq(Hop)
        /\ NoRepeats(g) /\ Elements(g) = {x}
    BY <2>1, <1>4 DEF Hop, Reached, NoRepeats, Elements
  <2>3. /\ OneHopEach(Elements(g))
        /\ \A y \in Elements(g) : u[y.job] = Reached(y) /\ st[y.job] \notin {"taken", "started"}
        /\ \A l \in AllJobs : u[l] # st[l] /\ {u[l], st[l]} \cap {"taken", "started"} # {} =>
             \E y \in Elements(g) : y.job = l
    BY <2>2, <1>2, <1>4, <1>5 DEF OneHopEach
  <2>4. Hopping(batch, queue \o g, u)
    BY <1>2, <2>2, <2>3, HopsAdded
  <2>5. queue' = queue \o g
    <3>1. queue \in Seq(Hop)
      BY <1>2 DEF Hopping
    <3>2. Append(queue, x) = queue \o <<x>>
      BY <2>2, <3>1
    <3> QED BY <1>3, <2>1, <3>2
  <2> QED BY <2>4, <2>5
<1>11. JobsInv'
  BY <1>1, <1>3, <1>6, <1>7, <1>8, <1>9, <1>10 DEF JobsInv, throttleVars, history
<1>12. Basics'
  BY <1>1, <1>2, <1>3, <1>5 DEF Basics, throttleVars, priorVars, history
<1>13. PriorsInv'
  <2> SUFFICES ASSUME NEW p \in Priors
               PROVE  Asking(n, p, dummy_jobs_running[p], prior[p], before[p], Tail(b), u)
    BY <1>1, <1>3 DEF PriorsInv, throttleVars, priorVars, history
  <2>1. PICK d, pr, B, c : d = dummy_jobs_running[p] /\ pr = prior[p] /\ B = before[p] /\ c = Tail(b)
    OBVIOUS
  <2>2. Asking(n, p, d, pr, B, b, st)
    BY <1>1, <2>1 DEF IInv, PriorsInv
  <2>3. /\ DummiesOf(n, p) \subseteq Dummies(p) /\ Dummies(p) \subseteq AllJobs
        /\ Dummies(p) \cap UserJobs = {} /\ B \subseteq UserJobs /\ B \subseteq AllJobs
        /\ \A l \in B : st[l] \in Live
    BY <1>2, <2>2, DummyJobs DEF Asking, AllJobs
  <2>4. ASSUME NEW x \in DummiesOf(n, p) PROVE GoesOn(pr, st[x], u[x])
    <3>1. CASE x = j
      <4>1. pr = "answered" /\ st[x] = "returned"
        BY <3>1, <1>2, <2>2, <2>3, DummyStatus
      <4> QED BY <4>1, <3>1, <1>5 DEF GoesOn
    <3>2. CASE x = k
      <4>1. pr = "asked"
        BY <3>2, <1>2, <1>4, <2>2, <2>3, DummyStatus
      <4> QED BY <4>1, <3>2, <1>4, <1>5 DEF GoesOn
    <3>3. CASE x \notin {j, k}
      BY <3>3, <1>5, <2>3 DEF GoesOn
    <3> QED BY <3>1, <3>2, <3>3
  <2>5. \A x \in Dummies(p) \ DummiesOf(n, p) : u[x] = st[x]
    <3>1. \A x \in Dummies(p) \ DummiesOf(n, p) : st[x] = "new"
      BY <2>2 DEF Asking
    <3> QED BY <3>1, <1>2, <1>4, <1>5, <2>3
  <2>6. \A l \in B : u[l] \in Live /\ (u[l] = "queued" => st[l] = "queued")
    <3>1. j \notin B
      BY <1>2, <2>3 DEF Live
    <3>2. u[k] \in Live /\ u[k] # "queued"
      BY <1>5 DEF Live
    <3> QED BY <3>1, <3>2, <1>5, <2>3
  <2>7. ASSUME NEW l \in B, u[l] = "queued", NEW x \in DummiesOf(n, p), st[x] = "queued"
        PROVE  u[x] = "queued"
    <3>1. x # j
      BY <2>7, <1>2
    <3>2. ASSUME x = k PROVE FALSE
      <4>1. pr = "asked"
        BY <2>7, <1>2, <2>2, <2>3, DummyStatus
      <4>2. Ahead(b, B, DummiesOf(n, p))
        BY <4>1, <2>2 DEF Asking, Asked
      <4>3. st[l] = "queued"
        BY <2>6, <2>7
      <4>4. l \in Elements(b)
        BY <4>3, <1>2, <2>3 DEF Piped
      <4>5. PICK a \in DOMAIN b : b[a] = l
        BY <4>4 DEF Elements
      <4>6. 1 \in DOMAIN b /\ b[1] = k
        BY <1>1, <1>3, <1>4
      <4>7. a < 1
        BY <2>7, <3>2, <4>2, <4>5, <4>6 DEF Ahead
      <4> QED BY <4>5, <4>7, <1>4, LenProperties
    <3> QED BY <3>1, <3>2, <2>3, <2>7, <1>5
  <2>8. Reflects(c, b)
    BY <1>3, <1>4, <2>1, TailReflects
  <2>9. Asking(n, p, d, pr, B, c, u)
    <3>1. B \in SUBSET B
      OBVIOUS
    <3> QED BY <1>2, <2>2, <2>4, <2>5, <2>6, <2>7, <2>8, <3>1, AskingKept
  <2> QED BY <2>1, <2>9
<1> QED BY <1>11, <1>12, <1>13 DEF IInv

LEMMA KillStep ==
  ASSUME IInv, NEW r, NEW j, EndedJob(r, j), Stops(j), Kill(j), RestOfRunner(r, j)
  PROVE  IInv'
<1>1. PICK n, st, u, sv, tv, b, w, v, S, gone :
        /\ n = max_concurrent_jobs /\ st = status /\ u = status' /\ sv = serves /\ tv = serves'
        /\ b = buffer /\ w = pending /\ v = pending' /\ S = {} /\ gone = Elements(b)
  OBVIOUS
<1>2. /\ Basics /\ Hopping(batch, queue, st) /\ Serving(n, sv, st)
      /\ Waiting(n, readers, sv) /\ Piped(b, readers, st) /\ Lined(w, b, st)
      /\ n \in 1..MaxConcurrent /\ r \in 1..n /\ j \in sv[r] /\ j \in AllJobs
      /\ st[j] = "raised"
  BY <1>1 DEF IInv, JobsInv, Basics, EndedJob, Ended, Runners, Stops
<1>3. /\ buffer' = << >> /\ readers' = << >> /\ closed' = TRUE /\ v = Without(w, gone)
      /\ tv = [sv EXCEPT ![r] = S]
      /\ before' = [p \in Priors |-> before[p] \ gone]
      /\ UNCHANGED <<throttleVars, batch, priorVars, queue>>
  BY <1>1 DEF Kill, AbortBuffer, RestOfRunner
<1>4. gone \subseteq AllJobs /\ (\A k \in AllJobs : st[k] = "queued" <=> k \in gone) /\ j \notin gone
  <2>1. b \in Seq(AllJobs) /\ \A k \in AllJobs : st[k] = "queued" <=> k \in gone
    BY <1>1, <1>2 DEF Piped
  <2> QED BY <2>1, <1>1, <1>2, ElementsOf
<1>5. /\ u[j] = "new" /\ \A k \in gone : u[k] = "aborted"
      /\ \A k \in AllJobs : k # j /\ k \notin gone => u[k] = st[k]
      /\ u \in [AllJobs -> Statuses]
  <2>1. Elements(buffer') = {}
    BY <1>3 DEF Elements
  <2>2. gone \ Elements(buffer') = gone
    BY <2>1
  <2>3. u = [WithStatus(gone, "aborted") EXCEPT ![j] = "new"]
    BY <1>1, <2>2 DEF Kill
  <2> QED BY <2>3, <1>1, <1>2, <1>4 DEF WithStatus, Basics, Statuses
<1>6. Serving(n, tv, u)
  <2>1. /\ u[j] \notin Given /\ S \in SUBSET AllJobs
        /\ \A k \in S : st[k] \notin Given /\ u[k] \in Given
        /\ \A k, l \in S : k = l
        /\ \A k \in AllJobs : k # j /\ k \notin S => (st[k] \in Given <=> u[k] \in Given)
    BY <1>1, <1>4, <1>5 DEF Given
  <2> QED BY <1>2, <1>3, <2>1, ServingNext
<1>7. Waiting(n, readers', tv)
  BY <1>3, EmptySeq DEF Waiting, NoRepeats, Elements
<1>8. \A k \in AllJobs : u[k] # "queued"
  BY <1>4, <1>5
<1>9. Piped(buffer', readers', u)
  <2>1. << >> \in Seq(AllJobs) /\ NoRepeats(<< >>) /\ Elements(<< >>) = {}
    BY EmptySeq DEF NoRepeats, Elements
  <2> QED BY <2>1, <1>3, <1>8 DEF Piped
<1>10. Lined(v, buffer', u)
  <2>1. /\ \A k \in AllJobs : k \in gone => u[k] \notin Unstarted
        /\ \A k \in AllJobs : k \notin gone => (st[k] \in Unstarted <=> u[k] \in Unstarted)
        /\ \A k \in AllJobs : k \notin gone => (st[k] = "queued" <=> u[k] = "queued")
    BY <1>2, <1>4, <1>5 DEF Unstarted
  <2>2. Reflects(<< >>, b)
    BY NoneLeft
  <2>3. Lined(v, << >>, u)
    BY <1>2, <1>3, <2>1, <2>2, LineWithout
  <2> QED BY <1>3, <2>3
<1>11. Hopping(batch, queue, u)
  <2>1. \A k \in AllJobs : {u[k], st[k]} \cap {"taken", "started"} # {} => u[k] = st[k]
    BY <1>2, <1>4, <1>5
  <2> QED BY <2>1, <1>2, HopsKept
<1>12. JobsInv'
  BY <1>1, <1>3, <1>6, <1>7, <1>9, <1>10, <1>11 DEF JobsInv, throttleVars
<1>13. Basics'
  BY <1>1, <1>2, <1>3, <1>5 DEF Basics, throttleVars, priorVars
<1>14. PriorsInv'
  <2> SUFFICES ASSUME NEW p \in Priors
               PROVE  Asking(n, p, dummy_jobs_running[p], prior[p], before[p] \ gone, buffer', u)
    BY <1>1, <1>3 DEF PriorsInv, throttleVars, priorVars
  <2>1. PICK d, pr, B, A, c : /\ d = dummy_jobs_running[p] /\ pr = prior[p] /\ B = before[p]
                              /\ A = B \ gone /\ c = buffer'
    OBVIOUS
  <2>2. Asking(n, p, d, pr, B, b, st)
    BY <1>1, <2>1 DEF IInv, PriorsInv
  <2>3. /\ DummiesOf(n, p) \subseteq Dummies(p) /\ Dummies(p) \subseteq AllJobs
        /\ B \subseteq AllJobs /\ \A k \in B : st[k] \in Live
    BY <1>2, <2>2, DummyJobs DEF Asking, AllJobs
  <2>4. j \notin Dummies(p) /\ j \notin B
    BY <1>2, <2>2, <2>3, DummyStatus DEF Live
  <2>5. ASSUME NEW x \in DummiesOf(n, p) PROVE GoesOn(pr, st[x], u[x])
    <3>1. CASE x \in gone
      <4>1. st[x] = "queued" /\ u[x] = "aborted"
        BY <3>1, <1>4, <1>5
      <4>2. pr = "asked"
        BY <4>1, <1>2, <2>2, <2>3, DummyStatus
      <4> QED BY <4>1, <4>2 DEF GoesOn
    <3>2. CASE x \notin gone
      BY <3>2, <1>5, <2>3, <2>4 DEF GoesOn
    <3> QED BY <3>1, <3>2
  <2>6. \A x \in Dummies(p) \ DummiesOf(n, p) : u[x] = st[x]
    <3>1. \A x \in Dummies(p) \ DummiesOf(n, p) : st[x] = "new"
      BY <2>2 DEF Asking
    <3> QED BY <3>1, <1>4, <1>5, <2>3, <2>4
  <2>7. \A k \in A : u[k] \in Live /\ u[k] # "queued"
    BY <1>5, <1>8, <2>1, <2>3, <2>4
  <2>8. Asking(n, p, d, pr, A, c, u)
    <3>1. A \in SUBSET B /\ Reflects(c, b)
      BY <1>3, <2>1, NoneLeft
    <3> QED BY <1>2, <2>2, <2>5, <2>6, <2>7, <3>1, AskingKept
  <2> QED BY <2>1, <2>8
<1> QED BY <1>12, <1>13, <1>14 DEF IInv
-----------------------------------------------------------------------------
(* Jobs js are enqueued: the first m of them, T, are handed to the first m *)
(* waiting runners, and the rest, R, stay in the pipe.                     *)
Cut(s, m, T, R) ==
  /\ m \in 0..Len(s) /\ DOMAIN s = 1..Len(s) /\ Len(s) \in Nat
  /\ DOMAIN T = 1..m /\ DOMAIN R = 1..(Len(s) - m)
  /\ \A i \in 1..m : T[i] = s[i]
  /\ \A i \in 1..(Len(s) - m) : R[i] = s[m + i]
  /\ NoRepeats(T) /\ NoRepeats(R) /\ Elements(T) \cap Elements(R) = {}
  /\ Elements(s) = Elements(T) \cup Elements(R)

LEMMA CutInTwo ==
  ASSUME NEW J, NEW s \in Seq(J), NoRepeats(s), NEW m \in 0..Len(s),
         NEW T, T = SubSeq(s, 1, m), NEW R, R = SubSeq(s, m + 1, Len(s))
  PROVE  Cut(s, m, T, R) /\ T \in Seq(J) /\ R \in Seq(J)
<1>1. Len(s) \in Nat /\ DOMAIN s = 1..Len(s) /\ m \in Nat
  BY LenProperties
<1>2. PICK n : n = Len(s) /\ n \in Nat /\ m <= n
  BY <1>1
<1>3. T \in Seq(J) /\ DOMAIN T = 1..m /\ \A i \in 1..m : T[i] = s[i]
  <2>1. T \in Seq(J) /\ Len(T) = m /\ \A i \in 1..m : T[i] = s[i]
    BY <1>1
  <2> QED BY <2>1, LenProperties
<1>4. R \in Seq(J) /\ DOMAIN R = 1..(n - m) /\ \A i \in 1..(n - m) : R[i] = s[m + i]
  <2>0. m \in Nat /\ n \in Nat /\ m <= n
    BY <1>1, <1>2
  <2>1. /\ \A i \in (m + 1)..n : i \in 1..n
        /\ \A i \in 1..(n - m) : (m + 1) + i - 1 = m + i
        /\ n - (m + 1) + 1 = n - m
        /\ m + 1 \in Int /\ n \in Int /\ (m + 1 <= n \/ n = m)
    BY <2>0
  <2>2. \A i \in (m + 1)..n : s[i] \in J
    BY <1>2, <2>1, ElementOfSeq
  <2>3. /\ SubSeq(s, m + 1, n) \in Seq(J)
        /\ Len(SubSeq(s, m + 1, n)) = IF m + 1 <= n THEN n - (m + 1) + 1 ELSE 0
        /\ \A i \in 1..(n - (m + 1) + 1) : SubSeq(s, m + 1, n)[i] = s[(m + 1) + i - 1]
    BY <2>1, <2>2, SubSeqProperties
  <2>4. R = SubSeq(s, m + 1, n)
    BY <1>2
  <2>5. Len(R) = n - m
    BY <2>0, <2>1, <2>3, <2>4
  <2>6. \A i \in 1..(n - m) : R[i] = s[m + i]
    <3> SUFFICES ASSUME NEW i \in 1..(n - m) PROVE R[i] = s[m + i]
      OBVIOUS
    <3>1. i \in 1..(n - (m + 1) + 1) /\ (m + 1) + i - 1 = m + i
      BY <2>0
    <3> QED BY <3>1, <2>3, <2>4
  <2> QED BY <2>3, <2>4, <2>5, <2>6, LenProperties
<1>5. /\ \A i \in 1..m : i \in 1..n
      /\ \A i \in 1..(n - m) : m + i \in 1..n /\ ~(m + i <= m) /\ i \in Nat
      /\ \A i \in 1..n : i \in 1..m \/ (i - m \in 1..(n - m) /\ m + (i - m) = i)
  BY <1>1, <1>2
<1>6. NoRepeats(T)
  BY <1>1, <1>2, <1>3, <1>5 DEF NoRepeats
<1>7. NoRepeats(R)
  <2> SUFFICES ASSUME NEW i \in 1..(n - m), NEW k \in 1..(n - m), R[i] = R[k] PROVE i = k
    BY <1>4 DEF NoRepeats
  <2>1. PICK x \in 1..n, y \in 1..n : x = m + i /\ y = m + k
    BY <1>5
  <2>2. s[x] = s[y]
    BY <2>1, <1>4
  <2>3. x = y
    BY <2>2, <1>1, <1>2 DEF NoRepeats
  <2> QED BY <2>1, <2>3, <1>1, <1>2, <1>5
<1>8. Elements(T) \cap Elements(R) = {}
  <2> SUFFICES ASSUME NEW x, x \in Elements(T), x \in Elements(R) PROVE FALSE
    OBVIOUS
  <2>0. PICK i \in 1..m, k \in 1..(n - m) : T[i] = x /\ R[k] = x
    <3>1. \E i \in 1..m : T[i] = x
      BY <1>3 DEF Elements
    <3>2. \E k \in 1..(n - m) : R[k] = x
      BY <1>4 DEF Elements
    <3> QED BY <3>1, <3>2
  <2>1. s[i] = x /\ s[m + k] = x
    BY <2>0, <1>3, <1>4
  <2>2. i \in DOMAIN s /\ m + k \in DOMAIN s
    BY <2>0, <1>1, <1>2, <1>5
  <2>3. i = m + k
    BY <2>1, <2>2 DEF NoRepeats
  <2>4. i <= m
    BY <2>0, <1>1
  <2> QED BY <2>3, <2>4, <2>0, <1>5
<1>9. Elements(s) = Elements(T) \cup Elements(R)
  <2>1. ASSUME NEW x \in Elements(s) PROVE x \in Elements(T) \cup Elements(R)
    <3>1. PICK i \in 1..n : s[i] = x
      BY <1>1, <1>2 DEF Elements
    <3>2. CASE i \in 1..m
      BY <3>1, <3>2, <1>3 DEF Elements
    <3>3. CASE i \notin 1..m
      <4>1. i - m \in 1..(n - m) /\ R[i - m] = x
        BY <3>1, <3>3, <1>4, <1>5
      <4> QED BY <4>1, <1>4 DEF Elements
    <3> QED BY <3>2, <3>3
  <2>2. ASSUME NEW x \in Elements(T) PROVE x \in Elements(s)
    BY <1>1, <1>2, <1>3, <1>5 DEF Elements
  <2>3. ASSUME NEW x \in Elements(R) PROVE x \in Elements(s)
    BY <1>1, <1>2, <1>4, <1>5 DEF Elements
  <2> QED BY <2>1, <2>2, <2>3
<1> QED BY <1>1, <1>2, <1>3, <1>4, <1>6, <1>7, <1>8, <1>9 DEF Cut

Enters(js, T, R, st, u) ==
  /\ Elements(js) \subseteq AllJobs
  /\ \A j \in Elements(js) : st[j] \in {"new", "aborted"}
  /\ \A j \in Elements(T) : u[j] = "taken"
  /\ \A j \in Elements(R) : u[j] = "queued"
  /\ \A j \in AllJobs : j \notin Elements(js) => u[j] = st[j]

LEMMA HopsEnqueued ==
  ASSUME NEW b, NEW q, NEW st, Hopping(b, q, st), NEW js \in Seq(AllJobs), NEW m, NEW T, NEW R,
         Cut(js, m, T, R), NEW u, Enters(js, T, R, st, u),
         NEW g, g = [i \in 1..m |-> [do |-> "got", job |-> T[i]]]
  PROVE  Hopping(b, q \o g, u)
<1>1. m \in Nat /\ DOMAIN T = 1..m /\ NoRepeats(T) /\ Elements(T) \subseteq Elements(js)
      /\ Elements(T) \subseteq AllJobs
  BY DEF Cut, Enters
<1>2. \A i \in 1..m : T[i] \in Elements(T) /\ T[i] \in AllJobs
  BY <1>1 DEF Elements
<1>3. g \in [1..m -> Hop] /\ DOMAIN g = 1..m
  BY <1>2 DEF Hop
<1>4. g \in Seq(Hop)
  BY <1>1, <1>3, SeqDef
<1>5. NoRepeats(g)
  BY <1>1 DEF NoRepeats
<1>6. \A x \in Elements(g) : x.do = "got" /\ x.job \in Elements(T)
  BY <1>2 DEF Elements
<1>7. OneHopEach(Elements(g))
  <2> SUFFICES ASSUME NEW i \in 1..m, NEW k \in 1..m, g[i].job = g[k].job PROVE g[i] = g[k]
    BY <1>3 DEF OneHopEach, Elements
  <2> QED OBVIOUS
<1>8. \A x \in Elements(g) : u[x.job] = Reached(x) /\ st[x.job] \notin {"taken", "started"}
  BY <1>1, <1>6 DEF Enters, Reached
<1>9. \A j \in AllJobs : u[j] # st[j] /\ {u[j], st[j]} \cap {"taken", "started"} # {} =>
        \E x \in Elements(g) : x.job = j
  <2> SUFFICES ASSUME NEW j \in AllJobs, u[j] # st[j],
                      {u[j], st[j]} \cap {"taken", "started"} # {}
               PROVE  \E x \in Elements(g) : x.job = j
    OBVIOUS
  <2>1. j \in Elements(T)
    BY DEF Enters, Cut
  <2>2. PICK i \in 1..m : T[i] = j
    BY <1>1, <2>1 DEF Elements
  <2>3. g[i].job = j /\ g[i] \in Elements(g)
    BY <1>3, <2>2 DEF Elements
  <2> QED BY <2>3
<1> QED BY <1>4, <1>5, <1>7, <1>8, <1>9, HopsAdded

HandedTo(F, m, T, sv, tv) ==
  /\ tv \in [1..MaxConcurrent -> SUBSET AllJobs]
  /\ \A i \in 1..m : tv[F[i]] = {T[i]}
  /\ \A r \in 1..MaxConcurrent : r \notin Elements(F) => tv[r] = sv[r]

LEMMA ServersEnqueued ==
  ASSUME NEW n \in 1..MaxConcurrent, NEW sv, NEW st, Serving(n, sv, st), NEW rd,
         Waiting(n, rd, sv), NEW js \in Seq(AllJobs), NEW m, NEW T, NEW R, Cut(js, m, T, R),
         NEW F, NEW L, Cut(rd, m, F, L), L \in Seq(1..n), NEW u, Enters(js, T, R, st, u),
         NEW tv, HandedTo(F, m, T, sv, tv)
  PROVE  Serving(n, tv, u) /\ Waiting(n, L, tv)
<1>1. /\ sv \in [1..MaxConcurrent -> SUBSET AllJobs]
      /\ \A t \in 1..MaxConcurrent : \A k, l \in sv[t] : k = l /\ t \in 1..n
      /\ \A t, q \in 1..MaxConcurrent : \A k \in AllJobs : k \in sv[t] /\ k \in sv[q] => t = q
      /\ \A k \in AllJobs : (\E t \in 1..MaxConcurrent : k \in sv[t]) <=> st[k] \in Given
  BY DEF Serving
<1>2. 1..n \subseteq 1..MaxConcurrent
  BY ThrottleAssumption
<1>3. /\ DOMAIN F = 1..m /\ NoRepeats(F) /\ Elements(F) \subseteq Elements(rd)
      /\ Elements(L) \subseteq Elements(rd) /\ Elements(F) \cap Elements(L) = {}
      /\ NoRepeats(L)
      /\ DOMAIN T = 1..m /\ NoRepeats(T) /\ Elements(T) \subseteq Elements(js)
      /\ Elements(js) = Elements(T) \cup Elements(R)
  BY DEF Cut
<1>4. Elements(rd) \subseteq 1..n /\ \A r \in Elements(rd) : sv[r] = {}
  BY ElementsOf DEF Waiting
<1>5. \A i \in 1..m : /\ F[i] \in Elements(F) /\ F[i] \in 1..n /\ F[i] \in 1..MaxConcurrent
                      /\ T[i] \in Elements(T) /\ T[i] \in AllJobs /\ T[i] \in Elements(js)
                      /\ u[T[i]] = "taken" /\ st[T[i]] \notin Given
  <2> SUFFICES ASSUME NEW i \in 1..m
               PROVE  /\ F[i] \in Elements(F) /\ F[i] \in 1..n /\ F[i] \in 1..MaxConcurrent
                      /\ T[i] \in Elements(T) /\ T[i] \in AllJobs /\ T[i] \in Elements(js)
                      /\ u[T[i]] = "taken" /\ st[T[i]] \notin Given
    OBVIOUS
  <2>1. F[i] \in Elements(F) /\ T[i] \in Elements(T)
    BY <1>3 DEF Elements
  <2> QED BY <2>1, <1>2, <1>3, <1>4 DEF Enters, Given
<1>6. /\ tv \in [1..MaxConcurrent -> SUBSET AllJobs]
      /\ \A i \in 1..m : tv[F[i]] = {T[i]}
      /\ \A r \in 1..MaxConcurrent : r \notin Elements(F) => tv[r] = sv[r]
  BY DEF HandedTo
<1>7. ASSUME NEW r \in 1..MaxConcurrent
      PROVE  \/ r \in Elements(F) /\ \E i \in 1..m : F[i] = r /\ tv[r] = {T[i]}
             \/ r \notin Elements(F) /\ tv[r] = sv[r]
  <2>1. CASE r \in Elements(F)
    <3>1. PICK i \in 1..m : F[i] = r
      BY <2>1, <1>3 DEF Elements
    <3> QED BY <2>1, <3>1, <1>6
  <2>2. CASE r \notin Elements(F)
    BY <2>2, <1>6
  <2> QED BY <2>1, <2>2
<1>8. \A r \in 1..MaxConcurrent : \A k, l \in tv[r] : k = l /\ r \in 1..n
  <2> SUFFICES ASSUME NEW r \in 1..MaxConcurrent PROVE \A k, l \in tv[r] : k = l /\ r \in 1..n
    OBVIOUS
  <2>1. CASE r \in Elements(F)
    <3>1. PICK i \in 1..m : F[i] = r /\ tv[r] = {T[i]}
      BY <2>1, <1>7
    <3>2. r \in 1..n
      BY <3>1, <1>5
    <3> QED BY <3>1, <3>2
  <2>2. CASE r \notin Elements(F)
    <3>1. tv[r] = sv[r]
      BY <2>2, <1>7
    <3> QED BY <3>1, <1>1
  <2> QED BY <2>1, <2>2
<1>9. \A r \in 1..MaxConcurrent : \A k \in AllJobs : k \in sv[r] => st[k] \in Given
  BY <1>1
<1>10. ASSUME NEW r \in 1..MaxConcurrent, NEW t \in 1..MaxConcurrent, NEW k \in AllJobs,
              k \in tv[r], k \in tv[t]
       PROVE  r = t
  <2>1. CASE r \in Elements(F) /\ t \in Elements(F)
    <3>1. PICK i \in 1..m : F[i] = r /\ tv[r] = {T[i]}
      BY <2>1, <1>7
    <3>2. PICK l \in 1..m : F[l] = t /\ tv[t] = {T[l]}
      BY <2>1, <1>7
    <3>3. i = l
      BY <3>1, <3>2, <1>3, <1>10 DEF NoRepeats
    <3> QED BY <3>1, <3>2, <3>3
  <2>2. CASE r \in Elements(F) /\ t \notin Elements(F)
    BY <2>2, <1>5, <1>7, <1>9, <1>10
  <2>3. CASE r \notin Elements(F) /\ t \in Elements(F)
    BY <2>3, <1>5, <1>7, <1>9, <1>10
  <2>4. CASE r \notin Elements(F) /\ t \notin Elements(F)
    BY <2>4, <1>1, <1>7, <1>10
  <2> QED BY <2>1, <2>2, <2>3, <2>4
<1>11. ASSUME NEW k \in AllJobs
       PROVE  (\E r \in 1..MaxConcurrent : k \in tv[r]) <=> u[k] \in Given
  <2>1. ASSUME NEW r \in 1..MaxConcurrent, k \in tv[r] PROVE u[k] \in Given
    <3>1. CASE r \in Elements(F)
      BY <2>1, <3>1, <1>5, <1>7 DEF Given
    <3>2. CASE r \notin Elements(F)
      <4>1. st[k] \in Given
        BY <2>1, <3>2, <1>7, <1>9
      <4>2. k \notin Elements(js)
        BY <4>1 DEF Enters, Given
      <4> QED BY <4>1, <4>2 DEF Enters
    <3> QED BY <3>1, <3>2
  <2>2. ASSUME u[k] \in Given PROVE \E r \in 1..MaxConcurrent : k \in tv[r]
    <3>1. CASE k \in Elements(T)
      <4>1. PICK i \in 1..m : T[i] = k
        BY <3>1, <1>3 DEF Elements
      <4> QED BY <4>1, <1>5, <1>6
    <3>2. CASE k \notin Elements(T)
      <4>1. k \notin Elements(js) /\ st[k] \in Given
        BY <2>2, <3>2, <1>3 DEF Enters, Given
      <4>2. PICK r \in 1..MaxConcurrent : k \in sv[r]
        BY <4>1, <1>1
      <4>3. r \notin Elements(F)
        BY <4>2, <1>3, <1>4
      <4> QED BY <4>2, <4>3, <1>6
    <3> QED BY <3>1, <3>2
  <2> QED BY <2>1, <2>2
<1>12. Serving(n, tv, u)
  BY <1>8, <1>10, <1>11, <1>6 DEF Serving
<1>13. Waiting(n, L, tv)
  <2>1. \A r \in Elements(L) : r \in 1..MaxConcurrent /\ r \notin Elements(F) /\ sv[r] = {}
    BY <1>2, <1>3, <1>4
  <2> QED BY <1>3, <1>6, <2>1 DEF Waiting
<1> QED BY <1>12, <1>13

LEMMA PipedEnqueued ==
  ASSUME NEW b, NEW rd, NEW st, Piped(b, rd, st), NEW n, rd \in Seq(1..n),
         NEW js \in Seq(AllJobs), NEW m, m = Len(js) \/ m = Len(rd),
         NEW T, NEW R \in Seq(AllJobs), Cut(js, m, T, R),
         NEW F, NEW L \in Seq(1..n), Cut(rd, m, F, L), NEW u, Enters(js, T, R, st, u)
  PROVE  Piped(b \o R, L, u)
<1>1. b \in Seq(AllJobs) /\ NoRepeats(b) /\ (b # << >> => rd = << >>)
      /\ \A j \in AllJobs : st[j] = "queued" <=> j \in Elements(b)
  BY DEF Piped
<1>2. /\ NoRepeats(R) /\ Elements(js) = Elements(T) \cup Elements(R)
      /\ Elements(T) \cap Elements(R) = {}
  BY DEF Cut
<1>3. Elements(b) \cap Elements(js) = {}
  BY <1>1 DEF Enters
<1>4. b \o R \in Seq(AllJobs) /\ NoRepeats(b \o R) /\ Elements(b \o R) = Elements(b) \cup Elements(R)
  BY <1>1, <1>2, <1>3, Joined, JoinedApart
<1>5. \A j \in AllJobs : u[j] = "queued" <=> j \in Elements(b \o R)
  <2> SUFFICES ASSUME NEW j \in AllJobs PROVE u[j] = "queued" <=> j \in Elements(b) \cup Elements(R)
    BY <1>4
  <2>1. CASE j \in Elements(T)
    BY <2>1, <1>2, <1>3 DEF Enters
  <2>2. CASE j \in Elements(R)
    BY <2>2, <1>2 DEF Enters
  <2>3. CASE j \notin Elements(js)
    BY <2>3, <1>1, <1>2 DEF Enters
  <2> QED BY <2>1, <2>2, <2>3, <1>2
<1>6. ASSUME b \o R # << >> PROVE L = << >>
  <2>0. /\ Len(rd) \in Nat /\ Len(js) \in Nat /\ m \in 0..Len(rd) /\ m \in 0..Len(js)
        /\ DOMAIN L = 1..(Len(rd) - m) /\ DOMAIN R = 1..(Len(js) - m)
    BY DEF Cut
  <2>1. /\ Len(rd) \in Nat /\ Len(js) \in Nat /\ m \in Nat /\ m <= Len(rd) /\ m <= Len(js)
        /\ DOMAIN L = 1..(Len(rd) - m) /\ DOMAIN R = 1..(Len(js) - m)
    BY <2>0
  <2>2. DOMAIN L = 1..Len(L) /\ Len(L) \in Nat /\ DOMAIN R = 1..Len(R) /\ Len(R) \in Nat
    BY LenProperties
  <2>3. CASE b # << >>
    <3>1. Len(rd) = 0
      BY <2>3, <1>1
    <3> QED BY <3>1, <2>1, <2>2
  <2>4. CASE b = << >>
    <3>1. Len(R) # 0
      BY <2>4, <1>6, <2>2
    <3>2. m = Len(rd)
      BY <3>1, <2>1, <2>2
    <3> QED BY <3>2, <2>1, <2>2
  <2> QED BY <2>3, <2>4
<1> QED BY <1>4, <1>5, <1>6 DEF Piped

Comes(s, t, v, i) ==
  \/ i \in DOMAIN s /\ i <= Len(s) /\ v[i] = s[i] /\ v[i] \in Elements(s)
  \/ \E a \in DOMAIN t : i = Len(s) + a /\ i > Len(s) /\ v[i] = t[a] /\ v[i] \in Elements(t)

LEMMA TwoParts ==
  ASSUME NEW J, NEW s \in Seq(J), NEW t \in Seq(J), NEW v, v = s \o t
  PROVE  \A i \in DOMAIN v : Comes(s, t, v, i)
<1> SUFFICES ASSUME NEW i \in DOMAIN v PROVE Comes(s, t, v, i)
  OBVIOUS
<1>1. /\ DOMAIN s = 1..Len(s) /\ DOMAIN t = 1..Len(t) /\ Len(s) \in Nat /\ Len(t) \in Nat
      /\ DOMAIN v = 1..(Len(s) + Len(t))
  BY Joined, LenProperties
<1>2. \/ i \in 1..Len(s) /\ v[i] = s[i]
      \/ i - Len(s) \in 1..Len(t) /\ v[i] = t[i - Len(s)]
  <2>1. /\ \A k \in 1..Len(s) : v[k] = s[k]
        /\ \A k \in 1..(Len(s) + Len(t)) :
             k \in 1..Len(s) \/ (k - Len(s) \in 1..Len(t) /\ v[k] = t[k - Len(s)])
    BY Joined
  <2> QED BY <2>1, <1>1
<1>3. CASE i \in 1..Len(s) /\ v[i] = s[i]
  BY <1>3, <1>1 DEF Elements, Comes
<1>4. ASSUME i - Len(s) \in 1..Len(t), v[i] = t[i - Len(s)]
      PROVE  \E a \in DOMAIN t : i = Len(s) + a /\ i > Len(s) /\ v[i] = t[a] /\ v[i] \in Elements(t)
  <2>1. PICK a : a = i - Len(s)
    OBVIOUS
  <2>2. a \in DOMAIN t /\ i = Len(s) + a /\ i > Len(s) /\ v[i] = t[a]
    BY <2>1, <1>1, <1>4
  <2> QED BY <2>2 DEF Elements
<1>5. CASE i - Len(s) \in 1..Len(t) /\ v[i] = t[i - Len(s)]
  BY <1>4, <1>5 DEF Comes
<1> QED BY <1>2, <1>3, <1>5

LEMMA LinedEnqueued ==
  ASSUME NEW w, NEW b, NEW st, Lined(w, b, st), NEW rd, Piped(b, rd, st),
         NEW js \in Seq(AllJobs), NoRepeats(js), NEW m, m <= Len(rd),
         NEW T, NEW R \in Seq(AllJobs), Cut(js, m, T, R), NEW u, Enters(js, T, R, st, u)
  PROVE  Lined(w \o js, b \o R, u)
<1>1. PICK v, c : v = w \o js /\ c = b \o R
  OBVIOUS
<1>2. /\ w \in Seq(AllJobs) /\ NoRepeats(w) /\ QueuedLast(w, st) /\ InPipeOrder(w, b)
      /\ \A j \in AllJobs : j \in Elements(w) <=> st[j] \in Unstarted
  BY DEF Lined
<1>3. b \in Seq(AllJobs) /\ (b # << >> => rd = << >>)
      /\ \A j \in AllJobs : st[j] = "queued" <=> j \in Elements(b)
  BY DEF Piped
<1>4. /\ Elements(js) = Elements(T) \cup Elements(R) /\ Elements(T) \cap Elements(R) = {}
      /\ Elements(js) \subseteq AllJobs /\ Elements(w) \subseteq AllJobs
      /\ Elements(b) \subseteq AllJobs
  BY <1>2, <1>3, ElementsOf DEF Cut
<1>5. /\ Elements(w) \cap Elements(js) = {} /\ Elements(b) \cap Elements(js) = {}
      /\ Elements(b) \subseteq Elements(w)
  BY <1>2, <1>3, <1>4 DEF Enters, Unstarted
<1>6. v \in Seq(AllJobs) /\ NoRepeats(v) /\ Elements(v) = Elements(w) \cup Elements(js)
  BY <1>1, <1>2, <1>5, Joined, JoinedApart
<1>7. \A j \in AllJobs : j \in Elements(v) <=> u[j] \in Unstarted
  <2> SUFFICES ASSUME NEW j \in AllJobs
               PROVE  j \in Elements(w) \cup Elements(js) <=> u[j] \in Unstarted
    BY <1>6
  <2>1. CASE j \in Elements(js)
    BY <2>1, <1>4 DEF Enters, Unstarted
  <2>2. CASE j \notin Elements(js)
    BY <2>2, <1>2 DEF Enters
  <2> QED BY <2>1, <2>2
<1>8. /\ m \in Nat /\ Len(js) \in Nat /\ DOMAIN js = 1..Len(js) /\ m <= Len(js)
      /\ DOMAIN R = 1..(Len(js) - m) /\ DOMAIN T = 1..m
      /\ \A i \in 1..m : T[i] = js[i]
      /\ \A i \in 1..(Len(js) - m) : R[i] = js[m + i]
  BY DEF Cut
<1>9. Len(w) \in Nat /\ Len(b) \in Nat
  BY <1>2, <1>3, LenProperties
<1>10. \A a \in DOMAIN js : a > m <=> u[js[a]] = "queued"
  <2> SUFFICES ASSUME NEW a \in 1..Len(js) PROVE a > m <=> u[js[a]] = "queued"
    BY <1>8
  <2>1. CASE a > m
    <3>1. a - m \in 1..(Len(js) - m) /\ m + (a - m) = a
      BY <2>1, <1>8
    <3>2. js[a] = R[a - m]
      BY <3>1, <1>8
    <3>3. js[a] \in Elements(R)
      BY <3>1, <3>2, <1>8 DEF Elements
    <3> QED BY <2>1, <3>3 DEF Enters
  <2>2. CASE ~(a > m)
    <3>1. a \in 1..m
      BY <2>2, <1>8
    <3>2. js[a] \in Elements(T)
      BY <3>1, <1>8 DEF Elements
    <3> QED BY <2>2, <3>2 DEF Enters
  <2> QED BY <2>1, <2>2
<1>11. \A i \in DOMAIN v : Comes(w, js, v, i)
  BY <1>1, <1>2, TwoParts
<1>12. \A i \in DOMAIN c : Comes(b, R, c, i)
  BY <1>1, <1>3, TwoParts
<1>13. QueuedLast(v, u)
  <2> SUFFICES ASSUME NEW i \in DOMAIN v, NEW k \in DOMAIN v, i < k, u[v[i]] = "queued"
               PROVE  u[v[k]] = "queued"
    BY DEF QueuedLast
  <2>1. \/ i \in DOMAIN w /\ i <= Len(w) /\ v[i] = w[i] /\ v[i] \in Elements(w)
        \/ \E a \in DOMAIN js : i = Len(w) + a /\ i > Len(w) /\ v[i] = js[a]
                                /\ v[i] \in Elements(js)
    BY <1>11 DEF Comes
  <2>2. \/ k \in DOMAIN w /\ k <= Len(w) /\ v[k] = w[k] /\ v[k] \in Elements(w)
        \/ \E a \in DOMAIN js : k = Len(w) + a /\ k > Len(w) /\ v[k] = js[a]
                                /\ v[k] \in Elements(js)
    BY <1>11 DEF Comes
  <2>3. CASE v[i] \in Elements(w)
    <3>1. i \in DOMAIN w /\ v[i] = w[i]
      BY <2>1, <2>3, <1>5
    <3>2. st[v[i]] = "queued"
      BY <2>3, <1>4, <1>5 DEF Enters
    <3>3. CASE v[k] \in Elements(w)
      <4>1. k \in DOMAIN w /\ v[k] = w[k]
        BY <2>2, <3>3, <1>5
      <4>2. st[v[k]] = "queued"
        BY <3>1, <3>2, <4>1, <1>2 DEF QueuedLast
      <4> QED BY <4>2, <3>3, <1>4, <1>5 DEF Enters
    <3>4. CASE v[k] \notin Elements(w)
      <4>1. v[i] \in Elements(b)
        BY <3>2, <2>3, <1>3, <1>4
      <4>2. b # << >>
        BY <4>1 DEF Elements
      <4>3. rd = << >>
        BY <4>2, <1>3
      <4>4. m = 0
        BY <4>3, <1>8
      <4>5. PICK a \in DOMAIN js : v[k] = js[a]
        BY <2>2, <3>4
      <4>6. a > m
        BY <4>4, <4>5, <1>8
      <4> QED BY <4>5, <4>6, <1>10
    <3> QED BY <3>3, <3>4
  <2>4. CASE v[i] \notin Elements(w)
    <3>1. PICK a \in DOMAIN js : i = Len(w) + a /\ i > Len(w) /\ v[i] = js[a]
      BY <2>1, <2>4
    <3>2. a \in Nat /\ a > m
      BY <3>1, <1>8, <1>10
    <3>3. i \in Nat /\ k \in Nat /\ k > Len(w)
      <4>1. DOMAIN v = 1..Len(v) /\ Len(v) \in Nat
        BY <1>6, LenProperties
      <4> QED BY <4>1, <3>1, <1>9
    <3>4. PICK e \in DOMAIN js : k = Len(w) + e /\ v[k] = js[e]
      BY <2>2, <3>3, <1>9
    <3>5. e > m
      BY <3>1, <3>2, <3>4, <1>8, <1>9
    <3> QED BY <3>4, <3>5, <1>10
  <2> QED BY <2>3, <2>4
<1>14. InPipeOrder(v, c)
  <2> SUFFICES ASSUME NEW i \in DOMAIN v, NEW k \in DOMAIN v, i < k,
                      NEW x \in DOMAIN c, NEW y \in DOMAIN c, c[x] = v[i], c[y] = v[k]
               PROVE  x < y
    BY DEF InPipeOrder
  <2>1. \/ i \in DOMAIN w /\ i <= Len(w) /\ v[i] = w[i] /\ v[i] \in Elements(w)
        \/ \E a \in DOMAIN js : i = Len(w) + a /\ i > Len(w) /\ v[i] = js[a]
                                /\ v[i] \in Elements(js)
    BY <1>11 DEF Comes
  <2>2. \/ k \in DOMAIN w /\ k <= Len(w) /\ v[k] = w[k] /\ v[k] \in Elements(w)
        \/ \E a \in DOMAIN js : k = Len(w) + a /\ k > Len(w) /\ v[k] = js[a]
                                /\ v[k] \in Elements(js)
    BY <1>11 DEF Comes
  <2>3. \/ x \in DOMAIN b /\ x <= Len(b) /\ c[x] = b[x] /\ c[x] \in Elements(b)
        \/ \E a \in DOMAIN R : x = Len(b) + a /\ x > Len(b) /\ c[x] = R[a] /\ c[x] \in Elements(R)
    BY <1>12 DEF Comes
  <2>4. \/ y \in DOMAIN b /\ y <= Len(b) /\ c[y] = b[y] /\ c[y] \in Elements(b)
        \/ \E a \in DOMAIN R : y = Len(b) + a /\ y > Len(b) /\ c[y] = R[a] /\ c[y] \in Elements(R)
    BY <1>12 DEF Comes
  <2>5. x \in Nat /\ y \in Nat /\ i \in Nat /\ k \in Nat
    <3>1. DOMAIN v = 1..Len(v)
      BY <1>6, LenProperties
    <3>2. b \o R \in Seq(AllJobs)
      BY <1>3, Joined
    <3>3. DOMAIN c = 1..Len(c)
      BY <1>1, <3>2, LenProperties
    <3> QED BY <3>1, <3>3
  <2>6. CASE v[i] \in Elements(w)
    <3>1. i \in DOMAIN w /\ v[i] = w[i]
      BY <2>1, <2>6, <1>5
    <3>2. c[x] \notin Elements(R)
      BY <2>6, <1>4, <1>5
    <3>3. x \in DOMAIN b /\ x <= Len(b) /\ c[x] = b[x]
      BY <2>3, <3>2
    <3>4. CASE v[k] \in Elements(w)
      <4>1. k \in DOMAIN w /\ v[k] = w[k]
        BY <2>2, <3>4, <1>5
      <4>2. c[y] \notin Elements(R)
        BY <3>4, <1>4, <1>5
      <4>3. y \in DOMAIN b /\ c[y] = b[y]
        BY <2>4, <4>2
      <4> QED BY <3>1, <3>3, <4>1, <4>3, <1>2 DEF InPipeOrder
    <3>5. CASE v[k] \notin Elements(w)
      <4>1. c[y] \notin Elements(b)
        BY <3>5, <1>5
      <4>2. y > Len(b)
        BY <4>1, <2>4
      <4> QED BY <3>3, <4>2, <2>5, <1>9
    <3> QED BY <3>4, <3>5
  <2>7. CASE v[i] \notin Elements(w)
    <3>1. PICK a \in DOMAIN js : i = Len(w) + a /\ i > Len(w) /\ v[i] = js[a]
      BY <2>1, <2>7
    <3>2. PICK e \in DOMAIN js : k = Len(w) + e /\ v[k] = js[e]
      BY <2>2, <2>5, <3>1, <1>9
    <3>3. v[i] \in Elements(js) /\ v[k] \in Elements(js)
      BY <3>1, <3>2 DEF Elements
    <3>4. c[x] \notin Elements(b) /\ c[y] \notin Elements(b)
      BY <3>3, <1>5
    <3>5. PICK f \in DOMAIN R : x = Len(b) + f /\ c[x] = R[f]
      BY <2>3, <3>4
    <3>6. PICK g \in DOMAIN R : y = Len(b) + g /\ c[y] = R[g]
      BY <2>4, <3>4
    <3>7. m + f \in DOMAIN js /\ m + g \in DOMAIN js
      BY <3>5, <3>6, <1>8
    <3>8. js[m + f] = js[a] /\ js[m + g] = js[e]
      BY <3>1, <3>2, <3>5, <3>6, <1>8
    <3>9. m + f = a /\ m + g = e
      BY <3>7, <3>8 DEF NoRepeats
    <3>10. a \in Nat /\ e \in Nat /\ f \in Nat /\ g \in Nat /\ a < e
      BY <3>1, <3>2, <3>5, <3>6, <1>8, <1>9
    <3> QED BY <3>5, <3>6, <3>9, <3>10, <1>8, <1>9
  <2> QED BY <2>6, <2>7
<1> QED BY <1>1, <1>6, <1>7, <1>13, <1>14 DEF Lined

Entered(b, js, R, u) ==
  /\ R \in Seq(AllJobs) /\ Elements(R) \subseteq Elements(js)
  /\ b # << >> => \A j \in Elements(js) : u[j] = "queued"
  /\ \A j \in Elements(js) : u[j] \in {"taken", "queued"}
  /\ \A j \in AllJobs : j \notin Elements(js) => u[j] = status[j]

LEMMA JobsEnter ==
  ASSUME IInv, NEW js \in Seq(AllJobs), NoRepeats(js), EnqueueInOrder(js)
  PROVE  /\ JobsInv' /\ status' \in [AllJobs -> Statuses]
         /\ UNCHANGED <<throttleVars, closed>> /\ Elements(js) \subseteq Idle
         /\ \E R : buffer' = buffer \o R /\ Entered(buffer, js, R, status')
<1>1. PICK n, st, u, sv, tv, b, rd, q, w :
        /\ n = max_concurrent_jobs /\ st = status /\ u = status' /\ sv = serves /\ tv = serves'
        /\ b = buffer /\ rd = readers /\ q = queue /\ w = pending
  OBVIOUS
<1>2. /\ Basics /\ Hopping(batch, q, st) /\ Serving(n, sv, st)
      /\ Waiting(n, rd, sv) /\ Piped(b, rd, st) /\ Lined(w, b, st) /\ n \in 1..MaxConcurrent
  BY <1>1 DEF IInv, JobsInv, Basics
<1>3. PICK m : m = HandOver(js)
  OBVIOUS
<1>4. rd \in Seq(1..n) /\ NoRepeats(rd) /\ b \in Seq(AllJobs)
  BY <1>2 DEF Waiting, Piped
<1>5. /\ Len(js) \in Nat /\ Len(rd) \in Nat /\ m \in 0..Len(js) /\ m \in 0..Len(rd)
      /\ (m = Len(js) \/ m = Len(rd)) /\ m <= Len(rd)
  <2>1. Len(js) \in Nat /\ Len(rd) \in Nat
    BY <1>4, LenProperties
  <2>2. m = IF Len(js) < Len(rd) THEN Len(js) ELSE Len(rd)
    BY <1>1, <1>3 DEF HandOver
  <2> QED BY <2>1, <2>2
<1>6. PICK T, R, F, L : /\ T = SubSeq(js, 1, m) /\ R = SubSeq(js, m + 1, Len(js))
                        /\ F = SubSeq(rd, 1, m) /\ L = SubSeq(rd, m + 1, Len(rd))
  OBVIOUS
<1>7. Cut(js, m, T, R) /\ T \in Seq(AllJobs) /\ R \in Seq(AllJobs)
  BY <1>5, <1>6, CutInTwo
<1>8. Cut(rd, m, F, L) /\ F \in Seq(1..n) /\ L \in Seq(1..n)
  BY <1>4, <1>5, <1>6, CutInTwo
<1>9. PICK g : g = [i \in 1..m |-> [do |-> "got", job |-> T[i]]]
  OBVIOUS
<1>10. /\ Elements(js) \subseteq Idle
       /\ buffer' = b \o R /\ readers' = L
       /\ tv = [r \in DOMAIN sv |-> IF r \in Elements(F)
                                    THEN {T[CHOOSE i \in 1..m : rd[i] = r]} ELSE sv[r]]
       /\ u = [j \in AllJobs |-> IF j \in Elements(T) THEN "taken"
                                 ELSE IF j \in Elements(R) THEN "queued" ELSE st[j]]
       /\ queue' = q \o g
       /\ pending' = w \o js /\ UNCHANGED <<throttleVars, closed, batch>>
  BY <1>1, <1>3, <1>6, <1>9 DEF EnqueueInOrder, Enqueued
<1>11. /\ Elements(js) = Elements(T) \cup Elements(R) /\ Elements(T) \cap Elements(R) = {}
       /\ Elements(js) \subseteq AllJobs
  BY <1>7, ElementsOf DEF Cut
<1>12. Enters(js, T, R, st, u)
  <2>1. \A j \in Elements(js) : st[j] \in {"new", "aborted"}
    BY <1>1, <1>10 DEF Idle
  <2> QED BY <2>1, <1>10, <1>11 DEF Enters
<1>13. Hopping(batch, q \o g, u)
  BY <1>2, <1>7, <1>9, <1>12, HopsEnqueued
<1>14. Serving(n, tv, u) /\ Waiting(n, L, tv)
  <2>1. sv \in [1..MaxConcurrent -> SUBSET AllJobs]
    BY <1>2 DEF Serving
  <2>3. \A r \in 1..MaxConcurrent : r \notin Elements(F) => tv[r] = sv[r]
    BY <2>1, <1>10
  <2>4. ASSUME NEW i \in 1..m PROVE tv[F[i]] = {T[i]}
    <3>1. F[i] = rd[i] /\ DOMAIN F = 1..m /\ DOMAIN rd = 1..Len(rd)
      BY <1>8 DEF Cut
    <3>2. F[i] \in Elements(F)
      BY <3>1 DEF Elements
    <3>3. F[i] \in 1..MaxConcurrent
      <4>1. F[i] \in 1..n
        BY <3>1, <1>8, LenProperties, ElementOfSeq
      <4> QED BY <4>1, <1>2, ThrottleAssumption
    <3>4. \A k \in 1..m : rd[k] = F[i] => k = i
      <4>0. PICK l : l = Len(rd) /\ l \in Nat /\ m \in 0..l
        BY <1>5
      <4>1. \A k \in 1..m : k \in DOMAIN rd
        BY <4>0, <3>1
      <4> QED BY <4>1, <3>1, <1>4 DEF NoRepeats
    <3>5. (CHOOSE k \in 1..m : rd[k] = F[i]) = i
      BY <3>1, <3>4
    <3> QED BY <3>2, <3>3, <3>5, <2>1, <1>10
  <2>5. Serving(n, sv, st) /\ Waiting(n, rd, sv) /\ n \in 1..MaxConcurrent
    BY <1>2
  <2>6. \A i \in 1..m : tv[F[i]] = {T[i]}
    BY <2>4
  <2>7. tv \in [1..MaxConcurrent -> SUBSET AllJobs]
    <3>1. \A r \in 1..MaxConcurrent : r \in Elements(F) => \E i \in 1..m : F[i] = r
      BY <1>8 DEF Cut, Elements
    <3>2. \A i \in 1..m : {T[i]} \in SUBSET AllJobs
      <4>1. DOMAIN T = 1..m
        BY <1>7 DEF Cut
      <4>2. \A i \in DOMAIN T : T[i] \in AllJobs
        BY <1>7, LenProperties, ElementOfSeq
      <4> QED BY <4>1, <4>2
    <3>3. \A r \in 1..MaxConcurrent : tv[r] \in SUBSET AllJobs
      BY <3>1, <3>2, <2>1, <2>3, <2>6
    <3>4. tv = [r \in 1..MaxConcurrent |-> tv[r]]
      BY <2>1, <1>10
    <3> QED BY <3>3, <3>4
  <2>8. HandedTo(F, m, T, sv, tv)
    BY <2>3, <2>6, <2>7 DEF HandedTo
  <2> QED BY <2>5, <2>8, <1>7, <1>8, <1>12, ServersEnqueued
<1>15. Piped(b \o R, L, u)
  BY <1>2, <1>4, <1>5, <1>7, <1>8, <1>12, PipedEnqueued
<1>16. Lined(w \o js, b \o R, u)
  BY <1>2, <1>5, <1>7, <1>12, LinedEnqueued
<1>17. JobsInv'
  BY <1>1, <1>10, <1>13, <1>14, <1>15, <1>16 DEF JobsInv, throttleVars
<1>18. u \in [AllJobs -> Statuses]
  BY <1>1, <1>2, <1>10 DEF Basics, Statuses
<1>19. Entered(b, js, R, u)
  <2>1. ASSUME b # << >> PROVE \A j \in Elements(js) : u[j] = "queued"
    <3>1. rd = << >>
      BY <2>1, <1>2 DEF Piped
    <3>2. m = 0
      BY <3>1, <1>5
    <3>3. DOMAIN T = 1..m
      BY <1>7 DEF Cut
    <3>4. Elements(T) = {}
      BY <3>2, <3>3 DEF Elements
    <3> QED BY <3>4, <1>11, <1>12 DEF Enters
  <2>2. \A j \in Elements(js) : u[j] \in {"taken", "queued"}
    BY <1>11, <1>12 DEF Enters
  <2>3. \A j \in AllJobs : j \notin Elements(js) => u[j] = status[j]
    BY <1>1, <1>12 DEF Enters
  <2> QED BY <2>1, <2>2, <2>3, <1>7, <1>11 DEF Entered
<1> QED BY <1>1, <1>10, <1>17, <1>18, <1>19

LEMMA EnqueueStep == ASSUME IInv, NEW j \in UserJobs, Enqueue(j) PROVE IInv'
<1>1. PICK js : js = <<j>>
  OBVIOUS
<1>2. js \in Seq(AllJobs) /\ NoRepeats(js) /\ Elements(js) = {j}
  BY <1>1 DEF NoRepeats, Elements, AllJobs
<1>3. EnqueueInOrder(js) /\ UNCHANGED <<priorVars, before>>
  BY <1>1 DEF Enqueue
<1>4. /\ JobsInv' /\ status' \in [AllJobs -> Statuses]
      /\ UNCHANGED <<throttleVars, closed>> /\ Elements(js) \subseteq Idle
      /\ \E R : buffer' = buffer \o R /\ Entered(buffer, js, R, status')
  BY <1>2, <1>3, JobsEnter
<1>5. PICK R : buffer' = buffer \o R /\ Entered(buffer, js, R, status')
  BY <1>4
<1>6. Basics'
  BY <1>3, <1>4 DEF IInv, Basics, throttleVars, priorVars
<1>7. PriorsInv'
  <2> SUFFICES ASSUME NEW p \in Priors
               PROVE  Asking(max_concurrent_jobs, p, dummy_jobs_running[p], prior[p], before[p],
                             buffer', status')
    BY <1>3, <1>4 DEF PriorsInv, throttleVars, priorVars
  <2>1. PICK n, d, pr, B, b, st, u, S :
          /\ n = max_concurrent_jobs /\ d = dummy_jobs_running[p] /\ pr = prior[p]
          /\ B = before[p] /\ b = buffer /\ st = status /\ u = status' /\ S = Elements(js)
    OBVIOUS
  <2>2. Asking(n, p, d, pr, B, b, st) /\ n \in 1..MaxConcurrent /\ b \in Seq(AllJobs)
    BY <2>1 DEF IInv, PriorsInv, Basics, JobsInv, Piped
  <2>3. S \cap Dummies(p) = {}
    BY <1>2, <2>1, <2>2, DummyJobs
  <2>4. \A k \in S : st[k] \notin Live
    BY <1>4, <2>1 DEF Idle, Live
  <2>5. R \in Seq(AllJobs) /\ Elements(R) \subseteq S
        /\ \A k \in AllJobs : k \notin S => u[k] = st[k]
    BY <1>5, <2>1 DEF Entered
  <2>6. Asking(n, p, d, pr, B, b \o R, u)
    BY <2>2, <2>3, <2>4, <2>5, AskingEnqueued
  <2> QED BY <1>5, <2>1, <2>6
<1> QED BY <1>4, <1>6, <1>7 DEF IInv

(* The dummies of p are enqueued: where the pipe has a job that they wait  *)
(* for, they are behind it.                                                *)
LEMMA DummiesEnter ==
  ASSUME IInv, NEW p \in Priors, NEW js \in Seq(AllJobs),
         Elements(js) = DummiesOf(max_concurrent_jobs, p), Elements(js) \subseteq Idle,
         NEW R, NEW u, Entered(buffer, js, R, u),
         NEW B, B = UserJobs \ (Idle \cup Ended)
  PROVE  Asking(max_concurrent_jobs, p, 0, "asked", B, buffer \o R, u)
<1>1. PICK n, b, st, c : /\ n = max_concurrent_jobs /\ b = buffer /\ st = status /\ c = b \o R
  OBVIOUS
<1>2. PICK D : D = DummiesOf(n, p)
  OBVIOUS
<1>3. /\ n \in 1..MaxConcurrent /\ n \in Nat /\ MaxConcurrent \in Nat /\ n > 0
      /\ st \in [AllJobs -> Statuses]
      /\ b \in Seq(AllJobs) /\ \A j \in AllJobs : st[j] = "queued" <=> j \in Elements(b)
  BY <1>1, ThrottleAssumption DEF IInv, JobsInv, Basics, Piped
<1>4. /\ D \subseteq Dummies(p) /\ Dummies(p) \subseteq AllJobs /\ D \cap UserJobs = {}
  BY <1>2, <1>3, DummyJobs
<1>5. /\ R \in Seq(AllJobs) /\ Elements(R) \subseteq D
      /\ b # << >> => \A j \in D : u[j] = "queued"
      /\ \A j \in D : u[j] \in {"taken", "queued"}
      /\ \A j \in AllJobs : j \notin D => u[j] = st[j]
  BY <1>1, <1>2 DEF Entered
<1>6. B \subseteq UserJobs /\ UserJobs \subseteq AllJobs /\ \A j \in B : st[j] \in Live
  BY <1>1, <1>3 DEF AllJobs, Idle, Ended, Statuses, Live
<1>7. \A j \in B : u[j] = st[j]
  BY <1>4, <1>5, <1>6
<1>8. \A x \in D : st[x] \in {"new", "aborted"}
  BY <1>1, <1>2 DEF Idle
<1>9. \A x \in Dummies(p) \ D : u[x] = "new"
  <2>1. PICK d, pr, A : Asking(n, p, d, pr, A, b, st)
    BY <1>1 DEF IInv, PriorsInv
  <2>2. \A x \in Dummies(p) \ D : st[x] = "new"
    BY <1>2, <2>1 DEF Asking
  <2> QED BY <2>2, <1>4, <1>5
<1>10. RunningOf(n, p, u) = {}
  BY <1>2, <1>5 DEF RunningOf
<1>11. \A j \in B : u[j] = "queued" => \A x \in D : u[x] = "queued"
  <2> SUFFICES ASSUME NEW j \in B, u[j] = "queued" PROVE \A x \in D : u[x] = "queued"
    OBVIOUS
  <2>1. j \in Elements(b)
    BY <1>3, <1>6, <1>7
  <2>2. b # << >>
    BY <2>1 DEF Elements
  <2> QED BY <2>2, <1>5
<1>12. Ahead(c, B, D)
  <2>1. \A i \in DOMAIN c : Comes(b, R, c, i)
    BY <1>1, <1>3, <1>5, TwoParts
  <2> SUFFICES ASSUME NEW x \in DOMAIN c, NEW y \in DOMAIN c, c[x] \in B, c[y] \in D
               PROVE  x < y
    BY DEF Ahead
  <2>2. c[x] \notin D
    BY <1>4, <1>6
  <2>3. c[y] \notin Elements(b)
    BY <1>3, <1>4, <1>8
  <2>4. x \in DOMAIN b /\ x <= Len(b)
    BY <2>1, <2>2, <1>5 DEF Comes
  <2>5. PICK a \in DOMAIN R : y = Len(b) + a /\ y > Len(b)
    BY <2>1, <2>3 DEF Comes
  <2>6. /\ DOMAIN b = 1..Len(b) /\ Len(b) \in Nat /\ DOMAIN R = 1..Len(R) /\ Len(R) \in Nat
    BY <1>3, <1>5, LenProperties
  <2> QED BY <2>4, <2>5, <2>6
<1>13. Asked(n, p, 0, B, c, u)
  <2>1. Cardinality(RunningOf(n, p, u)) = 0
    BY <1>10, FS_EmptySet
  <2>2. \A x \in D : u[x] \in Live \cup {"aborted"}
    BY <1>5 DEF Live
  <2> QED BY <2>1, <2>2, <1>2, <1>3, <1>11, <1>12 DEF Asked
<1>14. Asking(n, p, 0, "asked", B, c, u)
  <2>1. \A j \in B : u[j] \in Live
    BY <1>6, <1>7
  <2>2. 0 \in 0..MaxConcurrent
    BY <1>3
  <2> QED BY <2>1, <2>2, <1>2, <1>6, <1>9, <1>13 DEF Asking
<1> QED BY <1>1, <1>14

LEMMA PriorJobsDoneStep == ASSUME IInv, NEW p \in Priors, PriorJobsDone(p) PROVE IInv'
<1>1. PICK js, n, B : /\ js = Dummy(p) /\ n = max_concurrent_jobs
                      /\ B = UserJobs \ (Idle \cup Ended)
  OBVIOUS
<1>2. /\ EnqueueInOrder(js) /\ prior' = [prior EXCEPT ![p] = "asked"]
      /\ dummy_jobs_running' = [dummy_jobs_running EXCEPT ![p] = 0]
      /\ before' = [before EXCEPT ![p] = B]
  BY <1>1 DEF PriorJobsDone, FreshCount
<1>3. n \in 1..MaxConcurrent /\ n \in Nat /\ MaxConcurrent \in Nat
  BY <1>1, ThrottleAssumption DEF IInv, Basics
<1>4. js = [i \in 1..n |-> <<p, i>>]
  BY <1>1 DEF Dummy, Runners
<1>5. js \in Seq(AllJobs) /\ NoRepeats(js) /\ Elements(js) = DummiesOf(n, p)
  <2>1. DummiesOf(n, p) \subseteq AllJobs
    BY <1>3, DummyJobs
  <2>2. js \in [1..n -> AllJobs]
    BY <2>1, <1>4 DEF DummiesOf
  <2>3. js \in Seq(AllJobs)
    BY <2>2, <1>3, SeqDef
  <2>4. NoRepeats(js)
    BY <1>4 DEF NoRepeats
  <2> QED BY <2>3, <2>4, <1>4 DEF Elements, DummiesOf
<1>6. /\ JobsInv' /\ status' \in [AllJobs -> Statuses]
      /\ UNCHANGED <<throttleVars, closed>> /\ Elements(js) \subseteq Idle
      /\ \E R : buffer' = buffer \o R /\ Entered(buffer, js, R, status')
  BY <1>2, <1>5, JobsEnter
<1>7. PICK R : buffer' = buffer \o R /\ Entered(buffer, js, R, status')
  BY <1>6
<1>8. Basics'
  <2>1. B \subseteq UserJobs
    BY <1>1
  <2>2. before' \in [Priors -> SUBSET UserJobs]
    BY <2>1, <1>2 DEF IInv, Basics
  <2>3. /\ prior' \in [Priors -> {"none", "asked", "answered"}]
        /\ dummy_jobs_running' \in [Priors -> 0..MaxConcurrent]
    BY <1>2, <1>3 DEF IInv, Basics
  <2> QED BY <2>2, <2>3, <1>6 DEF IInv, Basics, throttleVars
<1>9. PriorsInv'
  <2> SUFFICES ASSUME NEW o \in Priors
               PROVE  Asking(n, o, dummy_jobs_running'[o], prior'[o], before'[o],
                             buffer', status')
    BY <1>1, <1>6 DEF PriorsInv, throttleVars
  <2>1. PICK d, pr, A, b, st, u, S, e, qr, C :
          /\ d = dummy_jobs_running[o] /\ pr = prior[o] /\ A = before[o]
          /\ b = buffer /\ st = status /\ u = status' /\ S = Elements(js)
          /\ e = dummy_jobs_running'[o] /\ qr = prior'[o] /\ C = before'[o]
    OBVIOUS
  <2>2. Asking(n, o, d, pr, A, b, st) /\ b \in Seq(AllJobs)
    BY <1>1, <2>1 DEF IInv, PriorsInv, JobsInv, Piped
  <2>3. CASE o = p
    <3>1. e = 0 /\ qr = "asked" /\ C = B
      BY <2>1, <2>3, <1>2 DEF IInv, Basics
    <3>2. Asking(n, p, 0, "asked", B, b \o R, u)
      BY <2>1, <1>1, <1>5, <1>6, <1>7, DummiesEnter
    <3> QED BY <2>1, <2>3, <3>1, <3>2, <1>7
  <2>4. CASE o # p
    <3>1. e = d /\ qr = pr /\ C = A
      BY <2>1, <2>4, <1>2 DEF IInv, Basics
    <3>2. S \cap Dummies(o) = {}
      BY <2>1, <2>4, <1>3, <1>5, DummyJobs
    <3>3. \A k \in S : st[k] \notin Live
      BY <1>6, <2>1 DEF Idle, Live
    <3>4. R \in Seq(AllJobs) /\ Elements(R) \subseteq S
          /\ \A k \in AllJobs : k \notin S => u[k] = st[k]
      BY <1>7, <2>1 DEF Entered
    <3>5. Asking(n, o, d, pr, A, b \o R, u)
      BY <2>2, <3>2, <3>3, <3>4, <1>3, AskingEnqueued
    <3> QED BY <2>1, <3>1, <3>5, <1>7
  <2> QED BY <2>3, <2>4
<1> QED BY <1>6, <1>8, <1>9 DEF IInv

-----------------------------------------------------------------------------
LEMMA InitIInv == Init => IInv
<1> SUFFICES ASSUME Init PROVE IInv
  OBVIOUS
<1>1. PICK n, st, sv : n = max_concurrent_jobs /\ st = status /\ sv = serves
  OBVIOUS
<1>2. /\ n \in 1..MaxConcurrent /\ n \in Nat /\ MaxConcurrent \in Nat
      /\ 1..n \subseteq 1..MaxConcurrent
  BY <1>1, ThrottleAssumption DEF Init
<1>3. /\ st = [j \in AllJobs |-> "new"] /\ sv = [r \in 1..MaxConcurrent |-> {}]
      /\ \A j \in AllJobs : st[j] = "new"
  BY <1>1 DEF Init
<1>4. PICK e : e = << >>
  OBVIOUS
<1>5. /\ \A S : e \in Seq(S) /\ DOMAIN e = {} /\ NoRepeats(e) /\ Elements(e) = {}
      /\ buffer = e /\ queue = e /\ batch = e /\ pending = e
  BY <1>4, EmptySeq DEF Init, NoRepeats, Elements
<1>6. Basics
  <2>1. status \in [AllJobs -> Statuses]
    BY <1>1, <1>3 DEF Statuses
  <2>2. dummy_jobs_running \in [Priors -> 0..MaxConcurrent]
    BY <1>2 DEF Init
  <2>3. before \in [Priors -> SUBSET UserJobs] /\ closed \in BOOLEAN
    BY DEF Init
  <2>4. prior \in [Priors -> {"none", "asked", "answered"}]
    BY DEF Init
  <2>5. max_concurrent_jobs \in 1..MaxConcurrent /\ continue_on_error \in BOOLEAN
    BY DEF Init
  <2> QED BY <2>1, <2>2, <2>3, <2>4, <2>5 DEF Basics
<1>7. Hopping(e, e, st)
  BY <1>3, <1>5 DEF Hopping, HopsIn, OneHopEach
<1>8. Serving(n, sv, st)
  BY <1>3 DEF Serving, Given
<1>9. Waiting(n, readers, sv)
  <2>1. readers = [r \in 1..n |-> r]
    BY <1>1 DEF Init
  <2>2. readers \in [1..n -> 1..n]
    BY <2>1
  <2>3. readers \in Seq(1..n)
    BY <2>2, <1>2, SeqDef
  <2>4. NoRepeats(readers) /\ Elements(readers) = 1..n
    BY <2>1 DEF NoRepeats, Elements
  <2> QED BY <2>3, <2>4, <1>2, <1>3 DEF Waiting
<1>10. Piped(e, readers, st) /\ Lined(e, e, st)
  BY <1>3, <1>4, <1>5 DEF Piped, Lined, QueuedLast, InPipeOrder, Unstarted
<1>11. ASSUME NEW p \in Priors PROVE Asking(n, p, 0, "none", {}, e, st)
  <2>1. \A x \in Dummies(p) : st[x] = "new"
    BY <1>2, <1>3, DummyJobs
  <2>2. DummiesOf(n, p) \subseteq Dummies(p)
    BY <1>2, DummyJobs
  <2> QED BY <2>1, <2>2, <1>2 DEF Asking
<1>12. PriorsInv
  <2>1. ASSUME NEW p \in Priors
        PROVE  dummy_jobs_running[p] = 0 /\ prior[p] = "none" /\ before[p] = {}
    BY DEF Init
  <2> QED BY <2>1, <1>1, <1>5, <1>11 DEF PriorsInv
<1> QED BY <1>1, <1>5, <1>6, <1>7, <1>8, <1>9, <1>10, <1>12 DEF IInv, JobsInv

LEMMA RunnerStep == ASSUME IInv, NEW r \in Runners, OneJobRunner(r) PROVE IInv'
<1>1. PICK j \in serves[r] :
        /\ j \in Ended
        /\ \/ Stops(j) /\ Kill(j)
           \/ ~Stops(j) /\ (TakeNext(r, j) \/ WaitForNext(r, j))
        /\ RestOfRunner(r, j)
  BY DEF OneJobRunner, RestOfRunner
<1>2. EndedJob(r, j)
  BY <1>1 DEF EndedJob
<1> QED BY <1>1, <1>2, KillStep, TakesStep, WaitsStep

LEMMA NextIInv == IInv /\ [Next]_vars => IInv'
<1> SUFFICES ASSUME IInv, [Next]_vars PROVE IInv'
  OBVIOUS
<1>1. ASSUME NEW j \in UserJobs, Enqueue(j) PROVE IInv'
  BY <1>1, EnqueueStep
<1>2. ASSUME NEW p \in Priors, PriorJobsDone(p) PROVE IInv'
  BY <1>2, PriorJobsDoneStep
<1>3. ASSUME NEW j \in AllJobs, Got(j) \/ Go(j) \/ Work(j) \/ WorkEnds(j) PROVE IInv'
  BY <1>3, GotStep, GoStep, WorkStep, WorkEndsStep
<1>4. ASSUME NEW r \in Runners, OneJobRunner(r) PROVE IInv'
  BY <1>4, RunnerStep
<1>5. CASE UNCHANGED vars
  BY <1>5 DEF vars, throttleVars, pipeVars, priorVars, history, IInv, Basics, JobsInv, PriorsInv
<1> QED BY <1>1, <1>2, <1>3, <1>4, <1>5 DEF Next

(* However many runners there are: no more jobs run than there are         *)
(* runners, every job that was enqueued is in the pipe or in the hands of  *)
(* one runner, and prior_jobs_done is answered when the jobs enqueued      *)
(* before it have ended (one_job_runner, enqueue', prior_jobs_done).       *)
THEOREM JobsStayInRunnersHands == Spec => []ThrottleInvariant
<1>1. IInv => ThrottleInvariant
  BY ThrottleStands
<1> QED BY <1>1, InitIInv, NextIInv, PTL DEF Spec

(* A job that starts overtakes only jobs that runners were given, none     *)
(* that is still in the pipe; a sequencer, whose one runner serves one job *)
(* at a time, starts its jobs in the order in which they were enqueued     *)
(* (one_job_runner reads the pipe that enqueue' writes).                   *)
THEOREM SequencersStartInOrder == Spec => OvertakesOnlyTakenJobs
<1> DEFINE Started(j) == status[j] = "started" =>
             /\ max_concurrent_jobs = 1 => j = Head(pending)
             /\ \A i, k \in DOMAIN pending :
                  pending[i] = j /\ k < i => status[pending[k]] # "queued"
<1>1. IInv => \A j \in AllJobs : Started(j)
  BY OnlyTakenJobs
<1>2. IInv /\ [Next]_vars =>
        [\A j \in AllJobs : Starts(j) =>
           /\ max_concurrent_jobs = 1 => j = Head(pending)
           /\ \A i, k \in DOMAIN pending :
                pending[i] = j /\ k < i => status[pending[k]] # "queued"]_vars
  BY <1>1 DEF Starts
<1> QED BY <1>2, InitIInv, NextIInv, PTL DEF Spec, OvertakesOnlyTakenJobs
=============================================================================
