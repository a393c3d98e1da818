------------------------------ MODULE NanoMutex ------------------------------
(***************************************************************************)
(* Core's Nano_mutex (core/lib/nano_mutex.ml): a mutex that is one word    *)
(* while nobody waits for it, and that borrows an ordinary mutex and       *)
(* condition variable, its blocker, from a global cache when it is         *)
(* contended.                                                              *)
(*                                                                         *)
(* OCaml threads switch only outside the regions the code marks atomic;    *)
(* an action is such a region, or one access to shared state between two   *)
(* points where the thread may be switched.  pc[t] names the line thread t *)
(* has reached.  Blockers are numbered as they are made.                   *)
(***************************************************************************)
EXTENDS Integers, FiniteSets

CONSTANTS Threads, Mutexes, NoThread, NoMutex

ASSUME NanoMutexAssumption ==
  /\ IsFiniteSet(Threads) /\ NoThread \notin Threads /\ NoMutex \notin Mutexes

VARIABLES
  id_of_thread_holding_lock,
  num_using_blocker,
  blocker,   \* each mutex's blocker, NoBlocker if it has none
  unused,    \* the cache of unused blockers
  made,      \* how many blockers were ever made
  pc,
  at,        \* the mutex whose lock or unlock the thread runs
  op,        \* "lock" or "unlock"
  mine,      \* the blocker the thread agreed to use
  spare,     \* a blocker only this thread knows: new_blocker, or one to be saved
  held       \* history: the mutexes whose lock or try_lock succeeded for the thread

mutexVars == <<id_of_thread_holding_lock, num_using_blocker, blocker>>
cacheVars == <<unused, made>>
callVars == <<at, op>>
blockerVars == <<mine, spare>>
vars == <<mutexVars, cacheVars, pc, callVars, blockerVars, held>>
-----------------------------------------------------------------------------
NoBlocker == 0

IsLocked(m) == id_of_thread_holding_lock[m] # NoThread

At(t, label) == pc[t] = label
Goto(t, label) == pc' = [pc EXCEPT ![t] = label]
Return(t) ==
  /\ Goto(t, "idle")
  /\ at' = [at EXCEPT ![t] = NoMutex] /\ op' = [op EXCEPT ![t] = "none"]

(* Who uses the blocker of m: those between the increment and the          *)
(* decrement of num_using_blocker in with_blocker.                         *)
Using == {"look", "create", "agree", "save_loser", "acquire", "critical",
          "wait", "waiting", "reacquire", "release", "leave"}
Users(m) == {t \in Threads : at[t] = m /\ pc[t] \in Using}

(* Those that hold the ordinary mutex of blocker b.                        *)
Inside == {"critical", "wait", "release"}
Occupied(b) == \E t \in Threads : mine[t] = b /\ pc[t] \in Inside

Waiting(b) == {t \in Threads : mine[t] = b /\ At(t, "waiting")}
-----------------------------------------------------------------------------
Init ==
  /\ id_of_thread_holding_lock = [m \in Mutexes |-> NoThread]
  /\ num_using_blocker = [m \in Mutexes |-> 0]
  /\ blocker = [m \in Mutexes |-> NoBlocker]
  /\ unused = {} /\ made = 0
  /\ pc = [t \in Threads |-> "idle"]
  /\ at = [t \in Threads |-> NoMutex] /\ op = [t \in Threads |-> "none"]
  /\ mine = [t \in Threads |-> NoBlocker] /\ spare = [t \in Threads |-> NoBlocker]
  /\ held = [t \in Threads |-> {}]

(* The test-and-set of id_of_thread_holding_lock that succeeds.            *)
TestAndSetLate(t, m) ==  \* mutant of TestAndSet
  /\ ~IsLocked(m) \/ At(t, "test")
  /\ id_of_thread_holding_lock' = [id_of_thread_holding_lock EXCEPT ![m] = t]
  /\ held' = [held EXCEPT ![t] = @ \cup {m}]
TestAndSet(t, m) ==
  /\ ~IsLocked(m)
  /\ id_of_thread_holding_lock' = [id_of_thread_holding_lock EXCEPT ![m] = t]
  /\ held' = [held EXCEPT ![t] = @ \cup {m}]

(* try_lock either acquires the mutex or changes nothing (Not_acquired,    *)
(* or the error of a recursive lock).                                      *)
TryLock(t, m) ==
  /\ At(t, "idle")
  /\ TestAndSet(t, m)
  /\ UNCHANGED <<num_using_blocker, blocker, cacheVars, pc, callVars, blockerVars>>

Lock(t, m) ==
  /\ At(t, "idle")
  /\ Goto(t, "test")
  /\ at' = [at EXCEPT ![t] = m] /\ op' = [op EXCEPT ![t] = "lock"]
  /\ UNCHANGED <<mutexVars, cacheVars, blockerVars, held>>

LockAcquired(t) ==
  /\ At(t, "test")
  /\ TestAndSet(t, at[t])
  /\ Return(t)
  /\ UNCHANGED <<num_using_blocker, blocker, cacheVars, blockerVars>>

LockContended(t) ==
  /\ At(t, "test")
  /\ IsLocked(at[t])
  /\ Goto(t, "recursive")
  /\ UNCHANGED <<mutexVars, cacheVars, callVars, blockerVars, held>>

(* The second test of lock: is the thread itself the holder?               *)
LockRecursive(t) ==
  /\ At(t, "recursive")
  /\ IF id_of_thread_holding_lock[at[t]] = t
     THEN Return(t)
     ELSE Goto(t, "increment") /\ UNCHANGED callVars
  /\ UNCHANGED <<mutexVars, cacheVars, blockerVars, held>>

(* unlock by the holder; any other caller gets an error and changes        *)
(* nothing.                                                                *)
MayUnlockLocked(t, m) == IsLocked(m)  \* mutant of MayUnlock
MayUnlock(t, m) == id_of_thread_holding_lock[m] = t
Unlock(t, m) ==
  /\ At(t, "idle")
  /\ MayUnlock(t, m)
  /\ id_of_thread_holding_lock' = [id_of_thread_holding_lock EXCEPT ![m] = NoThread]
  /\ held' = [held EXCEPT ![t] = @ \ {m}]
  /\ Goto(t, "is_some")
  /\ at' = [at EXCEPT ![t] = m] /\ op' = [op EXCEPT ![t] = "unlock"]
  /\ UNCHANGED <<num_using_blocker, blocker, cacheVars, blockerVars>>

NeedsSignalTwo(m) == num_using_blocker[m] > 1  \* mutant of NeedsSignal
NeedsSignal(m) == blocker[m] # NoBlocker
UnlockIsSome(t) ==
  /\ At(t, "is_some")
  /\ IF NeedsSignal(at[t]) THEN Goto(t, "increment") /\ UNCHANGED callVars
                           ELSE Return(t)
  /\ UNCHANGED <<mutexVars, cacheVars, blockerVars, held>>
-----------------------------------------------------------------------------
(* with_blocker, from here to SaveLast.                                    *)
Increment(t) ==
  /\ At(t, "increment")
  /\ num_using_blocker' = [num_using_blocker EXCEPT ![at[t]] = @ + 1]
  /\ Goto(t, "look")
  /\ UNCHANGED <<id_of_thread_holding_lock, blocker, cacheVars, callVars,
                 blockerVars, held>>

Look(t) ==
  /\ At(t, "look")
  /\ IF blocker[at[t]] # NoBlocker
     THEN Goto(t, "acquire") /\ mine' = [mine EXCEPT ![t] = blocker[at[t]]]
     ELSE Goto(t, "create") /\ UNCHANGED mine
  /\ UNCHANGED <<mutexVars, cacheVars, callVars, spare, held>>

(* Blocker.create takes a blocker of the cache, or makes one.              *)
Create(t) ==
  /\ At(t, "create")
  /\ Goto(t, "agree")
  /\ \/ \E b \in unused :
          /\ unused' = unused \ {b} /\ UNCHANGED made
          /\ spare' = [spare EXCEPT ![t] = b]
     \/ /\ unused = {} /\ made' = made + 1 /\ UNCHANGED unused
        /\ spare' = [spare EXCEPT ![t] = made + 1]
  /\ UNCHANGED <<mutexVars, callVars, mine, held>>

(* The test-and-set of blocker.                                            *)
NoneYet(m) == blocker[m] = NoBlocker
Agree(t) ==
  /\ At(t, "agree")
  /\ IF NoneYet(at[t])
     THEN /\ blocker' = [blocker EXCEPT ![at[t]] = spare[t]]
          /\ mine' = [mine EXCEPT ![t] = spare[t]]
          /\ spare' = [spare EXCEPT ![t] = NoBlocker]
          /\ Goto(t, "acquire")
     ELSE /\ mine' = [mine EXCEPT ![t] = blocker[at[t]]]
          /\ Goto(t, "save_loser")
          /\ UNCHANGED <<blocker, spare>>
  /\ UNCHANGED <<id_of_thread_holding_lock, num_using_blocker, cacheVars, callVars, held>>

SaveUnused(t) ==
  /\ unused' = unused \cup {spare[t]} /\ UNCHANGED made
  /\ spare' = [spare EXCEPT ![t] = NoBlocker]

SaveLoser(t) ==
  /\ At(t, "save_loser")
  /\ SaveUnused(t)
  /\ Goto(t, "acquire")
  /\ UNCHANGED <<mutexVars, callVars, mine, held>>

Acquire(t) ==
  /\ At(t, "acquire")
  /\ ~Occupied(mine[t])
  /\ Goto(t, "critical")
  /\ UNCHANGED <<mutexVars, cacheVars, callVars, blockerVars, held>>

(* f of lock: wait only if the mutex is locked.  The thread may be         *)
(* switched between the test and the wait, but keeps the blocker's mutex.  *)
MustWaitAlways(m) == TRUE  \* mutant of MustWait
MustWait(m) == IsLocked(m)
LockCritical(t) ==
  /\ At(t, "critical") /\ op[t] = "lock"
  /\ Goto(t, IF MustWait(at[t]) THEN "wait" ELSE "release")
  /\ UNCHANGED <<mutexVars, cacheVars, callVars, blockerVars, held>>

(* Condition.wait releases the blocker's mutex and waits in one step.      *)
Wait(t) ==
  /\ At(t, "wait")
  /\ Goto(t, "waiting")
  /\ UNCHANGED <<mutexVars, cacheVars, callVars, blockerVars, held>>

(* f of unlock: Condition.signal wakes one waiting thread if there is one. *)
Signal(t) ==
  /\ At(t, "critical") /\ op[t] = "unlock"
  /\ IF Waiting(mine[t]) = {}
     THEN Goto(t, "release")
     ELSE \E u \in Waiting(mine[t]) :
            pc' = [pc EXCEPT ![t] = "release", ![u] = "reacquire"]
  /\ UNCHANGED <<mutexVars, cacheVars, callVars, blockerVars, held>>

(* A condition variable may wake a thread that nobody signalled.           *)
SpuriousWakeup(t) ==
  /\ At(t, "waiting")
  /\ Goto(t, "reacquire")
  /\ UNCHANGED <<mutexVars, cacheVars, callVars, blockerVars, held>>

Reacquire(t) ==
  /\ At(t, "reacquire")
  /\ ~Occupied(mine[t])
  /\ Goto(t, "release")
  /\ UNCHANGED <<mutexVars, cacheVars, callVars, blockerVars, held>>

Release(t) ==
  /\ At(t, "release")
  /\ Goto(t, "leave")
  /\ UNCHANGED <<mutexVars, cacheVars, callVars, blockerVars, held>>

(* lock starts over after with_blocker, unlock returns.                    *)
AfterWithBlocker(t) ==
  IF op[t] = "lock" THEN Goto(t, "test") /\ UNCHANGED callVars ELSE Return(t)

(* The decrement-test-and-set: the last user takes the blocker off.        *)
IsLastIgnored(m) == num_using_blocker[m] < 3  \* mutant of IsLast
IsLast(m) == num_using_blocker[m] = 1
Leave(t) ==
  /\ At(t, "leave")
  /\ num_using_blocker' = [num_using_blocker EXCEPT ![at[t]] = @ - 1]
  /\ mine' = [mine EXCEPT ![t] = NoBlocker]
  /\ IF IsLast(at[t])
     THEN /\ blocker' = [blocker EXCEPT ![at[t]] = NoBlocker]
          /\ spare' = [spare EXCEPT ![t] = mine[t]]
          /\ Goto(t, "save") /\ UNCHANGED callVars
     ELSE /\ AfterWithBlocker(t)
          /\ UNCHANGED <<blocker, spare>>
  /\ UNCHANGED <<id_of_thread_holding_lock, cacheVars, held>>

SaveLast(t) ==
  /\ At(t, "save")
  /\ SaveUnused(t)
  /\ AfterWithBlocker(t)
  /\ UNCHANGED <<mutexVars, mine, held>>
-----------------------------------------------------------------------------
(* What the runtime schedules once a thread has called lock or unlock.     *)
Step(t) ==
  \/ LockAcquired(t) \/ LockContended(t) \/ LockRecursive(t)
  \/ UnlockIsSome(t)
  \/ Increment(t) \/ Look(t) \/ Create(t) \/ Agree(t) \/ SaveLoser(t)
  \/ Acquire(t) \/ LockCritical(t) \/ Wait(t) \/ Signal(t)
  \/ Reacquire(t) \/ Release(t) \/ Leave(t) \/ SaveLast(t)

Next ==
  \E t \in Threads :
    \/ \E m \in Mutexes : TryLock(t, m) \/ Lock(t, m) \/ Unlock(t, m)
    \/ Step(t)
    \/ SpuriousWakeup(t)

Spec == Init /\ [][Next]_vars

(* The master lock and the operating system let every thread that can run  *)
(* run; calling lock or unlock again is up to the program.                 *)
FairSpec == Spec /\ \A t \in Threads : WF_vars(Step(t))
-----------------------------------------------------------------------------
Labels == Using \cup {"idle", "test", "recursive", "is_some", "increment", "save"}

(* Every variable has its type.                                            *)
TypeOK ==
  /\ id_of_thread_holding_lock \in [Mutexes -> Threads \cup {NoThread}]
  /\ num_using_blocker \in [Mutexes -> Int]
  /\ blocker \in [Mutexes -> Nat]
  /\ unused \subseteq 1..made /\ made \in Nat
  /\ pc \in [Threads -> Labels]
  /\ at \in [Threads -> Mutexes \cup {NoMutex}]
  /\ op \in [Threads -> {"none", "lock", "unlock"}]
  /\ mine \in [Threads -> Nat] /\ spare \in [Threads -> Nat]
  /\ held \in [Threads -> SUBSET Mutexes]

(* Safety of the comment on type t: only one thread has acquired a mutex   *)
(* and not yet released it, and the mutex names that thread.               *)
MutualExclusion ==
  \A m \in Mutexes :
    /\ \A t, u \in Threads : m \in held[t] /\ m \in held[u] => t = u
    /\ \A t \in Threads : id_of_thread_holding_lock[m] = t <=> m \in held[t]

(* What is left of the function invariant while calls are under way:       *)
(* num_using_blocker counts the threads inside with_blocker, a mutex whose *)
(* blocker nobody uses has none, and one that is used has one unless all   *)
(* its users have yet to agree on it.                                      *)
UsersCounted ==
  \A m \in Mutexes :
    /\ num_using_blocker[m] = Cardinality(Users(m))
    /\ blocker[m] # NoBlocker => Users(m) # {}
    /\ blocker[m] = NoBlocker =>
         \A t \in Users(m) : pc[t] \in {"look", "create", "agree"}

(* Everybody agrees what the underlying blocker is, and no blocker is in   *)
(* two places: the cache, a mutex, or a thread that is about to install it *)
(* or to save it.  A blocker saved while in use would be handed to another *)
(* mutex, and its signals would wake the wrong threads.                    *)
BlockersApart ==
  /\ \A t \in Threads : mine[t] # NoBlocker => mine[t] = blocker[at[t]]
  /\ \A m, n \in Mutexes : blocker[m] = blocker[n] /\ blocker[m] # NoBlocker => m = n
  /\ \A t, u \in Threads : spare[t] = spare[u] /\ spare[t] # NoBlocker => t = u
  /\ \A t \in Threads, m \in Mutexes :
       spare[t] = blocker[m] => spare[t] = NoBlocker
  /\ \A t \in Threads : spare[t] \notin unused
  /\ \A m \in Mutexes : blocker[m] \notin unused

(* What the code's invariant asserts of every mutex and of the cache, put  *)
(* so that it holds at every switch and not only between calls.            *)
FunctionInvariant == UsersCounted /\ BlockersApart

(* Liveness of the comment on type t, as an invariant: while threads wait  *)
(* for a free mutex, an unlocker has yet to signal, or a thread is awake   *)
(* and will test the mutex again.  No signal is missed.                    *)
CommittedToWait(t) == pc[t] \in {"wait", "waiting"}
BeforeSignal == {"is_some", "increment", "look", "create", "agree",
                 "save_loser", "acquire", "critical"}
WillWake(t) == \/ op[t] = "unlock" /\ pc[t] \in BeforeSignal
               \/ op[t] = "lock" /\ ~CommittedToWait(t)
NoMissedSignal ==
  \A m \in Mutexes :
    ~IsLocked(m) /\ (\E t \in Threads : at[t] = m /\ CommittedToWait(t)) =>
      \E u \in Threads : at[u] = m /\ WillWake(u)

(* The comment in lock: whether the thread itself holds the mutex does not *)
(* change between the two tests, so that a recursive lock is detected and  *)
(* no other lock is taken for one.                                         *)
RecursionTestStable ==
  [][\A t \in Threads : At(t, "recursive") =>
       (id_of_thread_holding_lock[at[t]] = t) = (id_of_thread_holding_lock'[at[t]] = t)]_vars

(* Nano_mutex is a mutex: its callers see the steps of Lock...             *)
Promise == INSTANCE Lock WITH
  holder <- id_of_thread_holding_lock,
  wants <- [t \in Threads |-> IF op[t] = "lock" THEN at[t] ELSE NoMutex]
ImplementsLock == Promise!Spec

(* ...and a thread that wants a free mutex, or another thread, gets it.    *)
HandedOver == Promise!HandedOver
=============================================================================
