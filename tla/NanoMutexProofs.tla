--------------------------- MODULE NanoMutexProofs ---------------------------
(***************************************************************************)
(* Nano_mutex is correct for any number of threads and mutexes.            *)
(***************************************************************************)
EXTENDS NanoMutex, FiniteSetTheorems, TLAPS

(* What each label says of the thread that has reached it.                 *)
AgreedOn == {"save_loser", "acquire", "critical", "wait", "waiting",
             "reacquire", "release", "leave"}
HoldsSpare == {"agree", "save_loser", "save"}
ControlOf(t) ==
  /\ At(t, "idle") => at[t] = NoMutex /\ op[t] = "none"
  /\ ~At(t, "idle") => at[t] \in Mutexes /\ op[t] \in {"lock", "unlock"}
  /\ pc[t] \in {"test", "recursive", "wait", "waiting", "reacquire"} => op[t] = "lock"
  /\ At(t, "is_some") => op[t] = "unlock"
  /\ mine[t] # NoBlocker <=> pc[t] \in AgreedOn
  /\ spare[t] # NoBlocker <=> pc[t] \in HoldsSpare
Control == \A t \in Threads : ControlOf(t)

(* Blockers are made before they are used.                                 *)
MadeBefore ==
  /\ \A t \in Threads : spare[t] <= made
  /\ \A m \in Mutexes : blocker[m] <= made

(* A blocker's mutex has one holder.                                       *)
OneInside ==
  \A t, u \in Threads :
    pc[t] \in Inside /\ pc[u] \in Inside /\ mine[t] = mine[u] => t = u

IInv == /\ TypeOK /\ MutualExclusion /\ UsersCounted /\ BlockersApart
        /\ NoMissedSignal /\ Control /\ MadeBefore /\ OneInside
-----------------------------------------------------------------------------
(* Every step is one of these.                                             *)
Action(t) ==
  \/ \E m \in Mutexes : TryLock(t, m)
  \/ \E m \in Mutexes : Lock(t, m)
  \/ \E m \in Mutexes : Unlock(t, m)
  \/ Step(t)
  \/ SpuriousWakeup(t)

LEMMA NextIsAction == Next => \E t \in Threads : Action(t)
BY DEF Next, Action

(* The initial states satisfy the inductive invariant.                     *)
LEMMA InitIInv == Init => IInv
<1> SUFFICES ASSUME Init PROVE IInv
  OBVIOUS
<1> USE DEF Init, NoBlocker
<1>1. TypeOK
  BY DEF TypeOK, Labels, Using
<1>2. MutualExclusion
  BY NanoMutexAssumption DEF MutualExclusion
<1>3. UsersCounted
  <2>1. \A m \in Mutexes : Users(m) = {}
    BY DEF Users, Using
  <2> QED
    BY <2>1, FS_EmptySet DEF UsersCounted
<1>4. BlockersApart
  BY DEF BlockersApart
<1>5. NoMissedSignal
  BY DEF NoMissedSignal, CommittedToWait
<1>6. Control /\ MadeBefore /\ OneInside
  BY DEF Control, ControlOf, At, AgreedOn, HoldsSpare, MadeBefore, OneInside, Inside
<1> QED
  BY <1>1, <1>2, <1>3, <1>4, <1>5, <1>6 DEF IInv

(* A step preserves the types.                                             *)
LEMMA TypeStep == TypeOK /\ Control /\ MadeBefore /\ [Next]_vars => TypeOK'
<1> SUFFICES ASSUME TypeOK, Control, MadeBefore, [Next]_vars PROVE TypeOK'
  OBVIOUS
<1> USE DEF TypeOK, Labels, Using
<1>1. CASE UNCHANGED vars
  BY <1>1 DEF vars, mutexVars, cacheVars, callVars, blockerVars
<1>2. ASSUME NEW t \in Threads, Action(t) PROVE TypeOK'
  <2> USE DEF At, Goto, Return, mutexVars, cacheVars, callVars, blockerVars
  <2>0. ~At(t, "idle") => at[t] \in Mutexes
    BY DEF Control, ControlOf
  <2>1. ASSUME NEW m \in Mutexes, TryLock(t, m) PROVE TypeOK'
    BY <2>1 DEF TryLock, TestAndSet
  <2>2. ASSUME NEW m \in Mutexes, Lock(t, m) PROVE TypeOK'
    BY <2>2 DEF Lock
  <2>3. ASSUME NEW m \in Mutexes, Unlock(t, m) PROVE TypeOK'
    BY <2>3 DEF Unlock
  <2>4. CASE LockAcquired(t)
    BY <2>0, <2>4 DEF LockAcquired, TestAndSet
  <2>5. CASE LockContended(t)
    BY <2>5 DEF LockContended
  <2>6. CASE LockRecursive(t)
    BY <2>6 DEF LockRecursive
  <2>7. CASE UnlockIsSome(t)
    BY <2>7 DEF UnlockIsSome
  <2>8. CASE Increment(t)
    BY <2>0, <2>8 DEF Increment
  <2>9. CASE Look(t)
    BY <2>0, <2>9 DEF Look
  <2>10. CASE Create(t)
    <3>1. made' \in Nat /\ unused' \subseteq 1..made'
      <4>1. CASE UNCHANGED made /\ unused' \subseteq unused
        BY <4>1
      <4>2. CASE unused' = {} /\ made' = made + 1
        BY <4>2
      <4> QED
        BY <2>10, <4>1, <4>2 DEF Create
    <3>2. spare' \in [Threads -> Nat]
      BY <2>10 DEF Create
    <3> QED
      BY <2>10, <3>1, <3>2 DEF Create
  <2>11. CASE Agree(t)
    <3>1. blocker' \in [Mutexes -> Nat] /\ mine' \in [Threads -> Nat]
      BY <2>0, <2>11 DEF Agree
    <3>2. spare' \in [Threads -> Nat] /\ pc' \in [Threads -> Labels]
      BY <2>11 DEF Agree, NoBlocker
    <3> QED
      BY <2>11, <3>1, <3>2 DEF Agree
  <2>12. CASE SaveLoser(t)
    <3>1. spare[t] \in 1..made
      BY <2>12 DEF SaveLoser, Control, ControlOf, HoldsSpare, MadeBefore, NoBlocker
    <3> QED
      BY <2>12, <3>1 DEF SaveLoser, SaveUnused, NoBlocker
  <2>13. CASE Acquire(t)
    BY <2>13 DEF Acquire
  <2>14. CASE LockCritical(t)
    BY <2>14 DEF LockCritical
  <2>15. CASE Wait(t)
    BY <2>15 DEF Wait
  <2>16. CASE Signal(t)
    BY <2>16 DEF Signal
  <2>17. CASE Reacquire(t)
    BY <2>17 DEF Reacquire
  <2>18. CASE Release(t)
    BY <2>18 DEF Release
  <2>19. CASE Leave(t)
    <3>1. pc' \in [Threads -> Labels] /\ at' \in [Threads -> Mutexes \cup {NoMutex}]
          /\ op' \in [Threads -> {"none", "lock", "unlock"}]
      BY <2>19 DEF Leave, AfterWithBlocker
    <3>2. num_using_blocker' \in [Mutexes -> Int]
      BY <2>0, <2>19 DEF Leave
    <3>3. blocker' \in [Mutexes -> Nat]
      BY <2>0, <2>19 DEF Leave, NoBlocker
    <3>4. mine' \in [Threads -> Nat] /\ spare' \in [Threads -> Nat]
      BY <2>19 DEF Leave, NoBlocker
    <3> QED
      BY <2>19, <3>1, <3>2, <3>3, <3>4 DEF Leave
  <2>20. CASE SaveLast(t)
    <3>1. spare[t] \in 1..made
      BY <2>20 DEF SaveLast, Control, ControlOf, HoldsSpare, MadeBefore, NoBlocker
    <3>2. pc' \in [Threads -> Labels] /\ at' \in [Threads -> Mutexes \cup {NoMutex}]
          /\ op' \in [Threads -> {"none", "lock", "unlock"}]
      BY <2>20 DEF SaveLast, AfterWithBlocker
    <3> QED
      BY <2>20, <3>1, <3>2 DEF SaveLast, SaveUnused, NoBlocker
  <2>21. CASE SpuriousWakeup(t)
    BY <2>21 DEF SpuriousWakeup
  <2> QED
    BY <1>2, <2>1, <2>2, <2>3, <2>4, <2>5, <2>6, <2>7, <2>8, <2>9, <2>10, <2>11,
       <2>12, <2>13, <2>14, <2>15, <2>16, <2>17, <2>18, <2>19, <2>20, <2>21
       DEF Action, Step
<1> QED
  BY <1>1, <1>2, NextIsAction

(* Only a successful test-and-set and an unlock change who holds a mutex   *)
(* and who believes to hold it; they change both together.                 *)
LEMMA MutexStep == TypeOK /\ Control /\ MutualExclusion /\ [Next]_vars => MutualExclusion'
<1> SUFFICES ASSUME TypeOK, Control, MutualExclusion, [Next]_vars PROVE MutualExclusion'
  OBVIOUS
<1> USE DEF TypeOK, MutualExclusion
<1>1. CASE UNCHANGED <<id_of_thread_holding_lock, held>>
  BY <1>1
<1>2. ASSUME NEW t \in Threads, NEW m \in Mutexes, TestAndSet(t, m)
      PROVE  MutualExclusion'
  <2>1. \A n \in Mutexes \ {m} :
          /\ id_of_thread_holding_lock'[n] = id_of_thread_holding_lock[n]
          /\ \A u \in Threads : n \in held'[u] <=> n \in held[u]
    BY <1>2 DEF TestAndSet
  <2>2. id_of_thread_holding_lock'[m] = t
    BY <1>2 DEF TestAndSet
  <2>3. \A u \in Threads : m \in held'[u] <=> u = t
    BY <1>2, NanoMutexAssumption DEF TestAndSet, IsLocked
  <2> QED
    BY <2>1, <2>2, <2>3
<1>3. ASSUME NEW t \in Threads, NEW m \in Mutexes, Unlock(t, m)
      PROVE  MutualExclusion'
  <2>1. \A n \in Mutexes \ {m} :
          /\ id_of_thread_holding_lock'[n] = id_of_thread_holding_lock[n]
          /\ \A u \in Threads : n \in held'[u] <=> n \in held[u]
    BY <1>3 DEF Unlock
  <2>2. id_of_thread_holding_lock'[m] = NoThread
    BY <1>3 DEF Unlock
  <2>3. \A u \in Threads : m \notin held'[u]
    BY <1>3 DEF Unlock, MayUnlock
  <2> QED
    BY <2>1, <2>2, <2>3, NanoMutexAssumption
<1>4. ASSUME NEW t \in Threads, Action(t) PROVE MutualExclusion'
  <2>1. CASE \E m \in Mutexes : TryLock(t, m)
    BY <2>1, <1>2 DEF TryLock
  <2>2. CASE LockAcquired(t)
    BY <2>2, <1>2 DEF LockAcquired, Control, ControlOf, At
  <2>3. CASE \E m \in Mutexes : Unlock(t, m)
    BY <2>3, <1>3
  <2>4. CASE UNCHANGED <<id_of_thread_holding_lock, held>>
    BY <2>4, <1>1
  <2>5. (\E m \in Mutexes : Lock(t, m)) => UNCHANGED <<id_of_thread_holding_lock, held>>
    BY DEF Lock, mutexVars
  <2>6. Step(t) /\ ~LockAcquired(t) => UNCHANGED <<id_of_thread_holding_lock, held>>
    BY DEF Step, mutexVars, LockContended, LockRecursive, UnlockIsSome, Increment, Look,
           Create, Agree, SaveLoser, Acquire, LockCritical, Wait, Signal, Reacquire,
           Release, Leave, SaveLast
  <2>7. SpuriousWakeup(t) => UNCHANGED <<id_of_thread_holding_lock, held>>
    BY DEF SpuriousWakeup, mutexVars
  <2> QED
    BY <1>4, <2>1, <2>2, <2>3, <2>4, <2>5, <2>6, <2>7 DEF Action
<1> QED
  BY <1>1, <1>4, NextIsAction DEF vars, mutexVars

(* A step of t leaves the other threads where they are, except that a      *)
(* signal moves the thread it wakes.                                       *)
Others(t) ==
  \A u \in Threads \ {t} :
    /\ pc'[u] = pc[u] /\ at'[u] = at[u] /\ op'[u] = op[u]
    /\ mine'[u] = mine[u] /\ spare'[u] = spare[u]

LEMMA OthersStep ==
  ASSUME TypeOK, NEW t \in Threads, Action(t), ~Signal(t)
  PROVE  Others(t)
<1> USE DEF TypeOK, Others, Goto, Return, callVars, blockerVars
<1>1. ASSUME NEW m \in Mutexes, TryLock(t, m) PROVE Others(t)
  BY <1>1 DEF TryLock, TestAndSet
<1>2. ASSUME NEW m \in Mutexes, Lock(t, m) PROVE Others(t)
  BY <1>2 DEF Lock
<1>3. ASSUME NEW m \in Mutexes, Unlock(t, m) PROVE Others(t)
  BY <1>3 DEF Unlock, MayUnlock
<1>4. CASE LockAcquired(t)
  BY <1>4 DEF LockAcquired, TestAndSet
<1>5. CASE LockContended(t)
  BY <1>5 DEF LockContended
<1>6. CASE LockRecursive(t)
  BY <1>6 DEF LockRecursive
<1>7. CASE UnlockIsSome(t)
  BY <1>7 DEF UnlockIsSome
<1>8. CASE Increment(t)
  BY <1>8 DEF Increment
<1>9. CASE Look(t)
  BY <1>9 DEF Look
<1>10. CASE Create(t)
  BY <1>10 DEF Create
<1>11. CASE Agree(t)
  BY <1>11 DEF Agree, NoneYet
<1>12. CASE SaveLoser(t)
  BY <1>12 DEF SaveLoser, SaveUnused
<1>13. CASE Acquire(t)
  BY <1>13 DEF Acquire
<1>14. CASE LockCritical(t)
  BY <1>14 DEF LockCritical
<1>15. CASE Wait(t)
  BY <1>15 DEF Wait
<1>17. CASE Reacquire(t)
  BY <1>17 DEF Reacquire
<1>18. CASE Release(t)
  BY <1>18 DEF Release
<1>19. CASE Leave(t)
  BY <1>19 DEF Leave, AfterWithBlocker
<1>20. CASE SaveLast(t)
  BY <1>20 DEF SaveLast, SaveUnused, AfterWithBlocker
<1>21. CASE SpuriousWakeup(t)
  BY <1>21 DEF SpuriousWakeup
<1> QED
  BY <1>1, <1>2, <1>3, <1>4, <1>5, <1>6, <1>7, <1>8, <1>9, <1>10, <1>11,
     <1>12, <1>13, <1>14, <1>15, <1>17, <1>18, <1>19, <1>20, <1>21
     DEF Action, Step

(* A step of t takes t to a label whose claims hold.                       *)
LEMMA OwnControl ==
  ASSUME TypeOK, Control, MadeBefore, UsersCounted, BlockersApart,
         NEW t \in Threads, Action(t)
  PROVE  ControlOf(t)'
<1> USE DEF TypeOK, Goto, Return, At, NoBlocker, callVars, blockerVars, AgreedOn, HoldsSpare
<1>0. ControlOf(t)
  BY DEF Control
<1> USE DEF ControlOf
<1>1. ASSUME NEW m \in Mutexes, TryLock(t, m) PROVE ControlOf(t)'
  BY <1>1, <1>0 DEF TryLock, TestAndSet
<1>2. ASSUME NEW m \in Mutexes, Lock(t, m) PROVE ControlOf(t)'
  BY <1>2, <1>0 DEF Lock
<1>3. ASSUME NEW m \in Mutexes, Unlock(t, m) PROVE ControlOf(t)'
  BY <1>3, <1>0 DEF Unlock, MayUnlock
<1>4. CASE LockAcquired(t)
  BY <1>4, <1>0 DEF LockAcquired, TestAndSet
<1>5. CASE LockContended(t)
  BY <1>5, <1>0 DEF LockContended
<1>6. CASE LockRecursive(t)
  BY <1>6, <1>0 DEF LockRecursive
<1>7. CASE UnlockIsSome(t)
  BY <1>7, <1>0 DEF UnlockIsSome
<1>8. CASE Increment(t)
  BY <1>8, <1>0 DEF Increment
<1>9. CASE Look(t)
  BY <1>9, <1>0 DEF Look
<1>10. CASE Create(t)
  BY <1>10, <1>0 DEF Create
<1>11. CASE Agree(t)
  BY <1>11, <1>0 DEF Agree, NoneYet
<1>12. CASE SaveLoser(t)
  BY <1>12, <1>0 DEF SaveLoser, SaveUnused
<1>13. CASE Acquire(t)
  BY <1>13, <1>0 DEF Acquire
<1>14. CASE LockCritical(t)
  BY <1>14, <1>0 DEF LockCritical
<1>15. CASE Wait(t)
  BY <1>15, <1>0 DEF Wait
<1>16. CASE Signal(t)
  BY <1>16, <1>0 DEF Signal
<1>17. CASE Reacquire(t)
  BY <1>17, <1>0 DEF Reacquire
<1>18. CASE Release(t)
  BY <1>18, <1>0 DEF Release
<1>19. CASE Leave(t)
  BY <1>19, <1>0 DEF Leave, AfterWithBlocker
<1>20. CASE SaveLast(t)
  BY <1>20, <1>0 DEF SaveLast, SaveUnused, AfterWithBlocker
<1>21. CASE SpuriousWakeup(t)
  BY <1>21, <1>0 DEF SpuriousWakeup
<1> QED
  BY <1>1, <1>2, <1>3, <1>4, <1>5, <1>6, <1>7, <1>8, <1>9, <1>10, <1>11,
     <1>12, <1>13, <1>14, <1>15, <1>16, <1>17, <1>18, <1>19, <1>20, <1>21
     DEF Action, Step

LEMMA ControlStep ==
  TypeOK /\ Control /\ MadeBefore /\ UsersCounted /\ BlockersApart /\ [Next]_vars => Control'
<1> SUFFICES ASSUME TypeOK, Control, MadeBefore, UsersCounted, BlockersApart, [Next]_vars
             PROVE  Control'
  OBVIOUS
<1>1. CASE UNCHANGED vars
  BY <1>1 DEF vars, callVars, blockerVars, Control, ControlOf, At
<1>2. ASSUME NEW t \in Threads, Action(t) PROVE Control'
  <2>1. ControlOf(t)'
    BY <1>2, OwnControl
  <2>2. ASSUME NEW u \in Threads \ {t} PROVE ControlOf(u)'
    <3>0. ControlOf(u)
      BY DEF Control
    <3>1. CASE ~Signal(t)
      <4>1. Others(t)
        BY <1>2, <3>1, OthersStep
      <4> QED
        BY <3>0, <4>1 DEF Others, ControlOf, At
    <3>2. CASE Signal(t)
      <4>1. \/ pc'[u] = pc[u]
            \/ pc[u] = "waiting" /\ pc'[u] = "reacquire"
        BY <3>2 DEF Signal, Waiting, At, Goto, TypeOK
      <4> QED
        BY <3>0, <3>2, <4>1 DEF Signal, ControlOf, At, callVars, blockerVars, AgreedOn, HoldsSpare
    <3> QED
      BY <3>1, <3>2
  <2> QED
    BY <2>1, <2>2 DEF Control
<1> QED
  BY <1>1, <1>2, NextIsAction

LEMMA MadeStep == TypeOK /\ MadeBefore /\ Control /\ BlockersApart /\ [Next]_vars => MadeBefore'
<1> SUFFICES ASSUME TypeOK, MadeBefore, Control, BlockersApart, [Next]_vars PROVE MadeBefore'
  OBVIOUS
<1> USE DEF TypeOK, MadeBefore
<1>1. CASE UNCHANGED vars
  BY <1>1 DEF vars, mutexVars, cacheVars, blockerVars
<1>2. ASSUME NEW t \in Threads, Action(t) PROVE MadeBefore'
  <2>0. ~At(t, "idle") => at[t] \in Mutexes
    BY DEF Control, ControlOf
  <2>1. CASE Create(t)
    <3>1. made' \in Nat /\ made <= made' /\ spare'[t] <= made'
      BY <2>1 DEF Create
    <3>2. \A u \in Threads \ {t} : spare'[u] = spare[u]
      BY <2>1 DEF Create
    <3> QED
      BY <2>1, <3>1, <3>2 DEF Create, mutexVars
  <2>2. CASE Agree(t)
    BY <2>0, <2>2 DEF Agree, cacheVars, At, NoBlocker
  <2>3. CASE SaveLoser(t) \/ SaveLast(t)
    BY <2>3 DEF SaveLoser, SaveLast, SaveUnused, mutexVars, NoBlocker
  <2>4. CASE Leave(t)
    <3>1. mine[t] # NoBlocker => mine[t] = blocker[at[t]]
      BY DEF BlockersApart
    <3> QED
      BY <2>0, <2>4, <3>1 DEF Leave, cacheVars, At, NoBlocker
  <2>5. CASE UNCHANGED <<made, spare, blocker>>
    BY <2>5
  <2>6. Step(t) => Create(t) \/ Agree(t) \/ SaveLoser(t) \/ SaveLast(t) \/ Leave(t)
                  \/ UNCHANGED <<made, spare, blocker>>
    BY DEF Step, mutexVars, cacheVars, blockerVars, LockAcquired, LockContended,
           LockRecursive, UnlockIsSome, Increment, Look, Acquire, LockCritical, Wait,
           Signal, Reacquire, Release
  <2>7. ~Step(t) => UNCHANGED <<made, spare, blocker>>
    BY <1>2 DEF Action, TryLock, Lock, Unlock, SpuriousWakeup, mutexVars, cacheVars, blockerVars
  <2> QED
    BY <2>1, <2>2, <2>3, <2>4, <2>5, <2>6, <2>7
<1> QED
  BY <1>1, <1>2, NextIsAction

(* Entering the blocker's mutex needs it free.                             *)
NotEntering(u) == pc'[u] \in Inside => pc[u] \in Inside /\ mine'[u] = mine[u]

LEMMA InsideStep == TypeOK /\ Control /\ OneInside /\ [Next]_vars => OneInside'
<1> SUFFICES ASSUME TypeOK, Control, OneInside, [Next]_vars PROVE OneInside'
  OBVIOUS
<1>1. CASE UNCHANGED vars
  BY <1>1 DEF vars, blockerVars, OneInside
<1>2. ASSUME NEW t \in Threads, Action(t) PROVE OneInside'
  <2>1. CASE Acquire(t) \/ Reacquire(t)
    <3>1. \A u \in Threads : pc[u] \in Inside => mine[u] # mine[t]
      BY <2>1 DEF Acquire, Reacquire, Occupied
    <3>2. \A u \in Threads \ {t} : pc'[u] = pc[u]
      BY <2>1 DEF Acquire, Reacquire, Goto, TypeOK
    <3>3. UNCHANGED mine
      BY <2>1 DEF Acquire, Reacquire, blockerVars
    <3> QED
      BY <3>1, <3>2, <3>3 DEF OneInside
  <2>2. ASSUME \A u \in Threads : NotEntering(u)
        PROVE  OneInside'
    BY <2>2 DEF OneInside, NotEntering
  <2>3. CASE Signal(t)
    <3>1. \A u \in Threads : pc'[u] \in Inside => pc[u] \in Inside
      BY <2>3 DEF Signal, Waiting, At, Goto, TypeOK, Inside
    <3> QED
      BY <2>2, <2>3, <3>1 DEF Signal, blockerVars, NotEntering
  <2>4. ASSUME ~Signal(t), ~Acquire(t), ~Reacquire(t) PROVE OneInside'
    <3>1. Others(t)
      BY <1>2, <2>4, OthersStep
    <3>2. NotEntering(t)
      <4> USE DEF NotEntering, TypeOK, Goto, Return, At, Inside, callVars, blockerVars
      <4>1. ASSUME NEW m \in Mutexes, TryLock(t, m) PROVE NotEntering(t)
        BY <4>1 DEF TryLock, TestAndSet
      <4>2. ASSUME NEW m \in Mutexes, Lock(t, m) PROVE NotEntering(t)
        BY <4>2 DEF Lock
      <4>3. ASSUME NEW m \in Mutexes, Unlock(t, m) PROVE NotEntering(t)
        BY <4>3 DEF Unlock, MayUnlock
      <4>4. CASE LockAcquired(t)
        BY <4>4 DEF LockAcquired, TestAndSet
      <4>5. CASE LockContended(t)
        BY <4>5 DEF LockContended
      <4>6. CASE LockRecursive(t)
        BY <4>6 DEF LockRecursive
      <4>7. CASE UnlockIsSome(t)
        BY <4>7 DEF UnlockIsSome
      <4>8. CASE Increment(t)
        BY <4>8 DEF Increment
      <4>9. CASE Look(t)
        BY <4>9 DEF Look
      <4>10. CASE Create(t)
        BY <4>10 DEF Create
      <4>11. CASE Agree(t)
        BY <4>11 DEF Agree, NoneYet
      <4>12. CASE SaveLoser(t)
        BY <4>12 DEF SaveLoser, SaveUnused
      <4>14. CASE LockCritical(t)
        BY <4>14 DEF LockCritical
      <4>15. CASE Wait(t)
        BY <4>15 DEF Wait
      <4>18. CASE Release(t)
        BY <4>18 DEF Release
      <4>19. CASE Leave(t)
        BY <4>19 DEF Leave, AfterWithBlocker
      <4>20. CASE SaveLast(t)
        BY <4>20 DEF SaveLast, SaveUnused, AfterWithBlocker
      <4>21. CASE SpuriousWakeup(t)
        BY <4>21 DEF SpuriousWakeup
      <4> QED
        BY <1>2, <2>4, <4>1, <4>2, <4>3, <4>4, <4>5, <4>6, <4>7, <4>8, <4>9,
           <4>10, <4>11, <4>12, <4>14, <4>15, <4>18, <4>19, <4>20, <4>21
           DEF Action, Step
    <3> QED
      BY <2>2, <3>1, <3>2 DEF Others, NotEntering
  <2> QED
    BY <2>1, <2>3, <2>4
<1> QED
  BY <1>1, <1>2, NextIsAction
-----------------------------------------------------------------------------
(* How the users of a blocker change.                                      *)
LEMMA UsersFinite == \A m \in Mutexes : IsFiniteSet(Users(m))
BY NanoMutexAssumption, FS_Subset DEF Users

SameUsers(t) ==
  /\ at'[t] = at[t] \/ (pc[t] \notin Using /\ pc'[t] \notin Using)
  /\ pc[t] \in Using <=> pc'[t] \in Using

LEMMA OthersKeepUsing ==
  ASSUME TypeOK, Control, NEW t \in Threads, Action(t), NEW u \in Threads \ {t}
  PROVE  at'[u] = at[u] /\ (pc'[u] \in Using <=> pc[u] \in Using)
<1>1. CASE ~Signal(t)
  BY <1>1, OthersStep DEF Others
<1>2. CASE Signal(t)
  <2>1. \/ pc'[u] = pc[u]
        \/ pc[u] = "waiting" /\ pc'[u] = "reacquire"
    BY <1>2 DEF Signal, Waiting, At, Goto, TypeOK
  <2> QED
    BY <1>2, <2>1 DEF Signal, callVars, Using
<1> QED
  BY <1>1, <1>2

LEMMA UsersKept ==
  ASSUME TypeOK, Control, NEW t \in Threads, Action(t), ~Increment(t), ~Leave(t),
         NEW m \in Mutexes
  PROVE  Users(m)' = Users(m)
<1>1. SameUsers(t)
  <2> USE DEF SameUsers, TypeOK, Goto, Return, At, callVars, blockerVars, Using
  <2>1. ASSUME NEW n \in Mutexes, TryLock(t, n) PROVE SameUsers(t)
    BY <2>1 DEF TryLock, TestAndSet
  <2>2. ASSUME NEW n \in Mutexes, Lock(t, n) PROVE SameUsers(t)
    BY <2>2 DEF Lock
  <2>3. ASSUME NEW n \in Mutexes, Unlock(t, n) PROVE SameUsers(t)
    BY <2>3 DEF Unlock, MayUnlock
  <2>4. CASE LockAcquired(t)
    BY <2>4 DEF LockAcquired, TestAndSet
  <2>5. CASE LockContended(t)
    BY <2>5 DEF LockContended
  <2>6. CASE LockRecursive(t)
    BY <2>6 DEF LockRecursive
  <2>7. CASE UnlockIsSome(t)
    BY <2>7 DEF UnlockIsSome
  <2>9. CASE Look(t)
    BY <2>9 DEF Look
  <2>10. CASE Create(t)
    BY <2>10 DEF Create
  <2>11. CASE Agree(t)
    BY <2>11 DEF Agree, NoneYet
  <2>12. CASE SaveLoser(t)
    BY <2>12 DEF SaveLoser, SaveUnused
  <2>13. CASE Acquire(t)
    BY <2>13 DEF Acquire
  <2>14. CASE LockCritical(t)
    BY <2>14 DEF LockCritical
  <2>15. CASE Wait(t)
    BY <2>15 DEF Wait
  <2>16. CASE Signal(t)
    BY <2>16 DEF Signal
  <2>17. CASE Reacquire(t)
    BY <2>17 DEF Reacquire
  <2>18. CASE Release(t)
    BY <2>18 DEF Release
  <2>20. CASE SaveLast(t)
    BY <2>20 DEF SaveLast, SaveUnused, AfterWithBlocker
  <2>21. CASE SpuriousWakeup(t)
    BY <2>21 DEF SpuriousWakeup
  <2> QED
    BY <2>1, <2>2, <2>3, <2>4, <2>5, <2>6, <2>7, <2>9, <2>10, <2>11,
       <2>12, <2>13, <2>14, <2>15, <2>16, <2>17, <2>18, <2>20, <2>21
       DEF Action, Step
<1>2. \A u \in Threads : (at[u] = m /\ pc[u] \in Using) <=> (at'[u] = m /\ pc'[u] \in Using)
  BY <1>1, OthersKeepUsing DEF SameUsers
<1> QED
  BY <1>2 DEF Users

LEMMA UsersIncrement ==
  ASSUME TypeOK, Control, NEW t \in Threads, Increment(t), NEW m \in Mutexes
  PROVE  /\ m = at[t] => t \notin Users(m) /\ Users(m)' = Users(m) \cup {t}
         /\ m # at[t] => Users(m)' = Users(m)
<1>1. at[t] \in Mutexes /\ at' = at
  BY DEF Increment, Control, ControlOf, At, callVars
<1>2. pc[t] \notin Using /\ pc'[t] \in Using
  BY DEF Increment, At, Goto, TypeOK, Using
<1>3. \A u \in Threads \ {t} : pc'[u] = pc[u]
  BY DEF Increment, Goto, TypeOK
<1> QED
  BY <1>1, <1>2, <1>3 DEF Users

LEMMA UsersLeave ==
  ASSUME TypeOK, Control, NEW t \in Threads, Leave(t), NEW m \in Mutexes
  PROVE  /\ m = at[t] => t \in Users(m) /\ Users(m)' = Users(m) \ {t}
         /\ m # at[t] => Users(m)' = Users(m)
<1>1. at[t] \in Mutexes
  BY DEF Leave, Control, ControlOf, At
<1>2. pc[t] \in Using /\ pc'[t] \notin Using
  BY DEF Leave, AfterWithBlocker, Return, At, Goto, TypeOK, Using
<1>3. \A u \in Threads \ {t} : pc'[u] = pc[u] /\ at'[u] = at[u]
  BY DEF Leave, AfterWithBlocker, Return, Goto, TypeOK, callVars
<1> QED
  BY <1>1, <1>2, <1>3 DEF Users

(* A user that counts alone is alone.                                      *)
LEMMA LastIsAlone ==
  ASSUME UsersCounted, NEW m \in Mutexes, num_using_blocker[m] = 1
  PROVE  \A t, u \in Users(m) : t = u
<1>1. IsFiniteSet(Users(m)) /\ Cardinality(Users(m)) = 1
  BY UsersFinite DEF UsersCounted
<1>2. PICK x : Users(m) = {x}
  BY <1>1, FS_Singleton
<1> QED
  BY <1>2

(* The count follows the users.                                            *)
LEMMA CountStep ==
  TypeOK /\ Control /\ UsersCounted /\ BlockersApart /\ [Next]_vars => UsersCounted'
<1> SUFFICES ASSUME TypeOK, Control, UsersCounted, BlockersApart, [Next]_vars
             PROVE  UsersCounted'
  OBVIOUS
<1> DEFINE Num(m) == num_using_blocker[m] = Cardinality(Users(m))
           Some(m) == blocker[m] # NoBlocker => Users(m) # {}
           Agreeing(m) == blocker[m] = NoBlocker =>
                            \A t \in Users(m) : pc[t] \in {"look", "create", "agree"}
<1>1. CASE UNCHANGED vars
  <2>1. \A m \in Mutexes : Users(m)' = Users(m)
    BY <1>1 DEF Users, vars, callVars
  <2> QED
    BY <1>1, <2>1 DEF vars, mutexVars, UsersCounted
<1>2. ASSUME NEW t \in Threads, Action(t) PROVE UsersCounted'
  <2> SUFFICES ASSUME NEW m \in Mutexes PROVE Num(m)' /\ Some(m)' /\ Agreeing(m)'
    BY DEF UsersCounted
  <2>0. /\ Num(m) /\ Some(m) /\ Agreeing(m) /\ IsFiniteSet(Users(m))
        /\ Cardinality(Users(m)) \in Nat
    BY UsersFinite, FS_CardinalityType DEF UsersCounted
  <2>1. CASE Increment(t)
    <3>1. Num(m)'
      <4>1. CASE m = at[t]
        <5>1. Cardinality(Users(m)') = Cardinality(Users(m)) + 1
          BY <2>0, <2>1, <4>1, UsersIncrement, FS_AddElement
        <5>2. num_using_blocker'[m] = num_using_blocker[m] + 1
          BY <2>1, <4>1 DEF Increment, TypeOK
        <5> QED
          BY <2>0, <5>1, <5>2
      <4>2. CASE m # at[t]
        <5>1. num_using_blocker'[m] = num_using_blocker[m]
          BY <2>1, <4>2 DEF Increment, TypeOK
        <5> QED
          BY <2>0, <2>1, <4>2, <5>1, UsersIncrement
      <4> QED
        BY <4>1, <4>2
    <3>2. Users(m)' = Users(m) \/ Users(m)' = Users(m) \cup {t}
      BY <2>1, UsersIncrement
    <3>3. blocker' = blocker /\ pc'[t] = "look" /\ \A u \in Threads \ {t} : pc'[u] = pc[u]
      BY <2>1 DEF Increment, Goto, TypeOK
    <3>4. \A u \in Users(m) : u \in Threads
      BY DEF Users
    <3>5. Some(m)'
      BY <2>0, <3>2, <3>3
    <3>6. Agreeing(m)'
      BY <2>0, <3>2, <3>3, <3>4
    <3> QED
      BY <3>1, <3>5, <3>6
  <2>2. CASE Leave(t)
    <3>0. at[t] \in Mutexes
      BY <2>2 DEF Leave, Control, ControlOf, At
    <3>1. CASE m = at[t]
      <4>1. t \in Users(m) /\ Users(m)' = Users(m) \ {t}
        BY <2>2, <3>1, UsersLeave
      <4>2. Cardinality(Users(m)') = Cardinality(Users(m)) - 1 /\ IsFiniteSet(Users(m)')
        BY <2>0, <4>1, FS_RemoveElement
      <4>3. num_using_blocker'[m] = num_using_blocker[m] - 1
        BY <2>2, <3>1 DEF Leave, TypeOK
      <4>4. Num(m)'
        BY <2>0, <4>2, <4>3
      <4>5. CASE IsLast(m)
        <5>1. \A u \in Users(m) : u = t
          BY <4>1, <4>5, LastIsAlone DEF IsLast
        <5>2. Users(m)' = {}
          BY <4>1, <5>1
        <5>3. blocker'[m] = NoBlocker
          BY <2>2, <3>1, <4>5 DEF Leave, TypeOK
        <5> QED
          BY <4>4, <5>2, <5>3
      <4>6. CASE ~IsLast(m)
        <5>1. Users(m)' # {}
          <6>1. Cardinality(Users(m)') # 0
            BY <2>0, <4>2, <4>6 DEF IsLast
          <6> QED
            BY <6>1, FS_EmptySet
        <5>2. blocker' = blocker
          BY <2>2, <3>1, <4>6 DEF Leave
        <5>3. blocker[m] # NoBlocker
          BY <2>0, <2>2, <4>1 DEF Leave, At
        <5> QED
          BY <4>4, <5>1, <5>2, <5>3
      <4> QED
        BY <4>5, <4>6
    <3>2. CASE m # at[t]
      <4>1. Users(m)' = Users(m) /\ t \notin Users(m)
        BY <2>2, <3>2, UsersLeave DEF Users
      <4>2. num_using_blocker'[m] = num_using_blocker[m] /\ blocker'[m] = blocker[m]
        BY <2>2, <3>0, <3>2 DEF Leave, TypeOK
      <4>3. \A u \in Threads \ {t} : pc'[u] = pc[u]
        BY <2>2 DEF Leave, AfterWithBlocker, Return, Goto, TypeOK
      <4>4. \A u \in Users(m) : pc'[u] = pc[u]
        BY <4>1, <4>3 DEF Users
      <4> QED
        BY <2>0, <4>1, <4>2, <4>4
    <3> QED
      BY <3>1, <3>2
  <2>3. CASE ~Increment(t) /\ ~Leave(t)
    <3>1. Users(m)' = Users(m)
      BY <1>2, <2>3, UsersKept
    <3>2. num_using_blocker' = num_using_blocker
      BY <1>2, <2>3 DEF Action, Step, TryLock, Lock, Unlock, LockAcquired, LockContended,
           LockRecursive, UnlockIsSome, Look, Create, Agree, SaveLoser, Acquire,
           LockCritical, Wait, Signal, Reacquire, Release, SaveLast, SpuriousWakeup, mutexVars
    <3>3. CASE Agree(t)
      <4>1. at[t] \in Mutexes /\ t \in Users(at[t]) /\ spare[t] # NoBlocker
        BY <3>3 DEF Agree, Control, ControlOf, At, Users, Using, HoldsSpare
      <4>2. /\ blocker'[at[t]] # NoBlocker
            /\ \A n \in Mutexes \ {at[t]} : blocker'[n] = blocker[n]
        BY <3>3, <4>1 DEF Agree, NoneYet, TypeOK
      <4>3. \A u \in Threads \ {t} : pc'[u] = pc[u]
        BY <3>3 DEF Agree, Goto, TypeOK
      <4>4. t \in Users(m) => m = at[t]
        BY DEF Users
      <4>5. Some(m)'
        BY <2>0, <3>1, <4>1, <4>2
      <4>6. Agreeing(m)'
        BY <2>0, <3>1, <4>2, <4>3, <4>4 DEF Users
      <4> QED
        BY <2>0, <3>1, <3>2, <4>5, <4>6
    <3>4. CASE ~Agree(t)
      <4>1. blocker' = blocker
        BY <1>2, <2>3, <3>4 DEF Action, Step, TryLock, Lock, Unlock, LockAcquired,
           LockContended, LockRecursive, UnlockIsSome, Look, Create, SaveLoser, Acquire,
           LockCritical, Wait, Signal, Reacquire, Release, SaveLast, SpuriousWakeup, mutexVars
      <4>2. \A u \in Users(m) \ {t} : pc'[u] = pc[u] \/ pc[u] = "waiting"
        BY <1>2, OthersStep DEF Others, Users, Signal, Waiting, At, Goto, TypeOK
      <4>3. ASSUME t \in Users(m), blocker[m] = NoBlocker PROVE pc'[t] \in {"create", "agree"}
        <5>1. m = at[t] /\ pc[t] \in {"look", "create", "agree"}
          BY <2>0, <4>3 DEF Users
        <5>2. Look(t) \/ Create(t)
          BY <1>2, <3>4, <5>1 DEF Action, Step, TryLock, Lock, Unlock, LockAcquired,
             LockContended, LockRecursive, UnlockIsSome, Increment, SaveLoser, Acquire, Leave,
             LockCritical, Wait, Signal, Reacquire, Release, SaveLast, SpuriousWakeup, At
        <5> QED
          BY <4>3, <5>1, <5>2 DEF Look, Create, Goto, TypeOK
      <4>4. Agreeing(m)'
        BY <2>0, <3>1, <4>1, <4>2, <4>3
      <4> QED
        BY <2>0, <3>1, <3>2, <4>1, <4>4
    <3> QED
      BY <3>3, <3>4
  <2> QED
    BY <2>1, <2>2, <2>3
<1> QED
  BY <1>1, <1>2, NextIsAction
-----------------------------------------------------------------------------
(* The two halves of BlockersApart: the users of a mutex agree on its      *)
(* blocker, and a blocker has one place.                                   *)
Agreement == \A t \in Threads : mine[t] # NoBlocker => mine[t] = blocker[at[t]]
OnePlace ==
  /\ \A m, n \in Mutexes : blocker[m] = blocker[n] /\ blocker[m] # NoBlocker => m = n
  /\ \A t, u \in Threads : spare[t] = spare[u] /\ spare[t] # NoBlocker => t = u
  /\ \A t \in Threads, m \in Mutexes : spare[t] = blocker[m] => spare[t] = NoBlocker
  /\ \A t \in Threads : spare[t] \notin unused
  /\ \A m \in Mutexes : blocker[m] \notin unused

LEMMA ApartParts == BlockersApart <=> Agreement /\ OnePlace
BY DEF BlockersApart, Agreement, OnePlace

LEMMA MineIsUser ==
  ASSUME Control, NEW t \in Threads, mine[t] # NoBlocker
  PROVE  at[t] \in Mutexes /\ t \in Users(at[t])
BY DEF Control, ControlOf, At, Users, AgreedOn, Using

LEMMA AgreementStep ==
  TypeOK /\ Control /\ UsersCounted /\ Agreement /\ [Next]_vars => Agreement'
<1> SUFFICES ASSUME TypeOK, Control, UsersCounted, Agreement, [Next]_vars PROVE Agreement'
  OBVIOUS
<1>1. CASE UNCHANGED vars
  BY <1>1 DEF vars, mutexVars, callVars, blockerVars, Agreement
<1>2. ASSUME NEW t \in Threads, Action(t), NEW u \in Threads, mine'[u] # NoBlocker
      PROVE  mine'[u] = blocker'[at'[u]]
  <2>0. ~At(t, "idle") => at[t] \in Mutexes
    BY DEF Control, ControlOf
  <2>1. CASE Look(t)
    BY <1>2, <2>0, <2>1 DEF Look, Agreement, TypeOK, mutexVars, callVars, At
  <2>2. CASE Agree(t)
    <3>1. CASE u = t
      BY <2>0, <2>2, <3>1 DEF Agree, TypeOK, callVars, At
    <3>2. CASE u # t
      <4>1. mine'[u] = mine[u] /\ mine[u] = blocker[at[u]] /\ at' = at
        BY <1>2, <2>2, <3>2 DEF Agree, TypeOK, callVars, Agreement
      <4>2. at[u] \in Mutexes
        BY <1>2, <4>1, MineIsUser
      <4>3. blocker'[at[u]] = blocker[at[u]]
        BY <1>2, <2>0, <2>2, <4>1, <4>2 DEF Agree, NoneYet, TypeOK, At
      <4> QED
        BY <4>1, <4>3
    <3> QED
      BY <3>1, <3>2
  <2>3. CASE Leave(t)
    <3>1. u # t
      BY <1>2, <2>3 DEF Leave, TypeOK
    <3>2. mine'[u] = mine[u] /\ at'[u] = at[u]
      BY <2>3, <3>1 DEF Leave, AfterWithBlocker, Return, callVars, TypeOK
    <3>3. mine[u] = blocker[at[u]] /\ at[u] \in Mutexes /\ u \in Users(at[u])
      BY <1>2, <3>2, MineIsUser DEF Agreement
    <3>4. blocker'[at[u]] = blocker[at[u]]
      <4>1. CASE at[u] = at[t] /\ IsLast(at[t])
        <5>1. t \in Users(at[t])
          BY <2>0, <2>3, UsersLeave DEF Leave, At
        <5> QED
          BY <2>0, <3>1, <3>3, <4>1, <5>1, LastIsAlone DEF IsLast
      <4>2. CASE ~(at[u] = at[t] /\ IsLast(at[t]))
        BY <2>3, <3>3, <4>2 DEF Leave, TypeOK
      <4> QED
        BY <4>1, <4>2
    <3> QED
      BY <3>2, <3>3, <3>4
  <2>4. ASSUME ~Look(t), ~Agree(t), ~Leave(t) PROVE mine' = mine /\ blocker' = blocker
    BY <1>2, <2>4 DEF Action, Step, TryLock, Lock, Unlock, LockAcquired, LockContended,
       LockRecursive, UnlockIsSome, Increment, Create, SaveLoser, Acquire, LockCritical,
       Wait, Signal, Reacquire, Release, SaveLast, SpuriousWakeup, mutexVars, blockerVars
  <2>5. ASSUME ~Look(t), ~Agree(t), ~Leave(t) PROVE at'[u] = at[u]
    <3>1. CASE u # t
      BY <1>2, <3>1, OthersKeepUsing
    <3>2. CASE u = t
      <4>1. pc[t] \in AgreedOn
        BY <1>2, <2>4, <2>5, <3>2 DEF Control, ControlOf
      <4> QED
        BY <1>2, <2>5, <3>2, <4>1 DEF Action, Step, TryLock, Lock, Unlock, LockAcquired,
           LockContended, LockRecursive, UnlockIsSome, Increment, Create, SaveLoser, Acquire,
           LockCritical, Wait, Signal, Reacquire, Release, SaveLast, SpuriousWakeup,
           callVars, At, AgreedOn
    <3> QED
      BY <3>1, <3>2
  <2>6. CASE ~Look(t) /\ ~Agree(t) /\ ~Leave(t)
    BY <1>2, <2>4, <2>5, <2>6 DEF Agreement
  <2> QED
    BY <2>1, <2>2, <2>3, <2>6
<1> QED
  BY <1>1, <1>2, NextIsAction DEF Agreement

LEMMA OnePlaceStep ==
  TypeOK /\ Control /\ MadeBefore /\ Agreement /\ OnePlace /\ [Next]_vars => OnePlace'
<1> SUFFICES ASSUME TypeOK, Control, MadeBefore, Agreement, OnePlace, [Next]_vars
             PROVE  OnePlace'
  OBVIOUS
<1>1. CASE UNCHANGED <<blocker, spare, unused>>
  BY <1>1 DEF OnePlace
<1>2. ASSUME NEW t \in Threads, Action(t) PROVE OnePlace'
  <2>0. ~At(t, "idle") => at[t] \in Mutexes
    BY DEF Control, ControlOf
  <2>1. CASE Create(t)
    <3>1. \A u \in Threads \ {t} : spare'[u] = spare[u]
      BY <2>1 DEF Create, TypeOK
    <3>2. blocker' = blocker /\ unused' \subseteq unused
      BY <2>1 DEF Create, mutexVars
    <3>3. /\ spare'[t] \notin unused'
          /\ \A u \in Threads \ {t} : spare[u] # spare'[t]
          /\ \A m \in Mutexes : blocker[m] # spare'[t]
      <4>1. CASE spare'[t] \in unused /\ unused' = unused \ {spare'[t]}
        BY <4>1 DEF OnePlace
      <4>2. CASE spare'[t] = made + 1 /\ unused' = {}
        BY <4>2 DEF MadeBefore, TypeOK
      <4> QED
        BY <2>1, <4>1, <4>2 DEF Create, TypeOK
    <3> QED
      BY <3>1, <3>2, <3>3 DEF OnePlace
  <2>2. CASE Agree(t) /\ NoneYet(at[t])
    <3>1. at[t] \in Mutexes /\ spare[t] # NoBlocker
      BY <2>2 DEF Agree, Control, ControlOf, At, HoldsSpare
    <3>2. /\ blocker'[at[t]] = spare[t] /\ spare'[t] = NoBlocker /\ unused' = unused
          /\ \A m \in Mutexes \ {at[t]} : blocker'[m] = blocker[m]
          /\ \A u \in Threads \ {t} : spare'[u] = spare[u]
      BY <2>2, <3>1 DEF Agree, TypeOK, cacheVars
    <3>3. NoBlocker \notin unused
      BY DEF TypeOK, NoBlocker
    <3> QED
      BY <3>1, <3>2, <3>3 DEF OnePlace
  <2>3. CASE SaveLoser(t) \/ SaveLast(t)
    <3>1. spare[t] # NoBlocker
      BY <2>3 DEF SaveLoser, SaveLast, Control, ControlOf, At, HoldsSpare
    <3>2. /\ blocker' = blocker /\ spare'[t] = NoBlocker /\ unused' = unused \cup {spare[t]}
          /\ \A u \in Threads \ {t} : spare'[u] = spare[u]
      BY <2>3 DEF SaveLoser, SaveLast, SaveUnused, TypeOK, mutexVars
    <3>3. NoBlocker \notin unused
      BY DEF TypeOK, NoBlocker
    <3> QED
      BY <3>1, <3>2, <3>3 DEF OnePlace
  <2>4. CASE Leave(t) /\ IsLast(at[t])
    <3>1. at[t] \in Mutexes /\ mine[t] # NoBlocker /\ mine[t] = blocker[at[t]]
      BY <2>4 DEF Leave, Control, ControlOf, At, AgreedOn, Agreement
    <3>2. /\ blocker'[at[t]] = NoBlocker /\ spare'[t] = blocker[at[t]] /\ unused' = unused
          /\ \A m \in Mutexes \ {at[t]} : blocker'[m] = blocker[m]
          /\ \A u \in Threads \ {t} : spare'[u] = spare[u]
      BY <2>4, <3>1 DEF Leave, TypeOK, cacheVars
    <3>3. NoBlocker \notin unused
      BY DEF TypeOK, NoBlocker
    <3> QED
      BY <3>1, <3>2, <3>3 DEF OnePlace
  <2>5. \/ Create(t) \/ SaveLoser(t) \/ SaveLast(t)
        \/ Agree(t) /\ NoneYet(at[t])
        \/ Leave(t) /\ IsLast(at[t])
        \/ UNCHANGED <<blocker, spare, unused>>
    BY <1>2 DEF Action, Step, TryLock, Lock, Unlock, LockAcquired, LockContended, Agree, Leave,
       LockRecursive, UnlockIsSome, Increment, Look, Acquire, LockCritical, Wait, Signal,
       Reacquire, Release, SpuriousWakeup, mutexVars, cacheVars, blockerVars
  <2> QED
    BY <1>1, <2>1, <2>2, <2>3, <2>4, <2>5
<1> QED
  BY <1>1, <1>2, NextIsAction DEF vars, mutexVars, cacheVars, blockerVars
-----------------------------------------------------------------------------
(* Who keeps a signal from being missed.  The interesting steps are an     *)
(* unlock (the unlocker will signal), the test of a locker that finds the  *)
(* mutex free (it does not wait), the unlocker that finds no blocker       *)
(* (nobody waits), and the signal itself.                                  *)
Waits(m) == \E t \in Threads : at[t] = m /\ CommittedToWait(t)
Guarded(m) == \E u \in Threads : at[u] = m /\ WillWake(u)

(* A step other than an unlock or a signal that lets t stop guarding at[t] *)
(* leaves the mutex locked or without waiting threads.                     *)
LEMMA OwnGuard ==
  ASSUME TypeOK, Control, UsersCounted, Agreement, NEW t \in Threads, Action(t), ~Signal(t),
         NEW m \in Mutexes, at[t] = m, WillWake(t), ~(at'[t] = m /\ WillWake(t)'),
         ~IsLocked(m)'
  PROVE  ~Waits(m)
<1> USE DEF TypeOK, WillWake, CommittedToWait, BeforeSignal, Goto, Return, At, IsLocked
<1>0. ControlOf(t)
  BY DEF Control
<1>1. CASE UnlockIsSome(t)
  <2>1. blocker[m] = NoBlocker
    BY <1>1 DEF UnlockIsSome, NeedsSignal, callVars
  <2>2. \A u \in Threads : at[u] = m => mine[u] = NoBlocker
    BY <2>1 DEF Agreement
  <2> QED
    BY <2>2 DEF Waits, Control, ControlOf, AgreedOn
<1>2. CASE LockAcquired(t)
  BY <1>2, NanoMutexAssumption DEF LockAcquired, TestAndSet
<1>3. CASE LockRecursive(t)
  BY <1>3, <1>0, NanoMutexAssumption DEF LockRecursive, ControlOf, callVars, mutexVars
<1>4. CASE LockCritical(t)
  BY <1>4 DEF LockCritical, MustWait, callVars, mutexVars
<1>5. ~At(t, "idle")
  BY <1>0 DEF ControlOf
<1>6. Step(t) \/ SpuriousWakeup(t)
  BY <1>5 DEF Action, TryLock, Lock, Unlock
<1> USE DEF ControlOf, callVars, blockerVars
<1>7. ASSUME ~UnlockIsSome(t), ~LockAcquired(t), ~LockRecursive(t), ~LockCritical(t)
      PROVE  at'[t] = m /\ WillWake(t)'
  <2>5. CASE LockContended(t)
    BY <2>5, <1>0 DEF LockContended
  <2>8. CASE Increment(t)
    BY <2>8, <1>0 DEF Increment
  <2>9. CASE Look(t)
    BY <2>9, <1>0 DEF Look
  <2>10. CASE Create(t)
    BY <2>10, <1>0 DEF Create
  <2>11. CASE Agree(t)
    BY <2>11, <1>0 DEF Agree, NoneYet
  <2>12. CASE SaveLoser(t)
    BY <2>12, <1>0 DEF SaveLoser, SaveUnused
  <2>13. CASE Acquire(t)
    BY <2>13, <1>0 DEF Acquire
  <2>15. CASE Wait(t)
    BY <2>15, <1>0 DEF Wait
  <2>17. CASE Reacquire(t)
    BY <2>17, <1>0 DEF Reacquire
  <2>18. CASE Release(t)
    BY <2>18, <1>0 DEF Release
  <2>19. CASE Leave(t)
    BY <2>19, <1>0 DEF Leave, AfterWithBlocker
  <2>20. CASE SaveLast(t)
    BY <2>20, <1>0 DEF SaveLast, SaveUnused, AfterWithBlocker
  <2>21. CASE SpuriousWakeup(t)
    BY <2>21, <1>0 DEF SpuriousWakeup
  <2> QED
    BY <1>6, <1>7, <2>5, <2>8, <2>9, <2>10, <2>11, <2>12, <2>13, <2>15, <2>17,
       <2>18, <2>19, <2>20, <2>21
       DEF Step
<1> QED
  BY <1>1, <1>2, <1>3, <1>4, <1>7

(* Only LockCritical, which has just seen the mutex locked, adds a thread  *)
(* that is committed to waiting.                                           *)
LEMMA NewWaiter ==
  ASSUME TypeOK, Control, NEW t \in Threads, Action(t), NEW u \in Threads,
         CommittedToWait(u)', ~CommittedToWait(u)
  PROVE  LockCritical(t) /\ u = t /\ MustWait(at[t]) /\ at'[t] = at[t]
<1> USE DEF TypeOK, CommittedToWait, Goto, Return, At
<1>1. CASE u # t
  BY <1>1, OthersStep DEF Others, Signal, Waiting
<1>2. CASE u = t /\ LockCritical(t)
  BY <1>2 DEF LockCritical, callVars
<1>3. CASE u = t /\ ~LockCritical(t)
  <2>1. ASSUME NEW m \in Mutexes, TryLock(t, m) PROVE FALSE
    BY <2>1, <1>3 DEF TryLock, TestAndSet
  <2>2. ASSUME NEW m \in Mutexes, Lock(t, m) PROVE FALSE
    BY <2>2, <1>3 DEF Lock
  <2>3. ASSUME NEW m \in Mutexes, Unlock(t, m) PROVE FALSE
    BY <2>3, <1>3 DEF Unlock, MayUnlock
  <2>4. CASE LockAcquired(t)
    BY <2>4, <1>3 DEF LockAcquired, TestAndSet
  <2>5. CASE LockContended(t)
    BY <2>5, <1>3 DEF LockContended
  <2>6. CASE LockRecursive(t)
    BY <2>6, <1>3 DEF LockRecursive
  <2>7. CASE UnlockIsSome(t)
    BY <2>7, <1>3 DEF UnlockIsSome
  <2>8. CASE Increment(t)
    BY <2>8, <1>3 DEF Increment
  <2>9. CASE Look(t)
    BY <2>9, <1>3 DEF Look
  <2>10. CASE Create(t)
    BY <2>10, <1>3 DEF Create
  <2>11. CASE Agree(t)
    BY <2>11, <1>3 DEF Agree, NoneYet
  <2>12. CASE SaveLoser(t)
    BY <2>12, <1>3 DEF SaveLoser, SaveUnused
  <2>13. CASE Acquire(t)
    BY <2>13, <1>3 DEF Acquire
  <2>15. CASE Wait(t)
    BY <2>15, <1>3 DEF Wait
  <2>16. CASE Signal(t)
    BY <2>16, <1>3 DEF Signal
  <2>17. CASE Reacquire(t)
    BY <2>17, <1>3 DEF Reacquire
  <2>18. CASE Release(t)
    BY <2>18, <1>3 DEF Release
  <2>19. CASE Leave(t)
    BY <2>19, <1>3 DEF Leave, AfterWithBlocker
  <2>20. CASE SaveLast(t)
    BY <2>20, <1>3 DEF SaveLast, SaveUnused, AfterWithBlocker
  <2>21. CASE SpuriousWakeup(t)
    BY <2>21, <1>3 DEF SpuriousWakeup
  <2> QED
    BY <1>3, <2>1, <2>2, <2>3, <2>4, <2>5, <2>6, <2>7, <2>8, <2>9, <2>10,
       <2>11, <2>12, <2>13, <2>15, <2>16, <2>17, <2>18, <2>19, <2>20, <2>21
       DEF Action, Step
<1> QED
  BY <1>1, <1>2, <1>3

LEMMA OldWaiter ==
  ASSUME TypeOK, Control, NEW t \in Threads, Action(t), NEW u \in Threads,
         CommittedToWait(u)
  PROVE  at'[u] = at[u]
<1>1. CASE u # t
  BY <1>1, OthersKeepUsing
<1>2. CASE u = t
  <2>1. Wait(t) \/ Reacquire(t) \/ SpuriousWakeup(t)
    BY <1>2 DEF Action, Step, TryLock, Lock, Unlock, LockAcquired, LockContended,
       LockRecursive, UnlockIsSome, Increment, Look, Create, Agree, SaveLoser, Acquire,
       LockCritical, Signal, Release, Leave, SaveLast, CommittedToWait, At
  <2> QED
    BY <1>2, <2>1 DEF Wait, Reacquire, SpuriousWakeup, callVars
<1> QED
  BY <1>1, <1>2

LEMMA SignalStep ==
  TypeOK /\ Control /\ UsersCounted /\ Agreement /\ OnePlace /\ OneInside /\ NoMissedSignal
    /\ [Next]_vars
    => NoMissedSignal'
<1> SUFFICES ASSUME TypeOK, Control, UsersCounted, Agreement, OnePlace, OneInside, NoMissedSignal,
                    [Next]_vars
             PROVE  NoMissedSignal'
  OBVIOUS
<1>1. CASE UNCHANGED vars
  BY <1>1 DEF vars, mutexVars, callVars, NoMissedSignal, CommittedToWait, IsLocked, WillWake
<1>2. ASSUME NEW t \in Threads, Action(t), NEW m \in Mutexes, ~IsLocked(m)', Waits(m)'
      PROVE  Guarded(m)'
  <2>0. PICK w \in Threads : at'[w] = m /\ CommittedToWait(w)'
    BY <1>2 DEF Waits
  <2>1. CASE \E n \in Mutexes : Unlock(t, n)
    <3>1. PICK n \in Mutexes : Unlock(t, n)
      BY <2>1
    <3>2. CASE n = m
      BY <3>1, <3>2 DEF Guarded, Unlock, WillWake, BeforeSignal, Goto, TypeOK
    <3>3. CASE n # m
      <4>1. ~IsLocked(m) /\ \A u \in Threads \ {t} : pc'[u] = pc[u] /\ at'[u] = at[u]
                                                    /\ op'[u] = op[u]
        BY <1>2, <3>1, <3>3 DEF Unlock, Goto, TypeOK, IsLocked
      <4>2. at[t] # m /\ at'[t] # m
        BY <3>1, <3>3, NanoMutexAssumption DEF Unlock, Control, ControlOf, TypeOK
      <4>3. Waits(m)
        BY <2>0, <4>1, <4>2 DEF Waits, CommittedToWait
      <4>4. PICK u \in Threads : at[u] = m /\ WillWake(u)
        BY <4>1, <4>3 DEF NoMissedSignal, Waits
      <4> QED
        BY <4>1, <4>2, <4>4 DEF Guarded, WillWake, CommittedToWait
    <3> QED
      BY <3>2, <3>3
  <2>2. CASE Signal(t)
    <3>1. UNCHANGED <<at, op, mine, blocker>> /\ ~IsLocked(m)
      BY <1>2, <2>2 DEF Signal, callVars, blockerVars, mutexVars, IsLocked
    <3>2. CommittedToWait(w) /\ w # t
      BY <2>0, <2>2 DEF Signal, CommittedToWait, Waiting, Goto, TypeOK, At
    <3>3. /\ mine[t] # NoBlocker /\ mine[t] = blocker[at[t]] /\ at[t] \in Mutexes
          /\ mine[w] # NoBlocker /\ mine[w] = blocker[at[w]]
      BY <2>2, <3>2 DEF Signal, At, CommittedToWait, Control, ControlOf, AgreedOn, Agreement
    <3>4. CASE at[t] # m
      <4>1. PICK u \in Threads : at[u] = m /\ WillWake(u)
        BY <2>0, <3>1, <3>2 DEF NoMissedSignal
      <4>2. u # t /\ ~At(u, "waiting")
        BY <3>4, <4>1 DEF WillWake, CommittedToWait, BeforeSignal, At
      <4>3. pc'[u] = pc[u]
        BY <2>2, <4>2 DEF Signal, Waiting, Goto, TypeOK
      <4> QED
        BY <3>1, <4>1, <4>3 DEF Guarded, WillWake, CommittedToWait
    <3>5. CASE at[t] = m
      <4>1. mine[w] = mine[t]
        BY <2>0, <3>1, <3>3, <3>5
      <4>2. ~At(w, "wait")
        BY <2>2, <3>2, <4>1 DEF OneInside, Inside, Signal, At
      <4>3. w \in Waiting(mine[t])
        BY <3>2, <4>1, <4>2 DEF Waiting, CommittedToWait, At
      <4>4. PICK u \in Waiting(mine[t]) : pc' = [pc EXCEPT ![t] = "release", ![u] = "reacquire"]
        BY <2>2, <4>3 DEF Signal
      <4>5. u \in Threads /\ mine[u] = mine[t] /\ pc[u] = "waiting" /\ pc'[u] = "reacquire"
        BY <4>4 DEF Waiting, At, TypeOK
      <4>6. op[u] = "lock"
        BY <4>5 DEF Control, ControlOf
      <4>7. at[u] = m
        BY <3>3, <3>5, <4>5 DEF Control, ControlOf, At, Agreement, OnePlace
      <4> QED
        BY <3>1, <4>5, <4>6, <4>7 DEF Guarded, WillWake, CommittedToWait
    <3> QED
      BY <3>4, <3>5
  <2>3. ASSUME ~(\E n \in Mutexes : Unlock(t, n)), ~Signal(t) PROVE Guarded(m)'
    <3>1. Others(t)
      BY <1>2, <2>3, OthersStep
    <3>2. ~IsLocked(m)
      BY <1>2, <2>3, NanoMutexAssumption DEF Action, Step, TryLock, Lock, LockAcquired,
         LockContended, LockRecursive, UnlockIsSome, Increment, Look, Create, Agree, SaveLoser,
         Acquire, LockCritical, Wait, Reacquire, Release, Leave, SaveLast, SpuriousWakeup,
         mutexVars, TestAndSet, IsLocked, TypeOK, Control, ControlOf, At
    <3>3. Waits(m)
      <4>1. CASE CommittedToWait(w)
        <5>1. at[w] = at'[w]
          BY <1>2, <2>0, <4>1, OldWaiter
        <5> QED
          BY <2>0, <4>1, <5>1 DEF Waits
      <4>2. CASE ~CommittedToWait(w)
        BY <1>2, <2>0, <3>2, <4>2, NewWaiter DEF MustWait
      <4> QED
        BY <4>1, <4>2
    <3>4. PICK u \in Threads : at[u] = m /\ WillWake(u)
      BY <3>2, <3>3 DEF NoMissedSignal, Waits
    <3>5. CASE u # t
      BY <3>1, <3>4, <3>5 DEF Others, Guarded, WillWake, CommittedToWait
    <3>6. CASE u = t
      BY <1>2, <2>3, <3>3, <3>4, <3>6, OwnGuard DEF Guarded
    <3> QED
      BY <3>5, <3>6
  <2> QED
    BY <2>1, <2>2, <2>3
<1> QED
  BY <1>1, <1>2, NextIsAction DEF NoMissedSignal, Waits, Guarded
-----------------------------------------------------------------------------
(* Every step preserves the inductive invariant.                           *)
LEMMA NextIInv == IInv /\ [Next]_vars => IInv'
<1> SUFFICES ASSUME IInv, [Next]_vars PROVE IInv'
  OBVIOUS
<1>1. Agreement /\ OnePlace
  BY ApartParts DEF IInv
<1>2. TypeOK' /\ MutualExclusion'
  BY TypeStep, MutexStep DEF IInv
<1>3. UsersCounted' /\ NoMissedSignal'
  BY <1>1, CountStep, SignalStep DEF IInv
<1>4. BlockersApart'
  BY <1>1, ApartParts, AgreementStep, OnePlaceStep, PTL DEF IInv
<1>5. Control' /\ MadeBefore' /\ OneInside'
  BY ControlStep, MadeStep, InsideStep DEF IInv
<1> QED
  BY <1>2, <1>3, <1>4, <1>5 DEF IInv

(* Nano_mutex keeps its promise of safety and its promise that no signal   *)
(* is missed, for any number of threads and mutexes (nano_mutex.ml:62-74). *)
THEOREM NanoMutexCorrect ==
  Spec => [](TypeOK /\ MutualExclusion /\ FunctionInvariant /\ NoMissedSignal)
<1>1. IInv => TypeOK /\ MutualExclusion /\ FunctionInvariant /\ NoMissedSignal
  BY DEF IInv, FunctionInvariant
<1> QED
  BY <1>1, InitIInv, NextIInv, PTL DEF Spec

(* What the code's invariant asserts of the users and blockers holds at    *)
(* every switch between threads.                                           *)
THEOREM InvariantHolds == Spec => []FunctionInvariant
<1>1. TypeOK /\ MutualExclusion /\ FunctionInvariant /\ NoMissedSignal => FunctionInvariant
  OBVIOUS
<1> QED
  BY <1>1, NanoMutexCorrect, PTL
-----------------------------------------------------------------------------
(* Only t's own calls write t into id_of_thread_holding_lock or take it    *)
(* out: between the two tests of lock the answer cannot change.            *)
LEMMA RecursionStep ==
  ASSUME TypeOK, Control, NEW t \in Threads, Action(t), NEW u \in Threads, At(u, "recursive")
  PROVE  (id_of_thread_holding_lock[at[u]] = u) = (id_of_thread_holding_lock'[at[u]] = u)
<1> USE DEF TypeOK, At
<1>0. at[u] \in Mutexes
  BY DEF Control, ControlOf
<1>1. ASSUME NEW m \in Mutexes, TestAndSet(t, m), u # t
      PROVE  (id_of_thread_holding_lock[at[u]] = u) <=> (id_of_thread_holding_lock'[at[u]] = u)
  BY <1>0, <1>1, NanoMutexAssumption DEF TestAndSet, IsLocked
<1>2. ASSUME NEW m \in Mutexes, Unlock(t, m)
      PROVE  (id_of_thread_holding_lock[at[u]] = u) <=> (id_of_thread_holding_lock'[at[u]] = u)
  BY <1>0, <1>2, NanoMutexAssumption DEF Unlock, MayUnlock
<1>3. CASE \E m \in Mutexes : TryLock(t, m)
  BY <1>1, <1>3 DEF TryLock
<1>4. CASE LockAcquired(t)
  BY <1>1, <1>4 DEF LockAcquired, Control, ControlOf
<1>5. CASE \E m \in Mutexes : Unlock(t, m)
  BY <1>2, <1>5
<1>6. CASE UNCHANGED id_of_thread_holding_lock
  BY <1>6
<1>7. \/ \E m \in Mutexes : TryLock(t, m) \/ Unlock(t, m)
      \/ LockAcquired(t) \/ UNCHANGED id_of_thread_holding_lock
  BY DEF Action, Step, Lock, LockContended, LockRecursive, UnlockIsSome, Increment, Look,
     Create, Agree, SaveLoser, Acquire, LockCritical, Wait, Signal, Reacquire, Release,
     Leave, SaveLast, SpuriousWakeup, mutexVars
<1> QED
  BY <1>3, <1>4, <1>5, <1>6, <1>7

(* A recursive lock is detected and no other lock is taken for one: what   *)
(* lock's second test sees is what the first would have seen               *)
(* (nano_mutex.ml:197-203).                                                *)
THEOREM RecursionIsDetected == Spec => RecursionTestStable
<1>1. IInv /\ [Next]_vars =>
        [\A t \in Threads : At(t, "recursive") =>
           (id_of_thread_holding_lock[at[t]] = t) = (id_of_thread_holding_lock'[at[t]] = t)]_vars
  BY RecursionStep, NextIsAction DEF IInv
<1> QED
  BY <1>1, InitIInv, NextIInv, PTL DEF Spec, RecursionTestStable
-----------------------------------------------------------------------------
(* The refinement of Lock: what a thread wants is the mutex its call of    *)
(* lock is about, from the call to its return.                             *)
Wanted == [t \in Threads |-> IF op[t] = "lock" THEN at[t] ELSE NoMutex]

(* A step that changes neither the holders nor what is wanted is one the   *)
(* callers do not see.                                                     *)
LEMMA Unseen ==
  ASSUME UNCHANGED id_of_thread_holding_lock,
         \A u \in Threads : op'[u] = "lock" <=> op[u] = "lock",
         \A u \in Threads : op[u] = "lock" => at'[u] = at[u]
  PROVE  UNCHANGED <<id_of_thread_holding_lock, Wanted>>
BY DEF Wanted

(* The call of lock, its return and an unlock are steps of Lock; all the   *)
(* rest of the code happens behind the callers' back.                      *)
LEMMA LockStep ==
  ASSUME TypeOK, Control, NEW t \in Threads, Action(t)
  PROVE  \/ \E m \in Mutexes :
              \/ Promise!Want(t, m) \/ Promise!Acquire(t, m) \/ Promise!Refuse(t, m)
              \/ Promise!Take(t, m) \/ Promise!Release(t, m)
         \/ UNCHANGED <<id_of_thread_holding_lock, Wanted>>
<1> USE DEF TypeOK, At, Goto, Return, mutexVars, callVars
<1>0. ControlOf(t)
  BY DEF Control
<1> DEFINE Seen(m) == \/ Promise!Want(t, m) \/ Promise!Acquire(t, m) \/ Promise!Refuse(t, m)
                      \/ Promise!Take(t, m) \/ Promise!Release(t, m)
           Hidden == UNCHANGED <<id_of_thread_holding_lock, Wanted>>
<1>1. ASSUME NEW m \in Mutexes, TryLock(t, m) PROVE Promise!Take(t, m)
  BY <1>0, <1>1 DEF TryLock, TestAndSet, IsLocked, ControlOf, Promise!Take
<1>2. ASSUME NEW m \in Mutexes, Lock(t, m) PROVE Promise!Want(t, m)
  BY <1>0, <1>2 DEF Lock, ControlOf, Promise!Want
<1>3. ASSUME NEW m \in Mutexes, Unlock(t, m) PROVE Promise!Release(t, m)
  BY <1>0, <1>3 DEF Unlock, MayUnlock, ControlOf, Promise!Release
<1>4. ASSUME NEW m \in Mutexes, at[t] = m, LockAcquired(t) PROVE Promise!Acquire(t, m)
  BY <1>0, <1>4 DEF LockAcquired, TestAndSet, IsLocked, ControlOf, Promise!Acquire
<1>5. ASSUME NEW m \in Mutexes, at[t] = m, LockRecursive(t), id_of_thread_holding_lock[m] = t
      PROVE  Promise!Refuse(t, m)
  BY <1>0, <1>5 DEF LockRecursive, ControlOf, Promise!Refuse
<1>6. ASSUME LockRecursive(t), id_of_thread_holding_lock[at[t]] # t PROVE Hidden
  BY <1>6, Unseen DEF LockRecursive
<1>7. ASSUME UnlockIsSome(t) PROVE Hidden
  BY <1>0, <1>7, Unseen DEF UnlockIsSome, ControlOf
<1>8. ASSUME Leave(t) PROVE Hidden
  <2>1. CASE op[t] = "lock"
    BY <1>8, <2>1, Unseen DEF Leave, AfterWithBlocker
  <2>2. CASE op[t] # "lock"
    BY <1>8, <2>2, Unseen DEF Leave, AfterWithBlocker
  <2> QED
    BY <2>1, <2>2
<1>9. ASSUME SaveLast(t) PROVE Hidden
  <2>1. CASE op[t] = "lock"
    BY <1>9, <2>1, Unseen DEF SaveLast, AfterWithBlocker
  <2>2. CASE op[t] # "lock"
    BY <1>9, <2>2, Unseen DEF SaveLast, AfterWithBlocker
  <2> QED
    BY <2>1, <2>2
<1>10. ASSUME UNCHANGED <<id_of_thread_holding_lock, at, op>> PROVE Hidden
  BY <1>10, Unseen
<1>11. \/ \E m \in Mutexes : TryLock(t, m) \/ Lock(t, m) \/ Unlock(t, m)
       \/ LockAcquired(t) \/ LockRecursive(t) \/ UnlockIsSome(t) \/ Leave(t) \/ SaveLast(t)
       \/ UNCHANGED <<id_of_thread_holding_lock, at, op>>
  BY DEF Action, Step, LockContended, Increment, Look, Create, Agree, SaveLoser, Acquire,
     LockCritical, Wait, Signal, Reacquire, Release, SpuriousWakeup
<1> HIDE DEF Hidden
<1>12. LockAcquired(t) \/ LockRecursive(t) => (\E m \in Mutexes : Seen(m)) \/ Hidden
  <2> SUFFICES ASSUME LockAcquired(t) \/ LockRecursive(t)
               PROVE  (\E m \in Mutexes : Seen(m)) \/ Hidden
    OBVIOUS
  <2>1. PICK m \in Mutexes : at[t] = m
    BY <1>0 DEF LockAcquired, LockRecursive, ControlOf
  <2> QED
    BY <2>1, <1>4, <1>5, <1>6
<1>13. (\E m \in Mutexes : TryLock(t, m) \/ Lock(t, m) \/ Unlock(t, m))
         => \E m \in Mutexes : Seen(m)
  BY <1>1, <1>2, <1>3
<1>14. (\E m \in Mutexes : Seen(m)) \/ Hidden
  BY <1>7, <1>8, <1>9, <1>10, <1>11, <1>12, <1>13
<1> QED
  BY <1>14 DEF Hidden

(* Nano_mutex implements Lock, whose callers see a mutex taken, given back *)
(* and refused to its holder in single steps (nano_mutex.ml:112-232).      *)
THEOREM ImplementsItsPromise == Spec => ImplementsLock
<1>1. Init => Promise!Init
  BY DEF Init, Promise!Init
<1>2. TypeOK /\ Control /\ [Next]_vars => [Promise!Next]_<<id_of_thread_holding_lock, Wanted>>
  <2>1. CASE UNCHANGED vars
    BY <2>1 DEF vars, mutexVars, callVars, Wanted
  <2>2. ASSUME TypeOK, Control, NEW t \in Threads, Action(t)
        PROVE  Promise!Next \/ UNCHANGED <<id_of_thread_holding_lock, Wanted>>
    BY <2>2, LockStep DEF Promise!Next
  <2> QED
    BY <2>1, <2>2, NextIsAction
<1>3. IInv => TypeOK /\ Control
  BY DEF IInv
<1> QED
  BY <1>1, <1>2, <1>3, InitIInv, NextIInv, PTL DEF Spec, ImplementsLock, Promise!Spec, Wanted
=============================================================================
