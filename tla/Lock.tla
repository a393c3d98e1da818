-------------------------------- MODULE Lock --------------------------------
(***************************************************************************)
(* What a mutex promises its callers: a free mutex goes to one of the      *)
(* threads that want it, a held one is given back by its holder only, and  *)
(* it does not stay free for ever while a thread wants it.                 *)
(***************************************************************************)
CONSTANTS Threads, Mutexes, NoThread, NoMutex

VARIABLES
  holder,  \* who holds each mutex
  wants    \* the mutex each thread waits for

Init ==
  /\ holder = [m \in Mutexes |-> NoThread]
  /\ wants = [t \in Threads |-> NoMutex]

Want(t, m) ==
  /\ wants[t] = NoMutex
  /\ wants' = [wants EXCEPT ![t] = m]
  /\ UNCHANGED holder

Acquire(t, m) ==
  /\ wants[t] = m /\ holder[m] = NoThread
  /\ holder' = [holder EXCEPT ![m] = t]
  /\ wants' = [wants EXCEPT ![t] = NoMutex]

(* A thread that waits for a mutex it already holds is told so.            *)
Refuse(t, m) ==
  /\ wants[t] = m /\ holder[m] = t
  /\ wants' = [wants EXCEPT ![t] = NoMutex]
  /\ UNCHANGED holder

(* Taking a free mutex without waiting for it.                             *)
Take(t, m) ==
  /\ wants[t] = NoMutex /\ holder[m] = NoThread
  /\ holder' = [holder EXCEPT ![m] = t]
  /\ UNCHANGED wants

Release(t, m) ==
  /\ wants[t] = NoMutex /\ holder[m] = t
  /\ holder' = [holder EXCEPT ![m] = NoThread]
  /\ UNCHANGED wants

Next == \E t \in Threads, m \in Mutexes :
  Want(t, m) \/ Acquire(t, m) \/ Refuse(t, m) \/ Take(t, m) \/ Release(t, m)

Spec == Init /\ [][Next]_<<holder, wants>>

(* A free mutex that a thread wants is eventually held.                    *)
HandedOver == \A m \in Mutexes :
  (holder[m] = NoThread /\ \E t \in Threads : wants[t] = m)
    ~> (holder[m] # NoThread)
=============================================================================
