----------------------------- MODULE UnixProofs -----------------------------
(***************************************************************************)
(* Proofs about two parts of Async's unix library.                         *)
(*                                                                         *)
(* SelectLoop, for any number of threads, finalizers, signals and file     *)
(* descriptors: no interrupt of the select loop is missed, and what select *)
(* returns is known to the watcher.  Whatever the loop must see to is      *)
(* Announced from the moment it comes to be until the loop looks at it:    *)
(* either the loop is Roused, or it is at a label from which it looks at   *)
(* it before it next sleeps.  The flag being truthful (FlagTruth) is what  *)
(* keeps Roused true when a thread finds the flag set and does not write.  *)
(*                                                                         *)
(* Writer and WriterSave, for buffers, strings, iovecs and streams of any  *)
(* length and any number of flushes: the bytes reach the system in order   *)
(* and once, a flush that is answered is true, no bytes and no flush are   *)
(* forgotten, and a save renames a whole file.  The invariant says where   *)
(* in memory each byte of the stream is that the system has not yet got    *)
(* (QueueHolds, Holds), and that no bigstring loses its contents while the *)
(* queue refers to it (LastUse, Below).                                    *)
(***************************************************************************)
EXTENDS SelectLoop, WriterSave, SelectionProofs

(* Who holds the lock, by where each thread is.                            *)
Control ==
  /\ \A th \in Threads : pc[th] \in {"locked", "unlock"} => lock = th
  /\ \A th \in Threads : At(th, "idle") => lock # th
  /\ pc[Loop] \notin {"selecting", "returned", "stopped"} <=> lock = Loop

Clearing == {"clear", "cleared"}
Announced ==
  /\ Roused \/ finalizer_jobs = {} \/ pc[Loop] \in Clearing \cup {"finalizers"}
  /\ Roused \/ delivered = {} \/ pc[Loop] \in Clearing \cup {"finalizers", "signals"}
  /\ Roused \/ ~uncaught_exception \/ ~Told("uncaught_exception")
       \/ pc[Loop] \in Clearing \cup {"finalizers", "signals", "cycle", "watch", "stopped"}
  /\ Roused \/ ~jobs \/ ~Told("jobs") \/ maybe_jobs_remain
       \/ pc[Loop] \in Clearing \cup {"finalizers", "signals", "cycle"}
  /\ Roused \/ stopping = {}

(* What the loop holds to between its cycle and its clear.                 *)
Sleeping ==
  /\ pc[Loop] \in Clearing \cup {"finalizers", "signals", "cycle"} => stopping = {}
  /\ pc[Loop] \in {"pre_check", "selecting", "returned", "post_check"} =>
       Interruptor \in watching
  /\ At(Loop, "selecting") =>
       /\ Interruptor \in watched
       /\ maybe_jobs_remain => timeout = "Zero"
       /\ Roused \/ next_event = "none" \/ ~Told("next_event") \/ timeout # "Forever"
       /\ Roused \/ watching \subseteq watched

(* The bytes in the pipe, and to come, while the flag is set and not.      *)
Writers == {a \in Actors : At(a, "write")}
BytesComing == pipe + Cardinality(Writers)
Flag == IF already_interrupted THEN 1 ELSE 0
Short ==
  /\ BytesComing <= Cardinality(Actors) + Flag
  /\ At(Loop, "cleared") => BytesComing <= Cardinality(Threads) + Flag

IInv == TypeOK /\ Control /\ FlagTruth /\ KnowsWhatItFound /\ Announced /\ Sleeping
        /\ Short
-----------------------------------------------------------------------------
(* What select returns: whether to retry, and some of what it was given.   *)
LEMMA FoundType ==
  ASSUME NEW S
  PROVE  \A b \in BOOLEAN : \A r \in SUBSET S :
           [retry |-> b, ready |-> r] \in [retry : BOOLEAN, ready : SUBSET S]
OBVIOUS

(* An actor goes on to one of its own labels.                              *)
Steps(p) ==
  /\ p \in [Actors -> LoopLabels \cup ThreadLabels]
  /\ \A a \in Actors : p[a] \in IF a = Loop THEN LoopLabels ELSE ThreadLabels

LEMMA LoopGoes ==
  ASSUME TypeOK, NEW l \in LoopLabels, Goto(Loop, l)
  PROVE  Steps(pc')
BY SelectLoopAssumption DEF TypeOK, Actors, LoopLabels, ThreadLabels, Goto, Steps

(* Every step keeps the types.                                             *)
LEMMA TypeStep ==
  ASSUME TypeOK, [Next]_vars
  PROVE  TypeOK'
<1> USE SelectLoopAssumption DEF TypeOK, Actors, LoopLabels, ThreadLabels, At, Goto
<1>1. ASSUME NEW th \in Threads, Lock(th) PROVE TypeOK'
  BY <1>1 DEF Lock, interruptVars, asyncVars, watcherVars, selectVars
<1>2. ASSUME NEW th \in Threads, RunACycle(th) PROVE TypeOK'
  BY <1>2
     DEF RunACycle, CycleEffects, WatchRequests, ToStop, AfterCycle, interruptVars, asyncVars,
         watcherVars, selectVars
<1>2a. ASSUME NEW th \in Threads, RunNoCycle(th) PROVE TypeOK'
  <2>1. PICK started \in SUBSET Fds, stopped \in SUBSET Fds, l \in {"interrupt", "unlock"} :
          /\ WatchRequests(started, stopped) /\ CodeEffects /\ Goto(th, l)
    BY <1>2a DEF RunNoCycle
  <2>2. untold' \subseteq {"jobs", "next_event", "uncaught_exception"}
    BY <1>2a DEF RunNoCycle, NewToTheLoop
  <2>3. Steps(pc')
    BY <2>1 DEF Steps
  <2>4. /\ watching' \subseteq Fds \cup {Interruptor} /\ stopping' \subseteq Fds
        /\ jobs' \in BOOLEAN /\ next_event' \in {"none", "future", "due"}
        /\ uncaught_exception' \in BOOLEAN
    BY <2>1 DEF WatchRequests, CodeEffects, ToStop
  <2>5. UNCHANGED <<lock, interruptVars, finalizer_jobs, delivered, selectVars, ready,
                    uses>>
    BY <1>2a DEF RunNoCycle
  <2> QED
    BY <2>2, <2>3, <2>4, <2>5 DEF Steps, interruptVars, selectVars
<1>3. ASSUME NEW th \in Threads, Unlock(th) PROVE TypeOK'
  BY <1>3 DEF Unlock, interruptVars, asyncVars, watcherVars, selectVars
<1>4. ASSUME NEW th \in Threads, NEW f \in Finalizers, Finalize(th, f) PROVE TypeOK'
  BY <1>4 DEF Finalize, interruptVars, asyncVars, watcherVars, selectVars
<1>5. ASSUME NEW th \in Threads, NEW s \in Signals, HandleSignal(th, s) PROVE TypeOK'
  BY <1>5 DEF HandleSignal, interruptVars, asyncVars, watcherVars, selectVars
<1>6. ASSUME NEW a \in Actors, Interrupt(a) PROVE TypeOK'
  BY <1>6
     DEF Interrupt, MustWrite, After, interruptVars, asyncVars, watcherVars,
         selectVars
<1>7. ASSUME NEW a \in Actors, WriteByte(a) PROVE TypeOK'
  BY <1>7 DEF WriteByte, After, interruptVars, asyncVars, watcherVars, selectVars
<1>8. CASE LoopCycle
  <2>1. PICK started \in SUBSET Fds, stopped \in SUBSET Fds :
          /\ CycleEffects(started, stopped)
          /\ Goto(Loop, IF started \cup stopped # {} THEN "interrupt" ELSE "watch")
    BY <1>8 DEF LoopCycle
  <2>2. Steps(pc')
    <3>1. PICK l \in {"interrupt", "watch"} : Goto(Loop, l)
      BY <2>1 DEF Goto
    <3> QED BY <3>1, LoopGoes
  <2>3. /\ watching' \subseteq Fds \cup {Interruptor} /\ stopping' \subseteq Fds
        /\ jobs' \in BOOLEAN /\ next_event' \in {"none", "future", "due"}
        /\ uncaught_exception' \in BOOLEAN
    BY <2>1 DEF CycleEffects, WatchRequests, ToStop
  <2>4. /\ maybe_jobs_remain' \in {jobs', FALSE} /\ untold' \subseteq {"jobs"}
        /\ UNCHANGED <<lock, interruptVars, finalizer_jobs, delivered, timeout, watched,
                       found, ready, uses>>
    BY <1>8 DEF LoopCycle
  <2> QED BY <2>2, <2>3, <2>4 DEF Steps, interruptVars
<1>9. CASE WatchInterruptor
  BY <1>9
     DEF WatchInterruptor, interruptVars, asyncVars, watcherVars, selectVars
<1>10. CASE PreCheck
  BY <1>10
     DEF PreCheck, ComputeTimeout, interruptVars, asyncVars, watcherVars,
         selectVars
<1>11. CASE SelectReturns \/ SelectInterrupted
  <2>1. ReadyNow \subseteq Fds \cup {Interruptor}
    BY DEF ReadyNow
  <2>2. \/ found' = [retry |-> FALSE, ready |-> ReadyNow]
        \/ found' = [retry |-> TRUE, ready |-> {}]
    BY <1>11 DEF SelectReturns, SelectInterrupted, SelectEnds
  <2>3. found' \in [retry : BOOLEAN, ready : SUBSET (Fds \cup {Interruptor})]
    <3>1. PICK S, R : S = Fds \cup {Interruptor} /\ R = ReadyNow
      OBVIOUS
    <3>2. R \in SUBSET S /\ {} \in SUBSET S
      BY <2>1, <3>1
    <3>3. /\ [retry |-> FALSE, ready |-> R] \in [retry : BOOLEAN, ready : SUBSET S]
          /\ [retry |-> TRUE, ready |-> {}] \in [retry : BOOLEAN, ready : SUBSET S]
      BY <3>2
    <3> QED BY <2>2, <3>1, <3>3
  <2>4. Steps(pc')
    BY <1>11, LoopGoes DEF SelectReturns, SelectInterrupted, SelectEnds
  <2>5. UNCHANGED <<lock, interruptVars, finalizer_jobs, delivered, asyncVars,
                    watcherVars, maybe_jobs_remain, timeout, watched, ready, uses, untold>>
    BY <1>11 DEF SelectReturns, SelectInterrupted, SelectEnds
  <2>6. /\ lock' \in Actors \cup {NoThread} /\ already_interrupted' \in BOOLEAN /\ pipe' \in Nat
        /\ finalizer_jobs' \subseteq Finalizers /\ delivered' \subseteq Signals
        /\ jobs' \in BOOLEAN /\ next_event' \in {"none", "future", "due"}
    BY <2>5 DEF interruptVars, asyncVars
  <2>7. /\ uncaught_exception' \in BOOLEAN
        /\ watching' \subseteq Fds \cup {Interruptor} /\ stopping' \subseteq Fds
        /\ maybe_jobs_remain' \in BOOLEAN /\ timeout' \in {"Zero", "Wait_for", "Forever"}
        /\ watched' \subseteq Fds \cup {Interruptor} /\ ready' \subseteq Fds
        /\ uses' \in Programs /\ untold' \subseteq {"jobs", "next_event", "uncaught_exception"}
    BY <2>5 DEF asyncVars, watcherVars
  <2> QED
    BY <2>3, <2>4, <2>6, <2>7 DEF Steps
<1>12. CASE LoopLock
  BY <1>12 DEF LoopLock, interruptVars, asyncVars, watcherVars, selectVars
<1>13. CASE PostCheck
  <2>1. CASE UNCHANGED <<watcherVars, selectVars>> /\ Goto(Loop, "pre_check")
    BY <1>13, <2>1
       DEF PostCheck, interruptVars, asyncVars, watcherVars, selectVars
  <2>2. CASE /\ SelectForgotten /\ Goto(Loop, "clear")
             /\ watching' = watching \ found.ready /\ stopping' = {}
    <3>1. found' \in [retry : BOOLEAN, ready : SUBSET (Fds \cup {Interruptor})]
      BY <2>2 DEF SelectForgotten, Nothing
    <3> QED
      BY <1>13, <2>2, <3>1
         DEF PostCheck, SelectForgotten, interruptVars, asyncVars
  <2> QED
    BY <1>13, <2>1, <2>2 DEF PostCheck
<1>14. CASE Clear
  BY <1>14 DEF Clear, interruptVars, asyncVars, watcherVars, selectVars
<1>15. CASE ResetFlag
  BY <1>15
     DEF ResetFlag, FlagCleared, interruptVars, asyncVars, watcherVars,
         selectVars
<1>16. CASE HandleFinalizers
  BY <1>16
     DEF HandleFinalizers, interruptVars, asyncVars, watcherVars, selectVars
<1>17. CASE HandleDelivered
  <2>1. Steps(pc')
    BY <1>17, LoopGoes DEF HandleDelivered
  <2>2. delivered' = {} /\ jobs' \in BOOLEAN /\ next_event' \in {"none", "future", "due"}
        /\ uncaught_exception' \in BOOLEAN
    BY <1>17 DEF HandleDelivered, CodeEffects
  <2>3. UNCHANGED <<lock, interruptVars, finalizer_jobs, watcherVars, selectVars,
                    ready, uses, untold>>
    BY <1>17 DEF HandleDelivered
  <2> QED BY <2>1, <2>2, <2>3 DEF Steps, interruptVars, watcherVars, selectVars
<1>18. CASE Tick
  BY <1>18 DEF Tick, interruptVars, asyncVars, watcherVars, selectVars
<1>19. CASE World
  BY <1>19 DEF World, interruptVars, asyncVars, watcherVars, selectVars
<1>20. CASE UNCHANGED vars
  BY <1>20 DEF vars, interruptVars, asyncVars, watcherVars, selectVars
<1> QED BY <1>1, <1>2, <1>2a, <1>3, <1>4, <1>5, <1>6, <1>7, <1>8, <1>9, <1>10, <1>11,
  <1>12, <1>13, <1>14, <1>15, <1>16, <1>17, <1>18, <1>19, <1>20 DEF Next,
  ThreadStep, LoopStep

(* The lock is where the labels say.                                       *)
LEMMA ControlStep ==
  ASSUME TypeOK, Control, [Next]_vars
  PROVE  Control'
<1> USE SelectLoopAssumption DEF TypeOK, Control, Actors, LoopLabels, ThreadLabels, At, Goto
<1>1. ASSUME NEW th \in Threads, Lock(th) PROVE Control'
  BY <1>1 DEF Lock, interruptVars, asyncVars, watcherVars, selectVars
<1>2. ASSUME NEW th \in Threads, RunACycle(th) PROVE Control'
  BY <1>2
     DEF RunACycle, CycleEffects, WatchRequests, ToStop, AfterCycle, interruptVars, asyncVars,
         watcherVars, selectVars
<1>2a. ASSUME NEW th \in Threads, RunNoCycle(th) PROVE Control'
  BY <1>2a
     DEF RunNoCycle, WatchRequests, CodeEffects, NewToTheLoop, ToStop, interruptVars, asyncVars,
         watcherVars, selectVars
<1>3. ASSUME NEW th \in Threads, Unlock(th) PROVE Control'
  BY <1>3 DEF Unlock, interruptVars, asyncVars, watcherVars, selectVars
<1>4. ASSUME NEW th \in Threads, NEW f \in Finalizers, Finalize(th, f) PROVE Control'
  BY <1>4 DEF Finalize, interruptVars, asyncVars, watcherVars, selectVars
<1>5. ASSUME NEW th \in Threads, NEW s \in Signals, HandleSignal(th, s) PROVE Control'
  BY <1>5 DEF HandleSignal, interruptVars, asyncVars, watcherVars, selectVars
<1>6. ASSUME NEW a \in Actors, Interrupt(a) PROVE Control'
  BY <1>6
     DEF Interrupt, MustWrite, After, interruptVars, asyncVars, watcherVars,
         selectVars
<1>7. ASSUME NEW a \in Actors, WriteByte(a) PROVE Control'
  BY <1>7 DEF WriteByte, After, interruptVars, asyncVars, watcherVars, selectVars
<1>8. CASE LoopCycle
  BY <1>8
     DEF LoopCycle, CycleEffects, WatchRequests, ToStop, interruptVars, asyncVars,
         watcherVars, selectVars
<1>9. CASE WatchInterruptor
  BY <1>9
     DEF WatchInterruptor, interruptVars, asyncVars, watcherVars, selectVars
<1>10. CASE PreCheck
  BY <1>10
     DEF PreCheck, ComputeTimeout, interruptVars, asyncVars, watcherVars,
         selectVars
<1>11. CASE SelectReturns \/ SelectInterrupted
  BY <1>11
     DEF SelectReturns, SelectInterrupted, SelectEnds, ReadyNow, interruptVars, asyncVars, watcherVars, selectVars
<1>12. CASE LoopLock
  BY <1>12 DEF LoopLock, interruptVars, asyncVars, watcherVars, selectVars
<1>13. CASE PostCheck
  BY <1>13
     DEF PostCheck, SelectForgotten, Nothing, interruptVars, asyncVars,
         watcherVars, selectVars
<1>14. CASE Clear
  BY <1>14 DEF Clear, interruptVars, asyncVars, watcherVars, selectVars
<1>15. CASE ResetFlag
  BY <1>15
     DEF ResetFlag, FlagCleared, interruptVars, asyncVars, watcherVars,
         selectVars
<1>16. CASE HandleFinalizers
  BY <1>16
     DEF HandleFinalizers, interruptVars, asyncVars, watcherVars, selectVars
<1>17. CASE HandleDelivered
  BY <1>17
     DEF HandleDelivered, CodeEffects, interruptVars, asyncVars, watcherVars, selectVars
<1>18. CASE Tick
  BY <1>18 DEF Tick, interruptVars, asyncVars, watcherVars, selectVars
<1>19. CASE World
  BY <1>19 DEF World, interruptVars, asyncVars, watcherVars, selectVars
<1>20. CASE UNCHANGED vars
  BY <1>20 DEF vars, interruptVars, asyncVars, watcherVars, selectVars
<1> QED BY <1>1, <1>2, <1>2a, <1>3, <1>4, <1>5, <1>6, <1>7, <1>8, <1>9, <1>10, <1>11,
  <1>12, <1>13, <1>14, <1>15, <1>16, <1>17, <1>18, <1>19, <1>20 DEF Next,
  ThreadStep, LoopStep

(* Once roused, the loop stays so until it clears.                         *)
LEMMA RousedStays ==
  ASSUME TypeOK, FlagTruth, Roused, pc[Loop] \notin Clearing, [Next]_vars
  PROVE  Roused'
<1> USE SelectLoopAssumption DEF TypeOK, FlagTruth, AboutToWrite, Roused, Clearing, Actors, At, Goto, After
<1>1. ASSUME NEW th \in Threads, Lock(th) PROVE Roused'
  BY <1>1 DEF Lock, interruptVars, asyncVars, watcherVars, selectVars
<1>2. ASSUME NEW th \in Threads, RunACycle(th) PROVE Roused'
  BY <1>2
     DEF RunACycle, CycleEffects, WatchRequests, ToStop, AfterCycle, interruptVars, asyncVars,
         watcherVars, selectVars
<1>2a. ASSUME NEW th \in Threads, RunNoCycle(th) PROVE Roused'
  BY <1>2a
     DEF RunNoCycle, WatchRequests, CodeEffects, NewToTheLoop, ToStop, interruptVars, asyncVars,
         watcherVars, selectVars
<1>3. ASSUME NEW th \in Threads, Unlock(th) PROVE Roused'
  BY <1>3 DEF Unlock, interruptVars, asyncVars, watcherVars, selectVars
<1>4. ASSUME NEW th \in Threads, NEW f \in Finalizers, Finalize(th, f) PROVE Roused'
  BY <1>4 DEF Finalize, interruptVars, asyncVars, watcherVars, selectVars
<1>5. ASSUME NEW th \in Threads, NEW s \in Signals, HandleSignal(th, s) PROVE Roused'
  BY <1>5 DEF HandleSignal, interruptVars, asyncVars, watcherVars, selectVars
<1>6. ASSUME NEW a \in Actors, Interrupt(a) PROVE Roused'
  BY <1>6
     DEF Interrupt, MustWrite, After, interruptVars, asyncVars, watcherVars,
         selectVars
<1>7. ASSUME NEW a \in Actors, WriteByte(a) PROVE Roused'
  BY <1>7 DEF WriteByte, After, interruptVars, asyncVars, watcherVars, selectVars
<1>8. CASE LoopCycle
  BY <1>8
     DEF LoopCycle, CycleEffects, WatchRequests, ToStop, interruptVars, asyncVars,
         watcherVars, selectVars
<1>9. CASE WatchInterruptor
  BY <1>9
     DEF WatchInterruptor, interruptVars, asyncVars, watcherVars, selectVars
<1>10. CASE PreCheck
  BY <1>10
     DEF PreCheck, ComputeTimeout, interruptVars, asyncVars, watcherVars,
         selectVars
<1>11. CASE SelectReturns \/ SelectInterrupted
  BY <1>11
     DEF SelectReturns, SelectInterrupted, SelectEnds, ReadyNow, interruptVars, asyncVars, watcherVars, selectVars
<1>12. CASE LoopLock
  BY <1>12 DEF LoopLock, interruptVars, asyncVars, watcherVars, selectVars
<1>13. CASE PostCheck
  BY <1>13
     DEF PostCheck, SelectForgotten, Nothing, interruptVars, asyncVars,
         watcherVars, selectVars
<1>14. CASE Clear
  BY <1>14 DEF Clear, interruptVars, asyncVars, watcherVars, selectVars
<1>15. CASE ResetFlag
  BY <1>15
     DEF ResetFlag, FlagCleared, interruptVars, asyncVars, watcherVars,
         selectVars
<1>16. CASE HandleFinalizers
  BY <1>16
     DEF HandleFinalizers, interruptVars, asyncVars, watcherVars, selectVars
<1>17. CASE HandleDelivered
  BY <1>17
     DEF HandleDelivered, CodeEffects, interruptVars, asyncVars, watcherVars, selectVars
<1>18. CASE Tick
  BY <1>18 DEF Tick, interruptVars, asyncVars, watcherVars, selectVars
<1>19. CASE World
  BY <1>19 DEF World, interruptVars, asyncVars, watcherVars, selectVars
<1>20. CASE UNCHANGED vars
  BY <1>20 DEF vars, interruptVars, asyncVars, watcherVars, selectVars
<1> QED BY <1>1, <1>2, <1>2a, <1>3, <1>4, <1>5, <1>6, <1>7, <1>8, <1>9, <1>10, <1>11,
  <1>12, <1>13, <1>14, <1>15, <1>16, <1>17, <1>18, <1>19, <1>20 DEF Next,
  ThreadStep, LoopStep

(* The flag stays truthful.                                                *)
LEMMA FlagStep ==
  ASSUME TypeOK, FlagTruth, [Next]_vars
  PROVE  FlagTruth'
<1> USE SelectLoopAssumption DEF TypeOK, FlagTruth, AboutToWrite, Actors, At, Goto, After
<1>1. ASSUME NEW th \in Threads, Lock(th) PROVE FlagTruth'
  BY <1>1 DEF Lock, interruptVars, asyncVars, watcherVars, selectVars
<1>2. ASSUME NEW th \in Threads, RunACycle(th) PROVE FlagTruth'
  BY <1>2
     DEF RunACycle, CycleEffects, WatchRequests, ToStop, AfterCycle, interruptVars, asyncVars,
         watcherVars, selectVars
<1>2a. ASSUME NEW th \in Threads, RunNoCycle(th) PROVE FlagTruth'
  BY <1>2a
     DEF RunNoCycle, WatchRequests, CodeEffects, NewToTheLoop, ToStop, interruptVars, asyncVars,
         watcherVars, selectVars
<1>3. ASSUME NEW th \in Threads, Unlock(th) PROVE FlagTruth'
  BY <1>3 DEF Unlock, interruptVars, asyncVars, watcherVars, selectVars
<1>4. ASSUME NEW th \in Threads, NEW f \in Finalizers, Finalize(th, f) PROVE FlagTruth'
  BY <1>4 DEF Finalize, interruptVars, asyncVars, watcherVars, selectVars
<1>5. ASSUME NEW th \in Threads, NEW s \in Signals, HandleSignal(th, s) PROVE FlagTruth'
  BY <1>5 DEF HandleSignal, interruptVars, asyncVars, watcherVars, selectVars
<1>6. ASSUME NEW a \in Actors, Interrupt(a) PROVE FlagTruth'
  BY <1>6
     DEF Interrupt, MustWrite, After, interruptVars, asyncVars, watcherVars,
         selectVars
<1>7. ASSUME NEW a \in Actors, WriteByte(a) PROVE FlagTruth'
  BY <1>7 DEF WriteByte, After, interruptVars, asyncVars, watcherVars, selectVars
<1>8. CASE LoopCycle
  BY <1>8
     DEF LoopCycle, CycleEffects, WatchRequests, ToStop, interruptVars, asyncVars,
         watcherVars, selectVars
<1>9. CASE WatchInterruptor
  BY <1>9
     DEF WatchInterruptor, interruptVars, asyncVars, watcherVars, selectVars
<1>10. CASE PreCheck
  BY <1>10
     DEF PreCheck, ComputeTimeout, interruptVars, asyncVars, watcherVars,
         selectVars
<1>11. CASE SelectReturns \/ SelectInterrupted
  BY <1>11
     DEF SelectReturns, SelectInterrupted, SelectEnds, ReadyNow, interruptVars, asyncVars, watcherVars, selectVars
<1>12. CASE LoopLock
  BY <1>12 DEF LoopLock, interruptVars, asyncVars, watcherVars, selectVars
<1>13. CASE PostCheck
  BY <1>13
     DEF PostCheck, SelectForgotten, Nothing, interruptVars, asyncVars,
         watcherVars, selectVars
<1>14. CASE Clear
  BY <1>14 DEF Clear, interruptVars, asyncVars, watcherVars, selectVars
<1>15. CASE ResetFlag
  BY <1>15
     DEF ResetFlag, FlagCleared, interruptVars, asyncVars, watcherVars,
         selectVars
<1>16. CASE HandleFinalizers
  BY <1>16
     DEF HandleFinalizers, interruptVars, asyncVars, watcherVars, selectVars
<1>17. CASE HandleDelivered
  BY <1>17
     DEF HandleDelivered, CodeEffects, interruptVars, asyncVars, watcherVars, selectVars
<1>18. CASE Tick
  BY <1>18 DEF Tick, interruptVars, asyncVars, watcherVars, selectVars
<1>19. CASE World
  BY <1>19 DEF World, interruptVars, asyncVars, watcherVars, selectVars
<1>20. CASE UNCHANGED vars
  BY <1>20 DEF vars, interruptVars, asyncVars, watcherVars, selectVars
<1> QED BY <1>1, <1>2, <1>2a, <1>3, <1>4, <1>5, <1>6, <1>7, <1>8, <1>9, <1>10, <1>11,
  <1>12, <1>13, <1>14, <1>15, <1>16, <1>17, <1>18, <1>19, <1>20 DEF Next,
  ThreadStep, LoopStep

(* What select was called with stays known to the watcher.                *)
LEMMA KnowsStep ==
  ASSUME TypeOK, Control, KnowsWhatItFound, [Next]_vars
  PROVE  KnowsWhatItFound'
<1> USE SelectLoopAssumption DEF TypeOK, Control, KnowsWhatItFound, Actors, At, Goto, After
<1>1. ASSUME NEW th \in Threads, Lock(th) PROVE KnowsWhatItFound'
  BY <1>1 DEF Lock, interruptVars, asyncVars, watcherVars, selectVars
<1>2. ASSUME NEW th \in Threads, RunACycle(th) PROVE KnowsWhatItFound'
  BY <1>2
     DEF RunACycle, CycleEffects, WatchRequests, ToStop, AfterCycle, interruptVars, asyncVars,
         watcherVars, selectVars
<1>2a. ASSUME NEW th \in Threads, RunNoCycle(th) PROVE KnowsWhatItFound'
  BY <1>2a
     DEF RunNoCycle, WatchRequests, CodeEffects, NewToTheLoop, ToStop, interruptVars, asyncVars,
         watcherVars, selectVars
<1>3. ASSUME NEW th \in Threads, Unlock(th) PROVE KnowsWhatItFound'
  BY <1>3 DEF Unlock, interruptVars, asyncVars, watcherVars, selectVars
<1>4. ASSUME NEW th \in Threads, NEW f \in Finalizers, Finalize(th, f) PROVE KnowsWhatItFound'
  BY <1>4 DEF Finalize, interruptVars, asyncVars, watcherVars, selectVars
<1>5. ASSUME NEW th \in Threads, NEW s \in Signals, HandleSignal(th, s) PROVE KnowsWhatItFound'
  BY <1>5 DEF HandleSignal, interruptVars, asyncVars, watcherVars, selectVars
<1>6. ASSUME NEW a \in Actors, Interrupt(a) PROVE KnowsWhatItFound'
  BY <1>6
     DEF Interrupt, MustWrite, After, interruptVars, asyncVars, watcherVars,
         selectVars
<1>7. ASSUME NEW a \in Actors, WriteByte(a) PROVE KnowsWhatItFound'
  BY <1>7 DEF WriteByte, After, interruptVars, asyncVars, watcherVars, selectVars
<1>8. CASE LoopCycle
  BY <1>8
     DEF LoopCycle, CycleEffects, WatchRequests, ToStop, interruptVars, asyncVars,
         watcherVars, selectVars
<1>9. CASE WatchInterruptor
  BY <1>9
     DEF WatchInterruptor, interruptVars, asyncVars, watcherVars, selectVars
<1>10. CASE PreCheck
  BY <1>10
     DEF PreCheck, ComputeTimeout, interruptVars, asyncVars, watcherVars,
         selectVars
<1>11. CASE SelectReturns \/ SelectInterrupted
  BY <1>11
     DEF SelectReturns, SelectInterrupted, SelectEnds, ReadyNow, interruptVars, asyncVars, watcherVars, selectVars
<1>12. CASE LoopLock
  BY <1>12 DEF LoopLock, interruptVars, asyncVars, watcherVars, selectVars
<1>13. CASE PostCheck
  BY <1>13
     DEF PostCheck, SelectForgotten, Nothing, interruptVars, asyncVars,
         watcherVars, selectVars
<1>14. CASE Clear
  BY <1>14 DEF Clear, interruptVars, asyncVars, watcherVars, selectVars
<1>15. CASE ResetFlag
  BY <1>15
     DEF ResetFlag, FlagCleared, interruptVars, asyncVars, watcherVars,
         selectVars
<1>16. CASE HandleFinalizers
  BY <1>16
     DEF HandleFinalizers, interruptVars, asyncVars, watcherVars, selectVars
<1>17. CASE HandleDelivered
  BY <1>17
     DEF HandleDelivered, CodeEffects, interruptVars, asyncVars, watcherVars, selectVars
<1>18. CASE Tick
  BY <1>18 DEF Tick, interruptVars, asyncVars, watcherVars, selectVars
<1>19. CASE World
  BY <1>19 DEF World, interruptVars, asyncVars, watcherVars, selectVars
<1>20. CASE UNCHANGED vars
  BY <1>20 DEF vars, interruptVars, asyncVars, watcherVars, selectVars
<1> QED BY <1>1, <1>2, <1>2a, <1>3, <1>4, <1>5, <1>6, <1>7, <1>8, <1>9, <1>10, <1>11,
  <1>12, <1>13, <1>14, <1>15, <1>16, <1>17, <1>18, <1>19, <1>20 DEF Next,
  ThreadStep, LoopStep

(* What is announced stays so until the loop looks at it.                  *)
LEMMA AnnouncedStep ==
  ASSUME TypeOK, Control, FlagTruth, KnowsWhatItFound, Announced, Sleeping, [Next]_vars
  PROVE  Announced'
<1> USE SelectLoopAssumption DEF TypeOK, Control, Announced, Sleeping, Told, Clearing, Actors, At, Goto, After
<1>a. Roused /\ pc[Loop] \notin Clearing => Roused'
  BY RousedStays
<1>b. (\E a \in Actors : pc[a] \in {"interrupt", "write"}) => Roused
  BY DEF Roused
<1>c. (\E a \in Actors : pc'[a] \in {"interrupt", "write"}) => Roused'
  BY DEF Roused
<1>d. Loop \in Actors /\ Loop \notin Threads /\ Threads \subseteq Actors
  OBVIOUS
<1> USE <1>a, <1>b, <1>c, <1>d
<1>1. ASSUME NEW th \in Threads, Lock(th) PROVE Announced'
  BY <1>1 DEF Lock, interruptVars, asyncVars, watcherVars, selectVars
<1>2. ASSUME NEW th \in Threads, RunACycle(th) PROVE Announced'
  BY <1>2
     DEF RunACycle, CycleEffects, WatchRequests, ToStop, AfterCycle, interruptVars, asyncVars,
         watcherVars, selectVars
<1>2a. ASSUME NEW th \in Threads, RunNoCycle(th) PROVE Announced'
  BY <1>2a
     DEF RunNoCycle, WatchRequests, CodeEffects, NewToTheLoop, ToStop, interruptVars, asyncVars,
         watcherVars, selectVars
<1>3. ASSUME NEW th \in Threads, Unlock(th) PROVE Announced'
  BY <1>3 DEF Unlock, interruptVars, asyncVars, watcherVars, selectVars
<1>4. ASSUME NEW th \in Threads, NEW f \in Finalizers, Finalize(th, f) PROVE Announced'
  BY <1>4 DEF Finalize, interruptVars, asyncVars, watcherVars, selectVars
<1>5. ASSUME NEW th \in Threads, NEW s \in Signals, HandleSignal(th, s) PROVE Announced'
  BY <1>5 DEF HandleSignal, interruptVars, asyncVars, watcherVars, selectVars
<1>6. ASSUME NEW a \in Actors, Interrupt(a) PROVE Announced'
  BY <1>6
     DEF Interrupt, MustWrite, After, interruptVars, asyncVars, watcherVars,
         selectVars
<1>7. ASSUME NEW a \in Actors, WriteByte(a) PROVE Announced'
  BY <1>7 DEF WriteByte, After, interruptVars, asyncVars, watcherVars, selectVars
<1>8. CASE LoopCycle
  BY <1>8
     DEF LoopCycle, CycleEffects, WatchRequests, ToStop, interruptVars, asyncVars,
         watcherVars, selectVars
<1>9. CASE WatchInterruptor
  BY <1>9
     DEF WatchInterruptor, interruptVars, asyncVars, watcherVars, selectVars
<1>10. CASE PreCheck
  BY <1>10
     DEF PreCheck, ComputeTimeout, interruptVars, asyncVars, watcherVars,
         selectVars
<1>11. CASE SelectReturns \/ SelectInterrupted
  BY <1>11
     DEF SelectReturns, SelectInterrupted, SelectEnds, ReadyNow, interruptVars, asyncVars, watcherVars, selectVars
<1>12. CASE LoopLock
  BY <1>12 DEF LoopLock, interruptVars, asyncVars, watcherVars, selectVars
<1>13. CASE PostCheck
  BY <1>13
     DEF PostCheck, SelectForgotten, Nothing, interruptVars, asyncVars,
         watcherVars, selectVars
<1>14. CASE Clear
  BY <1>14 DEF Clear, interruptVars, asyncVars, watcherVars, selectVars
<1>15. CASE ResetFlag
  BY <1>15
     DEF ResetFlag, FlagCleared, interruptVars, asyncVars, watcherVars,
         selectVars
<1>16. CASE HandleFinalizers
  BY <1>16
     DEF HandleFinalizers, interruptVars, asyncVars, watcherVars, selectVars
<1>17. CASE HandleDelivered
  BY <1>17
     DEF HandleDelivered, CodeEffects, interruptVars, asyncVars, watcherVars, selectVars
<1>18. CASE Tick
  BY <1>18 DEF Tick, interruptVars, asyncVars, watcherVars, selectVars
<1>19. CASE World
  BY <1>19 DEF World, interruptVars, asyncVars, watcherVars, selectVars
<1>20. CASE UNCHANGED vars
  BY <1>20 DEF vars, interruptVars, asyncVars, watcherVars, selectVars
<1> QED BY <1>1, <1>2, <1>2a, <1>3, <1>4, <1>5, <1>6, <1>7, <1>8, <1>9, <1>10, <1>11,
  <1>12, <1>13, <1>14, <1>15, <1>16, <1>17, <1>18, <1>19, <1>20 DEF Next,
  ThreadStep, LoopStep

(* The loop sleeps with what it must see to in the arguments of select.    *)
LEMMA SleepingStep ==
  ASSUME TypeOK, Control, FlagTruth, KnowsWhatItFound, Announced, Sleeping, [Next]_vars
  PROVE  Sleeping'
<1> USE SelectLoopAssumption DEF TypeOK, Control, KnowsWhatItFound, Announced, Sleeping, Told, Clearing, Actors, At, Goto, After
<1>a. Roused /\ pc[Loop] \notin Clearing => Roused'
  BY RousedStays
<1>b. (\E a \in Actors : pc[a] \in {"interrupt", "write"}) => Roused
  BY DEF Roused
<1>c. (\E a \in Actors : pc'[a] \in {"interrupt", "write"}) => Roused'
  BY DEF Roused
<1>d. Loop \in Actors /\ Loop \notin Threads /\ Threads \subseteq Actors
  OBVIOUS
<1> USE <1>a, <1>b, <1>c, <1>d
<1>1. ASSUME NEW th \in Threads, Lock(th) PROVE Sleeping'
  BY <1>1 DEF Lock, interruptVars, asyncVars, watcherVars, selectVars
<1>2. ASSUME NEW th \in Threads, RunACycle(th) PROVE Sleeping'
  BY <1>2
     DEF RunACycle, CycleEffects, WatchRequests, ToStop, AfterCycle, interruptVars, asyncVars,
         watcherVars, selectVars
<1>2a. ASSUME NEW th \in Threads, RunNoCycle(th) PROVE Sleeping'
  BY <1>2a
     DEF RunNoCycle, WatchRequests, CodeEffects, NewToTheLoop, ToStop, interruptVars, asyncVars,
         watcherVars, selectVars
<1>3. ASSUME NEW th \in Threads, Unlock(th) PROVE Sleeping'
  BY <1>3 DEF Unlock, interruptVars, asyncVars, watcherVars, selectVars
<1>4. ASSUME NEW th \in Threads, NEW f \in Finalizers, Finalize(th, f) PROVE Sleeping'
  BY <1>4 DEF Finalize, interruptVars, asyncVars, watcherVars, selectVars
<1>5. ASSUME NEW th \in Threads, NEW s \in Signals, HandleSignal(th, s) PROVE Sleeping'
  BY <1>5 DEF HandleSignal, interruptVars, asyncVars, watcherVars, selectVars
<1>6. ASSUME NEW a \in Actors, Interrupt(a) PROVE Sleeping'
  BY <1>6
     DEF Interrupt, MustWrite, After, interruptVars, asyncVars, watcherVars,
         selectVars
<1>7. ASSUME NEW a \in Actors, WriteByte(a) PROVE Sleeping'
  BY <1>7 DEF WriteByte, After, interruptVars, asyncVars, watcherVars, selectVars
<1>8. CASE LoopCycle
  BY <1>8
     DEF LoopCycle, CycleEffects, WatchRequests, ToStop, interruptVars, asyncVars,
         watcherVars, selectVars
<1>9. CASE WatchInterruptor
  BY <1>9
     DEF WatchInterruptor, interruptVars, asyncVars, watcherVars, selectVars
<1>10. CASE PreCheck
  BY <1>10
     DEF PreCheck, ComputeTimeout, interruptVars, asyncVars, watcherVars,
         selectVars
<1>11. CASE SelectReturns \/ SelectInterrupted
  BY <1>11
     DEF SelectReturns, SelectInterrupted, SelectEnds, ReadyNow, interruptVars, asyncVars, watcherVars, selectVars
<1>12. CASE LoopLock
  BY <1>12 DEF LoopLock, interruptVars, asyncVars, watcherVars, selectVars
<1>13. CASE PostCheck
  BY <1>13
     DEF PostCheck, SelectForgotten, Nothing, interruptVars, asyncVars,
         watcherVars, selectVars
<1>14. CASE Clear
  BY <1>14 DEF Clear, interruptVars, asyncVars, watcherVars, selectVars
<1>15. CASE ResetFlag
  BY <1>15
     DEF ResetFlag, FlagCleared, interruptVars, asyncVars, watcherVars,
         selectVars
<1>16. CASE HandleFinalizers
  BY <1>16
     DEF HandleFinalizers, interruptVars, asyncVars, watcherVars, selectVars
<1>17. CASE HandleDelivered
  BY <1>17
     DEF HandleDelivered, CodeEffects, interruptVars, asyncVars, watcherVars, selectVars
<1>18. CASE Tick
  BY <1>18 DEF Tick, interruptVars, asyncVars, watcherVars, selectVars
<1>19. CASE World
  BY <1>19 DEF World, interruptVars, asyncVars, watcherVars, selectVars
<1>20. CASE UNCHANGED vars
  BY <1>20 DEF vars, interruptVars, asyncVars, watcherVars, selectVars
<1> QED BY <1>1, <1>2, <1>2a, <1>3, <1>4, <1>5, <1>6, <1>7, <1>8, <1>9, <1>10, <1>11,
  <1>12, <1>13, <1>14, <1>15, <1>16, <1>17, <1>18, <1>19, <1>20 DEF Next,
  ThreadStep, LoopStep

(* How many threads there are, and how many write.                         *)
LEMMA Counts ==
  ASSUME TypeOK
  PROVE  /\ IsFiniteSet(Actors) /\ Cardinality(Actors) \in Nat
         /\ Cardinality(Threads) \in Nat
         /\ Cardinality(Actors) = Cardinality(Threads) + 1
         /\ IsFiniteSet(Writers) /\ Cardinality(Writers) \in Nat
         /\ At(Loop, "clear") => Cardinality(Writers) <= Cardinality(Threads)
<1>1. IsFiniteSet(Threads) /\ Loop \notin Threads
  BY SelectLoopAssumption
<1>2. IsFiniteSet(Actors) /\ Cardinality(Actors) = Cardinality(Threads) + 1
  BY <1>1, FS_AddElement DEF Actors
<1>3. Cardinality(Actors) \in Nat /\ Cardinality(Threads) \in Nat
  BY <1>1, <1>2, FS_CardinalityType
<1>4. IsFiniteSet(Writers)
  <2>1. Writers \subseteq Actors
    BY DEF Writers
  <2> QED
    BY <2>1, <1>2, FS_Subset
<1>5. Cardinality(Writers) \in Nat
  BY <1>4, FS_CardinalityType
<1>6. At(Loop, "clear") => Cardinality(Writers) <= Cardinality(Threads)
  <2> SUFFICES ASSUME At(Loop, "clear") PROVE Cardinality(Writers) <= Cardinality(Threads)
    OBVIOUS
  <2>1. Writers \subseteq Threads
    BY DEF Writers, Actors, At
  <2> QED
    BY <2>1, <1>1, FS_Subset
<1> QED
  BY <1>2, <1>3, <1>4, <1>5, <1>6

(* The pipe stays short: between two resets of the flag one thread at most *)
(* decides to write.                                                       *)
LEMMA ShortStep ==
  ASSUME TypeOK, TypeOK', Short, [Next]_vars
  PROVE  Short'
<1> USE Counts
<1>1. Loop \in Actors /\ pipe \in Nat
  BY DEF TypeOK, Actors
<1>2. Flag \in {0, 1}
  BY DEF Flag
<1>3. ASSUME NEW a \in Actors, Interrupt(a), MustWrite PROVE Short'
  <2>1. a \notin Writers /\ Writers' = Writers \cup {a}
    BY <1>3 DEF Interrupt, Writers, At, Goto, TypeOK
  <2>2. Cardinality(Writers') = Cardinality(Writers) + 1
    BY <2>1, FS_AddElement
  <2>3. pipe' = pipe /\ Flag = 0 /\ Flag' = 1 /\ At(Loop, "cleared")' = At(Loop, "cleared")
    BY <1>3 DEF Interrupt, MustWrite, Flag, At, Goto, TypeOK
  <2> QED
    BY <1>1, <2>2, <2>3 DEF Short, BytesComing
<1>4. ASSUME NEW a \in Actors, Interrupt(a), ~MustWrite PROVE Short'
  <2>1. Writers' = Writers
    BY <1>4 DEF Interrupt, Writers, At, Goto, After, TypeOK
  <2>2. /\ pipe' = pipe /\ Flag' = Flag
        /\ At(Loop, "cleared")' => At(Loop, "cleared")
    BY <1>4 DEF Interrupt, MustWrite, Flag, At, Goto, After, TypeOK
  <2> QED
    BY <2>1, <2>2 DEF Short, BytesComing
<1>5. ASSUME NEW a \in Actors, WriteByte(a) PROVE Short'
  <2>1. a \in Writers /\ Writers' = Writers \ {a}
    BY <1>5 DEF WriteByte, Writers, At, Goto, After, TypeOK
  <2>2. Cardinality(Writers') = Cardinality(Writers) - 1
    BY <2>1, FS_RemoveElement
  <2>3. /\ pipe' = pipe + 1 /\ Flag' = Flag
        /\ At(Loop, "cleared")' => At(Loop, "cleared")
    BY <1>5 DEF WriteByte, Flag, At, Goto, After, TypeOK
  <2> QED
    BY <1>1, <2>2, <2>3 DEF Short, BytesComing
<1>6. CASE Clear
  <2>1. Writers' = Writers /\ pipe' = 0 /\ Flag' = Flag
    BY <1>6 DEF Clear, Writers, Flag, At, Goto, TypeOK
  <2>2. At(Loop, "clear")
    BY <1>6 DEF Clear
  <2> QED
    BY <1>1, <1>2, <2>1, <2>2 DEF Short, BytesComing
<1>7. CASE ResetFlag
  <2>1. Writers' = Writers /\ pipe' = pipe /\ Flag' = 0
    BY <1>7 DEF ResetFlag, FlagCleared, Writers, Flag, At, Goto, TypeOK
  <2>2. At(Loop, "cleared") /\ ~At(Loop, "cleared")'
    BY <1>1, <1>7 DEF ResetFlag, At, Goto, TypeOK
  <2> QED
    BY <1>1, <1>2, <2>1, <2>2 DEF Short, BytesComing
<1>8. ASSUME UNCHANGED <<Writers, pipe, already_interrupted>>,
             At(Loop, "cleared")' => At(Loop, "cleared")
      PROVE  Short'
  BY <1>8 DEF Short, BytesComing, Flag
<1> USE DEF Writers, At, Goto, TypeOK, Actors
<1>9. ASSUME NEW th \in Threads, Lock(th) PROVE Short'
  BY <1>8, <1>9, SelectLoopAssumption DEF Lock, interruptVars
<1>10. ASSUME NEW th \in Threads, RunACycle(th) PROVE Short'
  BY <1>8, <1>10, SelectLoopAssumption DEF RunACycle, AfterCycle, interruptVars
<1>10a. ASSUME NEW th \in Threads, RunNoCycle(th) PROVE Short'
  BY <1>8, <1>10a, SelectLoopAssumption DEF RunNoCycle, interruptVars
<1>11. ASSUME NEW th \in Threads, Unlock(th) PROVE Short'
  BY <1>8, <1>11, SelectLoopAssumption DEF Unlock, interruptVars
<1>12. ASSUME NEW th \in Threads, NEW f \in Finalizers, Finalize(th, f) PROVE Short'
  BY <1>8, <1>12, SelectLoopAssumption DEF Finalize, interruptVars
<1>13. ASSUME NEW th \in Threads, NEW s \in Signals, HandleSignal(th, s) PROVE Short'
  BY <1>8, <1>13, SelectLoopAssumption DEF HandleSignal, interruptVars
<1>14. CASE LoopCycle
  BY <1>8, <1>14, SelectLoopAssumption DEF LoopCycle, interruptVars
<1>15. CASE WatchInterruptor
  BY <1>8, <1>15, SelectLoopAssumption DEF WatchInterruptor, interruptVars
<1>16. CASE PreCheck
  BY <1>8, <1>16, SelectLoopAssumption DEF PreCheck, interruptVars
<1>17. CASE SelectReturns \/ SelectInterrupted
  BY <1>8, <1>17, SelectLoopAssumption DEF SelectReturns, SelectInterrupted, SelectEnds, interruptVars
<1>18. CASE LoopLock
  BY <1>8, <1>18, SelectLoopAssumption DEF LoopLock, interruptVars
<1>19. CASE PostCheck
  BY <1>8, <1>19, SelectLoopAssumption DEF PostCheck, interruptVars
<1>20. CASE HandleFinalizers
  BY <1>8, <1>20, SelectLoopAssumption DEF HandleFinalizers, interruptVars
<1>21. CASE HandleDelivered
  BY <1>8, <1>21, SelectLoopAssumption DEF HandleDelivered, CodeEffects, interruptVars
<1>22. CASE Tick
  BY <1>8, <1>22, SelectLoopAssumption DEF Tick, interruptVars
<1>23. CASE World
  BY <1>8, <1>23, SelectLoopAssumption DEF World, interruptVars
<1>24. CASE UNCHANGED vars
  BY <1>8, <1>24 DEF vars, interruptVars
<1> QED BY <1>3, <1>4, <1>5, <1>6, <1>7, <1>9, <1>10, <1>10a, <1>11, <1>12, <1>13,
  <1>14, <1>15, <1>16, <1>17, <1>18, <1>19, <1>20, <1>21, <1>22, <1>23, <1>24
  DEF Next, ThreadStep, LoopStep

-----------------------------------------------------------------------------
LEMMA InitInv == Init => IInv
<1> SUFFICES ASSUME Init PROVE IInv
  OBVIOUS
<1> USE SelectLoopAssumption DEF Init, Actors, At
<1>1. TypeOK
  BY DEF TypeOK, LoopLabels, ThreadLabels, Nothing
<1>2. Control /\ FlagTruth /\ KnowsWhatItFound
  BY DEF Control, FlagTruth, KnowsWhatItFound
<1>3. Announced /\ Sleeping
  BY DEF Announced, Sleeping
<1>4. Short
  <2>1. Writers = {}
    BY DEF Writers
  <2> QED
    BY <1>1, <2>1, Counts, FS_EmptySet DEF Short, BytesComing, Flag
<1> QED
  BY <1>1, <1>2, <1>3, <1>4 DEF IInv

LEMMA NextInv == IInv /\ [Next]_vars => IInv'
BY TypeStep, ControlStep, FlagStep, KnowsStep, AnnouncedStep, SleepingStep,
   ShortStep
   DEF IInv

(* The invariant holds throughout.                                         *)
THEOREM Invariance == Spec => []IInv
BY InitInv, NextInv, PTL DEF Spec

(* TypeOK (SelectLoop.tla) is invariant.                                   *)
THEOREM TypeCorrect == Spec => []TypeOK
<1>1. IInv => TypeOK
  BY DEF IInv
<1> QED
  BY Invariance, <1>1, PTL

(* An interrupt that is flagged is in the pipe, or about to be, or being   *)
(* cleared (interruptor.ml), for any number of threads.                    *)
THEOREM FlagIsTrue == Spec => []FlagTruth
<1>1. IInv => FlagTruth
  BY DEF IInv
<1> QED
  BY Invariance, <1>1, PTL

(* Interrupts are not ignored (raw_scheduler.ml:357): the loop never       *)
(* sleeps on what it must see to, whatever the other threads do and        *)
(* whenever finalizers and signal handlers run.                            *)
THEOREM NoInterruptIsMissed == Spec => []NoMissedInterrupt
<1>1. IInv => NoMissedInterrupt
  <2> SUFFICES ASSUME IInv, At(Loop, "selecting") PROVE NoMissedInterrupt
    BY DEF NoMissedInterrupt
  <2>1. Interruptor \in watched
    BY DEF IInv, Sleeping
  <2>2. CASE Roused
    BY <2>1, <2>2 DEF NoMissedInterrupt
  <2>3. CASE ~Roused
    <3>1. /\ finalizer_jobs = {} /\ delivered = {} /\ stopping = {}
          /\ ~uncaught_exception \/ ~Told("uncaught_exception")
      BY <2>3 DEF IInv, Announced, Clearing, At
    <3>2. ~jobs \/ ~Told("jobs") \/ timeout = "Zero"
      BY <2>3 DEF IInv, Announced, Sleeping, Clearing, At
    <3>3. /\ next_event = "none" \/ ~Told("next_event") \/ timeout # "Forever"
          /\ watching \subseteq watched
      BY <2>3 DEF IInv, Sleeping
    <3> QED
      BY <2>1, <3>1, <3>2, <3>3 DEF NoMissedInterrupt
  <2> QED
    BY <2>2, <2>3
<1> QED
  BY Invariance, <1>1, PTL

(* No write to the interruptor's pipe is dropped (interruptor.ml:52): it   *)
(* never holds more than a byte of each thread, and one.                   *)
THEOREM PipeIsShort == Spec => []PipeStaysShort
<1>1. IInv => PipeStaysShort
  BY Counts DEF IInv, Short, BytesComing, Flag, PipeStaysShort, TypeOK
<1> QED
  BY Invariance, <1>1, PTL

(* post_check knows every descriptor that select returns.                  *)
THEOREM WhatIsFoundIsKnown == Spec => []KnowsWhatItFound
<1>1. IInv => KnowsWhatItFound
  BY DEF IInv
<1> QED
  BY Invariance, <1>1, PTL

(* The invariant of the run: the interruptor, the watcher and the loop     *)
(* agree, for any threads, finalizers, signals and descriptors.            *)
THEOREM LoopCorrect == Spec => []LoopInvariant
<1>1. FlagTruth /\ KnowsWhatItFound /\ PipeStaysShort => LoopInvariant
  BY DEF LoopInvariant
<1> QED
  BY <1>1, FlagIsTrue, WhatIsFoundIsKnown, PipeIsShort, PTL
-----------------------------------------------------------------------------
(* The writer.  Its fields, in memory and in flight.                       *)
IovecType == [buf : Nat, pos : Nat, len : Nat, kind : {"Keep", "Destroy"}]
FlushType == [who : Requests \cup {Closer}, z : Int]
Memory == UNION {[D -> Seq(Nat)] : D \in SUBSET Nat}
WriterType ==
  [state : {"Not_running", "Running", "Stopped_permanently"},
   job : {"none", "start", "ready", "after", "thread"},
   received : Int, written : Nat, scheduled : Seq(IovecType), scheduled_bytes : Int,
   mem : Memory, buf : Nat,
   scheduled_back : Nat, back : Nat, flushes : Seq(FlushType),
   filled : SUBSET (Requests \cup {Closer}), epipe : BOOLEAN, dead : BOOLEAN]
FlightType ==
  [iovecs : Seq(IovecType), done : BOOLEAN, n : Nat, err : {"none", "other", "EAGAIN", "EPIPE"}]

(* What v refers to in memory are the bytes from + 1, from + 2, ... of the *)
(* stream; and so for all iovecs of a queue, after the first w bytes.      *)
Holds(mem, v, from) ==
  /\ v.buf \in DOMAIN mem /\ v.pos + v.len <= Len(mem[v.buf])
  /\ \A k \in 1..v.len : mem[v.buf][v.pos + k] = from + k
QueueHolds(mem, s, w) == \A i \in 1..Len(s) : Holds(mem, s[i], w + Ends(s)[i - 1])

(* A bigstring that is destroyed with its iovec is not used after it, and  *)
(* none of the buffer's own is destroyed or shares its unscheduled bytes.  *)
LastUse(s) ==
  \A i, j \in 1..Len(s) : i < j /\ s[i].kind = "Destroy" => s[j].buf # s[i].buf
Below(s, b, back) ==
  \A i \in 1..Len(s) : s[i].buf = b => s[i].kind = "Keep" /\ s[i].pos + s[i].len <= back

Unscheduled(u) == IOVec(u.buf, u.scheduled_back, u.back - u.scheduled_back, "Keep")
Streams(u, g) ==
  /\ IsFiniteSet(DOMAIN u.mem) /\ 0 \in DOMAIN u.mem
  /\ u.scheduled_back <= u.back /\ Len(u.mem[u.buf]) > 0
  /\ u.scheduled_bytes = iovecs_length(u.scheduled)
  /\ u.written + bytes_to_write(u) = g
  /\ QueueHolds(u.mem, u.scheduled, u.written)
  /\ Holds(u.mem, Unscheduled(u), u.written + u.scheduled_bytes)
  /\ LastUse(u.scheduled)
Sound(u, g) == Streams(u, g) /\ Below(u.scheduled, u.buf, u.scheduled_back)

Empty(u) ==
  /\ u.scheduled = <<>> /\ u.scheduled_bytes = 0 /\ u.buf = 0 /\ u.scheduled_back = 0
  /\ u.back = 0 /\ u.mem = [b \in {0} |-> <<>>]

WriterTypeOK ==
  /\ set \in [supports_nonblock : BOOLEAN, periodic : BOOLEAN, limited : BOOLEAN]
  /\ t \in WriterType /\ flight \in FlightType
  /\ fd \in {"open", "requested", "closed"}
  /\ closing \in {"no", "waiting", "closing", "finished"}
  /\ force \in BOOLEAN /\ too_old \in BOOLEAN /\ spoilt \in BOOLEAN
  /\ file \in Seq(Nat) /\ given \in Nat /\ skipped \in Nat
  /\ mark \in [Requests \cup {Closer} -> Int]

InStream(u, g) == IF Stopped(u) THEN Empty(u) /\ u.written <= g ELSE Sound(u, g)
TheStream ==
  /\ InStream(t, given)
  /\ t.received = given - skipped
  /\ \A i \in 1..Len(file) : file[i] = i
  /\ Len(file) = t.written + flight.n

(* A queue is a prefix of another.                                         *)
Prefix(r, s) == Len(r) <= Len(s) /\ \A i \in 1..Len(r) : r[i] = s[i]
TheFlight ==
  /\ t.job = "thread" => Prefix(flight.iovecs, t.scheduled)
  /\ t.job = "thread" => flight.n <= iovecs_length(flight.iovecs)
  /\ t.job # "thread" => flight = NoFlight
  /\ ~flight.done \/ flight.err # "none" => flight.n = 0
  /\ flight.err = "EPIPE" => set.supports_nonblock

TheJob ==
  /\ t.job # "none" => t.state = "Running"
  /\ t.state = "Running" /\ fd = "open" => t.job # "none"
  /\ t.state = "Not_running" => bytes_to_write(t) = 0 \/ spoilt
  /\ closing \in {"no", "waiting"} <=> fd = "open"
  /\ closing = "finished" <=> fd = "closed"
  /\ t.epipe => set.supports_nonblock

TheFlushes ==
  /\ \A i \in 1..Len(t.flushes) : t.flushes[i].z = mark[t.flushes[i].who]
  /\ \A r \in t.filled : mark[r] <= t.written
  /\ Asked(Closer) => closing # "no"

(* As long as no iovec's position was beyond its length.                   *)
FlushesWait ==
  /\ t.dead \/ t.written <= t.received
  /\ \A i \in 1..Len(t.flushes) :
       /\ t.dead \/ t.flushes[i].z > t.written
       /\ t.flushes[i].z <= t.received
       /\ \A j \in 1..i : t.flushes[j].z <= t.flushes[i].z

SaveSteps ==
  {"none", "write", "chmod", "fsync", "close", "close raising", "saved", "raised", "crashed"}
TheSave ==
  /\ step \in SaveSteps
  /\ renamed => closing = "finished"
  /\ renamed /\ step # "crashed" => step = "saved"
  /\ step \notin {"none", "crashed"} =>
       /\ set = SaveSet /\ skipped = 0 /\ ~force
       /\ given = IF step = "write" THEN 0 ELSE SaveLength
       /\ step = "write" => closing = "no"
       /\ closing # "no" => mark[Closer] = SaveLength
       /\ closing \in {"closing", "finished"} => Closer \in t.filled \/ too_old

WriterInv == WriterTypeOK /\ TheStream /\ TheFlight /\ TheJob /\ TheFlushes
-----------------------------------------------------------------------------
(* Sums over iovecs.  Ends satisfies its recursion, because a function     *)
(* that does exists up to each number.                                     *)
Lengths(s) == \A i \in 1..Len(s) : s[i].len \in Nat
IsEnds(s, n, z) ==
  z = [i \in 0..n |-> IF i = 0 THEN 0 ELSE z[i - 1] + s[i].len]
HasEnds(s, n) == \E z \in [0..n -> Nat] : IsEnds(s, n, z)

LEMMA EndsExtend ==
  ASSUME NEW s, NEW n \in Nat, s[n + 1].len \in Nat, NEW z \in [0..n -> Nat], IsEnds(s, n, z)
  PROVE  HasEnds(s, n + 1)
<1>1. PICK y : y = [i \in 0..(n + 1) |-> IF i = n + 1 THEN z[n] + s[n + 1].len ELSE z[i]]
  OBVIOUS
<1>2. y \in [0..(n + 1) -> Nat]
  BY <1>1
<1>3. \A i \in 0..n : y[i] = z[i]
  BY <1>1
<1>4. y[n + 1] = z[n] + s[n + 1].len /\ n + 1 # 0 /\ (n + 1) - 1 = n /\ n \in 0..n
  BY <1>1
<1>5. \A i \in 0..n : z[i] = IF i = 0 THEN 0 ELSE z[i - 1] + s[i].len
  BY DEF IsEnds
<1>6. ASSUME NEW i \in 0..(n + 1)
      PROVE  y[i] = IF i = 0 THEN 0 ELSE y[i - 1] + s[i].len
  <2>1. CASE i = n + 1
    BY <2>1, <1>3, <1>4
  <2>2. CASE i \in 0..n /\ i = 0
    BY <2>2, <1>3, <1>5
  <2>3. CASE i \in 0..n /\ i # 0
    <3>1. i - 1 \in 0..n
      BY <2>3
    <3> QED BY <2>3, <3>1, <1>3, <1>5
  <2>4. i = n + 1 \/ i \in 0..n
    OBVIOUS
  <2> QED BY <2>1, <2>2, <2>3, <2>4
<1>7. IsEnds(s, n + 1, y)
  BY <1>2, <1>6 DEF IsEnds
<1> QED BY <1>2, <1>7 DEF HasEnds

LEMMA EndsExist ==
  ASSUME NEW s, Len(s) \in Nat, Lengths(s)
  PROVE  HasEnds(s, Len(s))
<1> DEFINE T == {n \in Nat : n <= Len(s) => HasEnds(s, n)}
<1>1. 0 \in T
  <2>1. PICK z : z = [i \in 0..0 |-> 0]
    OBVIOUS
  <2>2. z \in [0..0 -> Nat] /\ \A i \in 0..0 : i = 0
    BY <2>1
  <2>3. [i \in 0..0 |-> IF i = 0 THEN 0 ELSE z[i - 1] + s[i].len] = [i \in 0..0 |-> 0]
    BY <2>2
  <2>4. IsEnds(s, 0, z)
    BY <2>1, <2>3 DEF IsEnds
  <2> QED BY <2>2, <2>4 DEF HasEnds
<1>2. ASSUME NEW n \in Nat, n \in T PROVE n + 1 \in T
  <2> SUFFICES ASSUME n + 1 <= Len(s) PROVE HasEnds(s, n + 1)
    OBVIOUS
  <2>1. n <= Len(s) /\ n + 1 \in 1..Len(s)
    OBVIOUS
  <2>2. HasEnds(s, n) /\ s[n + 1].len \in Nat
    BY <1>2, <2>1 DEF Lengths
  <2>3. PICK z \in [0..n -> Nat] : IsEnds(s, n, z)
    BY <2>2 DEF HasEnds
  <2> QED BY <2>2, <2>3, EndsExtend
<1>3. Nat \subseteq T
  <2> HIDE DEF T
  <2> QED BY <1>1, <1>2, Induct
<1> QED BY <1>3

LEMMA EndsOf ==
  ASSUME NEW s, Len(s) \in Nat, Lengths(s)
  PROVE  /\ Ends(s) \in [0..Len(s) -> Nat] /\ Ends(s)[0] = 0
         /\ \A i \in 1..Len(s) : Ends(s)[i] = Ends(s)[i - 1] + s[i].len
<1>1. PICK z \in [0..Len(s) -> Nat] : IsEnds(s, Len(s), z)
  BY EndsExist DEF HasEnds
<1>2. PICK e : e = Ends(s)
  OBVIOUS
<1>3. e = CHOOSE y : y = [i \in 0..Len(s) |-> IF i = 0 THEN 0 ELSE y[i - 1] + s[i].len]
  BY <1>2 DEF Ends
<1>4. \E y : y = [i \in 0..Len(s) |-> IF i = 0 THEN 0 ELSE y[i - 1] + s[i].len]
  BY <1>1 DEF IsEnds
<1>5. e = [i \in 0..Len(s) |-> IF i = 0 THEN 0 ELSE e[i - 1] + s[i].len]
  BY <1>3, <1>4
<1>6. e[0] = 0 /\ \A i \in 1..Len(s) : e[i] = e[i - 1] + s[i].len
  BY <1>5
<1>7. \A i \in 0..Len(s) : e[i] \in Nat
  <2> DEFINE T == {n \in Nat : n <= Len(s) => e[n] \in Nat}
  <2>1. 0 \in T
    BY <1>6
  <2>2. ASSUME NEW n \in Nat, n \in T PROVE n + 1 \in T
    <3> SUFFICES ASSUME n + 1 <= Len(s) PROVE e[n + 1] \in Nat
      OBVIOUS
    <3>1. n + 1 \in 1..Len(s) /\ (n + 1) - 1 = n /\ e[n] \in Nat
      BY <2>2
    <3>2. e[n + 1] = e[n] + s[n + 1].len /\ s[n + 1].len \in Nat
      BY <1>6, <3>1 DEF Lengths
    <3> QED BY <3>1, <3>2
  <2>3. Nat \subseteq T
    <3> HIDE DEF T
    <3> QED BY <2>1, <2>2, Induct
  <2> QED BY <2>3
<1>8. e \in [0..Len(s) -> Nat]
  BY <1>5, <1>7
<1> QED BY <1>2, <1>6, <1>8

(* Two sequences whose iovecs are as long, from the a-th on, with d more   *)
(* before in the one, have the same ends but for what they have at a.      *)
AsLong(s, r, d, a, m) ==
  /\ m <= Len(r) /\ m + d <= Len(s) /\ a <= m
  /\ \A i \in a + 1 .. m : r[i].len = s[i + d].len
Shifted(s, r, d, a, m) ==
  \A i \in a..m : Ends(r)[i] = Ends(s)[i + d] + Ends(r)[a] - Ends(s)[a + d]
LEMMA EndsShifted ==
  ASSUME NEW s, NEW r, Len(s) \in Nat, Len(r) \in Nat, Lengths(s), Lengths(r),
         NEW d \in Nat, NEW a \in Nat, NEW m \in Nat, AsLong(s, r, d, a, m)
  PROVE  Shifted(s, r, d, a, m)
<1>0. /\ m <= Len(r) /\ m + d <= Len(s) /\ a <= m
      /\ \A i \in a + 1 .. m : r[i].len = s[i + d].len
  BY DEF AsLong
<1>1. PICK y : y = Ends(s)
  OBVIOUS
<1>2. PICK z : z = Ends(r)
  OBVIOUS
<1>3. y \in [0..Len(s) -> Nat] /\ \A i \in 1..Len(s) : y[i] = y[i - 1] + s[i].len
  BY <1>1, EndsOf
<1>4. z \in [0..Len(r) -> Nat] /\ \A i \in 1..Len(r) : z[i] = z[i - 1] + r[i].len
  BY <1>2, EndsOf
<1> DEFINE T == {n \in Nat : a + n <= m => z[a + n] = y[a + n + d] + z[a] - y[a + d]}
<1>5. 0 \in T
  <2>1. a \in 0..Len(r) /\ a + d \in 0..Len(s) /\ a + 0 = a
    BY <1>0
  <2>2. z[a] \in Nat /\ y[a + d] \in Nat
    BY <2>1, <1>3, <1>4
  <2> QED BY <2>1, <2>2
<1>6. ASSUME NEW n \in Nat, n \in T PROVE n + 1 \in T
  <2> SUFFICES ASSUME a + (n + 1) <= m
               PROVE  z[a + (n + 1)] = y[a + (n + 1) + d] + z[a] - y[a + d]
    OBVIOUS
  <2>1. PICK k \in Nat : k = a + n + 1
    OBVIOUS
  <2>2. /\ k \in a + 1 .. m /\ k \in 1..Len(r) /\ k + d \in 1..Len(s) /\ k - 1 = a + n
        /\ (k + d) - 1 = a + n + d /\ a + (n + 1) = k /\ a + (n + 1) + d = k + d
    BY <1>0, <2>1
  <2>3. z[a + n] = y[a + n + d] + z[a] - y[a + d]
    BY <1>6
  <2>4. z[k] = z[a + n] + r[k].len /\ y[k + d] = y[a + n + d] + s[k + d].len
    BY <2>2, <1>3, <1>4
  <2>5. r[k].len = s[k + d].len /\ r[k].len \in Nat
    BY <1>0, <2>2 DEF Lengths
  <2>6. /\ a + n \in 0..Len(r) /\ a + n + d \in 0..Len(s) /\ a \in 0..Len(r)
        /\ a + d \in 0..Len(s)
    BY <1>0
  <2>7. z[a + n] \in Nat /\ y[a + n + d] \in Nat /\ z[a] \in Nat /\ y[a + d] \in Nat
    BY <2>6, <1>3, <1>4
  <2>8. PICK l \in Nat : l = r[k].len /\ l = s[k + d].len
    BY <2>5
  <2>9. PICK p \in Nat, q \in Nat, za \in Nat, ya \in Nat :
          p = z[a + n] /\ q = y[a + n + d] /\ za = z[a] /\ ya = y[a + d]
    BY <2>7
  <2>10. p = q + za - ya /\ z[k] = p + l /\ y[k + d] = q + l
    BY <2>3, <2>4, <2>8, <2>9
  <2>11. z[k] = y[k + d] + za - ya
    BY <2>10
  <2> QED BY <2>2, <2>9, <2>11
<1>7. Nat \subseteq T
  <2> HIDE DEF T
  <2> QED BY <1>5, <1>6, Induct
<1>8. ASSUME NEW i \in a..m PROVE z[i] = y[i + d] + z[a] - y[a + d]
  <2>1. i - a \in Nat /\ a + (i - a) = i
    OBVIOUS
  <2>2. i - a \in T
    BY <2>1, <1>7
  <2> QED BY <2>1, <2>2
<1> QED BY <1>1, <1>2, <1>8 DEF Shifted

LEMMA EndsGrow ==
  ASSUME NEW s, Len(s) \in Nat, Lengths(s), NEW i \in 0..Len(s), NEW j \in i..Len(s)
  PROVE  Ends(s)[i] <= Ends(s)[j]
<1>1. PICK z : z = Ends(s)
  OBVIOUS
<1>2. z \in [0..Len(s) -> Nat] /\ \A k \in 1..Len(s) : z[k] = z[k - 1] + s[k].len
  BY <1>1, EndsOf
<1> DEFINE T == {n \in Nat : i + n <= Len(s) => z[i] <= z[i + n]}
<1>3. 0 \in T
  <2>1. z[i] \in Nat /\ i + 0 = i
    BY <1>2
  <2> QED BY <2>1
<1>4. ASSUME NEW n \in Nat, n \in T PROVE n + 1 \in T
  <2> SUFFICES ASSUME i + (n + 1) <= Len(s) PROVE z[i] <= z[i + (n + 1)]
    OBVIOUS
  <2>1. PICK k \in 1..Len(s) : k = i + (n + 1)
    OBVIOUS
  <2>2. k - 1 = i + n /\ i + n \in 0..Len(s) /\ z[i] <= z[i + n]
    BY <2>1, <1>4
  <2>3. z[k] = z[i + n] + s[k].len /\ s[k].len \in Nat /\ z[i] \in Nat /\ z[i + n] \in Nat
    BY <2>2, <1>2 DEF Lengths
  <2>4. z[i] <= z[k]
    <3>1. PICK A \in Nat : A = z[i]
      BY <2>3
    <3>2. PICK B \in Nat : B = z[i + n]
      BY <2>3
    <3>3. PICK C \in Nat : C = s[k].len
      BY <2>3
    <3>4. A <= B
      BY <2>2, <3>1, <3>2
    <3>5. z[k] = B + C
      BY <2>3, <3>2, <3>3
    <3>6. A <= B + C
      BY <3>4
    <3> QED BY <3>1, <3>5, <3>6
  <2> QED BY <2>1, <2>4
<1>5. Nat \subseteq T
  <2> HIDE DEF T
  <2> QED BY <1>3, <1>4, Induct
<1>6. j - i \in Nat /\ i + (j - i) = j
  OBVIOUS
<1>7. j - i \in T
  BY <1>5, <1>6
<1> QED BY <1>1, <1>6, <1>7

LEMMA IovecsHaveLengths ==
  ASSUME NEW s \in Seq(IovecType)
  PROVE  /\ Len(s) \in Nat /\ DOMAIN s = 1..Len(s) /\ \A i \in 1..Len(s) : s[i] \in IovecType
         /\ Lengths(s) /\ iovecs_length(s) \in Nat
<1>1. Len(s) \in Nat /\ DOMAIN s = 1..Len(s) /\ \A i \in 1..Len(s) : s[i] \in IovecType
  BY LenProperties, ElementOfSeq
<1>2. Lengths(s)
  BY <1>1 DEF Lengths, IovecType
<1>3. Ends(s) \in [0..Len(s) -> Nat] /\ Len(s) \in 0..Len(s)
  BY <1>1, <1>2, EndsOf
<1>4. iovecs_length(s) \in Nat
  BY <1>3 DEF iovecs_length
<1> QED BY <1>1, <1>2, <1>4

LEMMA PrefixEnds ==
  ASSUME NEW s \in Seq(IovecType), NEW r \in Seq(IovecType), Prefix(r, s)
  PROVE  /\ \A i \in 0..Len(r) : Ends(r)[i] = Ends(s)[i]
         /\ iovecs_length(r) <= iovecs_length(s)
<1>1. /\ Len(s) \in Nat /\ Len(r) \in Nat /\ Lengths(s) /\ Lengths(r) /\ Len(r) <= Len(s)
      /\ \A i \in 1..Len(r) : r[i] = s[i]
  BY IovecsHaveLengths DEF Prefix
<1>2. PICK a \in Nat : a = 0
  OBVIOUS
<1>3. \A i \in a..Len(r) : Ends(r)[i] = Ends(s)[i + a] + Ends(r)[a] - Ends(s)[a + a]
  <2>1. a <= Len(r) /\ Len(r) + a <= Len(s) /\ Len(r) <= Len(r)
    BY <1>1, <1>2
  <2>2. \A i \in a + 1 .. Len(r) : r[i].len = s[i + a].len
    BY <1>1, <1>2
  <2>3. AsLong(s, r, a, a, Len(r))
    BY <2>1, <2>2 DEF AsLong
  <2>4. Shifted(s, r, a, a, Len(r))
    BY <1>1, <2>3, EndsShifted
  <2> QED BY <2>4 DEF Shifted
<1>4. Ends(r)[0] = 0 /\ Ends(s)[0] = 0 /\ Ends(s) \in [0..Len(s) -> Nat]
  BY <1>1, EndsOf
<1>5. ASSUME NEW i \in 0..Len(r) PROVE Ends(r)[i] = Ends(s)[i]
  <2>1. i + 0 = i /\ 0 + 0 = 0 /\ i \in 0..Len(s)
    BY <1>1
  <2>2. PICK e \in Nat : e = Ends(s)[i]
    BY <2>1, <1>4
  <2>3. Ends(r)[i] = e + 0 - 0
    BY <1>2, <1>3, <1>4, <2>1, <2>2
  <2> QED BY <2>2, <2>3
<1>6. Ends(s)[Len(r)] <= Ends(s)[Len(s)]
  <2>1. Len(r) \in 0..Len(s) /\ Len(s) \in Len(r)..Len(s)
    BY <1>1
  <2> QED BY <1>1, <2>1, EndsGrow
<1>7. Len(r) \in 0..Len(r)
  BY <1>1
<1> QED BY <1>5, <1>6, <1>7 DEF iovecs_length

(* The queue s with the iovec v more.                                      *)
OneMore(s, v, x) ==
  /\ x \in Seq(IovecType) /\ Len(x) = Len(s) + 1 /\ x[Len(s) + 1] = v
  /\ \A i \in 1..Len(s) : x[i] = s[i]
  /\ Prefix(s, x)
  /\ Ends(x)[Len(s)] = iovecs_length(s)
  /\ iovecs_length(x) = iovecs_length(s) + v.len
LEMMA AppendedIovec ==
  ASSUME NEW s \in Seq(IovecType), NEW v \in IovecType
  PROVE  OneMore(s, v, Append(s, v))
<1>0. PICK x : x = Append(s, v)
  OBVIOUS
<1>1. /\ x \in Seq(IovecType) /\ Len(x) = Len(s) + 1 /\ x[Len(s) + 1] = v
      /\ \A i \in 1..Len(s) : x[i] = s[i]
  BY <1>0, AppendProperties
<1>2. Len(s) \in Nat /\ Len(x) \in Nat /\ Lengths(x)
  BY <1>1, IovecsHaveLengths
<1>3. Prefix(s, x)
  BY <1>1, <1>2 DEF Prefix
<1>4. Ends(x)[Len(s)] = iovecs_length(s)
  <2>1. Len(s) \in 0..Len(s)
    BY <1>2
  <2> QED BY <1>1, <1>3, <2>1, PrefixEnds DEF iovecs_length
<1>5. Ends(x)[Len(x)] = Ends(x)[Len(s)] + v.len
  <2>1. Len(x) \in 1..Len(x) /\ Len(x) - 1 = Len(s) /\ x[Len(x)] = v
    BY <1>1, <1>2
  <2>2. \A i \in 1..Len(x) : Ends(x)[i] = Ends(x)[i - 1] + x[i].len
    BY <1>2, EndsOf
  <2> QED BY <2>1, <2>2
<1> QED BY <1>0, <1>1, <1>3, <1>4, <1>5 DEF OneMore, iovecs_length

(* Memory.  Two memories agree on what an iovec refers to.                 *)
Agree(m, n, v) ==
  /\ v.buf \in DOMAIN n /\ Len(n[v.buf]) = Len(m[v.buf])
  /\ \A k \in 1..v.len : n[v.buf][v.pos + k] = m[v.buf][v.pos + k]

LEMMA HoldsInBoth ==
  ASSUME NEW m, NEW n, NEW v, NEW f, Holds(m, v, f), Agree(m, n, v)
  PROVE  Holds(n, v, f)
BY DEF Holds, Agree

LEMMA QueueInBoth ==
  ASSUME NEW m, NEW n, NEW s, NEW w, QueueHolds(m, s, w), \A i \in 1..Len(s) : Agree(m, n, s[i])
  PROVE  QueueHolds(n, s, w)
BY HoldsInBoth DEF QueueHolds

LEMMA QueueWithMore ==
  ASSUME NEW m, NEW w \in Nat, NEW s \in Seq(IovecType), NEW v \in IovecType, NEW x,
         x = Append(s, v), QueueHolds(m, s, w), Holds(m, v, w + iovecs_length(s))
  PROVE  QueueHolds(m, x, w)
<1>1. /\ x \in Seq(IovecType) /\ Len(x) = Len(s) + 1 /\ x[Len(s) + 1] = v
      /\ \A i \in 1..Len(s) : x[i] = s[i]
      /\ Prefix(s, x) /\ Ends(x)[Len(s)] = iovecs_length(s)
  BY AppendedIovec DEF OneMore
<1>2. Len(s) \in Nat
  BY IovecsHaveLengths
<1>3. \A i \in 0..Len(s) : Ends(s)[i] = Ends(x)[i]
  BY <1>1, PrefixEnds
<1>4. ASSUME NEW i \in 1..Len(x) PROVE Holds(m, x[i], w + Ends(x)[i - 1])
  <2>1. CASE i \in 1..Len(s)
    <3>1. i - 1 \in 0..Len(s)
      BY <2>1, <1>2
    <3>2. Holds(m, s[i], w + Ends(s)[i - 1])
      BY <2>1 DEF QueueHolds
    <3> QED BY <2>1, <3>1, <3>2, <1>1, <1>3
  <2>2. CASE i = Len(s) + 1
    <3>1. i - 1 = Len(s)
      BY <2>2, <1>2
    <3> QED BY <2>2, <3>1, <1>1
  <2> QED BY <2>1, <2>2, <1>1, <1>2
<1> QED BY <1>4 DEF QueueHolds

LEMMA QueueOfPrefix ==
  ASSUME NEW m, NEW w \in Nat, NEW s \in Seq(IovecType), NEW r \in Seq(IovecType), Prefix(r, s),
         QueueHolds(m, s, w)
  PROVE  QueueHolds(m, r, w)
<1>1. Len(r) \in Nat /\ Len(r) <= Len(s) /\ Len(s) \in Nat /\ \A i \in 1..Len(r) : r[i] = s[i]
  BY IovecsHaveLengths DEF Prefix
<1>2. ASSUME NEW i \in 1..Len(r) PROVE Holds(m, r[i], w + Ends(r)[i - 1])
  <2>1. i - 1 \in 0..Len(r) /\ i \in 1..Len(s)
    BY <1>1
  <2>2. Holds(m, s[i], w + Ends(s)[i - 1])
    BY <2>1 DEF QueueHolds
  <2>3. Ends(r)[i - 1] = Ends(s)[i - 1]
    BY <2>1, PrefixEnds
  <2> QED BY <2>2, <2>3, <1>1
<1> QED BY <1>2 DEF QueueHolds

LEMMA LastUseOfMore ==
  ASSUME NEW s \in Seq(IovecType), NEW v \in IovecType, NEW x, x = Append(s, v), LastUse(s),
         \A i \in 1..Len(s) : s[i].kind = "Destroy" => s[i].buf # v.buf
  PROVE  LastUse(x)
<1>1. Len(x) = Len(s) + 1 /\ x[Len(s) + 1] = v /\ \A i \in 1..Len(s) : x[i] = s[i]
  BY AppendedIovec DEF OneMore
<1>2. Len(s) \in Nat
  BY IovecsHaveLengths
<1>3. ASSUME NEW i \in 1..Len(x), NEW j \in 1..Len(x), i < j, x[i].kind = "Destroy"
      PROVE  x[j].buf # x[i].buf
  <2>1. i \in 1..Len(s) /\ x[i] = s[i]
    BY <1>1, <1>2, <1>3
  <2>2. CASE j \in 1..Len(s)
    BY <2>1, <2>2, <1>1, <1>3 DEF LastUse
  <2>3. CASE j = Len(s) + 1
    BY <2>1, <2>3, <1>1, <1>3
  <2> QED BY <2>2, <2>3, <1>1, <1>2
<1> QED BY <1>3 DEF LastUse
-----------------------------------------------------------------------------
(* What the functions that add bytes do to the stream.                     *)
LEMMA MemoryIs ==
  ASSUME NEW m
  PROVE  /\ m \in Memory => DOMAIN m \in SUBSET Nat /\ m \in [DOMAIN m -> Seq(Nat)]
         /\ \A D \in SUBSET Nat : m \in [D -> Seq(Nat)] => m \in Memory
BY DEF Memory

SameControl(u, x) ==
  /\ x.state = u.state /\ x.job = u.job /\ x.received = u.received /\ x.written = u.written
  /\ x.flushes = u.flushes /\ x.filled = u.filled /\ x.epipe = u.epipe /\ x.dead = u.dead
SameQueue(u, x) ==
  x.scheduled = u.scheduled /\ x.scheduled_bytes = u.scheduled_bytes

Numbered(bytes, g) == bytes \in Seq(Nat) /\ \A i \in 1..Len(bytes) : bytes[i] = g + i

LEMMA NewIsNew ==
  ASSUME NEW u, IsFiniteSet(DOMAIN u.mem), DOMAIN u.mem \in SUBSET Nat, 0 \in DOMAIN u.mem
  PROVE  NewBigstring(u) \in Nat \ DOMAIN u.mem /\ NewBigstring(u) # 0
<1>1. PICK D : D = DOMAIN u.mem
  OBVIOUS
<1>2. PICK c \in Nat : c = Cardinality(D)
  BY <1>1, FS_CardinalityType
<1>3. \E b \in 1..c : b \notin D
  <2> SUFFICES ASSUME 1..c \subseteq D PROVE FALSE
    OBVIOUS
  <2>1. 1..c \subseteq D \ {0} /\ 0 \in D /\ IsFiniteSet(D)
    BY <1>1
  <2>2. IsFiniteSet(D \ {0}) /\ Cardinality(D \ {0}) = c - 1
    BY <2>1, <1>2, FS_RemoveElement
  <2>3. Cardinality(1..c) <= Cardinality(D \ {0})
    BY <2>1, <2>2, FS_Subset
  <2>4. Cardinality(1..c) = c
    <3>1. c \in Int /\ 1 \in Int
      BY <1>2
    <3> QED BY <3>1, FS_Interval
  <2> QED BY <1>2, <2>2, <2>3, <2>4
<1>4. NewBigstring(u) \in 1..c /\ NewBigstring(u) \notin D
  BY <1>1, <1>2, <1>3 DEF NewBigstring
<1> QED BY <1>1, <1>2, <1>4

BlitInto(m, b, back, bytes) ==
  [m EXCEPT ![b] = [i \in DOMAIN @ |-> IF i \in back + 1 .. back + Len(bytes)
                                       THEN bytes[i - back] ELSE @[i]]]
IsBlit(m, b, back, bytes, n) ==
  /\ n \in Memory /\ DOMAIN n = DOMAIN m /\ Len(n[b]) = Len(m[b])
  /\ \A c \in DOMAIN m : c # b => n[c] = m[c]
  /\ \A k \in 1..back : n[b][k] = m[b][k]
  /\ \A k \in 1..Len(bytes) : n[b][back + k] = bytes[k]
LEMMA BlitMemory ==
  ASSUME NEW m \in Memory, NEW b \in DOMAIN m, NEW back \in Nat, NEW bytes \in Seq(Nat),
         back + Len(bytes) <= Len(m[b])
  PROVE  IsBlit(m, b, back, bytes, BlitInto(m, b, back, bytes))
<1>0. PICK n : n = BlitInto(m, b, back, bytes)
  OBVIOUS
<1>1. DOMAIN m \in SUBSET Nat /\ m \in [DOMAIN m -> Seq(Nat)]
  BY MemoryIs
<1>2. PICK l \in Nat : l = Len(m[b]) /\ m[b] \in [1..l -> Nat]
  BY <1>1, LenProperties
<1>3. PICK c : c = [i \in 1..l |-> IF i \in back + 1 .. back + Len(bytes)
                                   THEN bytes[i - back] ELSE m[b][i]]
  OBVIOUS
<1>4. DOMAIN m[b] = 1..l
  BY <1>2
<1>5. n = [m EXCEPT ![b] = c]
  BY <1>0, <1>3, <1>4 DEF BlitInto
<1>6. DOMAIN n = DOMAIN m /\ n[b] = c /\ \A d \in DOMAIN m : d # b => n[d] = m[d]
  BY <1>1, <1>5
<1>7. Len(bytes) \in Nat /\ \A i \in 1..Len(bytes) : bytes[i] \in Nat
  BY LenProperties, ElementOfSeq
<1>8. \A i \in 1..l : c[i] \in Nat
  <2> SUFFICES ASSUME NEW i \in 1..l PROVE c[i] \in Nat
    OBVIOUS
  <2>1. CASE i \in back + 1 .. back + Len(bytes)
    <3>1. i - back \in 1..Len(bytes)
      BY <2>1, <1>7
    <3> QED BY <2>1, <3>1, <1>3, <1>7
  <2>2. CASE i \notin back + 1 .. back + Len(bytes)
    BY <2>2, <1>2, <1>3
  <2> QED BY <2>1, <2>2
<1>9. c \in Seq(Nat) /\ Len(c) = l
  BY <1>3, <1>8
<1>10. n \in [DOMAIN m -> Seq(Nat)]
  BY <1>1, <1>5, <1>9
<1>11. \A k \in 1..back : c[k] = m[b][k]
  <2> SUFFICES ASSUME NEW k \in 1..back PROVE c[k] = m[b][k]
    OBVIOUS
  <2>1. k \in 1..l /\ k \notin back + 1 .. back + Len(bytes)
    BY <1>2, <1>7
  <2> QED BY <2>1, <1>3
<1>12. \A k \in 1..Len(bytes) : c[back + k] = bytes[k]
  <2> SUFFICES ASSUME NEW k \in 1..Len(bytes) PROVE c[back + k] = bytes[k]
    OBVIOUS
  <2>1. /\ back + k \in 1..l /\ back + k \in back + 1 .. back + Len(bytes)
        /\ (back + k) - back = k
    BY <1>2, <1>7
  <2> QED BY <2>1, <1>3
<1>13. n \in Memory
  BY <1>1, <1>10, MemoryIs
<1> QED BY <1>0, <1>2, <1>6, <1>9, <1>11, <1>12, <1>13 DEF IsBlit

LEMMA BlitFields ==
  ASSUME NEW u \in WriterType, NEW bytes \in Seq(Nat), u.buf \in DOMAIN u.mem,
         Len(bytes) <= Available(u), NEW x, x = Blit(u, bytes)
  PROVE  /\ x \in WriterType /\ SameControl(u, x) /\ SameQueue(u, x)
         /\ x.buf = u.buf /\ x.scheduled_back = u.scheduled_back
         /\ x.back = u.back + Len(bytes) /\ x.mem = BlitInto(u.mem, u.buf, u.back, bytes)
<1>1. /\ u.mem \in Memory /\ u.back \in Nat /\ u.mem[u.buf] \in Seq(Nat)
  BY MemoryIs DEF WriterType
<1>2. Len(bytes) \in Nat /\ Len(u.mem[u.buf]) \in Nat
  BY <1>1, LenProperties
<1>3. u.back + Len(bytes) <= Len(u.mem[u.buf])
  BY <1>1, <1>2 DEF Available
<1>4. x = [u EXCEPT !.back = u.back + Len(bytes),
                    !.mem = BlitInto(u.mem, u.buf, u.back, bytes)]
  BY DEF Blit, BlitInto, WriterType
<1>5. BlitInto(u.mem, u.buf, u.back, bytes) \in Memory
  BY <1>1, <1>3, BlitMemory DEF IsBlit
<1>6. PICK n \in Memory : n = BlitInto(u.mem, u.buf, u.back, bytes)
  BY <1>5
<1>7. PICK k \in Nat : k = u.back + Len(bytes)
  BY <1>1, <1>2
<1>8. x = [u EXCEPT !.back = k, !.mem = n]
  BY <1>4, <1>6, <1>7
<1>9. x \in WriterType
  BY <1>8 DEF WriterType
<1>10. /\ x.back = k /\ x.mem = n /\ x.buf = u.buf /\ x.scheduled_back = u.scheduled_back
       /\ SameQueue(u, x)
  BY <1>8 DEF WriterType, SameQueue
<1>11. SameControl(u, x)
  BY <1>8 DEF WriterType, SameControl
<1> QED BY <1>6, <1>7, <1>9, <1>10, <1>11

LEMMA StreamsIs ==
  ASSUME NEW u \in WriterType, NEW g \in Nat, Streams(u, g)
  PROVE  /\ u.mem \in Memory /\ u.scheduled \in Seq(IovecType) /\ u.buf \in DOMAIN u.mem
         /\ u.written \in Nat /\ u.scheduled_bytes \in Nat
         /\ u.scheduled_back \in Nat /\ u.back \in Nat /\ Len(u.mem[u.buf]) \in Nat
         /\ u.scheduled_back <= u.back /\ u.back <= Len(u.mem[u.buf])
         /\ g = u.written + u.scheduled_bytes + (u.back - u.scheduled_back)
         /\ \A k \in 1..(u.back - u.scheduled_back) :
              u.mem[u.buf][u.scheduled_back + k] = u.written + u.scheduled_bytes + k
<1>1. /\ u.mem \in Memory /\ u.scheduled \in Seq(IovecType) /\ u.written \in Nat
      /\ u.scheduled_back \in Nat /\ u.back \in Nat /\ u.buf \in Nat
  BY DEF WriterType
<1>2. u.scheduled_bytes \in Nat
  BY <1>1, IovecsHaveLengths DEF Streams
<1>3. /\ u.scheduled_back <= u.back
      /\ u.written + (u.scheduled_bytes + u.back - u.scheduled_back) = g
      /\ Holds(u.mem, Unscheduled(u), u.written + u.scheduled_bytes)
  BY DEF Streams, bytes_to_write
<1>4. PICK v : v = Unscheduled(u)
  OBVIOUS
<1>5. v.buf = u.buf /\ v.pos = u.scheduled_back /\ v.len = u.back - u.scheduled_back
  BY <1>4 DEF Unscheduled, IOVec
<1>6. /\ v.buf \in DOMAIN u.mem /\ v.pos + v.len <= Len(u.mem[v.buf])
      /\ \A k \in 1..v.len : u.mem[v.buf][v.pos + k] = u.written + u.scheduled_bytes + k
  BY <1>3, <1>4 DEF Holds
<1>7. u.buf \in DOMAIN u.mem /\ u.mem[u.buf] \in Seq(Nat)
  BY <1>1, <1>5, <1>6, MemoryIs
<1>8. Len(u.mem[u.buf]) \in Nat
  BY <1>7, LenProperties
<1>9. u.back <= Len(u.mem[u.buf])
  BY <1>1, <1>3, <1>5, <1>6, <1>8
<1>10. g = u.written + u.scheduled_bytes + (u.back - u.scheduled_back)
  BY <1>1, <1>2, <1>3
<1> QED BY <1>1, <1>2, <1>3, <1>5, <1>6, <1>7, <1>8, <1>9, <1>10

LEMMA UnscheduledHolds ==
  ASSUME NEW u \in WriterType, NEW f \in Nat, u.buf \in DOMAIN u.mem,
         u.scheduled_back <= u.back, u.back <= Len(u.mem[u.buf]), Len(u.mem[u.buf]) \in Nat,
         \A k \in 1..(u.back - u.scheduled_back) : u.mem[u.buf][u.scheduled_back + k] = f + k
  PROVE  Holds(u.mem, Unscheduled(u), f)
<1>1. u.scheduled_back \in Nat /\ u.back \in Nat
  BY DEF WriterType
<1>2. PICK v : v = Unscheduled(u)
  OBVIOUS
<1>3. v.buf = u.buf /\ v.pos = u.scheduled_back /\ v.len = u.back - u.scheduled_back
  BY <1>2 DEF Unscheduled, IOVec
<1>4. v.pos + v.len <= Len(u.mem[u.buf])
  BY <1>1, <1>3
<1>5. \A k \in 1..v.len : u.mem[v.buf][v.pos + k] = f + k
  BY <1>3
<1> QED BY <1>2, <1>3, <1>4, <1>5 DEF Holds

LEMMA QueueIs ==
  ASSUME NEW u \in WriterType, NEW g \in Nat, Sound(u, g), NEW i \in 1..Len(u.scheduled),
         NEW v, v = u.scheduled[i]
  PROVE  /\ v \in IovecType /\ v.buf \in DOMAIN u.mem /\ v.pos \in Nat /\ v.len \in Nat
         /\ v.pos + v.len <= Len(u.mem[v.buf])
         /\ v.buf = u.buf => v.kind = "Keep" /\ v.pos + v.len <= u.scheduled_back
<1>1. v \in IovecType
  BY IovecsHaveLengths DEF WriterType
<1>2. Holds(u.mem, v, u.written + Ends(u.scheduled)[i - 1])
  BY DEF Sound, Streams, QueueHolds
<1>3. v.buf = u.buf => v.kind = "Keep" /\ v.pos + v.len <= u.scheduled_back
  BY DEF Sound, Below
<1> QED BY <1>1, <1>2, <1>3 DEF Holds, IovecType

LEMMA BlitSound ==
  ASSUME NEW u \in WriterType, NEW g \in Nat, Sound(u, g), NEW bytes, Numbered(bytes, g),
         Len(bytes) <= Available(u), NEW x, x = Blit(u, bytes)
  PROVE  /\ x \in WriterType /\ Sound(x, g + Len(bytes))
         /\ SameControl(u, x) /\ SameQueue(u, x) /\ x.buf = u.buf
         /\ x.scheduled_back = u.scheduled_back /\ x.back = u.back + Len(bytes)
         /\ Len(x.mem[x.buf]) = Len(u.mem[u.buf])
<1>1. /\ u.mem \in Memory /\ u.scheduled \in Seq(IovecType) /\ u.buf \in DOMAIN u.mem
      /\ u.written \in Nat /\ u.scheduled_bytes \in Nat
      /\ u.scheduled_back \in Nat /\ u.back \in Nat /\ Len(u.mem[u.buf]) \in Nat
      /\ u.scheduled_back <= u.back /\ u.back <= Len(u.mem[u.buf])
      /\ g = u.written + u.scheduled_bytes + (u.back - u.scheduled_back)
      /\ \A k \in 1..(u.back - u.scheduled_back) :
           u.mem[u.buf][u.scheduled_back + k] = u.written + u.scheduled_bytes + k
  BY StreamsIs DEF Sound
<1>2. bytes \in Seq(Nat) /\ Len(bytes) \in Nat /\ \A i \in 1..Len(bytes) : bytes[i] = g + i
  BY LenProperties DEF Numbered
<1>3. /\ x \in WriterType /\ SameControl(u, x) /\ SameQueue(u, x)
      /\ x.buf = u.buf /\ x.scheduled_back = u.scheduled_back
      /\ x.back = u.back + Len(bytes) /\ x.mem = BlitInto(u.mem, u.buf, u.back, bytes)
  BY <1>1, <1>2, BlitFields
<1>4. PICK n : n = x.mem
  OBVIOUS
<1>5. u.back + Len(bytes) <= Len(u.mem[u.buf])
  <2>1. PICK c \in Nat : c = Len(u.mem[u.buf])
    BY <1>1
  <2>2. PICK e \in Nat : e = u.back
    BY <1>1
  <2>3. PICK l \in Nat : l = Len(bytes)
    BY <1>2
  <2>4. l <= c - e
    BY <2>1, <2>2, <2>3 DEF Available
  <2>5. e + l <= c
    BY <2>4
  <2> QED BY <2>1, <2>2, <2>3, <2>5
<1>6. /\ n \in Memory /\ DOMAIN n = DOMAIN u.mem /\ Len(n[u.buf]) = Len(u.mem[u.buf])
      /\ \A c \in DOMAIN u.mem : c # u.buf => n[c] = u.mem[c]
      /\ \A k \in 1..u.back : n[u.buf][k] = u.mem[u.buf][k]
      /\ \A k \in 1..Len(bytes) : n[u.buf][u.back + k] = bytes[k]
  <2>1. IsBlit(u.mem, u.buf, u.back, bytes, BlitInto(u.mem, u.buf, u.back, bytes))
    BY <1>1, <1>2, <1>5, BlitMemory
  <2> QED BY <2>1, <1>3, <1>4 DEF IsBlit
<1>7. ASSUME NEW i \in 1..Len(u.scheduled) PROVE Agree(u.mem, n, u.scheduled[i])
  <2>1. PICK v : v = u.scheduled[i]
    OBVIOUS
  <2>2. /\ v.buf \in DOMAIN u.mem /\ v.pos \in Nat /\ v.len \in Nat
        /\ v.buf = u.buf => v.pos + v.len <= u.scheduled_back
    BY <2>1, QueueIs
  <2>3. ASSUME v.buf = u.buf, NEW k \in 1..v.len PROVE v.pos + k \in 1..u.back
    <3>1. v.pos + v.len <= u.scheduled_back /\ v.pos \in Nat /\ v.len \in Nat
      BY <2>2, <2>3
    <3>2. u.scheduled_back \in Nat /\ u.back \in Nat /\ u.scheduled_back <= u.back
      BY <1>1
    <3>3. PICK A \in Nat : A = v.pos
      BY <3>1
    <3>4. PICK B \in Nat : B = v.len
      BY <3>1
    <3>5. PICK C \in Nat : C = u.back
      BY <3>2
    <3>6. A + B <= C
      <4>1. PICK D \in Nat : D = u.scheduled_back
        BY <3>2
      <4>2. A + B <= D /\ D <= C
        BY <3>1, <3>2, <3>3, <3>4, <3>5, <4>1
      <4> QED BY <4>2
    <3>7. PICK h \in 1..B : h = k
      BY <2>3, <3>4
    <3>8. A + h \in 1..C
      BY <3>6
    <3> QED BY <3>3, <3>5, <3>7, <3>8
  <2>4. \A k \in 1..v.len : n[v.buf][v.pos + k] = u.mem[v.buf][v.pos + k]
    BY <2>2, <2>3, <1>6
  <2>5. Len(n[v.buf]) = Len(u.mem[v.buf]) /\ v.buf \in DOMAIN n
    BY <2>2, <1>6
  <2> QED BY <2>1, <2>4, <2>5 DEF Agree
<1>8. QueueHolds(n, x.scheduled, x.written)
  <2>1. QueueHolds(u.mem, u.scheduled, u.written)
    BY DEF Sound, Streams
  <2>2. QueueHolds(n, u.scheduled, u.written)
    BY <1>7, <2>1, QueueInBoth
  <2> QED BY <2>2, <1>3 DEF SameQueue, SameControl
<1> DEFINE w == u.written + u.scheduled_bytes
           b == u.back
           sb == u.scheduled_back
           l == Len(bytes)
<1>9. w \in Nat /\ b \in Nat /\ sb \in Nat /\ l \in Nat /\ sb <= b /\ g = w + (b - sb)
  BY <1>1, <1>2
<1>9a. /\ w = u.written + u.scheduled_bytes /\ b = u.back /\ sb = u.scheduled_back
       /\ l = Len(bytes)
  OBVIOUS
<1>9b. /\ \A k \in 1..(b - sb) : u.mem[u.buf][sb + k] = w + k
       /\ \A k \in 1..b : n[u.buf][k] = u.mem[u.buf][k]
       /\ \A k \in 1..l : n[u.buf][b + k] = g + k
  BY <1>1, <1>2, <1>6
<1> HIDE DEF w, b, sb, l
<1>10. ASSUME NEW k \in 1..(b + l - sb) PROVE n[u.buf][sb + k] = w + k
  <2>1. CASE k <= b - sb
    <3>1. k \in 1..(b - sb) /\ sb + k \in 1..b
      BY <2>1, <1>9
    <3> QED BY <3>1, <1>9b
  <2>2. CASE k > b - sb
    <3>1. PICK j \in Int : j = k - (b - sb)
      BY <1>9
    <3>2. j \in 1..l /\ sb + k = b + j /\ g + j = w + k
      BY <2>2, <3>1, <1>9
    <3> QED BY <3>2, <1>9b
  <2> QED BY <2>1, <2>2, <1>9
<1>11. Holds(x.mem, Unscheduled(x), w)
  <2>1. x.back = b + l /\ x.scheduled_back = sb /\ x.scheduled_back <= x.back
    BY <1>1, <1>3, <1>9, <1>9a
  <2>2. x.buf \in DOMAIN x.mem /\ Len(x.mem[x.buf]) \in Nat /\ x.back <= Len(x.mem[x.buf])
    BY <2>1, <1>1, <1>3, <1>4, <1>5, <1>6, <1>9, <1>9a
  <2>3. \A k \in 1..(x.back - x.scheduled_back) : x.mem[x.buf][x.scheduled_back + k] = w + k
    <3>1. x.back - x.scheduled_back = b + l - sb
      BY <2>1, <1>9
    <3>2. x.mem[x.buf] = n[u.buf]
      BY <1>3, <1>4
    <3> QED BY <2>1, <3>1, <3>2, <1>10
  <2> QED BY <2>1, <2>2, <2>3, <1>3, <1>9, UnscheduledHolds
<1>12. x.written = u.written /\ x.scheduled = u.scheduled /\ x.scheduled_bytes = u.scheduled_bytes
  BY <1>3 DEF SameQueue, SameControl
<1>13. /\ IsFiniteSet(DOMAIN x.mem) /\ 0 \in DOMAIN x.mem /\ Len(x.mem[x.buf]) > 0
       /\ x.scheduled_bytes = iovecs_length(x.scheduled) /\ LastUse(x.scheduled)
  BY <1>3, <1>4, <1>6, <1>12 DEF Sound, Streams
<1>14. x.scheduled_back <= x.back /\ x.written + bytes_to_write(x) = g + Len(bytes)
  <2>1. /\ x.written = u.written /\ x.scheduled_bytes = u.scheduled_bytes
        /\ x.scheduled_back = u.scheduled_back /\ x.back = u.back + Len(bytes)
    BY <1>3, <1>12
  <2>2. PICK ww \in Nat : ww = u.written
    BY <1>1
  <2>3. PICK c \in Nat : c = u.scheduled_bytes
    BY <1>1
  <2>4. PICK e \in Nat : e = u.back
    BY <1>1
  <2>5. PICK f \in Nat : f = u.scheduled_back
    BY <1>1
  <2>6. PICK ll \in Nat : ll = Len(bytes)
    BY <1>2
  <2>7. f <= e /\ g = ww + c + (e - f)
    BY <1>1, <2>2, <2>3, <2>4, <2>5
  <2>8. x.written = ww /\ bytes_to_write(x) = c + (e + ll) - f
    BY <2>1, <2>2, <2>3, <2>4, <2>5, <2>6 DEF bytes_to_write
  <2>9. ww + (c + (e + ll) - f) = g + ll /\ f <= e + ll
    BY <2>7
  <2> QED BY <2>1, <2>4, <2>5, <2>6, <2>8, <2>9
<1>15. Below(x.scheduled, x.buf, x.scheduled_back)
  BY <1>3, <1>12 DEF Sound
<1>16. Streams(x, g + Len(bytes))
  BY <1>4, <1>8, <1>9a, <1>11, <1>12, <1>13, <1>14 DEF Streams
<1> QED BY <1>3, <1>4, <1>6, <1>15, <1>16 DEF Sound

SameBuffer(u, x) ==
  x.buf = u.buf /\ x.scheduled_back = u.scheduled_back /\ x.back = u.back

LEMMA AddIovecFields ==
  ASSUME NEW u \in WriterType, ~Stopped(u), NEW v \in IovecType, u.scheduled_bytes \in Nat,
         NEW x, x = AddIovec(u, v)
  PROVE  /\ x \in WriterType /\ SameControl(u, x) /\ SameBuffer(u, x) /\ x.mem = u.mem
         /\ x.scheduled = Append(u.scheduled, v)
         /\ x.scheduled_bytes = u.scheduled_bytes + v.len
<1>1. PICK s : s = Append(u.scheduled, v)
  OBVIOUS
<1>2. s \in Seq(IovecType)
  BY <1>1, AppendProperties DEF WriterType
<1>3. PICK n : n = u.scheduled_bytes + v.len
  OBVIOUS
<1>4. n \in Int
  BY <1>3 DEF IovecType
<1>5. x = [u EXCEPT !.scheduled_bytes = n, !.scheduled = s]
  BY <1>1, <1>3 DEF AddIovec, WriterType
<1>6. x \in WriterType
  BY <1>2, <1>4, <1>5 DEF WriterType
<1>7. x.scheduled = s /\ x.scheduled_bytes = n /\ x.mem = u.mem /\ SameBuffer(u, x)
  BY <1>5 DEF WriterType, SameBuffer
<1>8. SameControl(u, x)
  BY <1>5 DEF WriterType, SameControl
<1> QED BY <1>1, <1>3, <1>6, <1>7, <1>8

(* The queue of u with v at its end, where x is u with that queue.         *)
NotDestroyed(s, b) == \A i \in 1..Len(s) : s[i].kind = "Destroy" => s[i].buf # b
GoodQueue(x) ==
  /\ x.scheduled_bytes = iovecs_length(x.scheduled)
  /\ QueueHolds(x.mem, x.scheduled, x.written)
  /\ LastUse(x.scheduled)
LEMMA QueueGrows ==
  ASSUME NEW u \in WriterType, NEW x \in WriterType, NEW v \in IovecType,
         x.scheduled = Append(u.scheduled, v), x.scheduled_bytes = u.scheduled_bytes + v.len,
         x.written = u.written, u.scheduled_bytes = iovecs_length(u.scheduled),
         QueueHolds(x.mem, u.scheduled, u.written),
         Holds(x.mem, v, u.written + u.scheduled_bytes), LastUse(u.scheduled),
         NotDestroyed(u.scheduled, v.buf)
  PROVE  Prefix(u.scheduled, x.scheduled) /\ GoodQueue(x)
<1>1. u.scheduled \in Seq(IovecType) /\ u.written \in Nat
  BY DEF WriterType
<1>2. OneMore(u.scheduled, v, x.scheduled)
  BY <1>1, AppendedIovec
<1>3. Prefix(u.scheduled, x.scheduled) /\ x.scheduled_bytes = iovecs_length(x.scheduled)
  BY <1>2 DEF OneMore
<1>4. QueueHolds(x.mem, x.scheduled, x.written)
  BY <1>1, QueueWithMore
<1>5. LastUse(x.scheduled)
  BY <1>1, LastUseOfMore DEF NotDestroyed
<1> QED BY <1>3, <1>4, <1>5 DEF GoodQueue

LEMMA ScheduledAll ==
  ASSUME NEW u \in WriterType, ~Stopped(u), NEW g \in Nat, Sound(u, g),
         NEW kind \in {"Keep", "Destroy"}, NEW x, x = ScheduleUnscheduled(u, kind)
  PROVE  /\ x \in WriterType /\ SameControl(u, x) /\ Streams(x, g)
         /\ x.mem = u.mem /\ x.buf = u.buf /\ x.back = u.back /\ x.scheduled_back = u.back
         /\ Prefix(u.scheduled, x.scheduled)
         /\ kind = "Keep" => Sound(x, g)
<1>1. /\ u.mem \in Memory /\ u.scheduled \in Seq(IovecType) /\ u.buf \in DOMAIN u.mem
      /\ u.written \in Nat /\ u.scheduled_bytes \in Nat
      /\ u.scheduled_back \in Nat /\ u.back \in Nat /\ Len(u.mem[u.buf]) \in Nat
      /\ u.scheduled_back <= u.back /\ u.back <= Len(u.mem[u.buf])
      /\ g = u.written + u.scheduled_bytes + (u.back - u.scheduled_back)
      /\ \A k \in 1..(u.back - u.scheduled_back) :
           u.mem[u.buf][u.scheduled_back + k] = u.written + u.scheduled_bytes + k
  BY StreamsIs DEF Sound
<1>2. CASE u.back = u.scheduled_back
  <2>1. x = u
    BY <1>2 DEF ScheduleUnscheduled
  <2>2. Prefix(u.scheduled, u.scheduled)
    BY <1>1, IovecsHaveLengths DEF Prefix
  <2> QED BY <1>2, <2>1, <2>2 DEF SameControl, Sound
<1>3. CASE u.back # u.scheduled_back
  <2>1. PICK y : y = [u EXCEPT !.scheduled_back = u.back]
    OBVIOUS
  <2>2. y \in WriterType
    BY <1>1, <2>1 DEF WriterType
  <2>3. /\ y.scheduled = u.scheduled /\ y.scheduled_bytes = u.scheduled_bytes /\ y.mem = u.mem
        /\ y.buf = u.buf /\ y.back = u.back /\ y.scheduled_back = u.back
    BY <2>1 DEF WriterType
  <2>4. SameControl(u, y)
    BY <2>1 DEF WriterType, SameControl
  <2>5. PICK v : v = IOVec(u.buf, u.scheduled_back, u.back - u.scheduled_back, kind)
    OBVIOUS
  <2>6. /\ v \in IovecType /\ v.buf = u.buf /\ v.pos = u.scheduled_back
        /\ v.len = u.back - u.scheduled_back /\ v.kind = kind
    <3>1. u.buf \in Nat /\ u.back - u.scheduled_back \in Nat
      BY <1>1 DEF WriterType
    <3> QED BY <3>1, <1>1, <2>5 DEF IOVec, IovecType
  <2>7. x = AddIovec(y, v)
    BY <1>3, <2>1, <2>5 DEF ScheduleUnscheduled
  <2>8. ~Stopped(y) /\ y.scheduled_bytes \in Nat
    BY <1>1, <2>3, <2>4 DEF Stopped, SameControl
  <2>9. /\ x \in WriterType /\ SameControl(y, x) /\ SameBuffer(y, x) /\ x.mem = y.mem
        /\ x.scheduled = Append(y.scheduled, v)
        /\ x.scheduled_bytes = y.scheduled_bytes + v.len
    BY <2>2, <2>6, <2>7, <2>8, AddIovecFields
  <2>10. /\ x.mem = u.mem /\ x.buf = u.buf /\ x.back = u.back /\ x.scheduled_back = u.back
         /\ x.scheduled = Append(u.scheduled, v)
         /\ x.scheduled_bytes = u.scheduled_bytes + v.len
    BY <2>3, <2>9 DEF SameBuffer
  <2>11. SameControl(u, x)
    BY <2>4, <2>9 DEF SameControl
  <2>12. x.written = u.written
    BY <2>11 DEF SameControl
  <2>13. Holds(u.mem, v, u.written + u.scheduled_bytes)
    <3>1. v.pos + v.len <= Len(u.mem[u.buf])
      BY <1>1, <2>6
    <3>2. \A k \in 1..v.len : u.mem[v.buf][v.pos + k] = u.written + u.scheduled_bytes + k
      BY <1>1, <2>6
    <3> QED BY <1>1, <2>6, <3>1, <3>2 DEF Holds
  <2>14. /\ u.scheduled_bytes = iovecs_length(u.scheduled) /\ LastUse(u.scheduled)
         /\ QueueHolds(u.mem, u.scheduled, u.written)
         /\ IsFiniteSet(DOMAIN u.mem) /\ 0 \in DOMAIN u.mem /\ Len(u.mem[u.buf]) > 0
    BY DEF Sound, Streams
  <2>15. NotDestroyed(u.scheduled, v.buf)
    BY <2>6 DEF Sound, Below, NotDestroyed
  <2>16. Prefix(u.scheduled, x.scheduled) /\ GoodQueue(x)
    BY <2>6, <2>9, <2>10, <2>12, <2>13, <2>14, <2>15, QueueGrows
  <2>17. Holds(x.mem, Unscheduled(x), x.written + x.scheduled_bytes)
    <3>1. x.written + x.scheduled_bytes \in Nat
      <4>1. v.len \in Nat
        BY <2>6 DEF IovecType
      <4>2. u.written \in Nat /\ u.scheduled_bytes \in Nat
        BY <1>1
      <4>3. x.written = u.written /\ x.scheduled_bytes = u.scheduled_bytes + v.len
        BY <2>10, <2>12
      <4> QED BY <4>1, <4>2, <4>3
    <3>2. x.buf \in DOMAIN x.mem /\ Len(x.mem[x.buf]) \in Nat /\ x.back <= Len(x.mem[x.buf])
      BY <1>1, <2>10
    <3>3. x.scheduled_back <= x.back /\ \A k \in 1..(x.back - x.scheduled_back) : FALSE
      BY <1>1, <2>10
    <3> QED BY <2>9, <3>1, <3>2, <3>3, UnscheduledHolds
  <2>18. x.written + bytes_to_write(x) = g /\ x.scheduled_back <= x.back
    BY <1>1, <2>6, <2>10, <2>12 DEF bytes_to_write
  <2>19. Streams(x, g)
    BY <2>10, <2>14, <2>16, <2>17, <2>18 DEF Streams, GoodQueue
  <2>20. ASSUME kind = "Keep" PROVE Below(x.scheduled, x.buf, x.scheduled_back)
    <3>1. /\ Len(x.scheduled) = Len(u.scheduled) + 1 /\ x.scheduled[Len(u.scheduled) + 1] = v
          /\ \A i \in 1..Len(u.scheduled) : x.scheduled[i] = u.scheduled[i]
      BY <1>1, <2>6, <2>10, AppendedIovec DEF OneMore
    <3>2. Len(u.scheduled) \in Nat
      BY <1>1, IovecsHaveLengths
    <3>3. ASSUME NEW i \in 1..Len(u.scheduled), u.scheduled[i].buf = u.buf
          PROVE  u.scheduled[i].kind = "Keep" /\ u.scheduled[i].pos + u.scheduled[i].len <= u.back
      <4>1. PICK z : z = u.scheduled[i]
        OBVIOUS
      <4>2. z.pos \in Nat /\ z.len \in Nat /\ z.kind = "Keep" /\ z.pos + z.len <= u.scheduled_back
        BY <3>3, <4>1, QueueIs
      <4>3. u.scheduled_back \in Nat /\ u.back \in Nat /\ u.scheduled_back <= u.back
        BY <1>1
      <4>4. z.pos + z.len <= u.back
        BY <4>2, <4>3
      <4> QED BY <4>1, <4>2, <4>4
    <3>4. v.kind = "Keep" /\ v.pos + v.len <= u.back
      BY <2>6, <2>20, <1>1
    <3> QED BY <3>1, <3>2, <3>3, <3>4, <2>10 DEF Below
  <2> QED BY <2>9, <2>10, <2>11, <2>16, <2>19, <2>20 DEF Sound
<1> QED BY <1>2, <1>3

WithNew(m, b, bytes) == [c \in DOMAIN m \cup {b} |-> IF c = b THEN bytes ELSE m[c]]
IsWithNew(m, b, bytes, n) ==
  /\ n \in Memory /\ DOMAIN n = DOMAIN m \cup {b} /\ n[b] = bytes
  /\ \A c \in DOMAIN m : n[c] = m[c]
LEMMA AllocatedMemory ==
  ASSUME NEW m \in Memory, NEW b \in Nat, b \notin DOMAIN m, NEW bytes \in Seq(Nat)
  PROVE  IsWithNew(m, b, bytes, WithNew(m, b, bytes))
<1>1. PICK n : n = WithNew(m, b, bytes)
  OBVIOUS
<1>2. DOMAIN m \in SUBSET Nat /\ \A c \in DOMAIN m : m[c] \in Seq(Nat)
  BY MemoryIs
<1>3. DOMAIN n = DOMAIN m \cup {b} /\ n[b] = bytes /\ \A c \in DOMAIN m : n[c] = m[c]
  BY <1>1 DEF WithNew
<1>4. n \in [DOMAIN m \cup {b} -> Seq(Nat)]
  BY <1>1, <1>2 DEF WithNew
<1>5. n \in Memory
  BY <1>2, <1>4, MemoryIs
<1> QED BY <1>1, <1>3, <1>5 DEF IsWithNew

LEMMA AllocatedFields ==
  ASSUME NEW u \in WriterType, NEW b \in Nat, b \notin DOMAIN u.mem, NEW bytes \in Seq(Nat),
         NEW x, x = Allocated(u, b, bytes)
  PROVE  /\ x \in WriterType /\ SameControl(u, x) /\ SameBuffer(u, x) /\ SameQueue(u, x)
         /\ x.mem = WithNew(u.mem, b, bytes)
<1>1. u.mem \in Memory
  BY DEF WriterType
<1>2. WithNew(u.mem, b, bytes) \in Memory
  BY <1>1, AllocatedMemory DEF IsWithNew
<1>3. x = [u EXCEPT !.mem = WithNew(u.mem, b, bytes)]
  BY DEF Allocated, WithNew, WriterType
<1>4. PICK n \in Memory : n = WithNew(u.mem, b, bytes)
  BY <1>2
<1>5. x = [u EXCEPT !.mem = n]
  BY <1>3, <1>4
<1>6. x \in WriterType
  BY <1>5 DEF WriterType
<1>7. x.mem = n /\ SameBuffer(u, x) /\ SameQueue(u, x)
  BY <1>5 DEF WriterType, SameBuffer, SameQueue
<1>8. SameControl(u, x)
  BY <1>5 DEF WriterType, SameControl
<1> QED BY <1>4, <1>6, <1>7, <1>8

(* What is in memory is still there with one bigstring more.               *)
LEMMA HoldsWithNew ==
  ASSUME NEW m, NEW b, b \notin DOMAIN m, NEW bytes, NEW n, IsWithNew(m, b, bytes, n),
         NEW s, NEW w, QueueHolds(m, s, w)
  PROVE  QueueHolds(n, s, w) /\ \A i \in 1..Len(s) : s[i].buf # b
<1>1. ASSUME NEW i \in 1..Len(s) PROVE Agree(m, n, s[i]) /\ s[i].buf # b
  <2>1. Holds(m, s[i], w + Ends(s)[i - 1])
    BY DEF QueueHolds
  <2>2. PICK v : v = s[i]
    OBVIOUS
  <2>3. v.buf \in DOMAIN m
    BY <2>1, <2>2 DEF Holds
  <2>4. v.buf \in DOMAIN n /\ n[v.buf] = m[v.buf]
    BY <2>3 DEF IsWithNew
  <2> QED BY <2>2, <2>3, <2>4 DEF Agree
<1> QED BY <1>1, QueueInBoth

Replaced(u) ==
  [Allocated(u, NewBigstring(u), [i \in 1..Len(u.mem[u.buf]) |-> 0])
     EXCEPT !.buf = NewBigstring(u), !.scheduled_back = 0, !.back = 0]

LEMMA ReplacedSound ==
  ASSUME NEW u \in WriterType, NEW g \in Nat, Streams(u, g), u.scheduled_back = u.back,
         NEW x, x = Replaced(u)
  PROVE  /\ x \in WriterType /\ Sound(x, g) /\ SameControl(u, x) /\ SameQueue(u, x)
         /\ x.back = 0 /\ Len(x.mem[x.buf]) = Len(u.mem[u.buf])
<1>1. /\ u.mem \in Memory /\ u.scheduled \in Seq(IovecType) /\ u.buf \in DOMAIN u.mem
      /\ u.written \in Nat /\ u.scheduled_bytes \in Nat /\ Len(u.mem[u.buf]) \in Nat
      /\ u.back \in Nat /\ g = u.written + u.scheduled_bytes + (u.back - u.scheduled_back)
  BY StreamsIs
<1>2. /\ IsFiniteSet(DOMAIN u.mem) /\ 0 \in DOMAIN u.mem /\ Len(u.mem[u.buf]) > 0
      /\ GoodQueue(u)
  BY DEF Streams, GoodQueue
<1>3. PICK b \in Nat : b = NewBigstring(u) /\ b \notin DOMAIN u.mem
  BY <1>1, <1>2, MemoryIs, NewIsNew
<1>4. PICK c : c = [i \in 1..Len(u.mem[u.buf]) |-> 0]
  OBVIOUS
<1>5. c \in Seq(Nat) /\ Len(c) = Len(u.mem[u.buf])
  BY <1>1, <1>4
<1>6. PICK y : y = Allocated(u, b, c)
  OBVIOUS
<1>7. /\ y \in WriterType /\ SameControl(u, y) /\ SameQueue(u, y)
      /\ y.mem = WithNew(u.mem, b, c)
  BY <1>3, <1>5, <1>6, AllocatedFields
<1>8. IsWithNew(u.mem, b, c, y.mem)
  BY <1>1, <1>3, <1>5, <1>7, AllocatedMemory
<1>9. x = [y EXCEPT !.buf = b, !.scheduled_back = 0, !.back = 0]
  BY <1>3, <1>4, <1>6 DEF Replaced
<1>10. x \in WriterType
  <2>1. b \in Nat /\ y \in WriterType
    BY <1>3, <1>7
  <2>2. PICK z \in Nat : z = 0
    OBVIOUS
  <2>3. x = [y EXCEPT !.buf = b, !.scheduled_back = z, !.back = z]
    BY <1>9, <2>2
  <2> QED BY <2>1, <2>3 DEF WriterType
<1>11. x.buf = b /\ x.scheduled_back = 0 /\ x.back = 0 /\ x.mem = y.mem /\ SameQueue(y, x)
  BY <1>7, <1>9 DEF WriterType, SameQueue
<1>12. SameControl(y, x)
  BY <1>7, <1>9 DEF WriterType, SameControl
<1>13. SameControl(u, x) /\ SameQueue(u, x)
  BY <1>7, <1>11, <1>12 DEF SameControl, SameQueue
<1>14. /\ x.written = u.written /\ x.scheduled = u.scheduled
       /\ x.scheduled_bytes = u.scheduled_bytes
  BY <1>13 DEF SameControl, SameQueue
<1>15. /\ QueueHolds(x.mem, x.scheduled, x.written)
       /\ \A i \in 1..Len(x.scheduled) : x.scheduled[i].buf # b
  BY <1>2, <1>3, <1>8, <1>11, <1>14, HoldsWithNew DEF GoodQueue
<1>16. /\ DOMAIN x.mem = DOMAIN u.mem \cup {b} /\ x.mem[b] = c
  BY <1>8, <1>11 DEF IsWithNew
<1>17. IsFiniteSet(DOMAIN x.mem) /\ 0 \in DOMAIN x.mem
  BY <1>2, <1>16, FS_AddElement
<1>18. x.buf \in DOMAIN x.mem /\ Len(x.mem[x.buf]) = Len(u.mem[u.buf])
  BY <1>5, <1>11, <1>16
<1>19. Holds(x.mem, Unscheduled(x), x.written + x.scheduled_bytes)
  <2>1. x.written + x.scheduled_bytes \in Nat
    BY <1>1, <1>14
  <2>2. x.scheduled_back <= x.back /\ \A k \in 1..(x.back - x.scheduled_back) : FALSE
    BY <1>11
  <2>3. x.back <= Len(x.mem[x.buf]) /\ Len(x.mem[x.buf]) \in Nat
    BY <1>1, <1>11, <1>18
  <2> QED BY <2>1, <2>2, <2>3, <1>10, <1>18, UnscheduledHolds
<1>20. x.written + bytes_to_write(x) = g /\ x.scheduled_back <= x.back
  BY <1>1, <1>11, <1>14 DEF bytes_to_write
<1>21. Below(x.scheduled, x.buf, x.scheduled_back)
  BY <1>11, <1>15 DEF Below
<1>22. Streams(x, g)
  BY <1>2, <1>14, <1>15, <1>17, <1>18, <1>19, <1>20 DEF Streams, GoodQueue
<1> QED BY <1>10, <1>11, <1>13, <1>18, <1>21, <1>22 DEF Sound

OnItsOwn(u, c, pos, n, kind) ==
  AddIovec(Allocated(u, NewBigstring(u), c), IOVec(NewBigstring(u), pos, n, kind))

LEMMA OnItsOwnSound ==
  ASSUME NEW u \in WriterType, ~Stopped(u), NEW g \in Nat, Sound(u, g), u.scheduled_back = u.back,
         NEW c \in Seq(Nat), NEW pos \in Nat, NEW n \in Nat, Len(c) = pos + n,
         \A k \in 1..n : c[pos + k] = g + k, NEW kind \in {"Keep", "Destroy"},
         NEW x, x = OnItsOwn(u, c, pos, n, kind)
  PROVE  /\ x \in WriterType /\ Sound(x, g + n) /\ SameControl(u, x) /\ SameBuffer(u, x)
         /\ Prefix(u.scheduled, x.scheduled)
<1>1. /\ u.mem \in Memory /\ u.scheduled \in Seq(IovecType) /\ u.buf \in DOMAIN u.mem
      /\ u.written \in Nat /\ u.scheduled_bytes \in Nat /\ Len(u.mem[u.buf]) \in Nat
      /\ u.back \in Nat /\ u.back <= Len(u.mem[u.buf])
      /\ g = u.written + u.scheduled_bytes + (u.back - u.scheduled_back)
  BY StreamsIs DEF Sound
<1>2. /\ IsFiniteSet(DOMAIN u.mem) /\ 0 \in DOMAIN u.mem /\ Len(u.mem[u.buf]) > 0
      /\ GoodQueue(u)
  BY DEF Sound, Streams, GoodQueue
<1>3. PICK b \in Nat : b = NewBigstring(u) /\ b \notin DOMAIN u.mem
  BY <1>1, <1>2, MemoryIs, NewIsNew
<1>4. PICK y : y = Allocated(u, b, c)
  OBVIOUS
<1>5. /\ y \in WriterType /\ SameControl(u, y) /\ SameQueue(u, y) /\ SameBuffer(u, y)
      /\ y.mem = WithNew(u.mem, b, c)
  BY <1>3, <1>4, AllocatedFields
<1>6. IsWithNew(u.mem, b, c, y.mem)
  BY <1>1, <1>3, <1>5, AllocatedMemory
<1>7. PICK v : v = IOVec(b, pos, n, kind)
  OBVIOUS
<1>8. v \in IovecType /\ v.buf = b /\ v.pos = pos /\ v.len = n
  BY <1>7 DEF IOVec, IovecType
<1>9. ~Stopped(y) /\ y.scheduled_bytes \in Nat
  BY <1>1, <1>5 DEF Stopped, SameControl, SameQueue
<1>10. x = AddIovec(y, v)
  BY <1>3, <1>4, <1>7 DEF OnItsOwn
<1>11. /\ x \in WriterType /\ SameControl(y, x) /\ SameBuffer(y, x) /\ x.mem = y.mem
       /\ x.scheduled = Append(y.scheduled, v)
       /\ x.scheduled_bytes = y.scheduled_bytes + v.len
  BY <1>5, <1>8, <1>9, <1>10, AddIovecFields
<1>12. SameControl(u, x) /\ SameBuffer(u, x)
  BY <1>5, <1>11 DEF SameControl, SameBuffer
<1>13. /\ x.scheduled = Append(u.scheduled, v) /\ x.scheduled_bytes = u.scheduled_bytes + n
       /\ x.written = u.written /\ x.buf = u.buf /\ x.back = u.back
       /\ x.scheduled_back = u.scheduled_back
  BY <1>5, <1>8, <1>11, <1>12 DEF SameControl, SameBuffer, SameQueue
<1>14. /\ DOMAIN x.mem = DOMAIN u.mem \cup {b} /\ x.mem[b] = c
       /\ \A d \in DOMAIN u.mem : x.mem[d] = u.mem[d]
  BY <1>6, <1>11 DEF IsWithNew
<1>15. /\ QueueHolds(x.mem, u.scheduled, u.written)
       /\ \A i \in 1..Len(u.scheduled) : u.scheduled[i].buf # b
  BY <1>2, <1>3, <1>6, <1>11, HoldsWithNew DEF GoodQueue
<1>16. Holds(x.mem, v, u.written + u.scheduled_bytes)
  <2>1. u.written + u.scheduled_bytes = g
    BY <1>1
  <2>2. v.buf \in DOMAIN x.mem /\ v.pos + v.len <= Len(x.mem[v.buf])
    BY <1>8, <1>14
  <2>3. \A k \in 1..v.len : x.mem[v.buf][v.pos + k] = g + k
    BY <1>8, <1>14
  <2> QED BY <2>1, <2>2, <2>3 DEF Holds
<1>17. NotDestroyed(u.scheduled, v.buf)
  BY <1>8, <1>15 DEF NotDestroyed
<1>18. Prefix(u.scheduled, x.scheduled) /\ GoodQueue(x)
  BY <1>2, <1>8, <1>11, <1>13, <1>15, <1>16, <1>17, QueueGrows DEF GoodQueue
<1>19. IsFiniteSet(DOMAIN x.mem) /\ 0 \in DOMAIN x.mem
  <2>1. IsFiniteSet(DOMAIN u.mem \cup {b})
    BY <1>2, FS_AddElement
  <2> QED BY <2>1, <1>2, <1>14
<1>20. x.buf \in DOMAIN x.mem /\ x.mem[x.buf] = u.mem[u.buf] /\ x.buf # b
  BY <1>1, <1>3, <1>13, <1>14
<1>21. Holds(x.mem, Unscheduled(x), x.written + x.scheduled_bytes)
  <2>1. x.written + x.scheduled_bytes \in Nat
    <3>1. PICK w \in Nat : w = u.written
      BY <1>1
    <3>2. PICK cc \in Nat : cc = u.scheduled_bytes
      BY <1>1
    <3>3. x.written = w /\ x.scheduled_bytes = cc + n
      BY <1>13, <3>1, <3>2
    <3>4. w + (cc + n) \in Nat
      OBVIOUS
    <3> QED BY <3>3, <3>4
  <2>2. x.scheduled_back <= x.back /\ \A k \in 1..(x.back - x.scheduled_back) : FALSE
    BY <1>1, <1>13
  <2>3. x.back <= Len(x.mem[x.buf]) /\ Len(x.mem[x.buf]) \in Nat
    BY <1>1, <1>13, <1>20
  <2> QED BY <2>1, <2>2, <2>3, <1>11, <1>20, UnscheduledHolds
<1>22. x.written + bytes_to_write(x) = g + n /\ x.scheduled_back <= x.back
  <2>1. /\ x.written = u.written /\ x.scheduled_bytes = u.scheduled_bytes + n
        /\ x.scheduled_back = u.scheduled_back /\ x.back = u.back
    BY <1>13
  <2>2. /\ u.written \in Nat /\ u.scheduled_bytes \in Nat /\ u.back \in Nat
        /\ u.scheduled_back = u.back
        /\ g = u.written + u.scheduled_bytes + (u.back - u.scheduled_back)
    BY <1>1
  <2> QED BY <2>1, <2>2 DEF bytes_to_write
<1>23. Below(x.scheduled, x.buf, x.scheduled_back)
  <2>1. /\ Len(x.scheduled) = Len(u.scheduled) + 1 /\ x.scheduled[Len(u.scheduled) + 1] = v
        /\ \A i \in 1..Len(u.scheduled) : x.scheduled[i] = u.scheduled[i]
    <3>1. u.scheduled \in Seq(IovecType) /\ v \in IovecType /\ x.scheduled = Append(u.scheduled, v)
      BY <1>1, <1>8, <1>13
    <3>2. OneMore(u.scheduled, v, x.scheduled)
      BY <3>1, AppendedIovec
    <3> QED BY <3>2 DEF OneMore
  <2>2. Len(u.scheduled) \in Nat
    BY <1>1, IovecsHaveLengths
  <2>3. Below(u.scheduled, u.buf, u.scheduled_back)
    BY DEF Sound
  <2>4. ASSUME NEW i \in 1..Len(x.scheduled), x.scheduled[i].buf = x.buf
        PROVE  x.scheduled[i].kind = "Keep"
               /\ x.scheduled[i].pos + x.scheduled[i].len <= x.scheduled_back
    <3>1. i \in 1..Len(u.scheduled) \/ i = Len(u.scheduled) + 1
      BY <2>1, <2>2
    <3>2. i \in 1..Len(u.scheduled)
      <4>1. v.buf # x.buf
        BY <1>8, <1>20
      <4> QED BY <2>1, <2>4, <3>1, <4>1
    <3>3. x.scheduled[i] = u.scheduled[i]
      BY <2>1, <3>2
    <3>4. x.buf = u.buf /\ x.scheduled_back = u.scheduled_back
      BY <1>13
    <3> QED BY <2>3, <2>4, <3>2, <3>3, <3>4 DEF Below
  <2> QED BY <2>4 DEF Below
<1>24. Streams(x, g + n)
  BY <1>2, <1>18, <1>19, <1>20, <1>21, <1>22 DEF Streams, GoodQueue
<1> QED BY <1>11, <1>12, <1>18, <1>23, <1>24 DEF Sound

(* Parts of numbered bytes.                                                *)
LEMMA NumberedParts ==
  ASSUME NEW bytes, NEW g \in Nat, Numbered(bytes, g), NEW a \in 0..Len(bytes)
  PROVE  /\ Len(bytes) \in Nat
         /\ Numbered(SubSeq(bytes, 1, a), g) /\ Len(SubSeq(bytes, 1, a)) = a
         /\ Numbered(SubSeq(bytes, a + 1, Len(bytes)), g + a)
         /\ Len(SubSeq(bytes, a + 1, Len(bytes))) = Len(bytes) - a
<1>1. /\ bytes \in Seq(Nat) /\ Len(bytes) \in Nat /\ \A i \in 1..Len(bytes) : bytes[i] = g + i
  BY LenProperties DEF Numbered
<1>2. PICK p : p = SubSeq(bytes, 1, a)
  OBVIOUS
<1>3. p \in Seq(Nat) /\ Len(p) = a /\ \A i \in 1..a : p[i] = bytes[i]
  BY <1>1, <1>2
<1>4. Numbered(p, g)
  <2>1. \A i \in 1..a : i \in 1..Len(bytes)
    BY <1>1
  <2> QED BY <2>1, <1>1, <1>3 DEF Numbered
<1>5. PICK q : q = SubSeq(bytes, a + 1, Len(bytes))
  OBVIOUS
<1>6. q \in Seq(Nat) /\ Len(q) = Len(bytes) - a /\ \A i \in 1..(Len(bytes) - a) : q[i] = bytes[a + i]
  BY <1>1, <1>5
<1>7. \A i \in 1..(Len(bytes) - a) : q[i] = (g + a) + i
  <2> SUFFICES ASSUME NEW i \in 1..(Len(bytes) - a) PROVE q[i] = (g + a) + i
    OBVIOUS
  <2>1. a + i \in 1..Len(bytes) /\ g + (a + i) = (g + a) + i
    BY <1>1
  <2> QED BY <2>1, <1>1, <1>6
<1>8. Numbered(q, g + a)
  BY <1>6, <1>7 DEF Numbered
<1> QED BY <1>1, <1>2, <1>3, <1>4, <1>5, <1>6, <1>8

(* What each function that adds n bytes promises, and that promises add up.*)
Adds(u, x, g) ==
  x \in WriterType /\ Sound(x, g) /\ SameControl(u, x) /\ Prefix(u.scheduled, x.scheduled)

LEMMA PrefixOfPrefix ==
  ASSUME NEW r \in Seq(IovecType), NEW s \in Seq(IovecType), NEW q \in Seq(IovecType),
         Prefix(r, s), Prefix(s, q)
  PROVE  Prefix(r, q)
<1>1. Len(r) \in Nat /\ Len(s) \in Nat /\ Len(q) \in Nat
  BY IovecsHaveLengths
<1> QED BY <1>1 DEF Prefix

LEMMA PrefixSame == ASSUME NEW r \in Seq(IovecType) PROVE Prefix(r, r)
BY IovecsHaveLengths DEF Prefix

LEMMA AddsMore ==
  ASSUME NEW u \in WriterType, NEW x, NEW y, NEW f, NEW g, Adds(u, x, f), Adds(x, y, g)
  PROVE  Adds(u, y, g)
<1>1. Prefix(u.scheduled, y.scheduled)
  BY PrefixOfPrefix DEF Adds, WriterType
<1>2. SameControl(u, y)
  BY DEF Adds, SameControl
<1> QED BY <1>1, <1>2 DEF Adds

LEMMA HalfIsLess ==
  ASSUME NEW l \in Nat, NEW n \in Nat
  PROVE  n > l \div 2 \/ n <= l
OBVIOUS

LEMMA GiveBufAdds ==
  ASSUME NEW u \in WriterType, ~Stopped(u), NEW g \in Nat, Sound(u, g), NEW bytes,
         Numbered(bytes, g), NEW x, x = GiveBuf(u, bytes)
  PROVE  Adds(u, x, g + Len(bytes))
<1>1. bytes \in Seq(Nat) /\ Len(bytes) \in Nat /\ \A i \in 1..Len(bytes) : bytes[i] = g + i
  BY LenProperties DEF Numbered
<1>2. u.scheduled \in Seq(IovecType)
  BY DEF WriterType
<1>3. CASE Len(bytes) <= Available(u)
  <2>1. x = Blit(u, bytes)
    BY <1>3 DEF GiveBuf
  <2>2. x \in WriterType /\ Sound(x, g + Len(bytes)) /\ SameControl(u, x) /\ SameQueue(u, x)
    BY <1>3, <2>1, BlitSound
  <2>3. Prefix(u.scheduled, x.scheduled)
    BY <1>2, <2>2, PrefixSame DEF SameQueue
  <2> QED BY <2>2, <2>3 DEF Adds
<1>4. CASE Len(bytes) > Available(u) /\ Len(bytes) > Len(u.mem[u.buf]) \div 2
  <2>1. PICK y : y = ScheduleUnscheduled(u, "Keep")
    OBVIOUS
  <2>2. /\ y \in WriterType /\ SameControl(u, y) /\ y.back = u.back /\ y.scheduled_back = u.back
        /\ Prefix(u.scheduled, y.scheduled) /\ Sound(y, g)
    BY <2>1, ScheduledAll
  <2>3. x = OnItsOwn(y, bytes, 0, Len(bytes), "Destroy")
    <3>1. Len(bytes) > Available(u) => ~(Len(bytes) <= Available(u))
      BY <1>1, StreamsIs DEF Available, Sound
    <3>2. x = Dedicated(y, bytes)
      BY <1>4, <2>1, <3>1 DEF GiveBuf
    <3> QED BY <3>2 DEF Dedicated, OnItsOwn
  <2>4. ~Stopped(y) /\ y.scheduled_back = y.back
    BY <2>2 DEF Stopped, SameControl
  <2>5. Len(bytes) = 0 + Len(bytes) /\ \A k \in 1..Len(bytes) : bytes[0 + k] = g + k
    BY <1>1
  <2>6. /\ x \in WriterType /\ Sound(x, g + Len(bytes)) /\ SameControl(y, x)
        /\ Prefix(y.scheduled, x.scheduled)
    <3>1. PICK z \in Nat : z = 0
      OBVIOUS
    <3>2. PICK kind \in {"Keep", "Destroy"} : kind = "Destroy"
      OBVIOUS
    <3>3. Len(bytes) = z + Len(bytes) /\ \A k \in 1..Len(bytes) : bytes[z + k] = g + k
      BY <2>5, <3>1
    <3>4. x = OnItsOwn(y, bytes, z, Len(bytes), kind)
      BY <2>3, <3>1, <3>2
    <3>5. bytes \in Seq(Nat) /\ Len(bytes) \in Nat
      BY <1>1
    <3> QED BY <2>2, <2>4, <3>3, <3>4, <3>5, OnItsOwnSound
  <2>7. Adds(u, y, g) /\ Adds(y, x, g + Len(bytes))
    BY <2>2, <2>6 DEF Adds
  <2> QED BY <2>7, AddsMore
<1>5. CASE Len(bytes) > Available(u) /\ ~(Len(bytes) > Len(u.mem[u.buf]) \div 2)
  <2>1. PICK y : y = ScheduleUnscheduled(u, "Destroy")
    OBVIOUS
  <2>2. /\ y \in WriterType /\ SameControl(u, y) /\ Streams(y, g) /\ y.mem = u.mem
        /\ y.buf = u.buf /\ y.back = u.back /\ y.scheduled_back = u.back
        /\ Prefix(u.scheduled, y.scheduled)
    BY <2>1, ScheduledAll
  <2>3. PICK z : z = Replaced(y)
    OBVIOUS
  <2>4. /\ z \in WriterType /\ Sound(z, g) /\ SameControl(y, z) /\ SameQueue(y, z)
        /\ z.back = 0 /\ Len(z.mem[z.buf]) = Len(y.mem[y.buf])
    BY <2>2, <2>3, ReplacedSound
  <2>5. Len(u.mem[u.buf]) \in Nat /\ u.back \in Nat
    BY StreamsIs DEF Sound
  <2>6. x = Blit(z, bytes)
    <3>1. ~(Len(bytes) <= Available(u))
      BY <1>1, <1>5, <2>5 DEF Available
    <3>2. x = NewBuffer(y, bytes)
      BY <1>5, <2>1, <3>1 DEF GiveBuf
    <3> QED BY <2>3, <3>2 DEF NewBuffer, Replaced
  <2>7. Len(bytes) <= Available(z)
    <3>1. Available(z) = Len(u.mem[u.buf]) - 0
      BY <2>2, <2>4 DEF Available
    <3>2. Len(bytes) <= Len(u.mem[u.buf])
      BY <1>1, <1>5, <2>5, HalfIsLess
    <3> QED BY <1>1, <2>5, <3>1, <3>2
  <2>8. x \in WriterType /\ Sound(x, g + Len(bytes)) /\ SameControl(z, x) /\ SameQueue(z, x)
    BY <2>4, <2>6, <2>7, BlitSound
  <2>9. x.scheduled = y.scheduled
    BY <2>4, <2>8 DEF SameQueue
  <2>10. SameControl(u, x)
    BY <2>2, <2>4, <2>8 DEF SameControl
  <2> QED BY <2>2, <2>8, <2>9, <2>10 DEF Adds
<1>6. Len(bytes) <= Available(u) \/ Len(bytes) > Available(u)
  BY <1>1, StreamsIs DEF Sound, Available
<1> QED BY <1>3, <1>4, <1>5, <1>6

LEMMA WriteSubstringAdds ==
  ASSUME NEW u \in WriterType, ~Stopped(u), NEW g \in Nat, Sound(u, g), NEW bytes,
         Numbered(bytes, g), NEW x, x = WriteSubstring(u, bytes)
  PROVE  Adds(u, x, g + Len(bytes))
<1>1. Len(bytes) \in Nat
  BY LenProperties DEF Numbered
<1>2. PICK a \in Nat : a = Available(u)
  BY StreamsIs DEF Sound, Available
<1>3. u.scheduled \in Seq(IovecType)
  BY DEF WriterType
<1>4. CASE Len(bytes) <= a
  <2>1. x = Blit(u, bytes)
    BY <1>2, <1>4 DEF WriteSubstring
  <2>2. x \in WriterType /\ Sound(x, g + Len(bytes)) /\ SameControl(u, x) /\ SameQueue(u, x)
    BY <1>2, <1>4, <2>1, BlitSound
  <2>3. Prefix(u.scheduled, x.scheduled)
    BY <1>3, <2>2, PrefixSame DEF SameQueue
  <2> QED BY <2>2, <2>3 DEF Adds
<1>5. CASE ~(Len(bytes) <= a)
  <2>1. a \in 0..Len(bytes)
    BY <1>1, <1>2, <1>5
  <2>2. PICK p : p = SubSeq(bytes, 1, a)
    OBVIOUS
  <2>3. PICK q : q = SubSeq(bytes, a + 1, Len(bytes))
    OBVIOUS
  <2>4. Numbered(p, g) /\ Len(p) = a /\ Numbered(q, g + a) /\ Len(q) = Len(bytes) - a
    BY <2>1, <2>2, <2>3, NumberedParts
  <2>5. PICK y : y = Blit(u, p)
    OBVIOUS
  <2>6. y \in WriterType /\ Sound(y, g + a) /\ SameControl(u, y) /\ SameQueue(u, y)
    <3>1. Len(p) <= Available(u)
      BY <1>2, <2>4
    <3> QED BY <2>4, <2>5, <3>1, BlitSound
  <2>7. Prefix(u.scheduled, y.scheduled)
    BY <1>3, <2>6, PrefixSame DEF SameQueue
  <2>8. Adds(u, y, g + a)
    BY <2>6, <2>7 DEF Adds
  <2>9. x = GiveBuf(y, q)
    BY <1>2, <1>5, <2>2, <2>3, <2>5 DEF WriteSubstring
  <2>10. ~Stopped(y) /\ g + a \in Nat
    BY <1>2, <2>6 DEF Stopped, SameControl
  <2>11. Adds(y, x, g + a + Len(q))
    BY <2>4, <2>6, <2>9, <2>10, GiveBufAdds
  <2>12. g + a + Len(q) = g + Len(bytes)
    BY <1>1, <1>2, <2>4
  <2> QED BY <2>8, <2>11, <2>12, AddsMore
<1> QED BY <1>4, <1>5

(* The collector keeps every byte that is referred to.                     *)
CollectedMemory(u) ==
  [b \in Live(u) |-> [k \in DOMAIN u.mem[b] |-> IF Used(u, b, k) THEN u.mem[b][k] ELSE 0]]

LEMMA CollectFields ==
  ASSUME NEW u \in WriterType, Live(u) \subseteq DOMAIN u.mem, NEW x, x = Collect(u)
  PROVE  /\ x \in WriterType /\ SameControl(u, x) /\ SameBuffer(u, x) /\ SameQueue(u, x)
         /\ DOMAIN x.mem = Live(u)
         /\ \A b \in Live(u) :
              /\ Len(x.mem[b]) = Len(u.mem[b])
              /\ \A k \in 1..Len(u.mem[b]) : Used(u, b, k) => x.mem[b][k] = u.mem[b][k]
<1>1. DOMAIN u.mem \in SUBSET Nat /\ \A b \in DOMAIN u.mem : u.mem[b] \in Seq(Nat)
  BY MemoryIs DEF WriterType
<1>2. PICK n : n = CollectedMemory(u)
  OBVIOUS
<1>3. x = [u EXCEPT !.mem = n]
  BY <1>2 DEF Collect, CollectedMemory, WriterType
<1>4. ASSUME NEW b \in Live(u)
      PROVE  /\ n[b] \in Seq(Nat) /\ Len(n[b]) = Len(u.mem[b])
             /\ \A k \in 1..Len(u.mem[b]) : Used(u, b, k) => n[b][k] = u.mem[b][k]
  <2>1. PICK c \in Seq(Nat) : c = u.mem[b]
    BY <1>1, <1>4
  <2>2. PICK l \in Nat : l = Len(c) /\ DOMAIN c = 1..l /\ \A k \in 1..l : c[k] \in Nat
    BY LenProperties, ElementOfSeq
  <2>3. n[b] = [k \in 1..l |-> IF Used(u, b, k) THEN c[k] ELSE 0]
    BY <1>2, <2>1, <2>2 DEF CollectedMemory
  <2>4. n[b] \in Seq(Nat) /\ Len(n[b]) = l
    BY <2>2, <2>3
  <2>5. \A k \in 1..l : Used(u, b, k) => n[b][k] = c[k]
    BY <2>3
  <2> QED BY <2>1, <2>2, <2>4, <2>5
<1>5. DOMAIN n = Live(u) /\ n = [b \in Live(u) |-> n[b]]
  BY <1>2 DEF CollectedMemory
<1>6. n \in [Live(u) -> Seq(Nat)] /\ Live(u) \in SUBSET Nat
  BY <1>1, <1>4, <1>5
<1>7. n \in Memory
  BY <1>6, MemoryIs
<1>8. x \in WriterType
  BY <1>3, <1>7 DEF WriterType
<1>9. x.mem = n /\ SameBuffer(u, x) /\ SameQueue(u, x)
  BY <1>3 DEF WriterType, SameBuffer, SameQueue
<1>10. SameControl(u, x)
  BY <1>3 DEF WriterType, SameControl
<1> QED BY <1>4, <1>5, <1>8, <1>9, <1>10

LEMMA CollectSound ==
  ASSUME NEW u \in WriterType, NEW g \in Nat, Sound(u, g), NEW x, x = Collect(u)
  PROVE  Adds(u, x, g) /\ SameBuffer(u, x) /\ SameQueue(u, x)
<1>1. /\ u.mem \in Memory /\ u.scheduled \in Seq(IovecType) /\ u.buf \in DOMAIN u.mem
      /\ u.written \in Nat /\ u.scheduled_bytes \in Nat
      /\ u.scheduled_back \in Nat /\ u.back \in Nat /\ Len(u.mem[u.buf]) \in Nat
      /\ u.scheduled_back <= u.back /\ u.back <= Len(u.mem[u.buf])
      /\ g = u.written + u.scheduled_bytes + (u.back - u.scheduled_back)
      /\ \A k \in 1..(u.back - u.scheduled_back) :
           u.mem[u.buf][u.scheduled_back + k] = u.written + u.scheduled_bytes + k
  BY StreamsIs DEF Sound
<1>2. /\ IsFiniteSet(DOMAIN u.mem) /\ 0 \in DOMAIN u.mem /\ Len(u.mem[u.buf]) > 0
      /\ GoodQueue(u)
  BY DEF Sound, Streams, GoodQueue
<1>3. DOMAIN u.scheduled = 1..Len(u.scheduled)
  BY <1>1, IovecsHaveLengths
<1>4. ASSUME NEW i \in 1..Len(u.scheduled)
      PROVE  /\ u.scheduled[i].buf \in DOMAIN u.mem /\ u.scheduled[i].buf \in Live(u)
             /\ \A k \in 1..u.scheduled[i].len :
                  Used(u, u.scheduled[i].buf, u.scheduled[i].pos + k)
             /\ \A k \in 1..u.scheduled[i].len :
                  u.scheduled[i].pos + k \in 1..Len(u.mem[u.scheduled[i].buf])
  <2>1. PICK v : v = u.scheduled[i]
    OBVIOUS
  <2>2. /\ v.buf \in DOMAIN u.mem /\ v.pos \in Nat /\ v.len \in Nat
        /\ v.pos + v.len <= Len(u.mem[v.buf])
    BY <2>1, QueueIs
  <2>3. Len(u.mem[v.buf]) \in Nat
    <3>1. u.mem[v.buf] \in Seq(Nat)
      BY <1>1, <2>2, MemoryIs
    <3> QED BY <3>1, LenProperties
  <2>4. v.buf \in Live(u)
    BY <1>3, <2>1 DEF Live
  <2>5. ASSUME NEW k \in 1..v.len PROVE Used(u, v.buf, v.pos + k) /\ v.pos + k \in 1..Len(u.mem[v.buf])
    <3>1. v.pos + k \in v.pos + 1 .. v.pos + v.len /\ v.pos + k \in 1..Len(u.mem[v.buf])
      BY <2>2, <2>3
    <3> QED BY <3>1, <1>3, <2>1 DEF Used
  <2> QED BY <2>1, <2>2, <2>4, <2>5
<1>5. Live(u) \subseteq DOMAIN u.mem
  BY <1>1, <1>2, <1>3, <1>4 DEF Live
<1>6. /\ x \in WriterType /\ SameControl(u, x) /\ SameBuffer(u, x) /\ SameQueue(u, x)
      /\ DOMAIN x.mem = Live(u)
  BY <1>5, CollectFields
<1>7. \A b \in Live(u) :
        /\ Len(x.mem[b]) = Len(u.mem[b])
        /\ \A k \in 1..Len(u.mem[b]) : Used(u, b, k) => x.mem[b][k] = u.mem[b][k]
  BY <1>5, CollectFields
<1>8. ASSUME NEW i \in 1..Len(u.scheduled) PROVE Agree(u.mem, x.mem, u.scheduled[i])
  BY <1>4, <1>6, <1>7 DEF Agree
<1>9. /\ x.scheduled = u.scheduled /\ x.scheduled_bytes = u.scheduled_bytes
      /\ x.written = u.written /\ x.buf = u.buf /\ x.back = u.back
      /\ x.scheduled_back = u.scheduled_back
  BY <1>6 DEF SameControl, SameBuffer, SameQueue
<1>10. QueueHolds(x.mem, x.scheduled, x.written)
  <2>1. QueueHolds(x.mem, u.scheduled, u.written)
    BY <1>2, <1>8, QueueInBoth DEF GoodQueue
  <2> QED BY <2>1, <1>9
<1>11. u.buf \in Live(u) /\ 0 \in Live(u)
  BY DEF Live
<1>12. x.buf \in DOMAIN x.mem /\ Len(x.mem[x.buf]) = Len(u.mem[u.buf]) /\ 0 \in DOMAIN x.mem
  BY <1>6, <1>7, <1>9, <1>11
<1>13. Holds(x.mem, Unscheduled(x), x.written + x.scheduled_bytes)
  <2>1. ASSUME NEW k \in 1..(u.back - u.scheduled_back)
        PROVE  x.mem[u.buf][u.scheduled_back + k] = u.written + u.scheduled_bytes + k
    <3>1. /\ u.scheduled_back + k \in u.scheduled_back + 1 .. u.back
          /\ u.scheduled_back + k \in 1..Len(u.mem[u.buf])
      <4>1. /\ u.scheduled_back \in Nat /\ u.back \in Nat /\ Len(u.mem[u.buf]) \in Nat
            /\ u.scheduled_back <= u.back /\ u.back <= Len(u.mem[u.buf])
        BY <1>1
      <4> QED BY <4>1
    <3>2. Used(u, u.buf, u.scheduled_back + k)
      BY <3>1 DEF Used
    <3> QED BY <3>1, <3>2, <1>1, <1>7, <1>11
  <2>2. x.written + x.scheduled_bytes \in Nat
    BY <1>1, <1>9
  <2>3. x.scheduled_back <= x.back /\ x.back <= Len(x.mem[x.buf]) /\ Len(x.mem[x.buf]) \in Nat
    BY <1>1, <1>9, <1>12
  <2>4. \A k \in 1..(x.back - x.scheduled_back) :
          x.mem[x.buf][x.scheduled_back + k] = x.written + x.scheduled_bytes + k
    BY <2>1, <1>9
  <2> QED BY <2>2, <2>3, <2>4, <1>6, <1>12, UnscheduledHolds
<1>14. IsFiniteSet(DOMAIN x.mem)
  BY <1>2, <1>5, <1>6, FS_Subset
<1>15. x.written + bytes_to_write(x) = g /\ x.scheduled_back <= x.back
  BY <1>1, <1>9 DEF bytes_to_write
<1>16. Streams(x, g)
  BY <1>2, <1>9, <1>10, <1>12, <1>13, <1>14, <1>15 DEF Streams, GoodQueue
<1>17. Sound(x, g)
  BY <1>9, <1>16 DEF Sound
<1>18. Prefix(u.scheduled, x.scheduled)
  BY <1>1, <1>9, PrefixSame
<1> QED BY <1>6, <1>17, <1>18 DEF Adds

LEMMA CollectEmpty ==
  ASSUME NEW u \in WriterType, 0 \in DOMAIN u.mem, u.mem[0] = <<>>, u.scheduled = <<>>,
         u.scheduled_bytes = 0, u.buf = 0, u.scheduled_back = 0, u.back = 0,
         NEW x, x = Collect(u)
  PROVE  x \in WriterType /\ Empty(x) /\ SameControl(u, x)
<1>1. Live(u) = {0}
  BY DEF Live
<1>2. /\ x \in WriterType /\ SameControl(u, x) /\ SameBuffer(u, x) /\ SameQueue(u, x)
      /\ DOMAIN x.mem = {0} /\ Len(x.mem[0]) = Len(u.mem[0])
  BY <1>1, CollectFields
<1>3. x.mem \in [{0} -> Seq(Nat)]
  BY <1>2, MemoryIs DEF WriterType
<1>4. x.mem[0] = <<>>
  BY <1>2, <1>3, EmptySeq
<1>5. x.mem = [b \in {0} |-> <<>>]
  BY <1>3, <1>4
<1> QED BY <1>2, <1>5 DEF Empty, SameBuffer, SameQueue
-----------------------------------------------------------------------------
(* What is left when n bytes of the queue were written.                    *)
LEMMA DownSet ==
  ASSUME NEW m \in Nat, NEW S \in SUBSET (1..m), \A i \in S : \A j \in 1..i : j \in S
  PROVE  S = 1..Cardinality(S) /\ Cardinality(S) \in 0..m
<1>1. PICK k \in 0..m : S = 1..k
  <2>1. CASE S = {}
    <3>1. S = 1..0 /\ 0 \in 0..m
      BY <2>1
    <3> QED BY <3>1
  <2>2. CASE S # {}
    <3>1. PICK x \in S : \A y \in S : y <= x
      BY <2>2, Largest
    <3>2. x \in 1..m /\ 1..x \subseteq S
      OBVIOUS
    <3>3. S \subseteq 1..x
      BY <3>1, <3>2
    <3>4. S = 1..x
      BY <3>2, <3>3
    <3>5. x \in 0..m
      BY <3>2
    <3> QED BY <3>4, <3>5
  <2> QED BY <2>1, <2>2
<1>2. Cardinality(1..k) = k
  <2>1. k \in Int /\ 1 \in Int
    BY <1>1
  <2> QED BY <1>1, <2>1, FS_Interval
<1> QED BY <1>1, <1>2

DoneCount(s, n) == Cardinality({i \in DOMAIN s : Ends(s)[i] <= n})
Remaining(s, n) ==
  Partial(SubSeq(s, DoneCount(s, n) + 1, Len(s)), n - Ends(s)[DoneCount(s, n)])

LEMMA DoneCountIs ==
  ASSUME NEW s \in Seq(IovecType), NEW n \in Nat
  PROVE  /\ DoneCount(s, n) \in 0..Len(s)
         /\ Ends(s)[DoneCount(s, n)] \in Nat /\ Ends(s)[DoneCount(s, n)] <= n
         /\ DoneCount(s, n) < Len(s) => n < Ends(s)[DoneCount(s, n) + 1]
<1>1. Len(s) \in Nat /\ DOMAIN s = 1..Len(s) /\ Lengths(s)
  BY IovecsHaveLengths
<1>2. PICK z : z = Ends(s)
  OBVIOUS
<1>3. z \in [0..Len(s) -> Nat] /\ z[0] = 0
  BY <1>1, <1>2, EndsOf
<1>4. PICK S : S = {i \in 1..Len(s) : z[i] <= n}
  OBVIOUS
<1>5. \A i \in S : \A j \in 1..i : j \in S
  <2> SUFFICES ASSUME NEW i \in S, NEW j \in 1..i PROVE j \in S
    OBVIOUS
  <2>1. i \in 1..Len(s) /\ z[i] <= n
    BY <1>4
  <2>2. j \in 0..Len(s) /\ i \in j..Len(s) /\ j \in 1..Len(s) /\ i \in 0..Len(s)
    BY <1>1, <2>1
  <2>3. z[j] <= z[i]
    BY <1>1, <1>2, <2>2, EndsGrow
  <2>4. z[j] \in Nat /\ z[i] \in Nat
    BY <1>3, <2>2
  <2> QED BY <1>4, <2>1, <2>2, <2>3, <2>4
<1>6. PICK d : d = DoneCount(s, n)
  OBVIOUS
<1>7. d = Cardinality(S)
  BY <1>1, <1>2, <1>4, <1>6 DEF DoneCount
<1>8. S = 1..d /\ d \in 0..Len(s)
  BY <1>1, <1>4, <1>5, <1>7, DownSet
<1>9. z[d] \in Nat /\ z[d] <= n
  <2>1. CASE d = 0
    BY <2>1, <1>3
  <2>2. CASE d # 0
    <3>1. d \in S
      BY <2>2, <1>8
    <3> QED BY <3>1, <1>3, <1>4, <1>8
  <2> QED BY <2>1, <2>2
<1>10. ASSUME d < Len(s) PROVE n < z[d + 1]
  <2>1. d + 1 \in 1..Len(s) /\ d + 1 \notin S /\ d + 1 \in 0..Len(s)
    BY <1>1, <1>8, <1>10
  <2>2. z[d + 1] \in Nat /\ ~(z[d + 1] <= n)
    BY <2>1, <1>3, <1>4
  <2> QED BY <2>2
<1> QED BY <1>2, <1>6, <1>8, <1>9, <1>10

(* r is what is left of s after the first d iovecs, of which the next one  *)
(* has lost p bytes.                                                       *)
IsLeft(s, d, p, r) ==
  /\ r \in Seq(IovecType) /\ Len(r) = Len(s) - d
  /\ Len(r) > 0 => r[1] = Rest(s[d + 1], p)
  /\ \A i \in 2..Len(r) : r[i] = s[d + i]

LEMMA RemainingIs ==
  ASSUME NEW s \in Seq(IovecType), NEW n \in Nat, NEW d, d = DoneCount(s, n)
  PROVE  /\ IsLeft(s, d, n - Ends(s)[d], Remaining(s, n))
         /\ d < Len(s) => n - Ends(s)[d] <= s[d + 1].len
<1>1. Len(s) \in Nat /\ DOMAIN s = 1..Len(s) /\ Lengths(s) /\ \A i \in 1..Len(s) : s[i] \in IovecType
  BY IovecsHaveLengths
<1>2. /\ d \in 0..Len(s) /\ Ends(s)[d] \in Nat /\ Ends(s)[d] <= n
      /\ d < Len(s) => n < Ends(s)[d + 1]
  BY DoneCountIs
<1>3. PICK p \in Nat : p = n - Ends(s)[d]
  BY <1>2
<1>4. PICK q : q = SubSeq(s, d + 1, Len(s))
  OBVIOUS
<1>5. /\ q \in Seq(IovecType) /\ Len(q) = Len(s) - d
      /\ \A i \in 1..(Len(s) - d) : q[i] = s[d + i]
  <2>1. d \in Nat /\ d <= Len(s) /\ Len(s) \in Nat
    BY <1>1, <1>2
  <2>2. /\ d + 1 \in 1..Len(s) + 1 /\ Len(s) \in (d + 1) - 1 .. Len(s)
        /\ Len(s) - (d + 1) + 1 = Len(s) - d
    BY <2>1
  <2>3. /\ q \in Seq(IovecType) /\ Len(q) = Len(s) - (d + 1) + 1
        /\ \A i \in 1..Len(s) - (d + 1) + 1 : q[i] = s[(d + 1) + i - 1]
    BY <2>2, <1>4, SubSeqProperties
  <2>4. \A i \in 1..(Len(s) - d) : (d + 1) + i - 1 = d + i
    BY <2>1
  <2> QED BY <2>2, <2>3, <2>4
<1>6. PICK r : r = Remaining(s, n)
  OBVIOUS
<1>7. r = Partial(q, p)
  BY <1>3, <1>4, <1>6 DEF Remaining
<1>8. CASE d = Len(s)
  <2>1. q = <<>> /\ Len(q) = 0
    BY <1>5, <1>8, EmptySeq
  <2>2. r = <<>>
    BY <1>7, <2>1 DEF Partial
  <2>3. r \in Seq(IovecType) /\ Len(r) = 0
    BY <2>2
  <2>4. \A i \in 2..Len(r) : FALSE
    BY <2>3
  <2> QED BY <1>1, <1>3, <1>6, <1>8, <2>3, <2>4 DEF IsLeft
<1>9. CASE d # Len(s)
  <2>1. d < Len(s) /\ d + 1 \in 1..Len(s) /\ Len(s) - d \in Nat /\ 1 \in 1..(Len(s) - d)
    BY <1>1, <1>2, <1>9
  <2>2. Ends(s)[d + 1] = Ends(s)[d] + s[d + 1].len /\ s[d + 1] \in IovecType
    <3>1. \A i \in 1..Len(s) : Ends(s)[i] = Ends(s)[i - 1] + s[i].len
      BY <1>1, EndsOf
    <3>2. (d + 1) - 1 = d
      BY <1>2
    <3> QED BY <1>1, <2>1, <3>1, <3>2
  <2>3. p <= s[d + 1].len
    <3>1. s[d + 1].len \in Nat
      BY <2>2 DEF IovecType
    <3>2. Ends(s)[d + 1] = Ends(s)[d] + s[d + 1].len /\ n < Ends(s)[d + 1]
      BY <1>2, <2>1, <2>2
    <3> QED BY <1>2, <1>3, <3>1, <3>2
  <2>4. PICK v : v = Rest(s[d + 1], p)
    OBVIOUS
  <2>5. v \in IovecType
    <3>1. PICK x \in IovecType : x = s[d + 1]
      BY <2>2
    <3>2. x.len \in Nat /\ x.pos \in Nat /\ p <= x.len /\ p \in Nat
      BY <2>3, <3>1, <1>3 DEF IovecType
    <3>3. PICK l \in Nat : l = x.len - p
      BY <3>2
    <3>4. PICK k \in Nat : k = x.pos + p
      BY <3>2
    <3>5. v = [x EXCEPT !.pos = k, !.len = l]
      BY <2>4, <3>1, <3>3, <3>4 DEF Rest, IovecType
    <3> QED BY <3>1, <3>3, <3>4, <3>5 DEF IovecType
  <2>6. q # <<>> /\ Head(q) = s[d + 1]
    <3>1. Len(q) # 0 /\ q[1] = s[d + 1]
      BY <1>5, <2>1
    <3>2. q # <<>>
      BY <3>1
    <3> QED BY <1>5, <3>1, <3>2, HeadTailProperties
  <2>7. PICK c : c = Tail(q)
    OBVIOUS
  <2>8. c \in Seq(IovecType) /\ Len(c) = Len(q) - 1 /\ \A i \in 1..(Len(q) - 1) : c[i] = q[i + 1]
    BY <1>5, <2>6, <2>7, HeadTailProperties
  <2>9. r = <<v>> \o c
    BY <1>7, <2>4, <2>6, <2>7 DEF Partial
  <2>10. /\ <<v>> \in Seq(IovecType) /\ Len(<<v>>) = 1 /\ <<v>>[1] = v
    BY <2>5
  <2>11. PICK e : e = <<v>>
    OBVIOUS
  <2>12. /\ r \in Seq(IovecType) /\ Len(r) = Len(e) + Len(c)
         /\ \A i \in 1..Len(e) : r[i] = e[i]
         /\ \A i \in 1..Len(c) : r[Len(e) + i] = c[i]
    BY <2>8, <2>9, <2>10, <2>11, Joined
  <2>13. Len(r) = Len(s) - d /\ r[1] = v
    BY <1>1, <1>2, <1>5, <2>8, <2>10, <2>11, <2>12
  <2>14. ASSUME NEW i \in 2..Len(r) PROVE r[i] = s[d + i]
    <3>1. /\ i - 1 \in 1..Len(c) /\ 1 + (i - 1) = i /\ (i - 1) + 1 = i /\ i \in 1..(Len(s) - d)
          /\ i - 1 \in 1..(Len(q) - 1)
      BY <1>1, <1>2, <1>5, <2>8, <2>13
    <3>2. r[1 + (i - 1)] = c[i - 1] /\ c[i - 1] = q[(i - 1) + 1]
      BY <2>8, <2>10, <2>11, <2>12, <3>1
    <3> QED BY <1>5, <3>1, <3>2
  <2> QED BY <1>3, <1>6, <2>3, <2>4, <2>12, <2>13, <2>14 DEF IsLeft
<1> QED BY <1>8, <1>9

LEMMA RemainingEnds ==
  ASSUME NEW s \in Seq(IovecType), NEW n \in 0..iovecs_length(s), NEW r, r = Remaining(s, n),
         NEW d, d = DoneCount(s, n)
  PROVE  /\ \A i \in 1..Len(r) : Ends(r)[i] = Ends(s)[d + i] - n
         /\ iovecs_length(r) = iovecs_length(s) - n
<1>1. Len(s) \in Nat /\ Lengths(s) /\ iovecs_length(s) \in Nat
  BY IovecsHaveLengths
<1>2. n \in Nat /\ n <= iovecs_length(s)
  BY <1>1
<1>3. /\ d \in 0..Len(s) /\ Ends(s)[d] \in Nat /\ Ends(s)[d] <= n
  BY <1>2, DoneCountIs
<1>4. PICK p \in Nat : p = n - Ends(s)[d]
  BY <1>2, <1>3
<1>5. IsLeft(s, d, p, r)
  BY <1>2, <1>4, RemainingIs
<1>6. /\ r \in Seq(IovecType) /\ Len(r) = Len(s) - d
      /\ Len(r) > 0 => r[1] = Rest(s[d + 1], p)
      /\ \A i \in 2..Len(r) : r[i] = s[d + i]
  BY <1>5 DEF IsLeft
<1>7. Len(r) \in Nat /\ Lengths(r)
  BY <1>6, IovecsHaveLengths
<1>8. CASE Len(r) = 0
  <2>1. d = Len(s)
    BY <1>1, <1>3, <1>6, <1>8
  <2>2. Ends(s)[d] = iovecs_length(s)
    BY <2>1 DEF iovecs_length
  <2>3. Ends(r)[0] = 0
    BY <1>7, EndsOf
  <2>4. iovecs_length(r) = 0
    BY <2>3, <1>8 DEF iovecs_length
  <2>5. iovecs_length(s) - n = 0
    BY <1>1, <1>2, <1>3, <2>2
  <2> QED BY <1>8, <2>4, <2>5
<1>9. CASE Len(r) # 0
  <2>1. Len(r) > 0 /\ 1 \in 1..Len(r) /\ d + 1 \in 1..Len(s) /\ d + 1 \in 0..Len(s)
    BY <1>1, <1>3, <1>6, <1>7, <1>9
  <2>2. PICK y : y = Ends(s)
    OBVIOUS
  <2>3. PICK z : z = Ends(r)
    OBVIOUS
  <2>4. y \in [0..Len(s) -> Nat] /\ \A i \in 1..Len(s) : y[i] = y[i - 1] + s[i].len
    BY <1>1, <2>2, EndsOf
  <2>5. z \in [0..Len(r) -> Nat] /\ z[0] = 0 /\ \A i \in 1..Len(r) : z[i] = z[i - 1] + r[i].len
    BY <1>7, <2>3, EndsOf
  <2>6. r[1].len = s[d + 1].len - p /\ s[d + 1].len \in Nat
    <3>1. s[d + 1] \in IovecType
      BY <2>1, IovecsHaveLengths
    <3> QED BY <1>6, <2>1, <3>1 DEF Rest, IovecType
  <2>7. y[d + 1] = y[d] + s[d + 1].len /\ y[d] \in Nat /\ y[d + 1] \in Nat
    <3>1. (d + 1) - 1 = d
      BY <1>3
    <3> QED BY <1>3, <2>1, <2>4, <3>1
  <2>8. z[1] = y[d + 1] - n
    <3>1. z[1] = 0 + (s[d + 1].len - p)
      BY <2>1, <2>5, <2>6
    <3>2. p = n - y[d]
      BY <1>4, <2>2
    <3>3. PICK e \in Nat : e = y[d]
      BY <2>7
    <3>4. PICK l \in Nat : l = s[d + 1].len
      BY <2>6
    <3>5. z[1] = 0 + (l - (n - e)) /\ y[d + 1] = e + l
      BY <2>7, <3>1, <3>2, <3>3, <3>4
    <3>6. 0 + (l - (n - e)) = (e + l) - n
      BY <1>2
    <3> QED BY <3>5, <3>6
  <2>9. PICK a \in Nat : a = 1
    OBVIOUS
  <2>10. AsLong(s, r, d, a, Len(r))
    <3>1. Len(r) <= Len(r) /\ Len(r) + d <= Len(s) /\ a <= Len(r)
      BY <1>1, <1>3, <1>6, <1>7, <2>1, <2>9
    <3>2. ASSUME NEW i \in a + 1 .. Len(r) PROVE r[i].len = s[i + d].len
      <4>1. i \in 2..Len(r) /\ d + i = i + d
        BY <1>3, <1>7, <2>9
      <4> QED BY <1>6, <4>1
    <3> QED BY <3>1, <3>2 DEF AsLong
  <2>11. Shifted(s, r, d, a, Len(r))
    BY <1>1, <1>3, <1>7, <2>10, EndsShifted
  <2>12. ASSUME NEW i \in 1..Len(r) PROVE z[i] = y[d + i] - n
    <3>1. z[i] = y[i + d] + z[a] - y[a + d]
      BY <2>2, <2>3, <2>9, <2>11 DEF Shifted
    <3>2. i + d = d + i /\ a + d = d + 1 /\ d + i \in 0..Len(s)
      BY <1>1, <1>3, <1>6, <1>7, <2>9
    <3>3. y[d + i] \in Nat
      BY <2>4, <3>2
    <3>4. z[i] = y[d + i] + z[1] - y[d + 1]
      BY <2>9, <3>1, <3>2
    <3>5. PICK A \in Nat, B \in Nat : A = y[d + i] /\ B = y[d + 1]
      BY <2>7, <3>3
    <3>6. z[i] = A + (B - n) - B
      BY <2>8, <3>4, <3>5
    <3>7. A + (B - n) - B = A - n
      BY <1>2
    <3> QED BY <3>5, <3>6, <3>7
  <2>13. iovecs_length(r) = iovecs_length(s) - n
    <3>1. Len(r) \in 1..Len(r) /\ d + Len(r) = Len(s)
      BY <1>1, <1>3, <1>6, <1>7, <2>1
    <3>2. z[Len(r)] = y[Len(s)] - n
      BY <2>12, <3>1
    <3> QED BY <2>2, <2>3, <3>2 DEF iovecs_length
  <2> QED BY <2>2, <2>3, <2>12, <2>13
<1> QED BY <1>8, <1>9

Destroyed(m, s, d) ==
  [b \in DOMAIN m |-> IF \E i \in 1..d : s[i].buf = b /\ s[i].kind = "Destroy"
                      THEN <<>> ELSE m[b]]

LEMMA RemoveDoneFields ==
  ASSUME NEW y \in WriterType, NEW n \in Nat, NEW s, s = y.scheduled, NEW d, d = DoneCount(s, n),
         NEW x, x = RemoveDone(y, n)
  PROVE  /\ x \in WriterType /\ SameControl(y, x) /\ SameBuffer(y, x)
         /\ x.scheduled_bytes = y.scheduled_bytes
         /\ x.scheduled = Remaining(s, n) /\ x.mem = Destroyed(y.mem, s, d)
<1>1. s \in Seq(IovecType) /\ y.mem \in Memory
  BY DEF WriterType
<1>2. d \in 0..Len(s) /\ Len(s) \in Nat
  BY <1>1, DoneCountIs, IovecsHaveLengths
<1>3. IsLeft(s, d, n - Ends(s)[d], Remaining(s, n))
  BY <1>1, RemainingIs
<1>4. PICK r : r = Remaining(s, n)
  OBVIOUS
<1>5. r \in Seq(IovecType)
  BY <1>3, <1>4 DEF IsLeft
<1>6. PICK c : c = SubSeq(s, 1, d)
  OBVIOUS
<1>7. \A i \in 1..d : c[i] = s[i]
  BY <1>1, <1>2, <1>6
<1>8. PICK m : m = [b \in DOMAIN y.mem |->
                      IF \E i \in 1..d : c[i].buf = b /\ c[i].kind = "Destroy"
                      THEN <<>> ELSE y.mem[b]]
  OBVIOUS
<1>9. m = Destroyed(y.mem, s, d)
  BY <1>7, <1>8 DEF Destroyed
<1>10. m \in Memory
  <2>1. DOMAIN y.mem \in SUBSET Nat /\ y.mem \in [DOMAIN y.mem -> Seq(Nat)]
    BY <1>1, MemoryIs
  <2>2. <<>> \in Seq(Nat)
    OBVIOUS
  <2>3. m \in [DOMAIN y.mem -> Seq(Nat)]
    BY <1>8, <2>1, <2>2
  <2> QED BY <2>1, <2>3, MemoryIs
<1>11. x = [y EXCEPT !.mem = m, !.scheduled = r]
  <2>1. r = Partial(SubSeq(y.scheduled, d + 1, Len(y.scheduled)), n - Ends(y.scheduled)[d])
    BY <1>4 DEF Remaining
  <2>2. d = Cardinality({i \in DOMAIN y.scheduled : Ends(y.scheduled)[i] <= n})
    BY DEF DoneCount
  <2> QED BY <2>1, <2>2, <1>6, <1>8 DEF RemoveDone, WriterType
<1>12. x \in WriterType
  BY <1>5, <1>10, <1>11 DEF WriterType
<1>13. /\ x.scheduled = r /\ x.mem = m /\ x.scheduled_bytes = y.scheduled_bytes
       /\ SameBuffer(y, x)
  BY <1>11 DEF WriterType, SameBuffer
<1>14. SameControl(y, x)
  BY <1>11 DEF WriterType, SameControl
<1> QED BY <1>4, <1>9, <1>12, <1>13, <1>14

(* y is u with n bytes counted as written.                                 *)
CountedAsWritten(u, y, n) ==
  /\ y.scheduled = u.scheduled /\ y.mem = u.mem /\ SameBuffer(u, y)
  /\ y.written = u.written + n /\ y.scheduled_bytes = u.scheduled_bytes - n

LEMMA RemoveDoneSound ==
  ASSUME NEW u \in WriterType, NEW g \in Nat, Sound(u, g), NEW n \in 0..iovecs_length(u.scheduled),
         NEW y \in WriterType, CountedAsWritten(u, y, n), NEW x, x = RemoveDone(y, n)
  PROVE  x \in WriterType /\ SameControl(y, x) /\ SameBuffer(y, x) /\ Sound(x, g)
<1>1. /\ u.mem \in Memory /\ u.scheduled \in Seq(IovecType) /\ u.buf \in DOMAIN u.mem
      /\ u.written \in Nat /\ u.scheduled_bytes \in Nat
      /\ u.scheduled_back \in Nat /\ u.back \in Nat /\ Len(u.mem[u.buf]) \in Nat
      /\ u.scheduled_back <= u.back /\ u.back <= Len(u.mem[u.buf])
      /\ g = u.written + u.scheduled_bytes + (u.back - u.scheduled_back)
      /\ \A k \in 1..(u.back - u.scheduled_back) :
           u.mem[u.buf][u.scheduled_back + k] = u.written + u.scheduled_bytes + k
  BY StreamsIs DEF Sound
<1>2. /\ IsFiniteSet(DOMAIN u.mem) /\ 0 \in DOMAIN u.mem /\ Len(u.mem[u.buf]) > 0
      /\ GoodQueue(u) /\ Below(u.scheduled, u.buf, u.scheduled_back)
  BY DEF Sound, Streams, GoodQueue
<1>3. u.scheduled_bytes = iovecs_length(u.scheduled) /\ n \in Nat /\ n <= u.scheduled_bytes
  BY <1>1, <1>2 DEF GoodQueue
<1>4. PICK s \in Seq(IovecType) : s = u.scheduled
  BY <1>1
<1>5. PICK d : d = DoneCount(s, n)
  OBVIOUS
<1>6. /\ Len(s) \in Nat /\ d \in 0..Len(s) /\ Ends(s)[d] \in Nat /\ Ends(s)[d] <= n
      /\ \A i \in 1..Len(s) : s[i] \in IovecType
  BY <1>3, <1>5, DoneCountIs, IovecsHaveLengths
<1>7. PICK r : r = Remaining(s, n)
  OBVIOUS
<1>8. /\ IsLeft(s, d, n - Ends(s)[d], r)
      /\ d < Len(s) => n - Ends(s)[d] <= s[d + 1].len
  BY <1>3, <1>5, <1>7, RemainingIs
<1>9. /\ \A i \in 1..Len(r) : Ends(r)[i] = Ends(s)[d + i] - n
      /\ iovecs_length(r) = iovecs_length(s) - n
  BY <1>4, <1>5, <1>7, RemainingEnds
<1>10. /\ x \in WriterType /\ SameControl(y, x) /\ SameBuffer(y, x)
       /\ x.scheduled_bytes = y.scheduled_bytes /\ x.scheduled = r
       /\ x.mem = Destroyed(u.mem, s, d)
  BY <1>3, <1>4, <1>5, <1>7, RemoveDoneFields DEF CountedAsWritten
<1>11. /\ x.buf = u.buf /\ x.scheduled_back = u.scheduled_back /\ x.back = u.back
       /\ x.written = u.written + n /\ x.scheduled_bytes = u.scheduled_bytes - n
  BY <1>10 DEF SameControl, SameBuffer, CountedAsWritten
<1>12. PICK p \in Nat : p = n - Ends(s)[d]
  BY <1>3, <1>6
<1>13. /\ r \in Seq(IovecType) /\ Len(r) = Len(s) - d /\ Len(r) \in Nat
       /\ Len(r) > 0 => r[1] = Rest(s[d + 1], p)
       /\ \A i \in 2..Len(r) : r[i] = s[d + i]
  BY <1>6, <1>8, <1>12 DEF IsLeft
<1>14. /\ DOMAIN x.mem = DOMAIN u.mem
       /\ \A b \in DOMAIN u.mem :
            (\A i \in 1..d : s[i].kind = "Destroy" => s[i].buf # b) => x.mem[b] = u.mem[b]
  BY <1>10 DEF Destroyed
<1>15. ASSUME NEW i \in 1..Len(r)
       PROVE  /\ d + i \in 1..Len(s) /\ r[i].buf = s[d + i].buf /\ r[i].kind = s[d + i].kind
              /\ r[i].pos + r[i].len = s[d + i].pos + s[d + i].len
  <2>1. d + i \in 1..Len(s)
    BY <1>6, <1>13
  <2>2. CASE i = 1
    <3>1. r[i] = Rest(s[d + i], p)
      BY <2>2, <1>13
    <3>2. s[d + i] \in IovecType
      BY <2>1, <1>6
    <3>3. PICK v \in IovecType : v = s[d + i]
      BY <3>2
    <3>4. PICK z : z = r[i]
      OBVIOUS
    <3>5. z.buf = v.buf /\ z.kind = v.kind /\ z.pos = v.pos + p /\ z.len = v.len - p
      BY <3>1, <3>3, <3>4 DEF Rest, IovecType
    <3>6. v.pos \in Nat /\ v.len \in Nat
      BY <3>3 DEF IovecType
    <3>7. z.pos + z.len = v.pos + v.len
      BY <3>5, <3>6, <1>12
    <3> QED BY <2>1, <3>3, <3>4, <3>5, <3>7
  <2>3. CASE i # 1
    <3>1. i \in 2..Len(r)
      BY <2>3, <1>13
    <3> QED BY <2>1, <3>1, <1>13
  <2> QED BY <2>2, <2>3
<1>16. ASSUME NEW i \in 1..Len(r) PROVE x.mem[r[i].buf] = u.mem[r[i].buf]
  <2>1. d + i \in 1..Len(s) /\ r[i].buf = s[d + i].buf
    BY <1>15
  <2>2. LastUse(s)
    BY <1>2, <1>4 DEF GoodQueue
  <2>3. ASSUME NEW j \in 1..d, s[j].kind = "Destroy" PROVE s[j].buf # r[i].buf
    <3>1. j \in 1..Len(s) /\ j < d + i
      BY <1>6, <1>13
    <3> QED BY <2>1, <2>2, <2>3, <3>1 DEF LastUse
  <2>4. r[i].buf \in DOMAIN u.mem
    BY <2>1, <1>4, QueueIs
  <2> QED BY <2>3, <2>4, <1>14
<1>17. x.mem[u.buf] = u.mem[u.buf]
  <2>1. ASSUME NEW j \in 1..d, s[j].kind = "Destroy" PROVE s[j].buf # u.buf
    <3>1. j \in 1..Len(s)
      BY <1>6
    <3> QED BY <2>1, <3>1, <1>2, <1>4 DEF Below
  <2> QED BY <2>1, <1>1, <1>14
<1>18. QueueHolds(u.mem, s, u.written)
  BY <1>2, <1>4 DEF GoodQueue
<1>19. ASSUME NEW i \in 1..Len(r) PROVE Holds(x.mem, r[i], (u.written + n) + Ends(r)[i - 1])
  <2>1. d + i \in 1..Len(s) /\ Holds(u.mem, s[d + i], u.written + Ends(s)[d + i - 1])
    <3>1. d + i \in 1..Len(s)
      BY <1>15
    <3>2. PICK j \in 1..Len(s) : j = d + i
      BY <3>1
    <3>3. Holds(u.mem, s[j], u.written + Ends(s)[j - 1])
      BY <1>18 DEF QueueHolds
    <3>4. s[j] = s[d + i] /\ Ends(s)[j - 1] = Ends(s)[d + i - 1]
      BY <3>2, <1>6
    <3> QED BY <3>1, <3>3, <3>4
  <2>2. x.mem[r[i].buf] = u.mem[r[i].buf]
    BY <1>16
  <2>3. CASE i # 1
    <3>1. i \in 2..Len(r) /\ i - 1 \in 1..Len(r) /\ d + (i - 1) = d + i - 1
          /\ d + i - 1 \in 0..Len(s)
      <4>1. PICK e \in Nat : e = d
        BY <1>6
      <4>2. PICK q \in Nat : q = Len(r)
        BY <1>13
      <4>3. PICK m \in Nat : m = Len(s)
        BY <1>6
      <4>4. PICK h \in 1..q : h = i
        BY <4>2
      <4>5. h # 1 /\ q = m - e
        BY <2>3, <1>13, <4>1, <4>2, <4>3, <4>4
      <4>6. h \in 2..q /\ h - 1 \in 1..q /\ e + (h - 1) = e + h - 1 /\ e + h - 1 \in 0..m
        BY <4>5
      <4> QED BY <4>1, <4>2, <4>3, <4>4, <4>6
    <3>2. r[i] = s[d + i]
      BY <3>1, <1>13
    <3>3. Ends(s)[d + i - 1] \in Nat
      BY <3>1, <1>6, EndsOf, IovecsHaveLengths
    <3>4. (u.written + n) + Ends(r)[i - 1] = u.written + Ends(s)[d + i - 1]
      <4>1. Ends(r)[i - 1] = Ends(s)[d + i - 1] - n
        BY <3>1, <1>9
      <4>2. u.written \in Nat /\ n \in Nat
        BY <1>1, <1>3
      <4> QED BY <3>3, <4>1, <4>2
    <3>5. Holds(u.mem, r[i], (u.written + n) + Ends(r)[i - 1])
      BY <2>1, <3>2, <3>4
    <3> QED BY <2>2, <3>5, <1>14 DEF Holds
  <2>4. CASE i = 1
    <3>1. /\ d + i = d + 1 /\ d + i - 1 = d /\ i - 1 = 0
      BY <2>4, <1>6
    <3>2. r[i] = Rest(s[d + 1], p)
      BY <2>4, <1>13
    <3>3. Ends(r)[0] = 0
      BY <1>13, EndsOf, IovecsHaveLengths
    <3>4. PICK v \in IovecType : v = s[d + 1]
      BY <2>1, <3>1, <1>6
    <3>5. /\ Holds(u.mem, v, u.written + Ends(s)[d]) /\ p <= v.len
      BY <2>1, <3>1, <3>4, <1>6, <1>8, <1>12
    <3>6. PICK z : z = r[i]
      OBVIOUS
    <3>7. z.buf = v.buf /\ z.pos = v.pos + p /\ z.len = v.len - p
      BY <3>2, <3>4, <3>6 DEF Rest, IovecType
    <3>8. v.pos \in Nat /\ v.len \in Nat
      BY <3>4 DEF IovecType
    <3>9. z.buf \in DOMAIN x.mem /\ z.pos + z.len <= Len(x.mem[z.buf])
      <4>1. z.pos + z.len = v.pos + v.len
        BY <3>7, <3>8, <1>12
      <4> QED BY <2>2, <3>5, <3>6, <3>7, <4>1, <1>14 DEF Holds
    <3>10. ASSUME NEW k \in 1..z.len PROVE x.mem[z.buf][z.pos + k] = (u.written + n) + k
      <4>1. p + k \in 1..v.len /\ z.pos + k = v.pos + (p + k)
        <5>1. PICK A \in Nat : A = v.pos
          BY <3>8
        <5>2. PICK B \in Nat : B = v.len
          BY <3>8
        <5>3. p <= B /\ z.pos = A + p /\ k \in 1..(B - p)
          BY <3>5, <3>7, <5>1, <5>2
        <5>4. PICK h \in 1..(B - p) : h = k
          BY <5>3
        <5>5. p + h \in 1..B /\ (A + p) + h = A + (p + h)
          OBVIOUS
        <5> QED BY <5>1, <5>2, <5>3, <5>4, <5>5
      <4>2. u.mem[v.buf][v.pos + (p + k)] = u.written + Ends(s)[d] + (p + k)
        BY <3>5, <4>1 DEF Holds
      <4>3. u.written + Ends(s)[d] + (p + k) = (u.written + n) + k
        <5>1. u.written \in Nat /\ n \in Nat /\ Ends(s)[d] \in Nat
          BY <1>1, <1>3, <1>6
        <5>2. p \in Nat /\ p = n - Ends(s)[d]
          BY <1>12
        <5>3. PICK e \in Nat : e = Ends(s)[d]
          BY <5>1
        <5>4. PICK w \in Nat : w = u.written
          BY <5>1
        <5>5. p = n - e /\ n \in Nat
          BY <5>1, <5>2, <5>3
        <5>6. PICK h \in Nat : h = k
          BY <4>1, <3>7, <3>8
        <5>7. w + e + (p + h) = (w + n) + h
          BY <5>5
        <5> QED BY <5>3, <5>4, <5>6, <5>7
      <4> QED BY <2>2, <3>6, <3>7, <4>1, <4>2, <4>3
    <3>11. Holds(x.mem, z, u.written + n)
      BY <3>9, <3>10 DEF Holds
    <3>12. (u.written + n) + Ends(r)[i - 1] = u.written + n
      BY <3>1, <3>3, <1>1, <1>3
    <3> QED BY <3>6, <3>11, <3>12
  <2> QED BY <2>3, <2>4
<1>20. QueueHolds(x.mem, x.scheduled, x.written)
  BY <1>10, <1>11, <1>19 DEF QueueHolds
<1>21. LastUse(r)
  <2>1. LastUse(s)
    BY <1>2, <1>4 DEF GoodQueue
  <2>2. ASSUME NEW i \in 1..Len(r), NEW j \in 1..Len(r), i < j, r[i].kind = "Destroy"
        PROVE  r[j].buf # r[i].buf
    <3>1. d + i < d + j
      BY <2>2, <1>6, <1>13
    <3>2. /\ d + i \in 1..Len(s) /\ d + j \in 1..Len(s)
          /\ s[d + i].kind = "Destroy" /\ r[i].buf = s[d + i].buf /\ r[j].buf = s[d + j].buf
      BY <2>2, <1>15
    <3>3. s[d + j].buf # s[d + i].buf
      BY <2>1, <3>1, <3>2 DEF LastUse
    <3> QED BY <3>2, <3>3
  <2> QED BY <2>2 DEF LastUse
<1>22. Below(r, u.buf, u.scheduled_back)
  BY <1>2, <1>4, <1>15 DEF Below
<1>23. Holds(x.mem, Unscheduled(x), x.written + x.scheduled_bytes)
  <2>1. x.written + x.scheduled_bytes = u.written + u.scheduled_bytes
    BY <1>1, <1>3, <1>11
  <2>2. x.buf \in DOMAIN x.mem /\ x.mem[x.buf] = u.mem[u.buf]
    BY <1>1, <1>11, <1>14, <1>17
  <2>3. x.scheduled_back <= x.back /\ x.back <= Len(x.mem[x.buf]) /\ Len(x.mem[x.buf]) \in Nat
    BY <2>2, <1>1, <1>11
  <2>4. \A k \in 1..(x.back - x.scheduled_back) :
          x.mem[x.buf][x.scheduled_back + k] = u.written + u.scheduled_bytes + k
    BY <2>2, <1>1, <1>11
  <2>5. u.written + u.scheduled_bytes \in Nat
    BY <1>1
  <2> QED BY <2>1, <2>2, <2>3, <2>4, <2>5, <1>10, UnscheduledHolds
<1>24. x.written + bytes_to_write(x) = g /\ x.scheduled_back <= x.back
  <2>1. /\ x.written = u.written + n /\ x.scheduled_bytes = u.scheduled_bytes - n
        /\ x.scheduled_back = u.scheduled_back /\ x.back = u.back
    BY <1>11
  <2>2. PICK w \in Nat : w = u.written
    BY <1>1
  <2>3. PICK c \in Nat : c = u.scheduled_bytes
    BY <1>1
  <2>4. PICK e \in Nat : e = u.back
    BY <1>1
  <2>5. PICK f \in Nat : f = u.scheduled_back
    BY <1>1
  <2>6. f <= e /\ g = w + c + (e - f) /\ n \in Nat
    BY <1>1, <1>3, <2>2, <2>3, <2>4, <2>5
  <2>7. x.written = w + n /\ bytes_to_write(x) = (c - n) + e - f
    BY <2>1, <2>2, <2>3, <2>4, <2>5 DEF bytes_to_write
  <2>8. (w + n) + ((c - n) + e - f) = g
    BY <2>6
  <2> QED BY <2>1, <2>4, <2>5, <2>6, <2>7, <2>8
<1>25. x.scheduled_bytes = iovecs_length(x.scheduled)
  BY <1>3, <1>4, <1>9, <1>10, <1>11
<1>26. Streams(x, g)
  <2>1. IsFiniteSet(DOMAIN x.mem) /\ 0 \in DOMAIN x.mem /\ Len(x.mem[x.buf]) > 0
    BY <1>2, <1>11, <1>14, <1>17
  <2> QED BY <2>1, <1>10, <1>20, <1>21, <1>23, <1>24, <1>25 DEF Streams
<1> QED BY <1>10, <1>11, <1>22, <1>26 DEF Sound
-----------------------------------------------------------------------------
(* Functions that leave the stream alone.                                  *)
SameStream(u, x) ==
  SameBuffer(u, x) /\ SameQueue(u, x) /\ x.mem = u.mem /\ x.written = u.written
SameAnswers(u, x) ==
  /\ x.received = u.received /\ x.flushes = u.flushes /\ x.filled = u.filled
  /\ x.epipe = u.epipe /\ x.dead = u.dead
SameWork(u, x) == x.state = u.state /\ x.job = u.job

LEMMA SoundOfSame ==
  ASSUME NEW u, NEW x, NEW g, SameStream(u, x)
  PROVE  /\ Sound(u, g) => Sound(x, g)
         /\ Empty(u) => Empty(x)
<1>1. /\ x.buf = u.buf /\ x.scheduled_back = u.scheduled_back /\ x.back = u.back
      /\ x.scheduled = u.scheduled /\ x.scheduled_bytes = u.scheduled_bytes
      /\ x.mem = u.mem /\ x.written = u.written
  BY DEF SameStream, SameBuffer, SameQueue
<1>2. Unscheduled(x) = Unscheduled(u) /\ bytes_to_write(x) = bytes_to_write(u)
  BY <1>1 DEF Unscheduled, bytes_to_write
<1>3. Streams(u, g) => Streams(x, g)
  BY <1>1, <1>2 DEF Streams
<1>4. Empty(u) => Empty(x)
  BY <1>1 DEF Empty
<1> QED BY <1>1, <1>3, <1>4 DEF Sound

LEMMA GotBytesFields ==
  ASSUME NEW u \in WriterType, NEW n \in Int, NEW x, x = GotBytes(u, n)
  PROVE  /\ x \in WriterType /\ SameStream(u, x) /\ SameWork(u, x)
         /\ x.received = u.received + n /\ x.flushes = u.flushes /\ x.filled = u.filled
         /\ x.epipe = u.epipe /\ x.dead = u.dead
<1>1. PICK r \in Int : r = u.received + n
  BY DEF WriterType
<1>2. x = [u EXCEPT !.received = r]
  BY <1>1 DEF GotBytes
<1>3. x \in WriterType
  BY <1>2 DEF WriterType
<1>4. SameStream(u, x) /\ SameWork(u, x)
  BY <1>2 DEF WriterType, SameStream, SameBuffer, SameQueue, SameWork
<1>5. x.received = r /\ x.flushes = u.flushes /\ x.filled = u.filled /\ x.epipe = u.epipe
      /\ x.dead = u.dead
  BY <1>2 DEF WriterType
<1> QED BY <1>1, <1>3, <1>4, <1>5

LEMMA MaybeStartWriterFields ==
  ASSUME NEW u \in WriterType, NEW x, x = MaybeStartWriter(u)
  PROVE  /\ x \in WriterType /\ SameStream(u, x) /\ SameAnswers(u, x)
         /\ IF u.state = "Not_running" THEN x.state = "Running" /\ x.job = "start"
            ELSE SameWork(u, x)
<1>1. CASE u.state = "Not_running"
  <2>1. x = [u EXCEPT !.state = "Running", !.job = "start"]
    BY <1>1 DEF MaybeStartWriter
  <2>2. x \in WriterType /\ x.state = "Running" /\ x.job = "start"
    BY <2>1 DEF WriterType
  <2>3. SameStream(u, x)
    BY <2>1 DEF WriterType, SameStream, SameBuffer, SameQueue
  <2>4. SameAnswers(u, x)
    BY <2>1 DEF WriterType, SameAnswers
  <2> QED BY <1>1, <2>2, <2>3, <2>4
<1>2. CASE u.state # "Not_running"
  <2>1. x = u
    BY <1>2 DEF MaybeStartWriter
  <2> QED BY <1>2, <2>1 DEF SameStream, SameBuffer, SameQueue, SameAnswers, SameWork
<1> QED BY <1>1, <1>2

LEMMA WithJob ==
  ASSUME NEW u \in WriterType, NEW j \in {"none", "start", "ready", "after", "thread"},
         NEW x, x = [u EXCEPT !.job = j]
  PROVE  /\ x \in WriterType /\ SameStream(u, x) /\ SameAnswers(u, x)
         /\ x.state = u.state /\ x.job = j
<1>1. x \in WriterType /\ x.state = u.state /\ x.job = j
  BY DEF WriterType
<1>2. SameStream(u, x)
  BY DEF WriterType, SameStream, SameBuffer, SameQueue
<1>3. SameAnswers(u, x)
  BY DEF WriterType, SameAnswers
<1> QED BY <1>1, <1>2, <1>3

LEMMA WrittenFields ==
  ASSUME NEW u \in WriterType, NEW n \in Nat, NEW y, y = Written(u, n)
  PROVE  /\ y \in WriterType /\ CountedAsWritten(u, y, n) /\ SameAnswers(u, y) /\ SameWork(u, y)
<1>1. PICK w \in Nat : w = u.written + n
  BY DEF WriterType
<1>2. PICK b \in Int : b = u.scheduled_bytes - n
  BY DEF WriterType
<1>3. y = [u EXCEPT !.written = w, !.scheduled_bytes = b]
  BY <1>1, <1>2 DEF Written
<1>4. y \in WriterType
  BY <1>3 DEF WriterType
<1>5. y.written = w /\ y.scheduled_bytes = b /\ y.scheduled = u.scheduled /\ y.mem = u.mem
      /\ SameBuffer(u, y)
  BY <1>3 DEF WriterType, SameBuffer
<1>6. SameAnswers(u, y) /\ SameWork(u, y)
  BY <1>3 DEF WriterType, SameAnswers, SameWork
<1> QED BY <1>1, <1>2, <1>4, <1>5, <1>6 DEF CountedAsWritten

(* x is u when the first d of its flushes were filled.                     *)
IsFilled(u, x, d) ==
  /\ Len(x.flushes) = Len(u.flushes) - d
  /\ \A i \in 1..Len(x.flushes) : x.flushes[i] = u.flushes[d + i]
  /\ x.filled = u.filled \cup {u.flushes[i].who : i \in 1..d}
  /\ \A i \in 1..d : u.flushes[i].z <= x.written
  /\ d < Len(u.flushes) => u.flushes[d + 1].z > x.written

LEMMA FlushesAre ==
  ASSUME NEW u \in WriterType
  PROVE  /\ u.flushes \in Seq(FlushType) /\ Len(u.flushes) \in Nat
         /\ DOMAIN u.flushes = 1..Len(u.flushes)
         /\ \A i \in 1..Len(u.flushes) : u.flushes[i] \in FlushType
<1>1. u.flushes \in Seq(FlushType)
  BY DEF WriterType
<1> QED BY <1>1, LenProperties, ElementOfSeq

LEMMA FillFlushesFields ==
  ASSUME NEW u \in WriterType, NEW x, x = FillFlushes(u)
  PROVE  /\ x \in WriterType /\ SameStream(u, x) /\ SameWork(u, x)
         /\ x.received = u.received /\ x.epipe = u.epipe /\ x.dead = u.dead
         /\ \E d \in 0..Len(u.flushes) : IsFilled(u, x, d)
<1>1. PICK q \in Seq(FlushType) : q = u.flushes
  BY FlushesAre
<1>2. /\ Len(q) \in Nat /\ DOMAIN q = 1..Len(q)
      /\ \A i \in 1..Len(q) : q[i].who \in Requests \cup {Closer} /\ q[i].z \in Int
  BY <1>1, FlushesAre DEF FlushType
<1>3. u.written \in Nat /\ u.filled \in SUBSET (Requests \cup {Closer})
  BY DEF WriterType
<1>4. PICK D : D = {i \in 1..Len(q) : \A j \in 1..i : q[j].z <= u.written}
  OBVIOUS
<1>5. PICK d : d = Cardinality(D)
  OBVIOUS
<1>6. D = 1..d /\ d \in 0..Len(q)
  <2>1. D \in SUBSET (1..Len(q)) /\ \A i \in D : \A j \in 1..i : j \in D
    BY <1>4
  <2> QED BY <2>1, <1>2, <1>5, DownSet
<1>7. PICK r : r = SubSeq(q, d + 1, Len(q))
  OBVIOUS
<1>8. r \in Seq(FlushType) /\ Len(r) = Len(q) - d /\ \A i \in 1..Len(r) : r[i] = q[d + i]
  <2>1. d \in 0..Len(q) /\ Len(q) \in Nat
    BY <1>2, <1>6
  <2>2. /\ r \in Seq(FlushType) /\ Len(r) = Len(q) - d
        /\ \A i \in 1..(Len(q) - d) : r[i] = q[d + i]
    BY <2>1, <1>7
  <2> QED BY <2>2
<1>9. PICK f : f = u.filled \cup {q[i].who : i \in 1..d}
  OBVIOUS
<1>10. f \in SUBSET (Requests \cup {Closer})
  BY <1>2, <1>3, <1>6, <1>9
<1>11. x = [u EXCEPT !.filled = f, !.flushes = r]
  <2>1. d = Cardinality({i \in DOMAIN u.flushes : \A j \in 1..i : u.flushes[j].z <= u.written})
    BY <1>1, <1>2, <1>4, <1>5
  <2> QED BY <2>1, <1>1, <1>7, <1>9 DEF FillFlushes, WriterType
<1>12. x \in WriterType /\ x.filled = f /\ x.flushes = r /\ x.received = u.received
       /\ x.epipe = u.epipe /\ x.dead = u.dead
  BY <1>8, <1>10, <1>11 DEF WriterType
<1>13. SameStream(u, x) /\ SameWork(u, x)
  BY <1>11 DEF WriterType, SameStream, SameBuffer, SameQueue, SameWork
<1>14. \A i \in 1..d : q[i].z <= u.written
  BY <1>2, <1>4, <1>6
<1>15. d < Len(q) => q[d + 1].z > u.written
  <2> SUFFICES ASSUME d < Len(q) PROVE q[d + 1].z > u.written
    OBVIOUS
  <2>1. PICK k \in 1..Len(q) : k = d + 1
    BY <1>2, <1>6
  <2>2. k \notin D /\ \A j \in 1..k : j = k \/ j \in 1..d
    BY <1>6, <2>1
  <2>3. ~(q[k].z <= u.written)
    BY <2>1, <2>2, <1>4, <1>14
  <2> QED BY <2>1, <2>3, <1>2, <1>3
<1>16. x.written = u.written
  BY <1>13 DEF SameStream
<1>17. IsFilled(u, x, d)
  BY <1>1, <1>8, <1>9, <1>12, <1>14, <1>15, <1>16 DEF IsFilled
<1> QED BY <1>1, <1>6, <1>12, <1>13, <1>17

(* What writev is given, and what the system takes of it.                  *)
LEMMA MkIovecsIs ==
  ASSUME NEW u \in WriterType, NEW s, s = MkIovecs(u)
  PROVE  s \in Seq(IovecType) /\ Prefix(s, u.scheduled)
<1>1. PICK q \in Seq(IovecType) : q = u.scheduled
  BY DEF WriterType
<1>2. Len(q) \in Nat /\ MaxIovecs \in Nat
  BY IovecsHaveLengths, WriterAssumption
<1>3. CASE Len(q) <= MaxIovecs
  <2>1. s = q
    BY <1>1, <1>3 DEF MkIovecs
  <2> QED BY <1>1, <2>1, PrefixSame
<1>4. CASE ~(Len(q) <= MaxIovecs)
  <2>1. s = SubSeq(q, 1, MaxIovecs)
    BY <1>1, <1>4 DEF MkIovecs
  <2>2. /\ s \in Seq(IovecType) /\ Len(s) = MaxIovecs
        /\ \A i \in 1..MaxIovecs : s[i] = q[i]
    BY <1>2, <1>4, <2>1
  <2> QED BY <1>1, <1>2, <1>4, <2>2 DEF Prefix
<1> QED BY <1>3, <1>4

HolderOf(s, p) == CHOOSE i \in DOMAIN s : p \in Ends(s)[i - 1] + 1 .. Ends(s)[i]
LEMMA HolderIs ==
  ASSUME NEW s \in Seq(IovecType), NEW p \in 1..iovecs_length(s), NEW i, i = HolderOf(s, p)
  PROVE  i \in 1..Len(s) /\ p \in Ends(s)[i - 1] + 1 .. Ends(s)[i]
<1>1. Len(s) \in Nat /\ DOMAIN s = 1..Len(s) /\ Lengths(s)
  BY IovecsHaveLengths
<1>2. PICK z : z = Ends(s)
  OBVIOUS
<1>3. z \in [0..Len(s) -> Nat] /\ z[0] = 0
  BY <1>1, <1>2, EndsOf
<1>4. p \in Nat /\ 0 < p /\ p <= z[Len(s)]
  <2>1. z[Len(s)] \in Nat
    BY <1>1, <1>3
  <2> QED BY <2>1, <1>2 DEF iovecs_length
<1>5. PICK T : T = {k \in 0..Len(s) : p <= z[k]}
  OBVIOUS
<1>6. PICK k \in T : \A l \in T : k <= l
  <2>1. T # {} /\ T \in SUBSET Nat
    BY <1>1, <1>4, <1>5
  <2> QED BY <2>1, Smallest
<1>7. k \in 1..Len(s)
  BY <1>3, <1>4, <1>5, <1>6
<1>8. k - 1 \in 0..Len(s) /\ k - 1 < k
  BY <1>1, <1>7
<1>9. ~(p <= z[k - 1])
  BY <1>5, <1>6, <1>7, <1>8
<1>10. z[k - 1] \in Nat /\ z[k] \in Nat
  BY <1>3, <1>7, <1>8
<1>11. p \in z[k - 1] + 1 .. z[k]
  BY <1>4, <1>5, <1>6, <1>9, <1>10
<1>12. \E j \in DOMAIN s : p \in Ends(s)[j - 1] + 1 .. Ends(s)[j]
  BY <1>1, <1>2, <1>7, <1>11
<1> QED BY <1>1, <1>12 DEF HolderOf

ContentsOf(mem, s) ==
  [p \in 1..iovecs_length(s) |->
     mem[s[HolderOf(s, p)].buf][s[HolderOf(s, p)].pos + p - Ends(s)[HolderOf(s, p) - 1]]]
LEMMA ContentsNumbered ==
  ASSUME NEW mem, NEW s \in Seq(IovecType), NEW w \in Nat, QueueHolds(mem, s, w),
         NEW c, c = ContentsOf(mem, s)
  PROVE  Numbered(c, w) /\ Len(c) = iovecs_length(s)
<1>1. /\ iovecs_length(s) \in Nat /\ Len(s) \in Nat /\ Lengths(s)
      /\ \A i \in 1..Len(s) : s[i] \in IovecType
  BY IovecsHaveLengths
<1>2. Ends(s) \in [0..Len(s) -> Nat] /\ \A i \in 1..Len(s) : Ends(s)[i] = Ends(s)[i - 1] + s[i].len
  BY <1>1, EndsOf
<1>3. ASSUME NEW p \in 1..iovecs_length(s) PROVE c[p] = w + p
  <2>1. PICK i : i = HolderOf(s, p)
    OBVIOUS
  <2>2. i \in 1..Len(s) /\ p \in Ends(s)[i - 1] + 1 .. Ends(s)[i]
    BY <2>1, HolderIs
  <2>3. i - 1 \in 0..Len(s)
    BY <1>1, <2>2
  <2>4. PICK e \in Nat : e = Ends(s)[i - 1]
    BY <1>2, <2>3
  <2>5. PICK v \in IovecType : v = s[i]
    BY <1>1, <2>2
  <2>6. Ends(s)[i] = e + v.len /\ v.pos \in Nat /\ v.len \in Nat
    BY <1>2, <2>2, <2>4, <2>5 DEF IovecType
  <2>7. PICK k \in 1..v.len : p = e + k
    <3>1. p - e \in 1..v.len /\ p = e + (p - e)
      <4>1. p \in e + 1 .. e + v.len
        BY <2>2, <2>4, <2>6
      <4> QED BY <4>1, <2>6
    <3> QED BY <3>1
  <2>8. Holds(mem, v, w + e)
    BY <2>2, <2>4, <2>5 DEF QueueHolds
  <2>9. mem[v.buf][v.pos + k] = (w + e) + k
    BY <2>8 DEF Holds
  <2>10. c[p] = mem[v.buf][v.pos + p - e]
    BY <2>1, <2>4, <2>5 DEF ContentsOf
  <2>11. v.pos + p - e = v.pos + k /\ (w + e) + k = w + p
    BY <2>6, <2>7
  <2> QED BY <2>9, <2>10, <2>11
<1>4. DOMAIN c = 1..iovecs_length(s)
  BY DEF ContentsOf
<1>5. c \in [1..iovecs_length(s) -> Nat]
  <2>1. \A p \in 1..iovecs_length(s) : c[p] \in Nat
    BY <1>1, <1>3
  <2>2. c = [p \in 1..iovecs_length(s) |-> c[p]]
    BY DEF ContentsOf
  <2> QED BY <2>1, <2>2
<1>6. c \in Seq(Nat) /\ Len(c) = iovecs_length(s)
  BY <1>1, <1>5
<1> QED BY <1>3, <1>6 DEF Numbered

LEMMA SystemTakesInOrder ==
  ASSUME NEW s \in Seq(IovecType), NEW w \in Nat, QueueHolds(t.mem, s, w),
         file \in Seq(Nat), \A i \in 1..Len(file) : file[i] = i, Len(file) = w,
         NEW n \in Nat, SystemTakes(s, n)
  PROVE  /\ n \in 0..iovecs_length(s)
         /\ file' \in Seq(Nat) /\ Len(file') = w + n
         /\ \A i \in 1..Len(file') : file'[i] = i
<1>1. PICK c : c = ContentsOf(t.mem, s)
  OBVIOUS
<1>2. c = Contents(s)
  BY <1>1 DEF Contents, ContentsOf, HolderOf
<1>3. n \in 0..iovecs_length(s) /\ file' = file \o SubSeq(c, 1, n)
  BY <1>2 DEF SystemTakes
<1>4. Numbered(c, w) /\ Len(c) = iovecs_length(s)
  BY <1>1, ContentsNumbered
<1>5. n \in 0..Len(c)
  BY <1>3, <1>4
<1>6. PICK b : b = SubSeq(c, 1, n)
  OBVIOUS
<1>7. Numbered(b, w) /\ Len(b) = n
  BY <1>4, <1>5, <1>6, NumberedParts
<1>8. b \in Seq(Nat) /\ Len(b) = n
  BY <1>7 DEF Numbered
<1>9. PICK a \in Seq(Nat) : a = file
  OBVIOUS
<1>10. PICK f : f = a \o b
  OBVIOUS
<1>11. /\ f \in Seq(Nat) /\ Len(f) = w + n
       /\ \A i \in 1..w : f[i] = file[i]
       /\ \A i \in 1..n : f[w + i] = b[i]
  <2>1. Len(a) = w
    BY <1>9
  <2>2. /\ f \in Seq(Nat) /\ Len(f) = Len(a) + Len(b)
        /\ \A i \in 1..Len(a) : f[i] = a[i]
        /\ \A i \in 1..Len(b) : f[Len(a) + i] = b[i]
    <3>1. /\ f \in Seq(Nat) /\ Len(f) = Len(a) + Len(b)
          /\ \A i \in 1..(Len(a) + Len(b)) :
               f[i] = IF i <= Len(a) THEN a[i] ELSE b[i - Len(a)]
      BY <1>8, <1>10, ConcatProperties
    <3>2. Len(a) \in Nat /\ Len(b) \in Nat
      BY <1>8, LenProperties
    <3>3. ASSUME NEW i \in 1..Len(b) PROVE f[Len(a) + i] = b[i]
      <4>1. /\ Len(a) + i \in 1..(Len(a) + Len(b)) /\ ~(Len(a) + i <= Len(a))
            /\ (Len(a) + i) - Len(a) = i
        BY <3>2
      <4> QED BY <3>1, <4>1
    <3>4. ASSUME NEW i \in 1..Len(a) PROVE f[i] = a[i]
      <4>1. i \in 1..(Len(a) + Len(b)) /\ i <= Len(a)
        BY <3>2
      <4> QED BY <3>1, <4>1
    <3> QED BY <3>1, <3>3, <3>4
  <2> QED BY <2>1, <2>2, <1>8, <1>9
<1>12. ASSUME NEW i \in 1..Len(f) PROVE f[i] = i
  <2>1. CASE i \in 1..w
    BY <2>1, <1>11
  <2>2. CASE i \notin 1..w
    <3>1. PICK k \in 1..n : i = w + k
      <4>1. i - w \in 1..n /\ i = w + (i - w)
        BY <2>2, <1>11
      <4> QED BY <4>1
    <3>2. b[k] = w + k
      BY <1>7, <1>8 DEF Numbered
    <3> QED BY <3>1, <3>2, <1>11
  <2> QED BY <2>1, <2>2
<1>13. file' = f
  BY <1>3, <1>6, <1>9, <1>10
<1> QED BY <1>3, <1>11, <1>12, <1>13
-----------------------------------------------------------------------------
(* A client's bytes: x is u after n of them, of which pos do not count as  *)
(* received, and with the background writer started if start.              *)
Started(u, x, start) ==
  IF start /\ u.state = "Not_running" THEN x.state = "Running" /\ x.job = "start"
  ELSE SameWork(u, x)
Passes(u, x, g, n, pos, start) ==
  /\ x \in WriterType /\ InStream(x, g + n) /\ Started(u, x, start)
  /\ x.received = u.received + (n - pos) /\ x.written = u.written
  /\ x.flushes = u.flushes /\ x.filled = u.filled /\ x.epipe = u.epipe /\ x.dead = u.dead
  /\ Prefix(u.scheduled, x.scheduled)

LEMMA Finishes ==
  ASSUME NEW u \in WriterType, ~Stopped(u), NEW g \in Nat, Sound(u, g), NEW start \in BOOLEAN,
         NEW y, y = IF start THEN MaybeStartWriter(u) ELSE u, NEW x, x = Collect(y)
  PROVE  Passes(u, x, g, 0, 0, start)
<1>1. /\ y \in WriterType /\ SameStream(u, y) /\ SameAnswers(u, y) /\ Started(u, y, start)
  <2>1. CASE start
    BY <2>1, MaybeStartWriterFields DEF Started
  <2>2. CASE ~start
    BY <2>2 DEF SameStream, SameBuffer, SameQueue, SameAnswers, SameWork, Started
  <2> QED BY <2>1, <2>2
<1>2. Sound(y, g)
  BY <1>1, SoundOfSame
<1>3. x \in WriterType /\ Sound(x, g) /\ SameControl(y, x) /\ SameQueue(y, x)
  BY <1>1, <1>2, CollectSound DEF Adds
<1>4. Started(u, x, start)
  BY <1>1, <1>3 DEF Started, SameControl, SameWork
<1>5. ~Stopped(x)
  BY <1>4 DEF Started, SameWork, Stopped
<1>6. /\ x.received = u.received /\ x.written = u.written /\ x.flushes = u.flushes
      /\ x.filled = u.filled /\ x.epipe = u.epipe /\ x.dead = u.dead
      /\ x.scheduled = u.scheduled
  BY <1>1, <1>3 DEF SameStream, SameAnswers, SameControl, SameQueue
<1>7. u.scheduled \in Seq(IovecType) /\ u.received \in Int
  BY DEF WriterType
<1>8. Prefix(u.scheduled, x.scheduled)
  BY <1>6, <1>7, PrefixSame
<1>9. g + 0 = g /\ u.received = u.received + (0 - 0)
  BY <1>7
<1> QED BY <1>3, <1>4, <1>5, <1>6, <1>8, <1>9 DEF Passes, InStream

LEMMA PassesMore ==
  ASSUME NEW u \in WriterType, ~Stopped(u), NEW y \in WriterType, NEW x, NEW g \in Nat,
         NEW n \in Nat, NEW pos \in Int, NEW start \in BOOLEAN,
         SameWork(u, y), y.received = u.received + (n - pos), y.written = u.written,
         y.flushes = u.flushes, y.filled = u.filled, y.epipe = u.epipe, y.dead = u.dead,
         Prefix(u.scheduled, y.scheduled), Passes(y, x, g + n, 0, 0, start)
  PROVE  Passes(u, x, g, n, pos, start)
<1>1. /\ x \in WriterType /\ InStream(x, (g + n) + 0) /\ Started(y, x, start)
      /\ x.received = y.received + (0 - 0) /\ x.written = y.written
      /\ x.flushes = y.flushes /\ x.filled = y.filled /\ x.epipe = y.epipe /\ x.dead = y.dead
      /\ Prefix(y.scheduled, x.scheduled)
  BY DEF Passes
<1>2. Started(u, x, start)
  BY <1>1 DEF Started, SameWork
<1>3. Prefix(u.scheduled, x.scheduled)
  <2>1. /\ u.scheduled \in Seq(IovecType) /\ y.scheduled \in Seq(IovecType)
        /\ x.scheduled \in Seq(IovecType)
    BY <1>1 DEF WriterType
  <2> QED BY <2>1, <1>1, PrefixOfPrefix
<1>4. (g + n) + 0 = g + n /\ x.received = u.received + (n - pos)
  <2>1. u.received \in Int
    BY DEF WriterType
  <2> QED BY <2>1, <1>1
<1> QED BY <1>1, <1>2, <1>3, <1>4 DEF Passes

LEMMA StoppedCounts ==
  ASSUME NEW u \in WriterType, Stopped(u), NEW g \in Nat, InStream(u, g), NEW n \in Nat,
         NEW x, x = GotBytes(u, n), NEW start \in BOOLEAN
  PROVE  Passes(u, x, g, n, 0, start)
<1>1. /\ x \in WriterType /\ SameStream(u, x) /\ SameWork(u, x)
      /\ x.received = u.received + n /\ x.flushes = u.flushes /\ x.filled = u.filled
      /\ x.epipe = u.epipe /\ x.dead = u.dead
  BY GotBytesFields
<1>2. /\ Empty(u) /\ u.written <= g /\ u.written \in Nat /\ u.received \in Int
      /\ u.scheduled \in Seq(IovecType)
  BY DEF InStream, WriterType
<1>3. Empty(x) /\ Stopped(x)
  BY <1>1, <1>2, SoundOfSame DEF SameWork, Stopped
<1>4. x.written = u.written /\ x.scheduled = u.scheduled
  BY <1>1 DEF SameStream, SameQueue
<1>5. Prefix(u.scheduled, x.scheduled)
  BY <1>2, <1>4, PrefixSame
<1>6. x.written <= g + n /\ x.received = u.received + (n - 0)
  BY <1>1, <1>2, <1>4
<1>7. Started(u, x, start)
  BY <1>1 DEF Started, Stopped
<1> QED BY <1>1, <1>3, <1>4, <1>5, <1>6, <1>7 DEF Passes, InStream

LEMMA AddsPasses ==
  ASSUME NEW u \in WriterType, ~Stopped(u), NEW g \in Nat, NEW n \in Nat, NEW c, c = GotBytes(u, n),
         NEW y, Adds(c, y, g + n), NEW start \in BOOLEAN,
         NEW x, x = Collect(IF start THEN MaybeStartWriter(y) ELSE y)
  PROVE  Passes(u, x, g, n, 0, start)
<1>1. /\ c \in WriterType /\ SameStream(u, c) /\ SameWork(u, c)
      /\ c.received = u.received + n /\ c.flushes = u.flushes /\ c.filled = u.filled
      /\ c.epipe = u.epipe /\ c.dead = u.dead
  BY GotBytesFields
<1>2. /\ y \in WriterType /\ Sound(y, g + n) /\ SameControl(c, y)
      /\ Prefix(c.scheduled, y.scheduled)
  BY DEF Adds
<1>3. /\ SameWork(u, y) /\ y.received = u.received + n /\ y.written = u.written
      /\ y.flushes = u.flushes /\ y.filled = u.filled /\ y.epipe = u.epipe /\ y.dead = u.dead
  BY <1>1, <1>2 DEF SameControl, SameWork, SameStream
<1>4. Prefix(u.scheduled, y.scheduled)
  BY <1>1, <1>2 DEF SameStream, SameQueue
<1>5. ~Stopped(y)
  BY <1>3 DEF SameWork, Stopped
<1>6. Passes(y, x, g + n, 0, 0, start)
  <2>1. g + n \in Nat
    OBVIOUS
  <2> QED BY <2>1, <1>2, <1>5, Finishes
<1>7. PICK z \in Int : z = 0
  OBVIOUS
<1>8. y.received = u.received + (n - z)
  BY <1>3, <1>7
<1>9. Passes(u, x, g, n, z, start)
  BY <1>2, <1>3, <1>4, <1>6, <1>8, PassesMore
<1> QED BY <1>7, <1>9
-----------------------------------------------------------------------------
(* What clients do.                                                        *)
LEMMA TypesOfState ==
  ASSUME WriterTypeOK
  PROVE  /\ t \in WriterType /\ given \in Nat /\ skipped \in Nat
         /\ t.received \in Int /\ t.written \in Nat /\ t.scheduled \in Seq(IovecType)
         /\ t.flushes \in Seq(FlushType) /\ t.filled \in SUBSET (Requests \cup {Closer})
BY DEF WriterTypeOK, WriterType

LEMMA BytesAre ==
  ASSUME given \in Nat, NEW n \in Nat
  PROVE  Numbered(Bytes(n), given) /\ Len(Bytes(n)) = n
<1>1. PICK g \in Nat : g = given
  OBVIOUS
<1>2. PICK b : b = [i \in 1..n |-> g + i]
  OBVIOUS
<1>3. b \in Seq(Nat) /\ Len(b) = n /\ \A i \in 1..n : b[i] = g + i
  BY <1>2
<1>4. Bytes(n) = b
  BY <1>1, <1>2 DEF Bytes
<1> QED BY <1>1, <1>3, <1>4 DEF Numbered

LEMMA WritePasses ==
  ASSUME WriterTypeOK, InStream(t, given), NEW n \in Nat, Write(n)
  PROVE  Passes(t, t', given, n, 0, TRUE)
<1>1. PICK u \in WriterType : u = t
  BY TypesOfState
<1>2. PICK g \in Nat : g = given
  BY TypesOfState
<1>3. PICK x : x = t'
  OBVIOUS
<1>4. PICK b : b = Bytes(n)
  OBVIOUS
<1>5. Numbered(b, g) /\ Len(b) = n
  BY <1>2, <1>4, BytesAre
<1>6. PICK c : c = GotBytes(u, n)
  OBVIOUS
<1>7. x = IF Stopped(u) THEN c ELSE Collect(MaybeStartWriter(WriteSubstring(c, b)))
  BY <1>1, <1>3, <1>4, <1>6 DEF Write
<1>8. CASE Stopped(u)
  <2>1. x = c
    BY <1>7, <1>8
  <2>2. InStream(u, g)
    BY <1>1, <1>2
  <2>3. Passes(u, x, g, n, 0, TRUE)
    BY <1>6, <1>8, <2>1, <2>2, StoppedCounts
  <2> QED BY <1>1, <1>2, <1>3, <2>3
<1>9. CASE ~Stopped(u)
  <2>1. Sound(u, g)
    BY <1>1, <1>2, <1>9 DEF InStream
  <2>2. c \in WriterType /\ SameStream(u, c) /\ SameWork(u, c)
    BY <1>6, GotBytesFields
  <2>3. Sound(c, g) /\ ~Stopped(c)
    BY <1>9, <2>1, <2>2, SoundOfSame DEF SameWork, Stopped
  <2>4. PICK y : y = WriteSubstring(c, b)
    OBVIOUS
  <2>5. Adds(c, y, g + n)
    BY <1>5, <2>2, <2>3, <2>4, WriteSubstringAdds
  <2>6. x = Collect(IF TRUE THEN MaybeStartWriter(y) ELSE y)
    BY <1>7, <1>9, <2>4
  <2>7. Passes(u, x, g, n, 0, TRUE)
    BY <1>6, <1>9, <2>5, <2>6, AddsPasses
  <2> QED BY <1>1, <1>2, <1>3, <2>7
<1> QED BY <1>8, <1>9

LEMMA WriteBinProtPasses ==
  ASSUME WriterTypeOK, InStream(t, given), NEW n \in Nat, NEW raises \in BOOLEAN,
         WriteBinProt(n, raises)
  PROVE  Passes(t, t', given, n, 0, ~raises)
<1>1. PICK u \in WriterType : u = t
  BY TypesOfState
<1>2. PICK g \in Nat : g = given
  BY TypesOfState
<1>3. PICK x : x = t'
  OBVIOUS
<1>4. PICK b : b = Bytes(n)
  OBVIOUS
<1>5. Numbered(b, g) /\ Len(b) = n
  BY <1>2, <1>4, BytesAre
<1>6. PICK c : c = GotBytes(u, n)
  OBVIOUS
<1>7. PICK start \in BOOLEAN : start = ~raises
  OBVIOUS
<1>8. x = IF Stopped(u) THEN c
          ELSE Collect(IF start THEN MaybeStartWriter(GiveBuf(c, b)) ELSE GiveBuf(c, b))
  BY <1>1, <1>3, <1>4, <1>6, <1>7 DEF WriteBinProt
<1>9. CASE Stopped(u)
  <2>1. x = c
    BY <1>8, <1>9
  <2>2. InStream(u, g)
    BY <1>1, <1>2
  <2>3. Passes(u, x, g, n, 0, start)
    BY <1>6, <1>9, <2>1, <2>2, StoppedCounts
  <2> QED BY <1>1, <1>2, <1>3, <1>7, <2>3
<1>10. CASE ~Stopped(u)
  <2>1. Sound(u, g)
    BY <1>1, <1>2, <1>10 DEF InStream
  <2>2. c \in WriterType /\ SameStream(u, c) /\ SameWork(u, c)
    BY <1>6, GotBytesFields
  <2>3. Sound(c, g) /\ ~Stopped(c)
    BY <1>10, <2>1, <2>2, SoundOfSame DEF SameWork, Stopped
  <2>4. PICK y : y = GiveBuf(c, b)
    OBVIOUS
  <2>5. Adds(c, y, g + n)
    BY <1>5, <2>2, <2>3, <2>4, GiveBufAdds
  <2>6. x = Collect(IF start THEN MaybeStartWriter(y) ELSE y)
    BY <1>8, <1>10, <2>4
  <2>7. Passes(u, x, g, n, 0, start)
    BY <1>6, <1>10, <2>5, <2>6, AddsPasses
  <2> QED BY <1>1, <1>2, <1>3, <1>7, <2>7
<1> QED BY <1>9, <1>10

Padded(bytes, pos) == [i \in 1..pos |-> 0] \o bytes
IsPadded(bytes, pos, g, c) ==
  /\ c \in Seq(Nat) /\ Len(c) = pos + Len(bytes)
  /\ \A k \in 1..Len(bytes) : c[pos + k] = g + k
LEMMA PaddedIs ==
  ASSUME NEW bytes, NEW g \in Nat, Numbered(bytes, g), NEW pos \in Nat,
         NEW c, c = Padded(bytes, pos)
  PROVE  IsPadded(bytes, pos, g, c)
<1>1. PICK z : z = [i \in 1..pos |-> 0]
  OBVIOUS
<1>2. z \in Seq(Nat) /\ Len(z) = pos
  BY <1>1
<1>3. bytes \in Seq(Nat) /\ Len(bytes) \in Nat /\ \A k \in 1..Len(bytes) : bytes[k] = g + k
  BY LenProperties DEF Numbered
<1>4. c = z \o bytes
  BY <1>1 DEF Padded
<1>5. /\ c \in Seq(Nat) /\ Len(c) = pos + Len(bytes)
      /\ \A i \in 1..(pos + Len(bytes)) : c[i] = IF i <= pos THEN z[i] ELSE bytes[i - pos]
  BY <1>2, <1>3, <1>4, ConcatProperties
<1>6. ASSUME NEW k \in 1..Len(bytes) PROVE c[pos + k] = g + k
  <2>1. pos + k \in 1..(pos + Len(bytes)) /\ ~(pos + k <= pos) /\ (pos + k) - pos = k
    BY <1>3
  <2> QED BY <1>3, <1>5, <2>1
<1> QED BY <1>5, <1>6 DEF IsPadded

LEMMA ScheduledIs ==
  ASSUME NEW u, NEW pos, NEW bytes, NEW kind, NEW c, c = CountedFor(u, pos, Len(bytes)),
         c.mem = u.mem
  PROVE  Scheduled(u, pos, bytes, kind) = OnItsOwn(c, Padded(bytes, pos), pos, Len(bytes), kind)
<1>1. NewBigstring(c) = NewBigstring(u)
  BY DEF NewBigstring
<1> QED BY <1>1 DEF Scheduled, OnItsOwn, Padded

LEMMA ScheduledPasses ==
  ASSUME NEW u \in WriterType, ~Stopped(u), NEW g \in Nat, Sound(u, g), NEW n \in Nat,
         NEW pos \in Nat, NEW kind \in {"Keep", "Destroy"}, NEW b, Numbered(b, g), Len(b) = n,
         NEW x, x = Collect(MaybeStartWriter(Scheduled(ScheduleUnscheduled(u, "Keep"), pos, b, kind)))
  PROVE  Passes(u, x, g, n, pos, TRUE)
<1>1. PICK y : y = ScheduleUnscheduled(u, "Keep")
  OBVIOUS
<1>2. /\ y \in WriterType /\ SameControl(u, y) /\ Sound(y, g) /\ y.scheduled_back = y.back
      /\ Prefix(u.scheduled, y.scheduled)
  BY <1>1, ScheduledAll
<1>3. PICK m \in Int : m = n - pos
  OBVIOUS
<1>4. PICK c : c = GotBytes(y, m)
  OBVIOUS
<1>5. /\ c \in WriterType /\ SameStream(y, c) /\ SameWork(y, c)
      /\ c.received = y.received + m /\ c.flushes = y.flushes /\ c.filled = y.filled
      /\ c.epipe = y.epipe /\ c.dead = y.dead
  BY <1>2, <1>4, GotBytesFields
<1>6. /\ Sound(c, g) /\ c.scheduled_back = c.back /\ c.mem = y.mem
      /\ c.scheduled = y.scheduled
  BY <1>2, <1>5, SoundOfSame DEF SameStream, SameBuffer, SameQueue
<1>7. ~Stopped(c)
  BY <1>2, <1>5 DEF SameControl, SameWork, Stopped
<1>8. PICK p : p = Padded(b, pos)
  OBVIOUS
<1>9. p \in Seq(Nat) /\ Len(p) = pos + n /\ \A k \in 1..n : p[pos + k] = g + k
  <2>1. IsPadded(b, pos, g, p)
    BY <1>8, PaddedIs
  <2> QED BY <2>1 DEF IsPadded
<1>10. PICK z : z = OnItsOwn(c, p, pos, n, kind)
  OBVIOUS
<1>11. /\ z \in WriterType /\ Sound(z, g + n) /\ SameControl(c, z)
       /\ Prefix(c.scheduled, z.scheduled)
  BY <1>5, <1>6, <1>7, <1>9, <1>10, OnItsOwnSound
<1>12. z = Scheduled(y, pos, b, kind)
  <2>1. c = CountedFor(y, pos, Len(b))
    BY <1>3, <1>4 DEF CountedFor
  <2> QED BY <2>1, <1>6, <1>8, <1>10, ScheduledIs
<1>13. x = Collect(IF TRUE THEN MaybeStartWriter(z) ELSE z)
  BY <1>1, <1>12
<1>14. /\ SameWork(u, z) /\ z.received = u.received + m /\ z.written = u.written
       /\ z.flushes = u.flushes /\ z.filled = u.filled /\ z.epipe = u.epipe /\ z.dead = u.dead
  BY <1>2, <1>5, <1>11 DEF SameControl, SameWork, SameStream
<1>15. Prefix(u.scheduled, z.scheduled)
  <2>1. u.scheduled \in Seq(IovecType) /\ c.scheduled \in Seq(IovecType) /\ z.scheduled \in Seq(IovecType)
    BY <1>5, <1>11 DEF WriterType
  <2> QED BY <2>1, <1>2, <1>6, <1>11, PrefixOfPrefix
<1>16. Passes(z, x, g + n, 0, 0, TRUE)
  <2>1. g + n \in Nat /\ ~Stopped(z)
    BY <1>14 DEF SameWork, Stopped
  <2> QED BY <2>1, <1>11, <1>13, Finishes
<1>17. z.received = u.received + (n - pos)
  BY <1>3, <1>14
<1>18. PICK start \in BOOLEAN : start = TRUE
  OBVIOUS
<1>19. PICK q \in Int : q = pos
  OBVIOUS
<1>20. Passes(z, x, g + n, 0, 0, start) /\ z.received = u.received + (n - q)
  BY <1>16, <1>17, <1>18, <1>19
<1>21. Passes(u, x, g, n, q, start)
  <2>1. /\ SameWork(u, z) /\ z.written = u.written /\ z.flushes = u.flushes
        /\ z.filled = u.filled /\ z.epipe = u.epipe /\ z.dead = u.dead /\ z \in WriterType
    BY <1>11, <1>14
  <2> QED BY <2>1, <1>15, <1>18, <1>19, <1>20, PassesMore
<1> QED BY <1>18, <1>19, <1>21

LEMMA ScheduleWhenStopped ==
  ASSUME NEW u \in WriterType, Stopped(u), NEW g \in Nat, InStream(u, g), NEW n \in Nat,
         NEW pos \in Nat, NEW kind \in {"Keep", "Destroy"}, NEW b, Numbered(b, g), Len(b) = n,
         NEW x, x = Collect(MaybeStartWriter(Scheduled(ScheduleUnscheduled(u, "Keep"), pos, b, kind)))
  PROVE  Passes(u, x, g, n, pos, TRUE)
<1>1. /\ Empty(u) /\ u.written <= g /\ u.written \in Nat /\ u.received \in Int
      /\ u.scheduled \in Seq(IovecType)
  BY DEF InStream, WriterType
<1>2. ScheduleUnscheduled(u, "Keep") = u
  BY <1>1 DEF Empty, ScheduleUnscheduled
<1>3. PICK m \in Int : m = n - pos
  OBVIOUS
<1>4. PICK c : c = GotBytes(u, m)
  OBVIOUS
<1>5. /\ c \in WriterType /\ SameStream(u, c) /\ SameWork(u, c)
      /\ c.received = u.received + m /\ c.flushes = u.flushes /\ c.filled = u.filled
      /\ c.epipe = u.epipe /\ c.dead = u.dead
  BY <1>4, GotBytesFields
<1>6. Empty(c) /\ Stopped(c) /\ c.mem = u.mem
  BY <1>1, <1>5, SoundOfSame DEF SameWork, SameStream, Stopped
<1>7. PICK p : p = Padded(b, pos)
  OBVIOUS
<1>8. p \in Seq(Nat)
  BY <1>7, PaddedIs DEF IsPadded
<1>9. PICK k : k = NewBigstring(c)
  OBVIOUS
<1>10. c.mem \in [{0} -> {<<>>}]
  BY <1>6 DEF Empty
<1>11. k \in Nat \ DOMAIN c.mem /\ k # 0
  <2>1. DOMAIN c.mem = {0} /\ IsFiniteSet({0})
    BY <1>10, FS_Singleton
  <2>2. DOMAIN c.mem \in SUBSET Nat
    BY <2>1
  <2> QED BY <2>1, <2>2, <1>9, NewIsNew
<1>12. PICK z : z = Allocated(c, k, p)
  OBVIOUS
<1>13. /\ z \in WriterType /\ SameControl(c, z) /\ SameBuffer(c, z) /\ SameQueue(c, z)
       /\ z.mem = WithNew(c.mem, k, p)
  BY <1>5, <1>8, <1>11, <1>12, AllocatedFields
<1>14. Stopped(z)
  BY <1>6, <1>13 DEF SameControl, Stopped
<1>15. Scheduled(u, pos, b, kind) = z
  <2>1. Scheduled(u, pos, b, kind) = OnItsOwn(c, p, pos, n, kind)
    <3>1. c = CountedFor(u, pos, Len(b))
      BY <1>3, <1>4 DEF CountedFor
    <3> QED BY <3>1, <1>6, <1>7, ScheduledIs
  <2> QED BY <2>1, <1>9, <1>12, <1>14 DEF OnItsOwn, AddIovec
<1>16. x = Collect(z)
  BY <1>2, <1>14, <1>15 DEF MaybeStartWriter, Stopped
<1>17. /\ 0 \in DOMAIN z.mem /\ z.mem[0] = <<>>
       /\ z.scheduled = <<>> /\ z.scheduled_bytes = 0 /\ z.buf = 0 /\ z.scheduled_back = 0
       /\ z.back = 0
  <2>1. 0 \in DOMAIN z.mem /\ z.mem[0] = <<>>
    BY <1>10, <1>11, <1>13 DEF WithNew
  <2> QED BY <2>1, <1>6, <1>13 DEF Empty, SameBuffer, SameQueue
<1>18. x \in WriterType /\ Empty(x) /\ SameControl(z, x)
  BY <1>13, <1>16, <1>17, CollectEmpty
<1>19. /\ x.state = u.state /\ x.job = u.job /\ x.received = u.received + m /\ x.written = u.written
       /\ x.flushes = u.flushes /\ x.filled = u.filled /\ x.epipe = u.epipe /\ x.dead = u.dead
  BY <1>5, <1>13, <1>18 DEF SameControl, SameWork, SameStream
<1>20. Prefix(u.scheduled, x.scheduled)
  <2>1. x.scheduled = u.scheduled
    BY <1>1, <1>18 DEF Empty
  <2> QED BY <2>1, <1>1, PrefixSame
<1>21. InStream(x, g + n)
  <2>1. x.written <= g + n /\ Stopped(x)
    BY <1>1, <1>19 DEF Stopped
  <2> QED BY <2>1, <1>18 DEF InStream
<1>22. Started(u, x, TRUE)
  BY <1>19 DEF Started, SameWork, Stopped
<1> QED BY <1>3, <1>18, <1>19, <1>20, <1>21, <1>22 DEF Passes

LEMMA SchedulePasses ==
  ASSUME WriterTypeOK, InStream(t, given), NEW n \in Nat, NEW pos \in Nat,
         NEW kind \in {"Keep", "Destroy"}, Schedule(pos, n, kind)
  PROVE  Passes(t, t', given, n, pos, TRUE)
<1>1. PICK u \in WriterType : u = t
  BY TypesOfState
<1>2. PICK g \in Nat : g = given
  BY TypesOfState
<1>3. PICK x : x = t'
  OBVIOUS
<1>4. PICK b : b = Bytes(n)
  OBVIOUS
<1>5. Numbered(b, g) /\ Len(b) = n
  BY <1>2, <1>4, BytesAre
<1>6. x = Collect(MaybeStartWriter(Scheduled(ScheduleUnscheduled(u, "Keep"), pos, b, kind)))
  BY <1>1, <1>3, <1>4 DEF Schedule
<1>7. InStream(u, g)
  BY <1>1, <1>2
<1>8. CASE Stopped(u)
  <2>1. Passes(u, x, g, n, pos, TRUE)
    BY <1>5, <1>6, <1>7, <1>8, ScheduleWhenStopped
  <2> QED BY <1>1, <1>2, <1>3, <2>1
<1>9. CASE ~Stopped(u)
  <2>1. Sound(u, g)
    BY <1>7, <1>9 DEF InStream
  <2>2. Passes(u, x, g, n, pos, TRUE)
    BY <1>5, <1>6, <1>9, <2>1, ScheduledPasses
  <2> QED BY <1>1, <1>2, <1>3, <2>2
<1> QED BY <1>8, <1>9

LEMMA PassKeeps ==
  ASSUME WriterInv, NEW n \in Nat, NEW pos \in Nat, NEW start \in BOOLEAN, Pass(n),
         Passes(t, t', given, n, pos, start), skipped' = skipped + pos, spoilt' \in BOOLEAN,
         spoilt => spoilt', ~start /\ ~Stopped(t) => spoilt'
  PROVE  WriterInv'
<1>1. /\ WriterTypeOK /\ TheStream /\ TheFlight /\ TheJob /\ TheFlushes
  BY DEF WriterInv
<1>2. /\ given' = given + n /\ set' = set /\ flight' = flight /\ fd' = fd /\ closing' = closing
      /\ force' = force /\ too_old' = too_old /\ file' = file /\ mark' = mark
  BY DEF Pass
<1>3. /\ t' \in WriterType /\ InStream(t', given') /\ Started(t, t', start)
      /\ t'.received = t.received + (n - pos) /\ t'.written = t.written
      /\ t'.flushes = t.flushes /\ t'.filled = t.filled /\ t'.epipe = t.epipe
      /\ t'.dead = t.dead /\ Prefix(t.scheduled, t'.scheduled)
  BY <1>2 DEF Passes
<1>4. given \in Nat /\ skipped \in Nat /\ t.received \in Int
  BY <1>1, TypesOfState
<1>5. WriterTypeOK'
  <2>1. given' \in Nat /\ skipped' \in Nat
    BY <1>2, <1>4
  <2> QED BY <2>1, <1>1, <1>2, <1>3 DEF WriterTypeOK
<1>6. TheStream'
  <2>1. t.received = given - skipped
    BY <1>1 DEF TheStream
  <2>2. t'.received = given' - skipped'
    BY <2>1, <1>2, <1>3, <1>4
  <2> QED BY <2>2, <1>1, <1>2, <1>3 DEF TheStream
<1>7. TheFlight'
  <2>1. t'.job = "thread" <=> t.job = "thread"
    BY <1>1, <1>3 DEF Started, SameWork, TheJob
  <2>2. t.job = "thread" => Prefix(flight.iovecs, t'.scheduled)
    <3> SUFFICES ASSUME t.job = "thread" PROVE Prefix(flight.iovecs, t'.scheduled)
      OBVIOUS
    <3>1. Prefix(flight.iovecs, t.scheduled)
      BY <1>1 DEF TheFlight
    <3>2. flight.iovecs \in Seq(IovecType) /\ t.scheduled \in Seq(IovecType)
          /\ t'.scheduled \in Seq(IovecType)
      BY <1>1, <1>3 DEF WriterTypeOK, WriterType, FlightType
    <3> QED BY <3>1, <3>2, <1>3, PrefixOfPrefix
  <2> QED BY <2>1, <2>2, <1>1, <1>2 DEF TheFlight
<1>8. TheJob'
  <2>1. t'.state = "Not_running" => spoilt'
    BY <1>3 DEF Started, SameWork, Stopped
  <2> QED BY <2>1, <1>1, <1>2, <1>3 DEF TheJob, Started, SameWork
<1>9. TheFlushes'
  BY <1>1, <1>2, <1>3 DEF TheFlushes, Asked
<1> QED BY <1>5, <1>6, <1>7, <1>8, <1>9 DEF WriterInv

LEMMA PassKeepsWaiting ==
  ASSUME WriterInv, FlushesWait, NEW n \in Nat, NEW pos \in Nat, pos <= n, NEW start \in BOOLEAN,
         Passes(t, t', given, n, pos, start)
  PROVE  FlushesWait'
<1>1. /\ t'.received = t.received + (n - pos) /\ t'.written = t.written
      /\ t'.flushes = t.flushes /\ t'.dead = t.dead
  BY DEF Passes
<1>2. t.received \in Int /\ t.written \in Nat
  BY TypesOfState DEF WriterInv
<1>3. t.received <= t'.received /\ t'.received \in Int
  BY <1>1, <1>2
<1>4. \A i \in 1..Len(t.flushes) : t.flushes[i].z \in Int
  <2>1. t \in WriterType
    BY TypesOfState DEF WriterInv
  <2> QED BY <2>1, FlushesAre DEF FlushType
<1>5. t.dead \/ t.written <= t'.received
  BY <1>2, <1>3 DEF FlushesWait
<1>6. \A i \in 1..Len(t.flushes) : t.flushes[i].z <= t'.received
  BY <1>2, <1>3, <1>4 DEF FlushesWait
<1> QED BY <1>1, <1>5, <1>6 DEF FlushesWait

LEMMA FlushByFields ==
  ASSUME NEW u \in WriterType, NEW who \in Requests \cup {Closer}, NEW x, x = FlushBy(u, who)
  PROVE  /\ x \in WriterType /\ SameStream(u, x) /\ SameWork(u, x)
         /\ x.received = u.received /\ x.epipe = u.epipe /\ x.dead = u.dead
         /\ IF u.written = u.received
            THEN x.filled = u.filled \cup {who} /\ x.flushes = u.flushes
            ELSE /\ x.filled = u.filled
                 /\ x.flushes = Append(u.flushes, [who |-> who, z |-> u.received])
<1>1. /\ u.flushes \in Seq(FlushType) /\ u.filled \in SUBSET (Requests \cup {Closer})
      /\ u.received \in Int
  BY DEF WriterType
<1>2. CASE u.written = u.received
  <2>1. PICK f \in SUBSET (Requests \cup {Closer}) : f = u.filled \cup {who}
    BY <1>1
  <2>2. x = [u EXCEPT !.filled = f]
    BY <1>2, <2>1 DEF FlushBy
  <2>3. x \in WriterType /\ x.filled = f /\ x.flushes = u.flushes /\ x.received = u.received
        /\ x.epipe = u.epipe /\ x.dead = u.dead
    BY <2>2 DEF WriterType
  <2>4. SameStream(u, x) /\ SameWork(u, x)
    BY <2>2 DEF WriterType, SameStream, SameBuffer, SameQueue, SameWork
  <2> QED BY <1>2, <2>1, <2>3, <2>4
<1>3. CASE u.written # u.received
  <2>1. [who |-> who, z |-> u.received] \in FlushType
    BY <1>1 DEF FlushType
  <2>2. PICK q \in Seq(FlushType) : q = Append(u.flushes, [who |-> who, z |-> u.received])
    BY <1>1, <2>1, AppendProperties
  <2>3. x = [u EXCEPT !.flushes = q]
    BY <1>3, <2>2 DEF FlushBy
  <2>4. x \in WriterType /\ x.filled = u.filled /\ x.flushes = q /\ x.received = u.received
        /\ x.epipe = u.epipe /\ x.dead = u.dead
    BY <2>3 DEF WriterType
  <2>5. SameStream(u, x) /\ SameWork(u, x)
    BY <2>3 DEF WriterType, SameStream, SameBuffer, SameQueue, SameWork
  <2> QED BY <1>3, <2>2, <2>4, <2>5
<1> QED BY <1>2, <1>3

LEMMA FlushByKeeps ==
  ASSUME WriterInv, NEW who \in Requests \cup {Closer}, ~Asked(who), t' = FlushBy(t, who),
         mark' = [mark EXCEPT ![who] = given - skipped],
         set' = set, flight' = flight, fd' = fd, force' \in BOOLEAN, too_old' = too_old,
         file' = file, given' = given, skipped' = skipped, spoilt' = spoilt,
         \/ closing' = closing /\ who # Closer
         \/ closing = "no" /\ closing' = "waiting"
  PROVE  WriterInv'
<1>1. /\ WriterTypeOK /\ TheStream /\ TheFlight /\ TheJob /\ TheFlushes
  BY DEF WriterInv
<1>2. t \in WriterType /\ given \in Nat /\ skipped \in Nat /\ t.written \in Nat
  BY <1>1, TypesOfState
<1>3. /\ t' \in WriterType /\ SameStream(t, t') /\ SameWork(t, t')
      /\ t'.received = t.received /\ t'.epipe = t.epipe /\ t'.dead = t.dead
      /\ IF t.written = t.received
         THEN t'.filled = t.filled \cup {who} /\ t'.flushes = t.flushes
         ELSE /\ t'.filled = t.filled
              /\ t'.flushes = Append(t.flushes, [who |-> who, z |-> t.received])
  BY <1>2, FlushByFields
<1>4. /\ t.received = given - skipped
      /\ t'.written = t.written /\ t'.scheduled = t.scheduled
      /\ bytes_to_write(t') = bytes_to_write(t)
      /\ t'.state = t.state /\ t'.job = t.job
  BY <1>1, <1>3 DEF TheStream, SameStream, SameBuffer, SameQueue, SameWork, bytes_to_write
<1>5. /\ mark' \in [Requests \cup {Closer} -> Int] /\ mark'[who] = t.received
      /\ \A r \in Requests \cup {Closer} : r # who => mark'[r] = mark[r]
  <2>1. given - skipped \in Int /\ mark \in [Requests \cup {Closer} -> Int]
    BY <1>1, <1>2 DEF WriterTypeOK
  <2> QED BY <2>1, <1>4
<1>6. WriterTypeOK'
  BY <1>1, <1>3, <1>5 DEF WriterTypeOK
<1>7. TheStream'
  <2>1. InStream(t', given)
    BY <1>1, <1>3, <1>4, SoundOfSame DEF InStream, Stopped, TheStream
  <2> QED BY <2>1, <1>1, <1>3, <1>4 DEF TheStream
<1>8. TheFlight'
  BY <1>1, <1>4 DEF TheFlight
<1>9. TheJob'
  BY <1>1, <1>3, <1>4 DEF TheJob
<1>10. /\ Len(t.flushes) \in Nat /\ DOMAIN t.flushes = 1..Len(t.flushes)
       /\ \A i \in 1..Len(t.flushes) : t.flushes[i].who \in Requests \cup {Closer}
  BY <1>2, FlushesAre DEF FlushType
<1>11. /\ \A i \in 1..Len(t.flushes) : t.flushes[i].who # who
       /\ who \notin t.filled
  BY <1>10 DEF Asked
<1>12. \A r \in t'.filled : mark'[r] <= t'.written
  <2>1. ASSUME NEW r \in t.filled PROVE mark'[r] <= t.written
    <3>1. r \in Requests \cup {Closer} /\ r # who
      BY <1>1, <1>11, TypesOfState
    <3> QED BY <3>1, <1>1, <1>5 DEF TheFlushes
  <2>2. t.written = t.received => mark'[who] <= t.written
    BY <1>2, <1>5
  <2> QED BY <2>1, <2>2, <1>3, <1>4
<1>13. \A i \in 1..Len(t.flushes) : t.flushes[i].z = mark'[t.flushes[i].who]
  BY <1>1, <1>5, <1>10, <1>11 DEF TheFlushes
<1>14. /\ \A i \in 1..Len(t'.flushes) : t'.flushes[i].z = mark'[t'.flushes[i].who]
       /\ DOMAIN t'.flushes = 1..Len(t'.flushes)
       /\ \A i \in 1..Len(t'.flushes) :
            t'.flushes[i].who = who \/ \E j \in 1..Len(t.flushes) : t'.flushes[i].who = t.flushes[j].who
  <2>1. CASE t.written = t.received
    BY <2>1, <1>3, <1>10, <1>13
  <2>2. CASE t.written # t.received
    <3>1. PICK e : e = [who |-> who, z |-> t.received]
      OBVIOUS
    <3>2. e.who = who /\ e.z = t.received
      BY <3>1
    <3>3. PICK q \in Seq(FlushType) : q = t.flushes
      BY <1>2, FlushesAre
    <3>4. e \in FlushType
      BY <3>1, <1>2 DEF FlushType, WriterType
    <3>5. PICK p : p = Append(q, e)
      OBVIOUS
    <3>6. /\ p \in Seq(FlushType) /\ Len(p) = Len(q) + 1 /\ p[Len(q) + 1] = e
          /\ \A i \in 1..Len(q) : p[i] = q[i]
      BY <3>4, <3>5, AppendProperties
    <3>7. DOMAIN p = 1..Len(p) /\ \A i \in 1..Len(p) : i = Len(q) + 1 \/ i \in 1..Len(q)
      BY <3>3, <3>6, <1>10
    <3>8. p = t'.flushes
      BY <2>2, <3>1, <3>3, <3>5, <1>3
    <3>9. \A i \in 1..Len(p) :
            /\ p[i].z = mark'[p[i].who]
            /\ p[i].who = who \/ \E j \in 1..Len(q) : p[i].who = q[j].who
      <4> SUFFICES ASSUME NEW i \in 1..Len(p)
                   PROVE  /\ p[i].z = mark'[p[i].who]
                          /\ p[i].who = who \/ \E j \in 1..Len(q) : p[i].who = q[j].who
        OBVIOUS
      <4>1. CASE i = Len(q) + 1
        BY <3>2, <3>6, <4>1, <1>5
      <4>2. CASE i \in 1..Len(q)
        <5>1. p[i] = q[i]
          BY <3>6, <4>2
        <5>2. q[i].z = mark'[q[i].who]
          BY <3>3, <4>2, <1>13
        <5> QED BY <4>2, <5>1, <5>2
      <4> QED BY <3>7, <4>1, <4>2
    <3> QED BY <3>3, <3>7, <3>8, <3>9
  <2> QED BY <2>1, <2>2
<1>15. Asked(Closer)' => closing' # "no"
  <2> SUFFICES ASSUME Asked(Closer)' PROVE closing' # "no"
    OBVIOUS
  <2>1. CASE closing' = "waiting"
    BY <2>1
  <2>2. CASE closing' = closing /\ who # Closer
    <3>1. Asked(Closer)
      <4>1. CASE Closer \in t'.filled
        BY <2>2, <4>1, <1>3 DEF Asked
      <4>2. CASE Closer \notin t'.filled
        <5>1. PICK i \in DOMAIN t'.flushes : t'.flushes[i].who = Closer
          BY <4>2 DEF Asked
        <5>2. \E j \in 1..Len(t.flushes) : t.flushes[j].who = Closer
          BY <2>2, <5>1, <1>14
        <5> QED BY <5>2, <1>10 DEF Asked
      <4> QED BY <4>1, <4>2
    <3> QED BY <2>2, <3>1, <1>1 DEF TheFlushes
  <2> QED BY <2>1, <2>2
<1>16. TheFlushes'
  BY <1>12, <1>14, <1>15 DEF TheFlushes
<1> QED BY <1>6, <1>7, <1>8, <1>9, <1>16 DEF WriterInv

LEMMA FlushByKeepsWaiting ==
  ASSUME WriterInv, FlushesWait, NEW who \in Requests \cup {Closer}, t' = FlushBy(t, who)
  PROVE  FlushesWait'
<1>1. t \in WriterType /\ t.written \in Nat /\ t.received \in Int
  BY TypesOfState DEF WriterInv
<1>2. /\ SameStream(t, t') /\ t'.received = t.received /\ t'.dead = t.dead
      /\ IF t.written = t.received THEN t'.flushes = t.flushes
         ELSE t'.flushes = Append(t.flushes, [who |-> who, z |-> t.received])
  BY <1>1, FlushByFields
<1>3. t'.written = t.written
  BY <1>2 DEF SameStream
<1>4. CASE t.written = t.received
  BY <1>2, <1>3, <1>4 DEF FlushesWait
<1>5. CASE t.written # t.received
  <2>1. PICK e : e = [who |-> who, z |-> t.received]
    OBVIOUS
  <2>2. e.z = t.received /\ e \in FlushType
    BY <2>1, <1>1 DEF FlushType
  <2>3. PICK q \in Seq(FlushType) : q = t.flushes
    BY <1>1, FlushesAre
  <2>4. Len(q) \in Nat /\ \A i \in 1..Len(q) : q[i].z \in Int
    BY <2>3, <1>1, FlushesAre DEF FlushType
  <2>5. PICK p : p = Append(q, e)
    OBVIOUS
  <2>6. /\ Len(p) = Len(q) + 1 /\ p[Len(q) + 1] = e /\ \A i \in 1..Len(q) : p[i] = q[i]
    BY <2>2, <2>5, AppendProperties
  <2>7. p = t'.flushes
    BY <1>5, <2>1, <2>3, <2>5, <1>2
  <2>8. /\ t.dead \/ t.written <= t.received
        /\ \A i \in 1..Len(q) :
             /\ t.dead \/ q[i].z > t.written
             /\ q[i].z <= t.received
             /\ \A j \in 1..i : q[j].z <= q[i].z
    BY <2>3 DEF FlushesWait
  <2>9. ASSUME NEW i \in 1..Len(p)
        PROVE  /\ t.dead \/ p[i].z > t.written
               /\ p[i].z <= t.received
               /\ \A j \in 1..i : p[j].z <= p[i].z
    <3>1. CASE i \in 1..Len(q)
      <4>1. \A j \in 1..i : j \in 1..Len(q)
        BY <3>1, <2>4
      <4> QED BY <3>1, <4>1, <2>6, <2>8
    <3>2. CASE i = Len(q) + 1
      <4>1. p[i].z = t.received /\ (t.dead \/ t.received > t.written)
        BY <3>2, <1>1, <1>5, <2>2, <2>6, <2>8
      <4>2. \A j \in 1..i : j = i \/ j \in 1..Len(q)
        BY <3>2, <2>4
      <4>3. \A j \in 1..Len(q) : p[j].z <= t.received
        BY <2>6, <2>8
      <4> QED BY <4>1, <4>2, <4>3, <1>1
    <3> QED BY <3>1, <3>2, <2>4, <2>6
  <2> QED BY <2>7, <2>8, <2>9, <1>2, <1>3 DEF FlushesWait
<1> QED BY <1>4, <1>5
-----------------------------------------------------------------------------
(* What the background writer does with a result.                          *)
Stopping(u, dead, epipe) == [StopPermanently(u) EXCEPT !.dead = dead, !.epipe = epipe]
LEMMA StopFields ==
  ASSUME NEW u \in WriterType, NEW dead \in BOOLEAN, NEW epipe \in BOOLEAN,
         NEW x, x = Stopping(u, dead, epipe)
  PROVE  /\ x \in WriterType /\ Empty(x) /\ Stopped(x) /\ x.job = "none"
         /\ x.received = u.received /\ x.written = u.written
         /\ x.flushes = u.flushes /\ x.filled = u.filled /\ x.dead = dead /\ x.epipe = epipe
<1>1. PICK z \in Nat : z = 0
  OBVIOUS
<1>2. PICK m : m = [b \in {z} |-> <<>>]
  OBVIOUS
<1>3. m \in Memory
  <2>1. <<>> \in Seq(Nat) /\ {z} \in SUBSET Nat
    OBVIOUS
  <2>2. DOMAIN m = {z} /\ m \in [{z} -> Seq(Nat)]
    BY <1>2, <2>1
  <2> QED BY <2>1, <2>2, MemoryIs
<1>4. PICK e \in Seq(IovecType) : e = <<>>
  <2>1. <<>> \in Seq(IovecType)
    OBVIOUS
  <2> QED BY <2>1
<1>5. PICK y : y = [u EXCEPT !.state = "Stopped_permanently", !.job = "none", !.scheduled = e,
                      !.scheduled_bytes = z, !.buf = z, !.scheduled_back = z, !.back = z, !.mem = m]
  OBVIOUS
<1>6. y = StopPermanently(u)
  BY <1>1, <1>2, <1>4, <1>5 DEF StopPermanently
<1>7. y \in WriterType
  <2>1. /\ z \in Int /\ z \in Nat /\ e \in Seq(IovecType) /\ m \in Memory
        /\ "Stopped_permanently" \in {"Not_running", "Running", "Stopped_permanently"}
        /\ "none" \in {"none", "start", "ready", "after", "thread"}
    BY <1>1, <1>3, <1>4
  <2> QED BY <2>1, <1>5 DEF WriterType
<1>8. /\ y.state = "Stopped_permanently" /\ y.job = "none" /\ y.scheduled = e
      /\ y.scheduled_bytes = z /\ y.buf = z /\ y.scheduled_back = z /\ y.back = z /\ y.mem = m
      /\ y.received = u.received /\ y.written = u.written
      /\ y.flushes = u.flushes /\ y.filled = u.filled
  BY <1>5 DEF WriterType
<1>9. x = [y EXCEPT !.dead = dead, !.epipe = epipe]
  BY <1>6 DEF Stopping
<1>10. x \in WriterType /\ x.dead = dead /\ x.epipe = epipe
  BY <1>7, <1>9 DEF WriterType
<1>11. /\ x.state = y.state /\ x.job = y.job /\ x.scheduled = y.scheduled
       /\ x.scheduled_bytes = y.scheduled_bytes /\ x.buf = y.buf
       /\ x.scheduled_back = y.scheduled_back /\ x.back = y.back /\ x.mem = y.mem
       /\ x.received = y.received /\ x.written = y.written
       /\ x.flushes = y.flushes /\ x.filled = y.filled
  BY <1>7, <1>9 DEF WriterType
<1>12. Empty(x)
  BY <1>1, <1>2, <1>4, <1>8, <1>11 DEF Empty
<1> QED BY <1>8, <1>10, <1>11, <1>12 DEF Stopped

LEMMA DieFields ==
  ASSUME NEW u \in WriterType, NEW x, x = Die(u)
  PROVE  /\ x \in WriterType /\ Empty(x) /\ Stopped(x) /\ x.job = "none"
         /\ x.received = u.received /\ x.written = u.written
         /\ x.flushes = u.flushes /\ x.filled = u.filled /\ x.dead /\ x.epipe = u.epipe
<1>1. PICK e \in BOOLEAN : e = u.epipe
  BY DEF WriterType
<1>2. x = [StopPermanently(u) EXCEPT !.dead = TRUE, !.epipe = e]
  BY <1>1 DEF Die, StopPermanently, WriterType
<1>3. PICK d \in BOOLEAN : d = TRUE
  OBVIOUS
<1>4. x = Stopping(u, d, e)
  BY <1>2, <1>3 DEF Stopping
<1>5. /\ x \in WriterType /\ Empty(x) /\ Stopped(x) /\ x.job = "none"
      /\ x.received = u.received /\ x.written = u.written
      /\ x.flushes = u.flushes /\ x.filled = u.filled /\ x.dead = d /\ x.epipe = e
  BY <1>4, StopFields
<1> QED BY <1>1, <1>3, <1>5

Broken(u) == [StopPermanently(u) EXCEPT !.epipe = TRUE]
LEMMA EpipeFields ==
  ASSUME NEW u \in WriterType, NEW x, x = Broken(u)
  PROVE  /\ x \in WriterType /\ Empty(x) /\ Stopped(x) /\ x.job = "none"
         /\ x.received = u.received /\ x.written = u.written
         /\ x.flushes = u.flushes /\ x.filled = u.filled /\ x.dead = u.dead
<1>1. PICK d \in BOOLEAN : d = u.dead
  BY DEF WriterType
<1>2. x = [StopPermanently(u) EXCEPT !.dead = d, !.epipe = TRUE]
  BY <1>1 DEF Broken, StopPermanently, WriterType
<1>3. PICK e \in BOOLEAN : e = TRUE
  OBVIOUS
<1>4. x = Stopping(u, d, e)
  BY <1>2, <1>3 DEF Stopping
<1>5. /\ x \in WriterType /\ Empty(x) /\ Stopped(x) /\ x.job = "none"
      /\ x.received = u.received /\ x.written = u.written
      /\ x.flushes = u.flushes /\ x.filled = u.filled /\ x.dead = d
  BY <1>4, StopFields
<1> QED BY <1>1, <1>5

SameRest(u, x) == x.written = u.written /\ SameAnswers(u, x)
NextState(u, x) ==
  \/ u.scheduled = <<>> /\ x.state = "Not_running" /\ x.job = "none" /\ bytes_to_write(x) = 0
  \/ x.state = u.state /\ x.job \in {"after", "ready"}

LEMMA NextWriteSound ==
  ASSUME NEW u \in WriterType, NEW g \in Nat, Sound(u, g), u.scheduled_back = u.back,
         NEW x, x = NextWrite(u)
  PROVE  x \in WriterType /\ Sound(x, g) /\ SameRest(u, x) /\ NextState(u, x)
<1>1. CASE u.scheduled = <<>>
  <2>1. PICK z \in Nat : z = 0
    OBVIOUS
  <2>2. x = [u EXCEPT !.back = z, !.scheduled_back = z, !.state = "Not_running", !.job = "none"]
    BY <1>1, <2>1 DEF NextWrite
  <2>3. x \in WriterType /\ x.state = "Not_running" /\ x.job = "none"
    <3>1. PICK a \in {"Not_running", "Running", "Stopped_permanently"} : a = "Not_running"
      OBVIOUS
    <3>2. PICK j \in {"none", "start", "ready", "after", "thread"} : j = "none"
      OBVIOUS
    <3>3. x = [u EXCEPT !.back = z, !.scheduled_back = z, !.state = a, !.job = j]
      BY <2>2, <3>1, <3>2
    <3>4. x \in WriterType
      BY <3>3 DEF WriterType
    <3>5. x.state = a /\ x.job = j
      BY <3>3 DEF WriterType
    <3> QED BY <3>1, <3>2, <3>4, <3>5
  <2>4. /\ x.back = z /\ x.scheduled_back = z /\ x.mem = u.mem /\ x.buf = u.buf
        /\ x.scheduled = u.scheduled /\ x.scheduled_bytes = u.scheduled_bytes
        /\ x.written = u.written
    BY <2>2 DEF WriterType
  <2>5. SameAnswers(u, x)
    BY <2>2 DEF WriterType, SameAnswers
  <2>6. /\ u.buf \in DOMAIN u.mem /\ u.written \in Nat /\ u.scheduled_bytes \in Nat
        /\ u.back \in Nat /\ Len(u.mem[u.buf]) \in Nat
        /\ g = u.written + u.scheduled_bytes + (u.back - u.scheduled_back)
    BY StreamsIs DEF Sound
  <2>7. /\ IsFiniteSet(DOMAIN u.mem) /\ 0 \in DOMAIN u.mem /\ Len(u.mem[u.buf]) > 0
        /\ u.scheduled_bytes = iovecs_length(u.scheduled)
        /\ QueueHolds(u.mem, u.scheduled, u.written) /\ LastUse(u.scheduled)
    BY DEF Sound, Streams
  <2>8. u.scheduled_bytes = 0
    <3>1. u.scheduled \in Seq(IovecType) /\ Len(u.scheduled) = 0
      BY <1>1 DEF WriterType
    <3>2. Ends(u.scheduled)[0] = 0
      BY <3>1, EndsOf, IovecsHaveLengths
    <3> QED BY <2>7, <3>1, <3>2 DEF iovecs_length
  <2>9. Holds(x.mem, Unscheduled(x), x.written + x.scheduled_bytes)
    <3>1. x.buf \in DOMAIN x.mem /\ x.scheduled_back <= x.back /\ x.back <= Len(x.mem[x.buf])
      BY <2>1, <2>4, <2>6
    <3>2. \A k \in 1..(x.back - x.scheduled_back) :
            x.mem[x.buf][x.scheduled_back + k] = (x.written + x.scheduled_bytes) + k
      BY <2>1, <2>4
    <3>3. x.written + x.scheduled_bytes \in Nat /\ Len(x.mem[x.buf]) \in Nat
      BY <2>4, <2>6
    <3> QED BY <2>3, <3>1, <3>2, <3>3, UnscheduledHolds
  <2>10. bytes_to_write(x) = 0 /\ x.written + bytes_to_write(x) = g
    BY <2>1, <2>4, <2>6, <2>8 DEF bytes_to_write
  <2>11. Streams(x, g)
    BY <2>1, <2>4, <2>7, <2>9, <2>10 DEF Streams
  <2>12. Below(x.scheduled, x.buf, x.scheduled_back)
    <3>1. Len(x.scheduled) = 0
      BY <1>1, <2>4
    <3> QED BY <3>1 DEF Below
  <2>13. NextState(u, x)
    BY <1>1, <2>3, <2>10 DEF NextState
  <2> QED BY <2>3, <2>4, <2>5, <2>11, <2>12, <2>13 DEF Sound, SameRest
<1>2. CASE u.scheduled # <<>>
  <2>1. PICK j \in {"none", "start", "ready", "after", "thread"} :
          j = IF set.periodic THEN "after" ELSE "ready"
    OBVIOUS
  <2>2. x = [u EXCEPT !.job = j]
    BY <1>2, <2>1 DEF NextWrite
  <2>3. /\ x \in WriterType /\ SameStream(u, x) /\ SameAnswers(u, x)
        /\ x.state = u.state /\ x.job = j
    BY <2>2, WithJob
  <2>4. Sound(x, g) /\ x.written = u.written
    BY <2>3, SoundOfSame DEF SameStream
  <2> QED BY <2>1, <2>3, <2>4 DEF SameRest, NextState
<1> QED BY <1>1, <1>2

(* x is u after a write of n bytes.                                        *)
FlushesLeft(u, x) ==
  \/ /\ x.flushes = u.flushes /\ x.filled = u.filled
     /\ x.dead \/ (x.written = u.written /\ x.dead = u.dead)
  \/ /\ x.written <= x.received
     /\ \E d \in 0..Len(u.flushes) : IsFilled(u, x, d)
Result(u, x, g, n, err) ==
  /\ x \in WriterType /\ InStream(x, g)
  /\ x.received = u.received /\ x.written = u.written + n
  /\ x.job # "thread"
  /\ x.job # "none" <=> x.state = "Running"
  /\ x.state = "Not_running" => bytes_to_write(x) = 0
  /\ x.epipe => u.epipe \/ err = "EPIPE"
  /\ FlushesLeft(u, x)

LEMMA FilledSame ==
  ASSUME NEW w, NEW f, NEW u, NEW x, NEW d, IsFilled(w, f, d), u.flushes = w.flushes,
         u.filled = w.filled, x.flushes = f.flushes, x.filled = f.filled, x.written = f.written
  PROVE  IsFilled(u, x, d)
<1>1. IsFilled(w, f, d) = IsFilled(u, x, d)
  BY DEF IsFilled
<1> QED BY <1>1

LEMMA FinishedResult ==
  ASSUME NEW u \in WriterType, u.state = "Running", NEW g \in Nat, Sound(u, g),
         NEW n \in 0..iovecs_length(u.scheduled),
         NEW w, w = Written(u, n), w.written <= w.received, NEW f, f = FillFlushes(w),
         NEW r, r = RemoveDone(f, n), NEW p, p = ScheduleUnscheduled(r, "Keep"),
         NEW s, s = NextWrite(p), NEW x, x = Collect(s), NEW err
  PROVE  Result(u, x, g, n, err)
<1>1. n \in Nat
  BY IovecsHaveLengths DEF WriterType
<1>2. /\ w \in WriterType /\ CountedAsWritten(u, w, n) /\ SameAnswers(u, w) /\ SameWork(u, w)
  BY <1>1, WrittenFields
<1>3. /\ f \in WriterType /\ SameStream(w, f) /\ SameWork(w, f)
      /\ f.received = w.received /\ f.epipe = w.epipe /\ f.dead = w.dead
  BY <1>2, FillFlushesFields
<1>4. PICK d \in 0..Len(w.flushes) : IsFilled(w, f, d)
  BY <1>2, FillFlushesFields
<1>5. CountedAsWritten(u, f, n)
  BY <1>2, <1>3 DEF CountedAsWritten, SameStream, SameBuffer, SameQueue
<1>6. r \in WriterType /\ SameControl(f, r) /\ Sound(r, g)
  BY <1>3, <1>5, RemoveDoneSound
<1>7. r.state = "Running" /\ ~Stopped(r)
  BY <1>2, <1>3, <1>6 DEF SameControl, SameWork, Stopped
<1>8. p \in WriterType /\ SameControl(r, p) /\ Sound(p, g) /\ p.scheduled_back = p.back
  BY <1>6, <1>7, ScheduledAll
<1>9. s \in WriterType /\ Sound(s, g) /\ SameRest(p, s) /\ NextState(p, s)
  BY <1>8, NextWriteSound
<1>10. x \in WriterType /\ Sound(x, g) /\ SameControl(s, x) /\ SameBuffer(s, x) /\ SameQueue(s, x)
  BY <1>9, CollectSound DEF Adds
<1>11. p.state = "Running" /\ x.state = s.state /\ x.job = s.job
       /\ bytes_to_write(x) = bytes_to_write(s)
  BY <1>7, <1>8, <1>10 DEF SameControl, SameBuffer, SameQueue, bytes_to_write
<1>12. /\ x.job # "thread" /\ (x.job # "none" <=> x.state = "Running")
       /\ x.state = "Not_running" => bytes_to_write(x) = 0
       /\ ~Stopped(x)
  BY <1>9, <1>11 DEF NextState, Stopped
<1>13. /\ x.received = f.received /\ x.written = f.written /\ x.flushes = f.flushes
       /\ x.filled = f.filled /\ x.epipe = f.epipe
  BY <1>6, <1>8, <1>9, <1>10 DEF SameControl, SameRest, SameAnswers
<1>14. /\ f.written = w.written /\ w.written = u.written + n /\ w.received = u.received
       /\ w.flushes = u.flushes /\ w.filled = u.filled /\ w.epipe = u.epipe
  BY <1>2, <1>3 DEF SameStream, CountedAsWritten, SameAnswers
<1>15. IsFilled(u, x, d) /\ d \in 0..Len(u.flushes)
  BY <1>4, <1>13, <1>14, FilledSame
<1>16. x.written <= x.received
  BY <1>3, <1>13, <1>14
<1>17. FlushesLeft(u, x)
  BY <1>15, <1>16 DEF FlushesLeft
<1>18. InStream(x, g)
  BY <1>10, <1>12 DEF InStream
<1> QED BY <1>3, <1>10, <1>12, <1>13, <1>14, <1>17, <1>18 DEF Result

LEMMA DeadResult ==
  ASSUME NEW u \in WriterType, NEW g \in Nat, NEW n \in Nat, NEW x \in WriterType,
         Empty(x), Stopped(x), x.job = "none", x.received = u.received,
         x.written = u.written + n, x.written <= g, x.flushes = u.flushes, x.filled = u.filled,
         NEW err, x.epipe => u.epipe \/ err = "EPIPE", x.dead \/ (n = 0 /\ x.dead = u.dead)
  PROVE  Result(u, x, g, n, err)
<1>1. InStream(x, g) /\ x.state = "Stopped_permanently"
  BY DEF InStream, Stopped
<1>2. FlushesLeft(u, x)
  <2>1. u.written \in Nat
    BY DEF WriterType
  <2> QED BY <2>1 DEF FlushesLeft
<1> QED BY <1>1, <1>2 DEF Result

LEMMA HandledResult ==
  ASSUME NEW u \in WriterType, u.state = "Running", NEW g \in Nat, Sound(u, g),
         NEW n \in 0..iovecs_length(u.scheduled), NEW err, err # "none" => n = 0,
         HandleWriteResult(u, n, err)
  PROVE  Result(u, t', g, n, err)
<1>1. /\ u.written \in Nat /\ u.scheduled_bytes \in Nat /\ u.written + n <= g /\ n \in Nat
  <2>1. /\ u.written \in Nat /\ u.scheduled_bytes \in Nat
        /\ u.scheduled_back \in Nat /\ u.back \in Nat /\ u.scheduled_back <= u.back
        /\ g = u.written + u.scheduled_bytes + (u.back - u.scheduled_back)
    BY StreamsIs DEF Sound
  <2>2. u.scheduled_bytes = iovecs_length(u.scheduled)
    BY DEF Sound, Streams
  <2> QED BY <2>1, <2>2
<1>2. PICK x : x = t'
  OBVIOUS
<1>3. PICK w : w = Written(u, n)
  OBVIOUS
<1>4. /\ w \in WriterType /\ CountedAsWritten(u, w, n) /\ SameAnswers(u, w)
  BY <1>1, <1>3, WrittenFields
<1>5. CASE err = "none" /\ w.written > w.received /\ x = Die(w)
  <2>1. /\ x \in WriterType /\ Empty(x) /\ Stopped(x) /\ x.job = "none"
        /\ x.received = w.received /\ x.written = w.written
        /\ x.flushes = w.flushes /\ x.filled = w.filled /\ x.dead /\ x.epipe = w.epipe
    BY <1>4, <1>5, DieFields
  <2>2. /\ w.received = u.received /\ w.written = u.written + n
        /\ w.flushes = u.flushes /\ w.filled = u.filled /\ w.epipe = u.epipe
    BY <1>4 DEF CountedAsWritten, SameAnswers
  <2>3. x.received = u.received /\ x.written = u.written + n /\ x.written <= g
        /\ x.flushes = u.flushes /\ x.filled = u.filled
    BY <1>1, <2>1, <2>2
  <2>4. (x.epipe => u.epipe \/ err = "EPIPE") /\ (x.dead \/ (n = 0 /\ x.dead = u.dead))
    BY <2>1, <2>2
  <2>5. Result(u, x, g, n, err)
    BY <1>1, <2>1, <2>3, <2>4, DeadResult
  <2> QED BY <1>2, <2>5
<1>6. CASE err = "none" /\ ~(w.written > w.received /\ x = Die(w))
  <2>1. PICK f : f = FillFlushes(w)
    OBVIOUS
  <2>2. PICK r : r = RemoveDone(f, n)
    OBVIOUS
  <2>3. PICK p : p = ScheduleUnscheduled(r, "Keep")
    OBVIOUS
  <2>4. PICK s : s = NextWrite(p)
    OBVIOUS
  <2>5. w.written <= w.received /\ x = Collect(s)
    BY <1>2, <1>3, <1>6, <2>1, <2>2, <2>3, <2>4 DEF HandleWriteResult, WriteFinished
  <2>6. Result(u, x, g, n, err)
    BY <1>3, <2>1, <2>2, <2>3, <2>4, <2>5, FinishedResult
  <2> QED BY <1>2, <2>6
<1>7. CASE err = "EAGAIN"
  <2>1. PICK j \in {"none", "start", "ready", "after", "thread"} : j = "ready"
    OBVIOUS
  <2>2. x = [u EXCEPT !.job = j]
    BY <1>2, <1>7, <2>1 DEF HandleWriteResult
  <2>3. /\ x \in WriterType /\ SameStream(u, x) /\ SameAnswers(u, x)
        /\ x.state = u.state /\ x.job = j
    BY <2>2, WithJob
  <2>4. InStream(x, g) /\ x.written = u.written
    BY <2>3, SoundOfSame DEF SameStream, InStream, Stopped
  <2>5. /\ x.received = u.received /\ x.flushes = u.flushes /\ x.filled = u.filled
        /\ x.epipe = u.epipe /\ x.dead = u.dead
    BY <2>3 DEF SameAnswers
  <2>6. FlushesLeft(u, x)
    BY <2>4, <2>5 DEF FlushesLeft
  <2>7. x.written = u.written + n
    BY <1>1, <1>7, <2>4
  <2> QED BY <1>2, <2>1, <2>3, <2>4, <2>5, <2>6, <2>7 DEF Result
<1>8. CASE err = "EPIPE"
  <2>1. x = Broken(u)
    BY <1>2, <1>8 DEF HandleWriteResult, Broken
  <2>2. /\ x \in WriterType /\ Empty(x) /\ Stopped(x) /\ x.job = "none"
        /\ x.received = u.received /\ x.written = u.written
        /\ x.flushes = u.flushes /\ x.filled = u.filled /\ x.dead = u.dead
    BY <2>1, EpipeFields
  <2>3. x.written = u.written + n /\ x.written <= g /\ n = 0
    BY <1>1, <1>8, <2>2
  <2>4. Result(u, x, g, n, err)
    BY <1>1, <1>8, <2>2, <2>3, DeadResult
  <2> QED BY <1>2, <2>4
<1>9. CASE err = "other"
  <2>1. x = Die(u)
    BY <1>2, <1>9 DEF HandleWriteResult
  <2>2. /\ x \in WriterType /\ Empty(x) /\ Stopped(x) /\ x.job = "none"
        /\ x.received = u.received /\ x.written = u.written
        /\ x.flushes = u.flushes /\ x.filled = u.filled /\ x.dead /\ x.epipe = u.epipe
    BY <2>1, DieFields
  <2>3. x.written = u.written + n /\ x.written <= g
    BY <1>1, <1>9, <2>2
  <2>4. (x.epipe => u.epipe \/ err = "EPIPE") /\ (x.dead \/ (n = 0 /\ x.dead = u.dead))
    BY <2>2
  <2>5. Result(u, x, g, n, err)
    BY <1>1, <2>2, <2>3, <2>4, DeadResult
  <2> QED BY <1>2, <2>5
<1> QED BY <1>5, <1>6, <1>7, <1>8, <1>9 DEF HandleWriteResult

LEMMA FlushesLeftTrue ==
  ASSUME NEW u \in WriterType, NEW x \in WriterType, FlushesLeft(u, x), NEW n \in Nat,
         x.written = u.written + n, NEW m,
         \A i \in 1..Len(u.flushes) : u.flushes[i].z = m[u.flushes[i].who],
         \A r \in u.filled : m[r] <= u.written,
         m \in [Requests \cup {Closer} -> Int]
  PROVE  /\ \A i \in 1..Len(x.flushes) : x.flushes[i].z = m[x.flushes[i].who]
         /\ \A r \in x.filled : m[r] <= x.written
         /\ u.filled \subseteq x.filled
         /\ \A r : r \in x.filled => \/ r \in u.filled
                                     \/ \E i \in DOMAIN u.flushes : u.flushes[i].who = r
         /\ \A i \in DOMAIN x.flushes : \E j \in DOMAIN u.flushes : x.flushes[i] = u.flushes[j]
<1>1. /\ u.written \in Nat /\ u.filled \in SUBSET (Requests \cup {Closer})
      /\ \A r \in u.filled : m[r] \in Int
  BY DEF WriterType
<1>2. \A r \in u.filled : m[r] <= x.written
  BY <1>1
<1>3. DOMAIN u.flushes = 1..Len(u.flushes) /\ DOMAIN x.flushes = 1..Len(x.flushes)
      /\ Len(u.flushes) \in Nat /\ Len(x.flushes) \in Nat
  BY FlushesAre
<1>4. CASE x.flushes = u.flushes /\ x.filled = u.filled
  BY <1>2, <1>4
<1>5. CASE \E d \in 0..Len(u.flushes) : IsFilled(u, x, d)
  <2>1. PICK d \in 0..Len(u.flushes) : IsFilled(u, x, d)
    BY <1>5
  <2>2. PICK q : q = u.flushes
    OBVIOUS
  <2>3. PICK p : p = x.flushes
    OBVIOUS
  <2>4. /\ Len(p) = Len(q) - d
        /\ \A i \in 1..Len(p) : p[i] = q[d + i]
        /\ x.filled = u.filled \cup {q[i].who : i \in 1..d}
        /\ \A i \in 1..d : q[i].z <= x.written
    BY <2>1, <2>2, <2>3 DEF IsFilled
  <2>5. Len(q) \in Nat /\ \A i \in 1..d : i \in 1..Len(q)
    BY <1>3, <2>1, <2>2
  <2>6. \A i \in 1..Len(q) : q[i].z = m[q[i].who]
    BY <2>2
  <2>7. ASSUME NEW i \in 1..Len(p) PROVE \E j \in 1..Len(q) : p[i] = q[j]
    <3>1. d + i \in 1..Len(q) /\ p[i] = q[d + i]
      BY <2>1, <2>4, <2>5
    <3> QED BY <3>1
  <2>8. \A i \in 1..Len(p) : p[i].z = m[p[i].who]
    BY <2>6, <2>7
  <2>9. ASSUME NEW r \in x.filled
        PROVE  m[r] <= x.written /\ (r \in u.filled \/ \E i \in 1..Len(q) : q[i].who = r)
    <3>1. CASE r \in u.filled
      BY <3>1, <1>2
    <3>2. CASE r \notin u.filled
      <4>1. PICK i \in 1..d : r = q[i].who
        BY <3>2, <2>4
      <4>2. i \in 1..Len(q) /\ q[i].z <= x.written /\ q[i].z = m[r]
        BY <4>1, <2>4, <2>5, <2>6
      <4> QED BY <4>1, <4>2
    <3> QED BY <3>1, <3>2
  <2>10. u.filled \subseteq x.filled
    BY <2>4
  <2>11. DOMAIN u.flushes = 1..Len(q) /\ DOMAIN x.flushes = 1..Len(p)
    BY <1>3, <2>2, <2>3
  <2>12. \A i \in 1..Len(x.flushes) : x.flushes[i].z = m[x.flushes[i].who]
    BY <2>3, <2>8
  <2>13. \A r : r \in x.filled => \/ r \in u.filled
                                  \/ \E i \in DOMAIN u.flushes : u.flushes[i].who = r
    BY <2>2, <2>9, <2>11
  <2>14. \A i \in DOMAIN x.flushes : \E j \in DOMAIN u.flushes : x.flushes[i] = u.flushes[j]
    BY <2>2, <2>3, <2>7, <2>11
  <2>15. \A r \in x.filled : m[r] <= x.written
    BY <2>9
  <2> QED BY <2>10, <2>12, <2>13, <2>14, <2>15
<1> QED BY <1>4, <1>5 DEF FlushesLeft

NotWritten ==
  /\ set' = set /\ fd' = fd /\ closing' = closing /\ force' = force /\ too_old' = too_old
  /\ given' = given /\ skipped' = skipped /\ spoilt' = spoilt /\ mark' = mark

LEMMA ResultKeeps ==
  ASSUME WriterInv, NEW n \in Nat, NEW err, Result(t, t', given, n, err),
         file' \in Seq(Nat), \A i \in 1..Len(file') : file'[i] = i, Len(file') = t.written + n,
         flight' = NoFlight, NotWritten, err = "EPIPE" => set.supports_nonblock
  PROVE  WriterInv' /\ t.filled \subseteq t'.filled
<1>1. /\ WriterTypeOK /\ TheStream /\ TheFlight /\ TheJob /\ TheFlushes
  BY DEF WriterInv
<1>2. t \in WriterType /\ given \in Nat /\ t.written \in Nat
  BY <1>1, TypesOfState
<1>3. /\ t' \in WriterType /\ InStream(t', given)
      /\ t'.received = t.received /\ t'.written = t.written + n
      /\ t'.job # "thread"
      /\ t'.job # "none" <=> t'.state = "Running"
      /\ t'.state = "Not_running" => bytes_to_write(t') = 0
      /\ t'.epipe => t.epipe \/ err = "EPIPE"
      /\ FlushesLeft(t, t')
  BY DEF Result
<1>4. NoFlight \in FlightType /\ NoFlight.n = 0 /\ ~NoFlight.done /\ NoFlight.err = "none"
  <2>1. <<>> \in Seq(IovecType)
    OBVIOUS
  <2> QED BY <2>1 DEF NoFlight, FlightType
<1>5. WriterTypeOK'
  BY <1>1, <1>3, <1>4 DEF WriterTypeOK, NotWritten
<1>6. TheStream'
  <2>1. Len(file') = t'.written + flight'.n
    BY <1>2, <1>3, <1>4
  <2> QED BY <2>1, <1>1, <1>3 DEF TheStream, NotWritten
<1>7. TheFlight'
  BY <1>3, <1>4 DEF TheFlight
<1>8. TheJob'
  BY <1>1, <1>3 DEF TheJob, NotWritten
<1>9. /\ \A i \in 1..Len(t'.flushes) : t'.flushes[i].z = mark[t'.flushes[i].who]
      /\ \A r \in t'.filled : mark[r] <= t'.written
      /\ t.filled \subseteq t'.filled
      /\ Asked(Closer)' => Asked(Closer)
  <2>1. /\ mark \in [Requests \cup {Closer} -> Int]
        /\ \A i \in 1..Len(t.flushes) : t.flushes[i].z = mark[t.flushes[i].who]
        /\ \A r \in t.filled : mark[r] <= t.written
    BY <1>1 DEF WriterTypeOK, TheFlushes
  <2>2. PICK u \in WriterType : u = t
    BY <1>2
  <2>3. PICK x \in WriterType : x = t'
    BY <1>3
  <2>4. PICK m : m = mark
    OBVIOUS
  <2>5. /\ \A i \in 1..Len(x.flushes) : x.flushes[i].z = m[x.flushes[i].who]
        /\ \A r \in x.filled : m[r] <= x.written
        /\ u.filled \subseteq x.filled
        /\ \A r : r \in x.filled => \/ r \in u.filled
                                    \/ \E i \in DOMAIN u.flushes : u.flushes[i].who = r
        /\ \A i \in DOMAIN x.flushes : \E j \in DOMAIN u.flushes : x.flushes[i] = u.flushes[j]
    <3>1. /\ m \in [Requests \cup {Closer} -> Int]
          /\ \A i \in 1..Len(u.flushes) : u.flushes[i].z = m[u.flushes[i].who]
          /\ \A r \in u.filled : m[r] <= u.written
      BY <2>1, <2>2, <2>4
    <3>2. FlushesLeft(u, x) /\ x.written = u.written + n
      BY <1>3, <2>2, <2>3
    <3> QED BY <3>1, <3>2, FlushesLeftTrue
  <2>6. Asked(Closer)' => Asked(Closer)
    BY <2>2, <2>3, <2>5 DEF Asked
  <2> QED BY <2>2, <2>3, <2>4, <2>5, <2>6
<1>10. TheFlushes'
  BY <1>1, <1>9 DEF TheFlushes, NotWritten
<1> QED BY <1>5, <1>6, <1>7, <1>8, <1>9, <1>10 DEF WriterInv

LEMMA ResultKeepsWaiting ==
  ASSUME WriterInv, FlushesWait, NEW n \in Nat, NEW err, Result(t, t', given, n, err)
  PROVE  FlushesWait'
<1>1. PICK u \in WriterType : u = t
  BY TypesOfState DEF WriterInv
<1>2. PICK x \in WriterType : x = t'
  BY DEF Result
<1>3. x.received = u.received /\ x.written = u.written + n /\ FlushesLeft(u, x)
  BY <1>1, <1>2 DEF Result
<1>4. u.written \in Nat /\ u.received \in Int
  BY DEF WriterType
<1>5. PICK q : q = u.flushes
  OBVIOUS
<1>6. Len(q) \in Nat /\ \A i \in 1..Len(q) : q[i].z \in Int
  BY <1>5, FlushesAre DEF FlushType
<1>7. /\ u.dead \/ u.written <= u.received
      /\ \A i \in 1..Len(q) :
           /\ u.dead \/ q[i].z > u.written
           /\ q[i].z <= u.received
           /\ \A j \in 1..i : q[j].z <= q[i].z
  BY <1>1, <1>5 DEF FlushesWait
<1>8. CASE x.flushes = u.flushes /\ (x.dead \/ (x.written = u.written /\ x.dead = u.dead))
  BY <1>1, <1>2, <1>3, <1>5, <1>7, <1>8 DEF FlushesWait
<1>9. CASE x.written <= x.received /\ \E d \in 0..Len(u.flushes) : IsFilled(u, x, d)
  <2>1. PICK d \in 0..Len(u.flushes) : IsFilled(u, x, d)
    BY <1>9
  <2>2. PICK p : p = x.flushes
    OBVIOUS
  <2>3. /\ Len(p) = Len(q) - d
        /\ \A i \in 1..Len(p) : p[i] = q[d + i]
        /\ d < Len(q) => q[d + 1].z > x.written
    BY <2>1, <2>2, <1>5 DEF IsFilled
  <2>4. ASSUME NEW i \in 1..Len(p)
        PROVE  /\ p[i].z > x.written /\ p[i].z <= x.received
               /\ \A j \in 1..i : p[j].z <= p[i].z
    <3>1. PICK k \in 1..Len(q) : k = d + i
      <4>1. d + i \in 1..Len(q)
        BY <1>5, <1>6, <2>1, <2>3
      <4> QED BY <4>1
    <3>2. p[i] = q[k] /\ d + 1 \in 1..k /\ d < Len(q) /\ d + 1 \in 1..Len(q)
      BY <3>1, <1>5, <1>6, <2>1, <2>3
    <3>3. q[d + 1].z <= q[k].z /\ q[d + 1].z > x.written
      BY <3>2, <1>7, <2>3
    <3>4. q[d + 1].z \in Int /\ q[k].z \in Int /\ x.written \in Int
      BY <3>2, <1>3, <1>4, <1>6
    <3>5. q[k].z > x.written
      BY <3>3, <3>4
    <3>6. ASSUME NEW j \in 1..i PROVE p[j].z <= p[i].z
      <4>1. j \in 1..Len(p) /\ d + j \in 1..k
        BY <3>1, <1>5, <1>6, <2>1, <2>3
      <4>2. p[j] = q[d + j] /\ q[d + j].z <= q[k].z
        BY <4>1, <1>7, <2>3
      <4> QED BY <3>2, <4>2
    <3> QED BY <3>2, <3>5, <3>6, <1>3, <1>7
  <2> QED BY <1>2, <1>9, <2>2, <2>4 DEF FlushesWait
<1> QED BY <1>3, <1>8, <1>9 DEF FlushesLeft
-----------------------------------------------------------------------------
(* The steps of the background writer and of the system.                   *)
Errs == {"none", "other", "EAGAIN", "EPIPE"}

LEMMA StartingIs ==
  ASSUME WriterInv, t.job # "none"
  PROVE  /\ t.state = "Running" /\ ~Stopped(t) /\ Sound(t, given)
         /\ QueueHolds(t.mem, t.scheduled, t.written)
         /\ Starting \in WriterType /\ SameControl(t, Starting) /\ Sound(Starting, given)
         /\ Starting.mem = t.mem /\ Prefix(t.scheduled, Starting.scheduled)
         /\ QueueHolds(t.mem, Starting.scheduled, t.written)
<1>1. t \in WriterType /\ given \in Nat
  BY TypesOfState DEF WriterInv
<1>2. t.state = "Running" /\ ~Stopped(t)
  BY DEF WriterInv, TheJob, Stopped
<1>3. Sound(t, given)
  BY <1>2 DEF WriterInv, TheStream, InStream
<1>4. PICK u : u = Starting
  OBVIOUS
<1>5. /\ u \in WriterType /\ SameControl(t, u) /\ Sound(u, given) /\ u.mem = t.mem
      /\ Prefix(t.scheduled, u.scheduled)
  BY <1>1, <1>2, <1>3, <1>4, ScheduledAll DEF Starting
<1>6. QueueHolds(t.mem, u.scheduled, t.written)
  <2>1. QueueHolds(u.mem, u.scheduled, u.written)
    BY <1>5 DEF Sound, Streams
  <2> QED BY <2>1, <1>5 DEF SameControl
<1>7. QueueHolds(t.mem, t.scheduled, t.written)
  BY <1>3 DEF Sound, Streams
<1> QED BY <1>2, <1>3, <1>4, <1>5, <1>6, <1>7

LEMMA ResultOfSame ==
  ASSUME NEW u, NEW v, NEW x, NEW g, NEW n, NEW err, SameControl(v, u), Result(u, x, g, n, err)
  PROVE  Result(v, x, g, n, err)
<1>1. /\ u.received = v.received /\ u.written = v.written /\ u.flushes = v.flushes
      /\ u.filled = v.filled /\ u.epipe = v.epipe /\ u.dead = v.dead
  BY DEF SameControl
<1>2. FlushesLeft(v, x) = FlushesLeft(u, x)
  <2>1. \A d : IsFilled(v, x, d) = IsFilled(u, x, d)
    BY <1>1 DEF IsFilled
  <2> QED BY <2>1, <1>1 DEF FlushesLeft
<1> QED BY <1>1, <1>2 DEF Result

LEMMA FileOf ==
  ASSUME WriterInv
  PROVE  /\ file \in Seq(Nat) /\ \A i \in 1..Len(file) : file[i] = i
         /\ Len(file) = t.written + flight.n
         /\ flight = NoFlight => Len(file) = t.written
<1>1. file \in Seq(Nat) /\ (\A i \in 1..Len(file) : file[i] = i) /\ Len(file) = t.written + flight.n
  BY DEF WriterInv, WriterTypeOK, TheStream
<1>2. t.written \in Nat
  BY TypesOfState DEF WriterInv
<1>3. flight = NoFlight => flight.n = 0
  BY DEF NoFlight
<1> QED BY <1>1, <1>2, <1>3

LEMMA WriteNowResult ==
  ASSUME WriterInv, NEW n \in Nat, NEW err, err \in {"none"} \cup Errors, WriteNow(n, err)
  PROVE  /\ Result(t, t', given, n, err)
         /\ file' \in Seq(Nat) /\ (\A i \in 1..Len(file') : file'[i] = i)
         /\ Len(file') = t.written + n
         /\ flight' = NoFlight /\ NotWritten /\ set.supports_nonblock
<1>1. /\ t.job # "none" /\ t.job # "thread" /\ set.supports_nonblock
      /\ flight' = flight /\ NotWritten
  BY DEF WriteNow, StartAt, unchangedByWriting, NotWritten
<1>2. PICK u : u = Starting
  OBVIOUS
<1>3. /\ t.state = "Running" /\ u \in WriterType /\ SameControl(t, u) /\ Sound(u, given)
      /\ QueueHolds(t.mem, u.scheduled, t.written)
  BY <1>1, <1>2, StartingIs
<1>4. PICK s : s = MkIovecs(u)
  OBVIOUS
<1>5. /\ IF err = "none" THEN SystemTakes(s, n) ELSE n = 0 /\ file' = file
      /\ HandleWriteResult(u, n, err)
  BY <1>2, <1>4 DEF WriteNow
<1>6. s \in Seq(IovecType) /\ Prefix(s, u.scheduled)
  BY <1>3, <1>4, MkIovecsIs
<1>7. flight = NoFlight
  BY <1>1 DEF WriterInv, TheFlight
<1>8. /\ file \in Seq(Nat) /\ (\A i \in 1..Len(file) : file[i] = i) /\ Len(file) = t.written
  BY <1>7, FileOf
<1>9. PICK w \in Nat : w = t.written
  BY TypesOfState DEF WriterInv
<1>10. u.scheduled \in Seq(IovecType)
  BY <1>3 DEF WriterType
<1>11. QueueHolds(t.mem, s, w)
  BY <1>3, <1>6, <1>9, <1>10, QueueOfPrefix
<1>12. /\ file' \in Seq(Nat) /\ (\A i \in 1..Len(file') : file'[i] = i)
       /\ Len(file') = w + n /\ n \in 0..iovecs_length(s)
  <2>1. CASE err = "none"
    <3>1. SystemTakes(s, n) /\ Len(file) = w
      BY <2>1, <1>5, <1>8, <1>9
    <3> QED BY <3>1, <1>6, <1>8, <1>11, SystemTakesInOrder
  <2>2. CASE err # "none"
    <3>1. n = 0 /\ file' = file
      BY <2>2, <1>5
    <3>2. iovecs_length(s) \in Nat
      BY <1>6, IovecsHaveLengths
    <3> QED BY <3>1, <3>2, <1>8, <1>9
  <2> QED BY <2>1, <2>2
<1>13. n \in 0..iovecs_length(u.scheduled)
  <2>1. iovecs_length(s) <= iovecs_length(u.scheduled)
    BY <1>6, <1>10, PrefixEnds
  <2>2. iovecs_length(s) \in Nat /\ iovecs_length(u.scheduled) \in Nat
    BY <1>6, <1>10, IovecsHaveLengths
  <2> QED BY <2>1, <2>2, <1>12
<1>14. Result(u, t', given, n, err)
  <2>1. u.state = "Running" /\ (err # "none" => n = 0)
    BY <1>3, <1>5 DEF SameControl
  <2>2. given \in Nat
    BY TypesOfState DEF WriterInv
  <2> QED BY <2>1, <2>2, <1>3, <1>5, <1>13, HandledResult
<1>15. Result(t, t', given, n, err)
  BY <1>3, <1>14, ResultOfSame
<1> QED BY <1>1, <1>7, <1>9, <1>12, <1>15

LEMMA ThreadDoneResult ==
  ASSUME WriterInv, ThreadDone
  PROVE  /\ Result(t, t', given, flight.n, flight.err) /\ flight.n \in Nat
         /\ file' \in Seq(Nat) /\ (\A i \in 1..Len(file') : file'[i] = i)
         /\ Len(file') = t.written + flight.n
         /\ flight' = NoFlight /\ NotWritten /\ (flight.err = "EPIPE" => set.supports_nonblock)
<1>1. /\ t.job = "thread" /\ flight' = NoFlight /\ file' = file /\ NotWritten
      /\ HandleWriteResult(t, flight.n, flight.err)
  BY DEF ThreadDone, unchangedByWriting, NotWritten
<1>2. /\ t.state = "Running" /\ Sound(t, given)
  BY <1>1, StartingIs
<1>3. /\ t \in WriterType /\ given \in Nat /\ t.scheduled \in Seq(IovecType)
  BY TypesOfState DEF WriterInv
<1>4. /\ flight.n \in Nat /\ flight.iovecs \in Seq(IovecType)
  BY DEF WriterInv, WriterTypeOK, FlightType
<1>5. /\ Prefix(flight.iovecs, t.scheduled) /\ flight.n <= iovecs_length(flight.iovecs)
      /\ flight.err # "none" => flight.n = 0
      /\ flight.err = "EPIPE" => set.supports_nonblock
  BY <1>1 DEF WriterInv, TheFlight
<1>6. flight.n \in 0..iovecs_length(t.scheduled)
  <2>1. iovecs_length(flight.iovecs) <= iovecs_length(t.scheduled)
    BY <1>3, <1>4, <1>5, PrefixEnds
  <2>2. iovecs_length(flight.iovecs) \in Nat /\ iovecs_length(t.scheduled) \in Nat
    BY <1>3, <1>4, IovecsHaveLengths
  <2> QED BY <2>1, <2>2, <1>4, <1>5
<1>7. PICK u : u = t
  OBVIOUS
<1>8. PICK n : n = flight.n
  OBVIOUS
<1>9. PICK err : err = flight.err
  OBVIOUS
<1>10. PICK g \in Nat : g = given
  BY <1>3
<1>11. /\ u \in WriterType /\ u.state = "Running" /\ Sound(u, g)
       /\ n \in 0..iovecs_length(u.scheduled) /\ (err # "none" => n = 0)
       /\ HandleWriteResult(u, n, err)
  BY <1>1, <1>2, <1>3, <1>5, <1>6, <1>7, <1>8, <1>9, <1>10
<1>12. Result(u, t', g, n, err)
  BY <1>11, HandledResult
<1>13. Result(t, t', given, flight.n, flight.err)
  BY <1>7, <1>8, <1>9, <1>10, <1>12
<1> QED BY <1>1, <1>4, <1>5, <1>13, FileOf

LEMMA BadFdResult ==
  ASSUME WriterInv, BadFd
  PROVE  /\ Result(t, t', given, 0, "other")
         /\ file' \in Seq(Nat) /\ (\A i \in 1..Len(file') : file'[i] = i)
         /\ Len(file') = t.written + 0 /\ flight' = NoFlight /\ NotWritten
<1>1. t.job = "ready" /\ file' = file /\ flight' = flight /\ NotWritten /\ t' = Die(t)
  BY DEF BadFd, unchangedByWriting, NotWritten
<1>2. flight = NoFlight
  BY <1>1 DEF WriterInv, TheFlight
<1>3. t \in WriterType /\ t.written \in Nat /\ given \in Nat
  BY TypesOfState DEF WriterInv
<1>4. t.written <= given
  <2>1. Sound(t, given)
    BY <1>1, StartingIs
  <2>2. /\ t.scheduled_bytes \in Nat /\ t.scheduled_back \in Nat /\ t.back \in Nat
        /\ t.scheduled_back <= t.back
        /\ given = t.written + t.scheduled_bytes + (t.back - t.scheduled_back)
    BY <1>3, <2>1, StreamsIs DEF Sound
  <2> QED BY <2>2, <1>3
<1>5. PICK n \in Nat : n = 0
  OBVIOUS
<1>6. /\ t' \in WriterType /\ Empty(t') /\ Stopped(t') /\ t'.job = "none"
      /\ t'.received = t.received /\ t'.written = t.written
      /\ t'.flushes = t.flushes /\ t'.filled = t.filled /\ t'.dead /\ t'.epipe = t.epipe
  BY <1>1, <1>3, DieFields
<1>7. /\ t'.written = t.written + n /\ t'.written <= given /\ (t'.epipe => t.epipe \/ "other" = "EPIPE")
      /\ t'.dead \/ (n = 0 /\ t'.dead = t.dead)
  BY <1>3, <1>4, <1>5, <1>6
<1>8. Result(t, t', given, n, "other")
  BY <1>3, <1>6, <1>7, DeadResult
<1>9. /\ file \in Seq(Nat) /\ (\A i \in 1..Len(file) : file[i] = i) /\ Len(file) = t.written
  BY <1>2, FileOf
<1> QED BY <1>1, <1>2, <1>3, <1>5, <1>8, <1>9

(* Steps that change the writer's job and its scheduled iovecs only, from  *)
(* t to x, where the stream is the same.                                   *)
LEMMA JobKeeps ==
  ASSUME WriterInv, NEW u, SameControl(t, u), Sound(u, given), u \in WriterType,
         Prefix(t.scheduled, u.scheduled), t.job # "none",
         t' \in WriterType, SameStream(u, t'), SameAnswers(u, t'), t'.state = u.state,
         flight' \in FlightType, file' = file, NotWritten,
         t'.job = "none" => fd # "open",
         IF t'.job = "thread" THEN Prefix(flight'.iovecs, t'.scheduled) ELSE flight' = NoFlight,
         flight'.n = 0, flight.n = 0, flight'.err = "none"
  PROVE  WriterInv' /\ t'.filled = t.filled
<1>1. /\ WriterTypeOK /\ TheStream /\ TheFlight /\ TheJob /\ TheFlushes
  BY DEF WriterInv
<1>2. /\ t.state = "Running" /\ ~Stopped(t)
  BY StartingIs
<1>3. /\ t'.state = "Running" /\ t'.received = t.received /\ t'.written = t.written
      /\ t'.flushes = t.flushes /\ t'.filled = t.filled /\ t'.epipe = t.epipe
  BY <1>2 DEF SameControl, SameStream, SameAnswers
<1>4. Sound(t', given) /\ ~Stopped(t')
  BY <1>3, SoundOfSame DEF Stopped
<1>5. WriterTypeOK'
  BY <1>1 DEF WriterTypeOK, NotWritten
<1>6. TheStream'
  <2>1. InStream(t', given)
    BY <1>4 DEF InStream
  <2> QED BY <2>1, <1>1, <1>3 DEF TheStream, NotWritten
<1>7. TheFlight'
  <2>1. flight'.n <= iovecs_length(flight'.iovecs)
    <3>1. flight'.iovecs \in Seq(IovecType)
      BY DEF FlightType
    <3>2. iovecs_length(flight'.iovecs) \in Nat
      BY <3>1, IovecsHaveLengths
    <3> QED BY <3>2
  <2> QED BY <2>1 DEF TheFlight
<1>8. TheJob'
  BY <1>1, <1>3 DEF TheJob, NotWritten
<1>9. TheFlushes'
  BY <1>1, <1>3 DEF TheFlushes, Asked, NotWritten
<1> QED BY <1>3, <1>5, <1>6, <1>7, <1>8, <1>9 DEF WriterInv

LEMMA WriteInThreadKeeps ==
  ASSUME WriterInv, WriteInThread
  PROVE  WriterInv' /\ t'.filled = t.filled /\ NotWritten
<1>1. /\ t.job # "none" /\ t.job # "thread" /\ fd = "open" /\ file' = file /\ NotWritten
  BY DEF WriteInThread, StartAt, unchangedByWriting, NotWritten
<1>2. PICK u : u = Starting
  OBVIOUS
<1>3. /\ u \in WriterType /\ SameControl(t, u) /\ Sound(u, given)
      /\ Prefix(t.scheduled, u.scheduled)
  BY <1>1, <1>2, StartingIs
<1>4. PICK j \in {"none", "start", "ready", "after", "thread"} : j = "thread"
  OBVIOUS
<1>5. PICK s : s = MkIovecs(u)
  OBVIOUS
<1>6. PICK f : f = [iovecs |-> s, done |-> FALSE, n |-> 0, err |-> "none"]
  OBVIOUS
<1>7. t' = [u EXCEPT !.job = j] /\ flight' = f
  BY <1>2, <1>4, <1>5, <1>6 DEF WriteInThread, NoFlight
<1>8. s \in Seq(IovecType) /\ Prefix(s, u.scheduled)
  BY <1>3, <1>5, MkIovecsIs
<1>9. f \in FlightType /\ f.iovecs = s /\ f.n = 0 /\ f.err = "none"
  BY <1>6, <1>8 DEF FlightType
<1>10. /\ t' \in WriterType /\ SameStream(u, t') /\ SameAnswers(u, t')
       /\ t'.state = u.state /\ t'.job = j
  BY <1>3, <1>7, WithJob
<1>11. Prefix(flight'.iovecs, t'.scheduled)
  BY <1>7, <1>8, <1>9, <1>10 DEF SameStream, SameQueue
<1>12. flight.n = 0
  BY <1>1 DEF WriterInv, TheFlight, NoFlight
<1>13. /\ flight' \in FlightType /\ flight'.n = 0 /\ flight'.err = "none"
       /\ t'.job = "thread" /\ (t'.job = "none" => fd # "open")
  BY <1>4, <1>7, <1>9, <1>10
<1> QED BY <1>1, <1>3, <1>10, <1>11, <1>12, <1>13, JobKeeps

LEMMA WriteAfterCloseKeeps ==
  ASSUME WriterInv, WriteAfterClose
  PROVE  WriterInv' /\ t'.filled = t.filled /\ NotWritten
<1>1. /\ t.job # "none" /\ t.job # "thread" /\ fd # "open" /\ file' = file /\ flight' = flight
      /\ NotWritten
  BY DEF WriteAfterClose, StartAt, unchangedByWriting, NotWritten
<1>2. PICK u : u = IF t.job = "ready" THEN t ELSE Starting
  OBVIOUS
<1>3. /\ u \in WriterType /\ SameControl(t, u) /\ Sound(u, given)
      /\ Prefix(t.scheduled, u.scheduled)
  <2>1. CASE t.job = "ready"
    <3>1. t \in WriterType /\ t.scheduled \in Seq(IovecType)
      BY TypesOfState DEF WriterInv
    <3>2. u = t
      BY <2>1, <1>2
    <3> QED BY <3>1, <3>2, <1>1, StartingIs, PrefixSame DEF SameControl
  <2>2. CASE t.job # "ready"
    BY <2>2, <1>1, <1>2, StartingIs
  <2> QED BY <2>1, <2>2
<1>4. PICK j \in {"none", "start", "ready", "after", "thread"} : j = "none"
  OBVIOUS
<1>5. t' = [u EXCEPT !.job = j]
  BY <1>2, <1>4 DEF WriteAfterClose
<1>6. /\ t' \in WriterType /\ SameStream(u, t') /\ SameAnswers(u, t')
      /\ t'.state = u.state /\ t'.job = j
  BY <1>3, <1>5, WithJob
<1>7. flight = NoFlight /\ flight \in FlightType
  BY <1>1 DEF WriterInv, TheFlight, WriterTypeOK
<1>8. /\ flight' \in FlightType /\ flight' = NoFlight /\ flight'.n = 0 /\ flight.n = 0
      /\ flight'.err = "none" /\ t'.job # "thread"
  BY <1>1, <1>4, <1>6, <1>7 DEF NoFlight
<1> QED BY <1>1, <1>3, <1>6, <1>8, JobKeeps

LEMMA ThreadWritesKeeps ==
  ASSUME WriterInv, NEW n \in Nat, NEW err, err \in {"none"} \cup Errors, ThreadWrites(n, err)
  PROVE  WriterInv' /\ t' = t /\ NotWritten
<1>1. /\ t.job = "thread" /\ ~flight.done /\ t' = t /\ NotWritten
      /\ IF err = "none" THEN SystemTakes(flight.iovecs, n) ELSE n = 0 /\ file' = file
      /\ flight' = [flight EXCEPT !.done = TRUE, !.n = n, !.err = err]
  BY DEF ThreadWrites, unchangedByWriting, NotWritten
<1>2. /\ WriterTypeOK /\ TheStream /\ TheFlight /\ TheJob /\ TheFlushes
  BY DEF WriterInv
<1>3. /\ flight.iovecs \in Seq(IovecType) /\ flight \in FlightType
      /\ Prefix(flight.iovecs, t.scheduled) /\ flight.n = 0
  BY <1>1, <1>2 DEF WriterTypeOK, FlightType, TheFlight
<1>4. /\ err \in Errs /\ (err = "EPIPE" => set.supports_nonblock)
  BY DEF Errors, Errs
<1>5. /\ flight' \in FlightType /\ flight'.n = n /\ flight'.err = err /\ flight'.done
      /\ flight'.iovecs = flight.iovecs
  <2>1. PICK f \in FlightType : f = flight
    BY <1>3
  <2>2. PICK e \in {"none", "other", "EAGAIN", "EPIPE"} : e = err
    BY <1>4 DEF Errs
  <2>3. PICK h : h = [f EXCEPT !.done = TRUE, !.n = n, !.err = e]
    OBVIOUS
  <2>4. h \in FlightType /\ h.n = n /\ h.err = e /\ h.done /\ h.iovecs = f.iovecs
    BY <2>3 DEF FlightType
  <2>5. flight' = h
    BY <1>1, <2>1, <2>2, <2>3
  <2> QED BY <2>1, <2>2, <2>4, <2>5
<1>6. PICK w \in Nat : w = t.written
  BY <1>2, TypesOfState
<1>7. QueueHolds(t.mem, flight.iovecs, w)
  <2>1. QueueHolds(t.mem, t.scheduled, w)
    BY <1>1, <1>6, StartingIs
  <2>2. t.scheduled \in Seq(IovecType)
    BY <1>2, TypesOfState
  <2> QED BY <2>1, <2>2, <1>3, QueueOfPrefix
<1>8. file \in Seq(Nat) /\ (\A i \in 1..Len(file) : file[i] = i) /\ Len(file) = w
  BY <1>3, <1>6, FileOf
<1>9. /\ file' \in Seq(Nat) /\ (\A i \in 1..Len(file') : file'[i] = i)
      /\ Len(file') = w + n /\ n \in 0..iovecs_length(flight.iovecs)
  <2>1. CASE err = "none"
    <3>1. PICK s \in Seq(IovecType) : s = flight.iovecs
      BY <1>3
    <3>2. SystemTakes(s, n) /\ QueueHolds(t.mem, s, w)
      BY <2>1, <3>1, <1>1, <1>7
    <3>3. /\ file' \in Seq(Nat) /\ (\A i \in 1..Len(file') : file'[i] = i)
          /\ Len(file') = w + n /\ n \in 0..iovecs_length(s)
      BY <3>2, <1>8, SystemTakesInOrder
    <3> QED BY <3>1, <3>3
  <2>2. CASE err # "none"
    <3>1. n = 0 /\ file' = file
      BY <2>2, <1>1
    <3>2. iovecs_length(flight.iovecs) \in Nat
      BY <1>3, IovecsHaveLengths
    <3> QED BY <3>1, <3>2, <1>8
  <2> QED BY <2>1, <2>2
<1>10. WriterTypeOK'
  BY <1>1, <1>2, <1>5, <1>9 DEF WriterTypeOK, NotWritten
<1>11. TheStream'
  BY <1>1, <1>2, <1>5, <1>6, <1>9 DEF TheStream, NotWritten
<1>12. TheFlight'
  <2>1. flight'.n <= iovecs_length(flight'.iovecs)
    <3>1. iovecs_length(flight.iovecs) \in Nat
      BY <1>3, IovecsHaveLengths
    <3> QED BY <3>1, <1>5, <1>9
  <2>2. flight'.err # "none" => flight'.n = 0
    BY <1>1, <1>5
  <2>3. flight'.err = "EPIPE" => set'.supports_nonblock
    BY <1>1, <1>4, <1>5 DEF NotWritten
  <2> QED BY <2>1, <2>2, <2>3, <1>1, <1>3, <1>5 DEF TheFlight
<1>13. TheJob'
  BY <1>1, <1>2 DEF TheJob, NotWritten, bytes_to_write
<1>14. TheFlushes'
  BY <1>1, <1>2 DEF TheFlushes, Asked, NotWritten
<1> QED BY <1>1, <1>10, <1>11, <1>12, <1>13, <1>14 DEF WriterInv

LEMMA RestKeeps ==
  ASSUME WriterInv, AgeCheck \/ AgeCheckPasses \/ CloseChosen \/ FdCloses
  PROVE  WriterInv'
<1>1. /\ set' = set /\ t' = t /\ flight' = flight /\ force' = force /\ file' = file
      /\ given' = given /\ skipped' = skipped /\ spoilt' = spoilt /\ mark' = mark
  BY DEF AgeCheck, AgeCheckPasses, CloseChosen, FdCloses
<1>2. /\ WriterTypeOK /\ TheStream /\ TheFlight /\ TheJob /\ TheFlushes
  BY DEF WriterInv
<1>3. /\ fd' \in {"open", "requested", "closed"}
      /\ closing' \in {"no", "waiting", "closing", "finished"} /\ too_old' \in BOOLEAN
      /\ closing' \in {"no", "waiting"} <=> fd' = "open"
      /\ closing' = "finished" <=> fd' = "closed"
      /\ closing # "no" => closing' # "no"
      /\ fd' = "open" => fd = "open"
  BY <1>2 DEF AgeCheck, AgeCheckPasses, CloseChosen, FdCloses, WriterTypeOK, TheJob
<1>4. WriterTypeOK'
  BY <1>1, <1>2, <1>3 DEF WriterTypeOK
<1>5. TheStream'
  BY <1>1, <1>2 DEF TheStream
<1>6. TheFlight'
  BY <1>1, <1>2 DEF TheFlight
<1>7. TheJob'
  BY <1>1, <1>2, <1>3 DEF TheJob, bytes_to_write
<1>8. TheFlushes'
  BY <1>1, <1>2, <1>3 DEF TheFlushes, Asked
<1> QED BY <1>4, <1>5, <1>6, <1>7, <1>8 DEF WriterInv

(* Together: every step of the writer, and of its client.                  *)
LEMMA BackgroundKeeps ==
  ASSUME WriterInv, Background \/ System
  PROVE  /\ WriterInv' /\ t.filled \subseteq t'.filled /\ NotWritten
         /\ FlushesWait => FlushesWait'
<1>1. ASSUME NEW n \in Nat, NEW err, err \in {"none"} \cup Errors, WriteNow(n, err)
      PROVE  /\ WriterInv' /\ t.filled \subseteq t'.filled /\ NotWritten
             /\ FlushesWait => FlushesWait'
  BY <1>1, WriteNowResult, ResultKeeps, ResultKeepsWaiting
<1>2. CASE WriteInThread
  <2>1. WriterInv' /\ t'.filled = t.filled /\ NotWritten
    BY <1>2, WriteInThreadKeeps
  <2>2. FlushesWait => FlushesWait'
    <3>1. t.job # "none"
      BY <1>2 DEF WriteInThread, StartAt
    <3>2. PICK u : u = Starting
      OBVIOUS
    <3>3. u \in WriterType /\ SameControl(t, u)
      BY <3>1, <3>2, StartingIs
    <3>4. t' = [u EXCEPT !.job = "thread"]
      BY <1>2, <3>2 DEF WriteInThread
    <3>5. /\ t'.dead = u.dead /\ t'.written = u.written /\ t'.received = u.received
          /\ t'.flushes = u.flushes
      BY <3>3, <3>4 DEF WriterType
    <3>6. /\ t'.dead = t.dead /\ t'.written = t.written /\ t'.received = t.received
          /\ t'.flushes = t.flushes
      BY <3>3, <3>5 DEF SameControl
    <3> QED BY <3>6 DEF FlushesWait
  <2> QED BY <2>1, <2>2
<1>3. CASE ThreadDone
  <2>1. PICK n \in Nat : n = flight.n
    BY DEF WriterInv, WriterTypeOK, FlightType
  <2>2. PICK err : err = flight.err
    OBVIOUS
  <2>3. /\ Result(t, t', given, n, err)
        /\ file' \in Seq(Nat) /\ (\A i \in 1..Len(file') : file'[i] = i)
        /\ Len(file') = t.written + n
        /\ flight' = NoFlight /\ NotWritten /\ (err = "EPIPE" => set.supports_nonblock)
    BY <1>3, <2>1, <2>2, ThreadDoneResult
  <2> QED BY <2>3, ResultKeeps, ResultKeepsWaiting
<1>4. CASE WriteAfterClose
  <2>1. WriterInv' /\ t'.filled = t.filled /\ NotWritten
    BY <1>4, WriteAfterCloseKeeps
  <2>2. FlushesWait => FlushesWait'
    <3>1. t.job # "none"
      BY <1>4 DEF WriteAfterClose, StartAt
    <3>2. PICK u : u = IF t.job = "ready" THEN t ELSE Starting
      OBVIOUS
    <3>3. u \in WriterType /\ SameControl(t, u)
      <4>1. t \in WriterType /\ SameControl(t, t)
        BY TypesOfState DEF WriterInv, SameControl
      <4> QED BY <4>1, <3>1, <3>2, StartingIs
    <3>4. t' = [u EXCEPT !.job = "none"]
      BY <1>4, <3>2 DEF WriteAfterClose
    <3>5. /\ t'.dead = u.dead /\ t'.written = u.written /\ t'.received = u.received
          /\ t'.flushes = u.flushes
      BY <3>3, <3>4 DEF WriterType
    <3>6. /\ t'.dead = t.dead /\ t'.written = t.written /\ t'.received = t.received
          /\ t'.flushes = t.flushes
      BY <3>3, <3>5 DEF SameControl
    <3> QED BY <3>6 DEF FlushesWait
  <2> QED BY <2>1, <2>2
<1>5. CASE BadFd
  <2>1. PICK n \in Nat : n = 0
    OBVIOUS
  <2>2. PICK err : err = "other"
    OBVIOUS
  <2>3. /\ Result(t, t', given, n, err)
        /\ file' \in Seq(Nat) /\ (\A i \in 1..Len(file') : file'[i] = i)
        /\ Len(file') = t.written + n /\ flight' = NoFlight /\ NotWritten
        /\ (err = "EPIPE" => set.supports_nonblock)
    BY <1>5, <2>1, <2>2, BadFdResult
  <2> QED BY <2>3, ResultKeeps, ResultKeepsWaiting
<1>6. ASSUME NEW n \in Nat, NEW err, err \in {"none"} \cup Errors, ThreadWrites(n, err)
      PROVE  /\ WriterInv' /\ t.filled \subseteq t'.filled /\ NotWritten
             /\ FlushesWait => FlushesWait'
  <2>1. WriterInv' /\ t' = t /\ NotWritten
    BY <1>6, ThreadWritesKeeps
  <2> QED BY <2>1 DEF FlushesWait
<1>7. 0 \in Nat /\ \A n \in 0..MaxBytes : n \in Nat
  OBVIOUS
<1>8. CASE Background
  <2>1. \/ \E n \in Nat : \E err \in {"none"} \cup Errors : WriteNow(n, err)
        \/ WriteInThread \/ ThreadDone \/ WriteAfterClose \/ BadFd
    BY <1>7, <1>8 DEF Background
  <2> QED BY <2>1, <1>1, <1>2, <1>3, <1>4, <1>5
<1>9. CASE System
  <2>1. \E n \in Nat : \E err \in {"none"} \cup Errors : ThreadWrites(n, err)
    BY <1>7, <1>9 DEF System
  <2> QED BY <2>1, <1>6
<1> QED BY <1>8, <1>9

LEMMA IovecsAndSizes ==
  /\ \A n \in Sizes : n \in Nat
  /\ \A n \in Values : n \in Nat
  /\ \A v \in Iovecs : v.pos \in Nat /\ v.len \in Nat
  /\ SaveLength \in Nat
<1>1. SaveLength \in Nat
  BY SaveAssumption, WriterAssumption
<1>2. \A v \in Iovecs : v.pos \in Nat /\ v.len \in Nat
  BY WriterAssumption
<1> QED BY <1>1, <1>2, WriterAssumption

LEMMA WriteKeeps ==
  ASSUME WriterInv, NEW n \in Nat, Write(n)
  PROVE  WriterInv' /\ (FlushesWait => FlushesWait')
<1>1. WriterTypeOK /\ InStream(t, given) /\ skipped \in Nat
  BY DEF WriterInv, TheStream, WriterTypeOK
<1>2. PICK pos \in Nat : pos = 0
  OBVIOUS
<1>3. PICK start \in BOOLEAN : start = TRUE
  OBVIOUS
<1>4. Passes(t, t', given, n, pos, start)
  <2>1. Passes(t, t', given, n, 0, TRUE)
    BY <1>1, WritePasses
  <2> QED BY <2>1, <1>2, <1>3
<1>5. /\ Pass(n) /\ skipped' = skipped + pos /\ spoilt' = spoilt /\ spoilt' \in BOOLEAN
      /\ pos <= n
  <2>1. skipped' = skipped /\ spoilt' = spoilt /\ spoilt \in BOOLEAN /\ Pass(n)
    BY <1>1 DEF Write, WriterTypeOK
  <2> QED BY <2>1, <1>1, <1>2
<1>6. WriterInv'
  BY <1>3, <1>4, <1>5, PassKeeps
<1> QED BY <1>4, <1>5, <1>6, PassKeepsWaiting

LEMMA WriteBinProtKeeps ==
  ASSUME WriterInv, NEW n \in Nat, NEW raises \in BOOLEAN, WriteBinProt(n, raises)
  PROVE  WriterInv' /\ (FlushesWait => FlushesWait')
<1>1. WriterTypeOK /\ InStream(t, given) /\ skipped \in Nat
  BY DEF WriterInv, TheStream, WriterTypeOK
<1>2. PICK pos \in Nat : pos = 0
  OBVIOUS
<1>3. PICK start \in BOOLEAN : start = ~raises
  OBVIOUS
<1>4. Passes(t, t', given, n, pos, start)
  <2>1. Passes(t, t', given, n, 0, ~raises)
    BY <1>1, WriteBinProtPasses
  <2> QED BY <2>1, <1>2, <1>3
<1>5. /\ Pass(n) /\ skipped' = skipped + pos /\ spoilt' \in BOOLEAN /\ pos <= n
      /\ spoilt => spoilt'
      /\ ~start /\ ~Stopped(t) => spoilt'
  <2>1. /\ skipped' = skipped /\ spoilt' = (spoilt \/ (raises /\ ~Stopped(t))) /\ Pass(n)
    BY DEF WriteBinProt
  <2>2. spoilt' \in BOOLEAN /\ (spoilt => spoilt') /\ (raises /\ ~Stopped(t) => spoilt')
    BY <2>1
  <2>3. ~start => raises
    BY <1>3
  <2>4. skipped' = skipped + pos /\ pos <= n
    BY <2>1, <1>1, <1>2
  <2> QED BY <2>1, <2>2, <2>3, <2>4
<1>6. WriterInv'
  BY <1>4, <1>5, PassKeeps
<1> QED BY <1>4, <1>5, <1>6, PassKeepsWaiting

LEMMA ScheduleKeeps ==
  ASSUME WriterInv, NEW n \in Nat, NEW pos \in Nat, NEW kind \in {"Keep", "Destroy"},
         Schedule(pos, n, kind)
  PROVE  WriterInv' /\ (FlushesWait /\ ~shrunk' => FlushesWait')
<1>1. WriterTypeOK /\ InStream(t, given) /\ spoilt \in BOOLEAN
  BY DEF WriterInv, TheStream, WriterTypeOK
<1>2. PICK start \in BOOLEAN : start = TRUE
  OBVIOUS
<1>3. Passes(t, t', given, n, pos, start)
  <2>1. Passes(t, t', given, n, pos, TRUE)
    BY <1>1, SchedulePasses
  <2> QED BY <2>1, <1>2
<1>4. Pass(n) /\ skipped' = skipped + pos /\ spoilt' = spoilt
  BY DEF Schedule
<1>5. WriterInv'
  BY <1>1, <1>2, <1>3, <1>4, PassKeeps
<1>6. ~shrunk' => ~(pos > n)
  <2>1. shrunk' = (shrunk \/ pos > n)
    BY DEF Schedule
  <2> QED BY <2>1, Zenon
<1>7. ~(pos > n) => pos <= n
  OBVIOUS
<1> QED BY <1>3, <1>5, <1>6, <1>7, PassKeepsWaiting

LEMMA CloseKeeps ==
  ASSUME WriterInv, NEW forced \in BOOLEAN, Close(forced)
  PROVE  WriterInv' /\ (FlushesWait => FlushesWait')
<1>1. ~Asked(Closer) /\ Closer \in Requests \cup {Closer}
  BY DEF Close, WriterInv, TheFlushes
<1>2. PICK who \in Requests \cup {Closer} : who = Closer
  BY <1>1
<1>3. /\ t' = FlushBy(t, who) /\ mark' = [mark EXCEPT ![who] = given - skipped]
      /\ set' = set /\ flight' = flight /\ fd' = fd /\ force' \in BOOLEAN /\ too_old' = too_old
      /\ file' = file /\ given' = given /\ skipped' = skipped /\ spoilt' = spoilt
      /\ closing = "no" /\ closing' = "waiting" /\ ~Asked(who)
  BY <1>1, <1>2 DEF Close
<1>4. WriterInv'
  BY <1>3, FlushByKeeps
<1> QED BY <1>3, <1>4, FlushByKeepsWaiting

LEMMA FlushedKeeps ==
  ASSUME WriterInv, NEW r \in Requests, Flushed(r)
  PROVE  WriterInv' /\ (FlushesWait => FlushesWait')
<1>1. r # Closer
  BY WriterAssumption
<1>2. PICK who \in Requests \cup {Closer} : who = r
  OBVIOUS
<1>3. /\ t' = FlushBy(t, who) /\ mark' = [mark EXCEPT ![who] = given - skipped]
      /\ set' = set /\ flight' = flight /\ fd' = fd /\ force' = force /\ too_old' = too_old
      /\ file' = file /\ given' = given /\ skipped' = skipped /\ spoilt' = spoilt
      /\ closing' = closing /\ who # Closer /\ ~Asked(who)
  BY <1>1, <1>2 DEF Flushed
<1>4. force' \in BOOLEAN
  BY <1>3 DEF WriterInv, WriterTypeOK
<1>5. WriterInv'
  BY <1>3, <1>4, FlushByKeeps
<1> QED BY <1>3, <1>5, FlushByKeepsWaiting

LEMMA ClientKeeps ==
  ASSUME WriterInv, ClientStep
  PROVE  WriterInv' /\ (FlushesWait /\ ~shrunk' => FlushesWait')
<1>1. CASE \E n \in Sizes : Write(n)
  BY <1>1, IovecsAndSizes, WriteKeeps
<1>2. CASE \E n \in Values : WriteMarshal(n)
  <2>1. PICK n \in Values : WriteMarshal(n)
    BY <1>2
  <2>2. PICK pos \in Nat : pos = 0
    OBVIOUS
  <2>3. PICK kind \in {"Keep", "Destroy"} : kind = "Destroy"
    OBVIOUS
  <2>4. n \in Nat /\ Schedule(pos, n, kind)
    BY <2>1, <2>2, <2>3, IovecsAndSizes DEF WriteMarshal
  <2> QED BY <2>4, ScheduleKeeps
<1>3. CASE \E n \in Values : \E b \in BOOLEAN : WriteBinProt(n, b)
  BY <1>3, IovecsAndSizes, WriteBinProtKeeps
<1>4. CASE \E v \in Iovecs : ScheduleIovec(v)
  <2>1. PICK v \in Iovecs : ScheduleIovec(v)
    BY <1>4
  <2>2. PICK pos \in Nat : pos = v.pos
    BY <2>1, IovecsAndSizes
  <2>3. PICK n \in Nat : n = v.len
    BY <2>1, IovecsAndSizes
  <2>4. PICK kind \in {"Keep", "Destroy"} : kind = "Keep"
    OBVIOUS
  <2>5. Schedule(pos, n, kind)
    BY <2>1, <2>2, <2>3, <2>4 DEF ScheduleIovec
  <2> QED BY <2>5, ScheduleKeeps
<1>5. CASE \E r \in Requests : Flushed(r)
  BY <1>5, FlushedKeeps
<1>6. CASE \E forced \in BOOLEAN : Close(forced)
  BY <1>6, CloseKeeps
<1> QED BY <1>1, <1>2, <1>3, <1>4, <1>5, <1>6 DEF ClientStep

LEMMA WriterStepKeeps ==
  ASSUME WriterInv, WriterStep
  PROVE  /\ WriterInv' /\ (FlushesWait => FlushesWait') /\ t.filled \subseteq t'.filled
         /\ NotWritten \/ AgeCheck \/ AgeCheckPasses \/ CloseChosen \/ FdCloses
<1>1. CASE Background \/ System
  BY <1>1, BackgroundKeeps
<1>2. CASE AgeCheck \/ AgeCheckPasses \/ CloseChosen \/ FdCloses
  <2>1. t' = t
    BY <1>2 DEF AgeCheck, AgeCheckPasses, CloseChosen, FdCloses
  <2>2. WriterInv'
    BY <1>2, RestKeeps
  <2> QED BY <1>2, <2>1, <2>2 DEF FlushesWait
<1> QED BY <1>1, <1>2 DEF WriterStep

LEMMA WriterStaysSame ==
  ASSUME WriterInv, UNCHANGED writerVars
  PROVE  WriterInv' /\ (FlushesWait => FlushesWait')
<1>1. /\ set' = set /\ t' = t /\ flight' = flight /\ fd' = fd /\ closing' = closing
      /\ force' = force /\ too_old' = too_old /\ file' = file /\ given' = given
      /\ skipped' = skipped /\ spoilt' = spoilt /\ mark' = mark
  BY DEF writerVars
<1>2. WriterTypeOK' /\ TheStream'
  BY <1>1 DEF WriterInv, WriterTypeOK, TheStream
<1>3. TheFlight' /\ TheJob' /\ TheFlushes'
  BY <1>1 DEF WriterInv, TheFlight, TheJob, TheFlushes, Asked, bytes_to_write
<1>4. FlushesWait => FlushesWait'
  BY <1>1 DEF FlushesWait
<1> QED BY <1>2, <1>3, <1>4 DEF WriterInv
-----------------------------------------------------------------------------
(* Writer.save.                                                            *)
LEMMA SaveKeepsItsWriter ==
  ASSUME WriterInv, [SaveNext]_allVars
  PROVE  WriterInv' /\ (FlushesWait /\ ~shrunk' => FlushesWait')
<1>1. CASE ClientStep
  BY <1>1, ClientKeeps
<1>2. CASE WriterStep
  BY <1>2, WriterStepKeeps
<1>3. CASE SaveWrite
  BY <1>3, IovecsAndSizes, WriteKeeps DEF SaveWrite
<1>4. CASE SaveClose
  <2>1. PICK forced \in BOOLEAN : forced = FALSE
    OBVIOUS
  <2>2. Close(forced)
    BY <1>4, <2>1 DEF SaveClose
  <2> QED BY <2>2, CloseKeeps
<1>5. CASE UNCHANGED writerVars
  BY <1>5, WriterStaysSame
<1>6. CASE SaveStep
  <2>1. SaveWrite \/ SaveClose \/ UNCHANGED writerVars
    BY <1>6 DEF SaveStep, SaveRaises, SaveChmod, SaveFsync, SaveRename
  <2> QED BY <2>1, <1>3, <1>4, <1>5
<1>7. CASE Crash \/ UNCHANGED allVars
  <2>1. UNCHANGED writerVars
    BY <1>7 DEF Crash, allVars
  <2> QED BY <2>1, <1>5
<1> QED BY <1>1, <1>2, <1>6, <1>7 DEF SaveNext

(* Once bytes_received has decreased, that is remembered.                  *)
LEMMA ShrunkIsKept ==
  ASSUME [SaveNext]_allVars, shrunk
  PROVE  shrunk'
<1>1. ASSUME NEW n, Write(n) PROVE shrunk'
  BY <1>1 DEF Write
<1>2. ASSUME NEW n, NEW b, WriteBinProt(n, b) PROVE shrunk'
  BY <1>2 DEF WriteBinProt
<1>3. ASSUME NEW pos, NEW n, NEW kind, Schedule(pos, n, kind) PROVE shrunk'
  BY <1>3 DEF Schedule
<1>4. ASSUME NEW forced, Close(forced) PROVE shrunk'
  BY <1>4 DEF Close
<1>5. ASSUME NEW r, Flushed(r) PROVE shrunk'
  BY <1>5 DEF Flushed
<1>6. CASE ClientStep
  BY <1>1, <1>2, <1>3, <1>4, <1>5, <1>6 DEF ClientStep, WriteMarshal, ScheduleIovec
<1>7. ASSUME UNCHANGED unchangedByWriting PROVE shrunk'
  BY <1>7 DEF unchangedByWriting
<1>8. ASSUME NEW n, NEW err, WriteNow(n, err) \/ ThreadWrites(n, err) PROVE shrunk'
  BY <1>7, <1>8 DEF WriteNow, ThreadWrites
<1>9. ASSUME WriteInThread \/ ThreadDone \/ WriteAfterClose \/ BadFd PROVE shrunk'
  BY <1>7, <1>9 DEF WriteInThread, ThreadDone, WriteAfterClose, BadFd
<1>10. CASE WriterStep
  <2>1. ASSUME AgeCheck \/ AgeCheckPasses \/ CloseChosen \/ FdCloses PROVE shrunk'
    BY <2>1 DEF AgeCheck, AgeCheckPasses, CloseChosen, FdCloses
  <2> QED BY <2>1, <1>8, <1>9, <1>10 DEF WriterStep, Background, System
<1>11. CASE UNCHANGED writerVars
  BY <1>11 DEF writerVars
<1>12. CASE SaveStep \/ Crash \/ UNCHANGED allVars
  <2>1. SaveWrite \/ SaveClose \/ UNCHANGED writerVars
    BY <1>12 DEF SaveStep, Crash, SaveRaises, SaveChmod, SaveFsync, SaveRename, allVars
  <2> QED BY <2>1, <1>1, <1>4, <1>11 DEF SaveWrite, SaveClose
<1> QED BY <1>6, <1>10, <1>12 DEF SaveNext

(* What TheSave says once more, of a step that leaves the save where it is.*)
LEMMA SaveStays ==
  ASSUME WriterInv, TheSave, step' = step, renamed' = renamed,
         set' = set, force' = force, given' = given, skipped' = skipped, mark' = mark,
         t.filled \subseteq t'.filled,
         \/ closing' = closing /\ (too_old => too_old' \/ closing = "no")
         \/ CloseChosen
         \/ FdCloses
  PROVE  TheSave'
<1>1. CASE closing' = closing /\ (too_old => too_old' \/ closing = "no")
  BY <1>1 DEF TheSave
<1>2. CASE CloseChosen
  <2>1. /\ closing = "waiting" /\ closing' = "closing" /\ too_old' = too_old
        /\ t.epipe \/ Closer \in t.filled \/ force \/ too_old
    BY <1>2 DEF CloseChosen, CloseReasons, FlushedBeforeClose
  <2>2. t.epipe => set.supports_nonblock
    BY DEF WriterInv, TheJob
  <2>3. set = SaveSet => ~set.supports_nonblock
    BY DEF SaveSet
  <2>4. set = SaveSet /\ ~force => Closer \in t'.filled \/ too_old'
    BY <2>1, <2>2, <2>3
  <2> QED BY <2>1, <2>4 DEF TheSave
<1>3. CASE FdCloses
  <2>1. closing = "closing"
    BY <1>3 DEF FdCloses, WriterInv, WriterTypeOK, TheJob
  <2>2. closing' = "finished" /\ too_old' = too_old
    BY <1>3 DEF FdCloses
  <2> QED BY <2>1, <2>2 DEF TheSave
<1> QED BY <1>1, <1>2, <1>3

LEMMA SaveKeepsTheSave ==
  ASSUME WriterInv, TheSave, [SaveNext]_allVars
  PROVE  TheSave'
<1>1. CASE step = "none" /\ ClientStep /\ UNCHANGED saveVars
  <2>1. step' = "none" /\ renamed' = renamed
    BY <1>1 DEF saveVars
  <2>2. ~renamed
    BY <1>1 DEF TheSave
  <2> QED BY <2>1, <2>2 DEF TheSave, SaveSteps
<1>2. CASE WriterStep /\ UNCHANGED saveVars
  <2>1. step' = step /\ renamed' = renamed /\ t.filled \subseteq t'.filled
    BY <1>2, WriterStepKeeps DEF saveVars
  <2>2. NotWritten \/ AgeCheck \/ AgeCheckPasses \/ CloseChosen \/ FdCloses
    BY <1>2, WriterStepKeeps
  <2>3. /\ set' = set /\ force' = force /\ given' = given /\ skipped' = skipped /\ mark' = mark
    BY <2>2 DEF NotWritten, AgeCheck, AgeCheckPasses, CloseChosen, FdCloses
  <2>4. \/ closing' = closing /\ (too_old => too_old' \/ closing = "no")
        \/ CloseChosen \/ FdCloses
    BY <2>2 DEF NotWritten, AgeCheck, AgeCheckPasses
  <2> QED BY <2>1, <2>3, <2>4, SaveStays
<1>3. CASE SaveWrite
  <2>1. /\ step = "write" /\ step' = "chmod" /\ renamed' = renamed /\ closing = "no"
        /\ given' = given + SaveLength /\ skipped' = skipped /\ set' = set /\ force' = force
        /\ closing' = closing
    BY <1>3 DEF SaveWrite, Write, Pass
  <2>2. /\ set = SaveSet /\ skipped = 0 /\ ~force /\ given = 0 /\ ~renamed
    BY <2>1 DEF TheSave
  <2>3. given' = SaveLength
    BY <2>1, <2>2, IovecsAndSizes
  <2> QED BY <2>1, <2>2, <2>3 DEF TheSave, SaveSteps
<1>4. CASE SaveClose
  <2>1. /\ step \in {"close", "close raising"} /\ step' = step /\ renamed' = renamed
        /\ closing = "no" /\ closing' = "waiting" /\ force' = FALSE /\ set' = set
        /\ given' = given /\ skipped' = skipped
        /\ mark' = [mark EXCEPT ![Closer] = given - skipped]
    BY <1>4 DEF SaveClose, Close, saveVars
  <2>2. set = SaveSet /\ skipped = 0 /\ given = SaveLength /\ ~renamed
    BY <2>1 DEF TheSave
  <2>3. mark'[Closer] = SaveLength
    <3>1. mark \in [Requests \cup {Closer} -> Int]
      BY DEF WriterInv, WriterTypeOK
    <3>2. given - skipped = SaveLength
      BY <2>2, IovecsAndSizes
    <3> QED BY <2>1, <3>1, <3>2
  <2> QED BY <2>1, <2>2, <2>3 DEF TheSave, SaveSteps
<1>5. ASSUME UNCHANGED writerVars
      PROVE  /\ set' = set /\ force' = force /\ given' = given /\ skipped' = skipped
             /\ mark' = mark /\ closing' = closing /\ too_old' = too_old /\ t' = t
  BY <1>5 DEF writerVars
<1>6. CASE \E ok \in BOOLEAN : SaveChmod(ok)
  <2>1. /\ step = "chmod" /\ step' \in {"close raising", "fsync", "close"}
        /\ renamed' = renamed /\ UNCHANGED writerVars
    BY <1>6 DEF SaveChmod
  <2>2. /\ set' = set /\ force' = force /\ given' = given /\ skipped' = skipped
        /\ mark' = mark /\ closing' = closing /\ too_old' = too_old /\ t' = t
    BY <2>1, <1>5
  <2> QED BY <2>1, <2>2 DEF TheSave, SaveSteps
<1>7. CASE \E ok \in BOOLEAN : SaveFsync(ok)
  <2>1. /\ step = "fsync" /\ step' \in {"close raising", "close"}
        /\ renamed' = renamed /\ UNCHANGED writerVars
    BY <1>7 DEF SaveFsync
  <2>2. /\ set' = set /\ force' = force /\ given' = given /\ skipped' = skipped
        /\ mark' = mark /\ closing' = closing /\ too_old' = too_old /\ t' = t
    BY <2>1, <1>5
  <2> QED BY <2>1, <2>2 DEF TheSave, SaveSteps
<1>8. CASE SaveRaises
  <2>1. /\ step = "close raising" /\ step' = "raised"
        /\ renamed' = renamed /\ UNCHANGED writerVars
    BY <1>8 DEF SaveRaises
  <2>2. /\ set' = set /\ force' = force /\ given' = given /\ skipped' = skipped
        /\ mark' = mark /\ closing' = closing /\ too_old' = too_old /\ t' = t
    BY <2>1, <1>5
  <2> QED BY <2>1, <2>2 DEF TheSave, SaveSteps
<1>9. CASE \E ok \in BOOLEAN : SaveRename(ok)
  <2>1. PICK ok \in BOOLEAN : SaveRename(ok)
    BY <1>9
  <2>2. /\ step = "close" /\ closing = "finished" /\ renamed' = ok
        /\ step' = (IF ok THEN "saved" ELSE "raised") /\ UNCHANGED writerVars
    BY <2>1 DEF SaveRename, MayRename
  <2>3. /\ set' = set /\ force' = force /\ given' = given /\ skipped' = skipped
        /\ mark' = mark /\ closing' = closing /\ too_old' = too_old /\ t' = t
    BY <2>2, <1>5
  <2>4. \/ renamed' /\ step' = "saved"
        \/ ~renamed' /\ step' = "raised"
    BY <2>2
  <2>5. /\ step \notin {"none", "crashed"} /\ step # "write" /\ closing = "finished"
    BY <2>2
  <2>6. /\ set' = SaveSet /\ skipped' = 0 /\ ~force' /\ given' = SaveLength
        /\ mark'[Closer] = SaveLength /\ (Closer \in t'.filled \/ too_old')
    BY <2>3, <2>5 DEF TheSave
  <2>7. CASE renamed' /\ step' = "saved"
    BY <2>3, <2>5, <2>6, <2>7 DEF TheSave, SaveSteps
  <2>8. CASE ~renamed' /\ step' = "raised"
    BY <2>3, <2>5, <2>6, <2>8 DEF TheSave, SaveSteps
  <2> QED BY <2>4, <2>7, <2>8
<1>10. CASE Crash
  <2>1. step' = "crashed" /\ renamed' \in {FALSE, renamed} /\ closing' = closing
    BY <1>10 DEF Crash, writerVars
  <2>2. renamed => closing = "finished"
    BY DEF TheSave
  <2>3. step' \in SaveSteps
    BY <2>1 DEF SaveSteps
  <2>4. renamed' => closing' = "finished"
    <3>1. CASE renamed' = FALSE
      BY <3>1
    <3>2. CASE renamed' = renamed
      BY <2>1, <2>2, <3>2
    <3> QED BY <2>1, <3>1, <3>2
  <2>5. /\ ~(renamed' /\ step' # "crashed")
        /\ ~(step' \notin {"none", "crashed"})
    BY <2>1
  <2> QED BY <2>3, <2>4, <2>5 DEF TheSave
<1>11. CASE UNCHANGED allVars
  <2>1. step' = step /\ renamed' = renamed /\ UNCHANGED writerVars
    BY <1>11 DEF allVars, saveVars
  <2> QED BY <2>1, <1>5 DEF TheSave
<1> QED BY <1>1, <1>2, <1>3, <1>4, <1>6, <1>7, <1>8, <1>9, <1>10, <1>11 DEF SaveNext, SaveStep

LEMMA SaveStartsRight ==
  ASSUME SaveInit
  PROVE  WriterInv /\ FlushesWait /\ TheSave
<1>1. PICK z \in Nat : z = 0
  OBVIOUS
<1>2. PICK b \in Nat : b = 1
  OBVIOUS
<1>3. PICK s \in Seq(IovecType) : s = <<>>
  <2>1. <<>> \in Seq(IovecType)
    OBVIOUS
  <2> QED BY <2>1
<1>4. PICK q \in Seq(FlushType) : q = <<>>
  <2>1. <<>> \in Seq(FlushType)
    OBVIOUS
  <2> QED BY <2>1
<1>5. BufLen \in Nat /\ BufLen > 0
  BY WriterAssumption
<1>6. PICK m : m = [c \in {0, 1} |-> IF c = 0 THEN <<>> ELSE [i \in 1..BufLen |-> 0]]
  OBVIOUS
<1>7. /\ m \in Memory /\ DOMAIN m = {0, 1} /\ Len(m[b]) = BufLen
  <2>1. <<>> \in Seq(Nat) /\ [i \in 1..BufLen |-> 0] \in Seq(Nat)
        /\ Len([i \in 1..BufLen |-> 0]) = BufLen /\ {0, 1} \in SUBSET Nat
    BY <1>5
  <2>2. DOMAIN m = {0, 1} /\ m \in [{0, 1} -> Seq(Nat)] /\ m[1] = [i \in 1..BufLen |-> 0]
    BY <1>6, <2>1
  <2> QED BY <2>1, <2>2, <1>2, MemoryIs
<1>8. PICK e : e = {}
  OBVIOUS
<1>9. t = [state |-> "Not_running", job |-> "none", received |-> z, written |-> z,
           scheduled |-> s, scheduled_bytes |-> z, mem |-> m, buf |-> b, scheduled_back |-> z,
           back |-> z, flushes |-> q, filled |-> e, epipe |-> FALSE, dead |-> FALSE]
  BY <1>1, <1>2, <1>3, <1>4, <1>6, <1>8 DEF SaveInit, InitWriter
<1>10. t \in WriterType
  <2>1. e \in SUBSET (Requests \cup {Closer}) /\ z \in Int
    BY <1>8
  <2> QED BY <2>1, <1>7, <1>9 DEF WriterType
<1>11. /\ t.state = "Not_running" /\ t.job = "none" /\ t.received = z /\ t.written = z
       /\ t.scheduled = s /\ t.scheduled_bytes = z /\ t.mem = m /\ t.buf = b
       /\ t.scheduled_back = z /\ t.back = z /\ t.flushes = q /\ t.filled = e
       /\ ~t.epipe /\ ~t.dead
  BY <1>9
<1>12. /\ set \in Settings /\ flight = NoFlight /\ fd = "open" /\ closing = "no"
       /\ force = FALSE /\ too_old = FALSE /\ file = <<>> /\ given = 0 /\ skipped = 0
       /\ spoilt = FALSE /\ mark = [r \in Requests \cup {Closer} |-> 0]
  BY DEF SaveInit, InitWriter
<1>13. NoFlight \in FlightType /\ NoFlight.n = 0 /\ ~NoFlight.done /\ NoFlight.err = "none"
  BY <1>3 DEF NoFlight, FlightType
<1>14. WriterTypeOK
  <2>1. set \in [supports_nonblock : BOOLEAN, periodic : BOOLEAN, limited : BOOLEAN]
    BY <1>12, WriterAssumption
  <2>2. <<>> \in Seq(Nat)
    OBVIOUS
  <2>3. file \in Seq(Nat) /\ mark \in [Requests \cup {Closer} -> Int]
    BY <1>12, <2>2
  <2> QED BY <2>1, <2>3, <1>10, <1>12, <1>13 DEF WriterTypeOK
<1>15. Len(s) = 0 /\ Len(q) = 0 /\ iovecs_length(s) = 0
  <2>1. Len(s) = 0 /\ Len(q) = 0
    BY <1>3, <1>4
  <2>2. Ends(s)[0] = 0
    BY <2>1, EndsOf, IovecsHaveLengths
  <2> QED BY <2>1, <2>2 DEF iovecs_length
<1>16. Holds(t.mem, Unscheduled(t), t.written + t.scheduled_bytes)
  <2>1. /\ t.buf \in DOMAIN t.mem /\ t.scheduled_back <= t.back /\ t.back <= Len(t.mem[t.buf])
        /\ t.written + t.scheduled_bytes \in Nat /\ Len(t.mem[t.buf]) \in Nat
    BY <1>1, <1>2, <1>5, <1>7, <1>11
  <2>2. \A k \in 1..(t.back - t.scheduled_back) :
          t.mem[t.buf][t.scheduled_back + k] = (t.written + t.scheduled_bytes) + k
    BY <1>1, <1>11
  <2> QED BY <2>1, <2>2, <1>10, UnscheduledHolds
<1>17. /\ QueueHolds(t.mem, t.scheduled, t.written) /\ LastUse(t.scheduled)
       /\ Below(t.scheduled, t.buf, t.scheduled_back)
  BY <1>11, <1>15 DEF QueueHolds, LastUse, Below
<1>18. bytes_to_write(t) = 0 /\ t.written + bytes_to_write(t) = given
  BY <1>1, <1>11, <1>12 DEF bytes_to_write
<1>19. IsFiniteSet(DOMAIN t.mem) /\ 0 \in DOMAIN t.mem
  <2>1. IsFiniteSet({0, 1})
    <3>1. z \in Int /\ b \in Int /\ {0, 1} = z..b
      BY <1>1, <1>2
    <3>2. IsFiniteSet(z..b)
      BY <3>1, FS_Interval
    <3> QED BY <3>1, <3>2
  <2> QED BY <2>1, <1>7, <1>11
<1>20. Sound(t, given)
  <2>1. /\ t.scheduled_back <= t.back /\ Len(t.mem[t.buf]) > 0
        /\ t.scheduled_bytes = iovecs_length(t.scheduled)
    BY <1>1, <1>5, <1>7, <1>11, <1>15
  <2> QED BY <2>1, <1>16, <1>17, <1>18, <1>19 DEF Sound, Streams
<1>21. TheStream
  <2>1. ~Stopped(t)
    BY <1>11 DEF Stopped
  <2>2. InStream(t, given)
    BY <2>1, <1>20 DEF InStream
  <2>3. Len(file) = 0
    BY <1>12
  <2> QED BY <2>2, <2>3, <1>1, <1>11, <1>12, <1>13 DEF TheStream
<1>22. TheFlight
  BY <1>11, <1>12, <1>13 DEF TheFlight
<1>23. TheJob
  BY <1>11, <1>12, <1>18 DEF TheJob
<1>24. TheFlushes
  <2>1. DOMAIN t.flushes = {}
    BY <1>11, <1>15, FlushesAre, <1>10
  <2> QED BY <2>1, <1>8, <1>11, <1>15 DEF TheFlushes, Asked
<1>25. FlushesWait
  BY <1>1, <1>11, <1>15 DEF FlushesWait
<1>26. TheSave
  <2>1. step \in {"write", "none"} /\ renamed = FALSE /\ (step = "write" => set = SaveSet)
    BY DEF SaveInit
  <2> QED BY <2>1, <1>12 DEF TheSave, SaveSteps
<1> QED BY <1>14, <1>21, <1>22, <1>23, <1>24, <1>25, <1>26 DEF WriterInv
-----------------------------------------------------------------------------
(* What the properties say follows from the invariant.                     *)
LEMMA FileIsGiven ==
  ASSUME WriterInv
  PROVE  t.written <= Len(file) /\ Len(file) <= given
<1>1. /\ t \in WriterType /\ t.written \in Nat /\ given \in Nat /\ t.scheduled \in Seq(IovecType)
      /\ Len(file) = t.written + flight.n
  BY TypesOfState, FileOf DEF WriterInv
<1>2. flight.n \in Nat /\ flight.iovecs \in Seq(IovecType)
  BY DEF WriterInv, WriterTypeOK, FlightType
<1>3. CASE t.job = "thread"
  <2>1. Sound(t, given)
    BY <1>3, StartingIs
  <2>2. /\ t.scheduled_bytes \in Nat /\ t.scheduled_back \in Nat /\ t.back \in Nat
        /\ t.scheduled_back <= t.back
        /\ given = t.written + t.scheduled_bytes + (t.back - t.scheduled_back)
    BY <1>1, <2>1, StreamsIs DEF Sound
  <2>3. t.scheduled_bytes = iovecs_length(t.scheduled)
    BY <2>1 DEF Sound, Streams
  <2>4. /\ Prefix(flight.iovecs, t.scheduled) /\ flight.n <= iovecs_length(flight.iovecs)
    BY <1>3 DEF WriterInv, TheFlight
  <2>5. /\ iovecs_length(flight.iovecs) <= iovecs_length(t.scheduled)
        /\ iovecs_length(flight.iovecs) \in Nat
    BY <1>1, <1>2, <2>4, PrefixEnds, IovecsHaveLengths
  <2> QED BY <1>1, <1>2, <2>2, <2>3, <2>4, <2>5
<1>4. CASE t.job # "thread"
  <2>1. flight.n = 0
    BY <1>4 DEF WriterInv, TheFlight, NoFlight
  <2>2. t.written <= given
    <3>1. CASE Stopped(t)
      BY <3>1 DEF WriterInv, TheStream, InStream
    <3>2. CASE ~Stopped(t)
      <4>1. Sound(t, given)
        BY <3>2 DEF WriterInv, TheStream, InStream
      <4>2. /\ t.scheduled_bytes \in Nat /\ t.scheduled_back \in Nat /\ t.back \in Nat
            /\ t.scheduled_back <= t.back
            /\ given = t.written + t.scheduled_bytes + (t.back - t.scheduled_back)
        BY <1>1, <4>1, StreamsIs DEF Sound
      <4> QED BY <4>2, <1>1
    <3> QED BY <3>1, <3>2
  <2> QED BY <1>1, <2>1, <2>2
<1> QED BY <1>3, <1>4

LEMMA InOrder ==
  ASSUME WriterInv
  PROVE  StreamInOrder
<1>1. /\ file \in Seq(Nat) /\ (\A i \in 1..Len(file) : file[i] = i)
      /\ Len(file) = t.written + flight.n
  BY FileOf
<1>2. DOMAIN file = 1..Len(file)
  BY <1>1, LenProperties
<1>3. flight.n = IF flight.done THEN flight.n ELSE 0
  BY DEF WriterInv, TheFlight
<1>4. ASSUME NEW r \in t.filled PROVE Len(file) >= mark[r]
  <2>1. mark[r] <= t.written
    BY DEF WriterInv, TheFlushes
  <2>2. mark[r] \in Int
    BY TypesOfState DEF WriterInv, WriterTypeOK
  <2>3. t.written <= Len(file) /\ t.written \in Nat /\ Len(file) \in Nat
    BY <1>1, FileIsGiven, TypesOfState, LenProperties DEF WriterInv
  <2> QED BY <2>1, <2>2, <2>3
<1>5. Len(file) = t.written + IF flight.done THEN flight.n ELSE 0
  BY <1>1, <1>3
<1> QED BY <1>1, <1>2, <1>4, <1>5 DEF StreamInOrder

LEMMA WholeReplaces ==
  ASSUME WriterInv, TheSave
  PROVE  ReplacesWithWhole
<1> SUFFICES ASSUME renamed, step # "crashed", ~too_old PROVE Len(file) = SaveLength
  BY DEF ReplacesWithWhole
<1>1. step = "saved" /\ closing = "finished"
  BY DEF TheSave
<1>2. given = SaveLength /\ mark[Closer] = SaveLength /\ Closer \in t.filled
  BY <1>1 DEF TheSave
<1>3. mark[Closer] <= t.written
  BY <1>2 DEF WriterInv, TheFlushes
<1>4. t.written \in Nat /\ SaveLength \in Nat /\ Len(file) \in Nat
  BY IovecsAndSizes, TypesOfState, FileOf, LenProperties DEF WriterInv
<1>5. t.written <= Len(file) /\ Len(file) <= given
  BY FileIsGiven
<1> QED BY <1>2, <1>3, <1>4, <1>5

LEMMA AccountIsRight ==
  ASSUME WriterInv, shrunk \/ FlushesWait
  PROVE  WriterInvariant
<1>1. /\ t \in WriterType /\ t.written \in Nat /\ given \in Nat /\ skipped \in Nat
      /\ t.received \in Int /\ t.scheduled \in Seq(IovecType)
      /\ t.received = given - skipped /\ InStream(t, given)
  BY TypesOfState DEF WriterInv, TheStream
<1>2. DOMAIN t.scheduled = 1..Len(t.scheduled) /\ DOMAIN t.flushes = 1..Len(t.flushes)
  BY <1>1, LenProperties, FlushesAre
<1>3. t.written <= t.received + skipped
  BY <1>1, FileIsGiven, FileOf, LenProperties
<1>4. Books
  <2>1. CASE Stopped(t)
    <3>1. Empty(t)
      BY <2>1, <1>1 DEF InStream
    <3>2. /\ Len(t.scheduled) = 0 /\ t.mem[t.buf] = <<>> /\ t.scheduled_bytes = 0
          /\ t.scheduled_back = 0 /\ t.back = 0
      BY <3>1 DEF Empty
    <3>3. iovecs_length(t.scheduled) = 0
      <4>1. Ends(t.scheduled)[0] = 0
        BY <1>1, EndsOf, IovecsHaveLengths
      <4> QED BY <4>1, <3>2 DEF iovecs_length
    <3>4. bytes_to_write(t) = 0
      BY <3>2 DEF bytes_to_write
    <3>5. t.scheduled_back \in 0..t.back /\ t.back <= Len(t.mem[t.buf])
      BY <3>2
    <3> QED BY <2>1, <3>2, <3>3, <3>4, <3>5, <1>2, <1>3 DEF Books
  <2>2. CASE ~Stopped(t)
    <3>1. Sound(t, given)
      BY <2>2, <1>1 DEF InStream
    <3>2. /\ t.scheduled_back \in Nat /\ t.back \in Nat /\ t.scheduled_back <= t.back
          /\ t.back <= Len(t.mem[t.buf])
      BY <1>1, <3>1, StreamsIs DEF Sound
    <3>3. /\ t.scheduled_bytes = iovecs_length(t.scheduled) /\ Len(t.mem[t.buf]) > 0
          /\ t.written + bytes_to_write(t) = given
          /\ QueueHolds(t.mem, t.scheduled, t.written)
          /\ Below(t.scheduled, t.buf, t.scheduled_back)
      BY <3>1 DEF Sound, Streams
    <3>4. t.received + skipped - t.written = bytes_to_write(t)
      <4>1. bytes_to_write(t) \in Int
        BY <1>1 DEF WriterType, bytes_to_write
      <4> QED BY <4>1, <1>1, <3>3
    <3>5. ASSUME NEW i \in DOMAIN t.scheduled
          PROVE  /\ t.scheduled[i].buf = t.buf => t.scheduled[i].kind = "Keep"
                 /\ t.scheduled[i].pos + t.scheduled[i].len <= Len(t.mem[t.scheduled[i].buf])
      BY <3>3, <1>2 DEF QueueHolds, Holds, Below
    <3>6. t.scheduled_back \in 0..t.back
      BY <3>2
    <3> QED BY <2>2, <3>2, <3>3, <3>4, <3>5, <3>6, <1>3 DEF Books
  <2> QED BY <2>1, <2>2
<1>5. NothingForgotten
  BY <1>2 DEF WriterInv, TheJob, FlushesWait, NothingForgotten
<1> QED BY <1>4, <1>5 DEF WriterInvariant

(* The system gets the bytes that clients passed in their order, each once,*)
(* through the buffer, bigstrings and partial writes, and a flush that is  *)
(* answered is true.                                                       *)
THEOREM TheStreamIsInOrder == SaveSpec => []StreamInOrder
<1>1. SaveInit => WriterInv
  BY SaveStartsRight
<1>2. WriterInv /\ [SaveNext]_allVars => WriterInv'
  BY SaveKeepsItsWriter
<1>3. WriterInv => StreamInOrder
  BY InOrder
<1> QED BY <1>1, <1>2, <1>3, PTL DEF SaveSpec

(* Writer.save renames its temporary file to the target only when the      *)
(* whole contents are in it, but when close gave up waiting for the age of *)
(* the data.                                                               *)
THEOREM SaveReplacesWithWhole == SaveSpec => []ReplacesWithWhole
<1>1. SaveInit => WriterInv /\ TheSave
  BY SaveStartsRight
<1>2. WriterInv /\ TheSave /\ [SaveNext]_allVars => WriterInv' /\ TheSave'
  BY SaveKeepsItsWriter, SaveKeepsTheSave
<1>3. WriterInv /\ TheSave => ReplacesWithWhole
  BY WholeReplaces
<1> QED BY <1>1, <1>2, <1>3, PTL DEF SaveSpec

(* For any iovecs, strings, bigstrings and partial writes the writer's     *)
(* books are right, bytes_received corrected for the positions of iovecs   *)
(* (writer.ml:410), and it forgets no bytes; and it forgets no flush as    *)
(* long as it did not come to count an iovec as fewer bytes than none.     *)
THEOREM TheWritersInvariant == SaveSpec => []WriterInvariant
<1>1. SaveInit => WriterInv /\ (shrunk \/ FlushesWait)
  BY SaveStartsRight
<1>2. ASSUME WriterInv, shrunk \/ FlushesWait, [SaveNext]_allVars
      PROVE  WriterInv' /\ (shrunk' \/ FlushesWait')
  BY <1>2, SaveKeepsItsWriter, ShrunkIsKept
<1>3. WriterInv /\ (shrunk \/ FlushesWait) => WriterInvariant
  BY AccountIsRight
<1> QED BY <1>1, <1>2, <1>3, PTL DEF SaveSpec
=============================================================================
