------------------------------- MODULE FdProofs -------------------------------
(***************************************************************************)
(* Whoever uses the number of an Fd.t finds the file it was made of, and   *)
(* what counts as an active system call is one: for any number of          *)
(* descriptors, Fd.t's and requests, and any finite set of numbers.        *)
(***************************************************************************)
EXTENDS Fd, FiniteSetTheorems, TLAPS

(* An Fd.t owns its number from the open of the file to the close, or      *)
(* until another Fd.t replaces it.                                         *)
Owns(f) == \/ state[f] = "opened" \/ Alive(f)
           \/ closing[f] \in {"shutdown", "close"}

(* A number has one owner, and under it is the owner's file; fd_by_descr   *)
(* knows of owners only.                                                   *)
OwnersApart ==
  /\ \A f \in Fds : Owns(f) => file_descr[f] \in Descrs /\ FindsItsFile(f)
  /\ \A f, g \in Fds : Owns(f) /\ Owns(g) /\ file_descr[f] = file_descr[g] => f = g
  /\ \A f \in Fds : Alive(f) => fd_by_descr[file_descr[f]] = f
  /\ \A d \in Descrs, f \in Fds : fd_by_descr[d] = f => Alive(f) /\ file_descr[f] = d
  /\ \A f \in Fds : state[f] \in {"unborn", "opened"} => file[f] = f
  /\ \A f \in Fds : closing[f] # "none" => state[f] = "Closed"
  /\ \A f \in Fds : num_active_syscalls[f] > 0 => Alive(f)

(* An entry of the watcher, and one that handle_post has yet to see to, is *)
(* of an Fd.t that owns the entry's number, and its request asked for it.  *)
EntriesTrue ==
  /\ \A k \in Keys, f \in Fds : table[k].fd = f => Alive(f) /\ file_descr[f] = k[2]
  /\ \A k \in Keys : Watching(k) =>
       table[k].fd # NoFd /\ asked[table[k].request] = [fd |-> table[k].fd, rw |-> k[1]]
  /\ \A k \in watched : table[k].fd # NoFd
  /\ \A p \in post : p.entry.fd # NoFd
  /\ phase # "post" => post = {}
  /\ IsFiniteSet(post)

(* Where an Fd.t and a request are in the watcher.                         *)
KeysOf(f) == {k \in Keys : table[k].fd = f}
KeysFor(r) == {k \in Keys : table[k].request = r}
PostsFor(r) == {p \in post : p.entry.request = r}

(* A request that waits is in one place, any other in none.                *)
OnePlace ==
  \A r \in Requests :
    \/ answer[r] # "waiting" /\ KeysFor(r) = {} /\ PostsFor(r) = {}
    \/ answer[r] = "waiting" /\ PostsFor(r) = {} /\ \E k \in Keys : KeysFor(r) = {k}
    \/ answer[r] = "waiting" /\ KeysFor(r) = {} /\ \E p \in post : PostsFor(r) = {p}
ChosenOnly ==
  \A r \in Requests : answer[r] = "Interrupted" => interrupt[r] = "chosen"

IInv == /\ TypeOK /\ OwnersApart /\ EntriesTrue /\ CountsActive
        /\ OnePlace /\ ChosenOnly
-----------------------------------------------------------------------------
(* The initial states satisfy the inductive invariant.                     *)
LEMMA InitIInv == Init => IInv
<1> SUFFICES ASSUME Init PROVE IInv
  OBVIOUS
<1> USE FdAssumption DEF Init, NoEntry
<1>1. TypeOK
  BY DEF TypeOK, States, Stages, Entries, Answers, NoKey
<1>2. OwnersApart
  BY DEF OwnersApart, Owns, Alive
<1>3. EntriesTrue
  BY FS_EmptySet DEF EntriesTrue, Watching
<1>4. CountsActive
  <2> SUFFICES ASSUME NEW f \in Fds
               PROVE  num_active_syscalls[f] = syscalls[f] + Cardinality(OfPost(f))
                                                 + Cardinality({k \in Keys : table[k].fd = f})
    BY DEF CountsActive
  <2>1. OfPost(f) = {} /\ {k \in Keys : table[k].fd = f} = {}
    BY DEF OfPost
  <2>2. Cardinality(OfPost(f)) = 0 /\ Cardinality({k \in Keys : table[k].fd = f}) = 0
    BY <2>1, FS_EmptySet
  <2> QED
    BY <2>2
<1>5. OnePlace /\ ChosenOnly
  BY DEF OnePlace, KeysFor, PostsFor, ChosenOnly
<1> QED
  BY <1>1, <1>2, <1>3, <1>4, <1>5 DEF IInv
-----------------------------------------------------------------------------
(* An entry keeps its type when its request is dropped.                    *)
LEMMA EntryTypes ==
  ASSUME NEW e \in Entries
  PROVE  /\ e.fd \in Fds \cup {NoFd} /\ e.request \in Requests \cup {NoRequest}
         /\ [e EXCEPT !.request = NoRequest] \in Entries
         /\ [e EXCEPT !.request = NoRequest].fd = e.fd
         /\ [e EXCEPT !.request = NoRequest].request = NoRequest
BY DEF Entries

(* What request_stop_watching does: the watched entries S lose their       *)
(* requests, which are answered v.                                         *)
Stops(S, v) ==
  /\ table' \in [Keys -> Entries] /\ answer' \in [Requests -> Answers]
  /\ interrupted' \in BOOLEAN
  /\ \A k \in Keys :
       /\ table'[k].fd = table[k].fd
       /\ table'[k].request = IF k \in S THEN NoRequest ELSE table[k].request
  /\ \A r \in Requests :
       answer'[r] = IF \E k \in S : table[k].request = r THEN v ELSE answer[r]

LEMMA StopEffect ==
  ASSUME TypeOK, NEW S \in SUBSET Keys, NEW v \in Answers,
         table' = [k \in Keys |->
                     IF k \in S THEN [table[k] EXCEPT !.request = NoRequest] ELSE table[k]],
         answer' = [r \in Requests |->
                      IF \E k \in S : table[k].request = r THEN v ELSE answer[r]],
         interrupted' = (interrupted \/ MustWake(S))
  PROVE  Stops(S, v)
<1> USE DEF TypeOK
<1>1. \A k \in Keys : table[k] \in Entries
  OBVIOUS
<1>2. ASSUME NEW k \in Keys
      PROVE  /\ table'[k] \in Entries /\ table'[k].fd = table[k].fd
             /\ table'[k].request = IF k \in S THEN NoRequest ELSE table[k].request
  BY <1>1, EntryTypes
<1>3. table' \in [Keys -> Entries]
  BY <1>2
<1>4. answer' \in [Requests -> Answers]
  OBVIOUS
<1>5. interrupted' \in BOOLEAN
  BY DEF MustWake
<1>6. \A r \in Requests :
        answer'[r] = IF \E k \in S : table[k].request = r THEN v ELSE answer[r]
  OBVIOUS
<1> QED
  BY <1>2, <1>3, <1>4, <1>5, <1>6 DEF Stops

LEMMA CloseStops ==
  ASSUME TypeOK, OwnersApart, NEW f \in Fds, Close(f)
  PROVE  \E S \in SUBSET Keys : Stops(S, "Closed")
<1>1. file_descr[f] \in Descrs
  BY DEF OwnersApart, Owns, Alive, Close
<1>2. PICK S \in SUBSET Keys : S = {k \in ReadWrite \X {file_descr[f]} : Watching(k)}
  BY <1>1 DEF Keys
<1> QED
  BY <1>2, StopEffect DEF Close, StopWatching, Answers

(* Only its own entry is taken from a request that is interrupted.         *)
LEMMA InterruptedStops ==
  ASSUME TypeOK, OwnersApart, EntriesTrue, OnePlace,
         NEW r \in Requests, Interrupted(r), NotAnswered(r)
  PROVE  \E S \in SUBSET Keys :
           Stops(S, "Interrupted") /\ \A k \in S : table[k].request = r
<1>1. PICK k \in Keys : KeysFor(r) = {k}
  BY DEF OnePlace, EntriesTrue, NotAnswered, Interrupted, RunsJobs, PostsFor
<1>2. table[k].request = r
  BY <1>1 DEF KeysFor
<1>3. Watching(k)
  BY <1>2, FdAssumption DEF Watching
<1>4. PICK f \in Fds : f = table[k].fd /\ asked[r] = [fd |-> f, rw |-> k[1]]
  BY <1>2, <1>3 DEF EntriesTrue, TypeOK, Entries
<1>5. Key(asked[r].fd, asked[r].rw) = k
  BY <1>4 DEF EntriesTrue, Key, Keys
<1>6. {l \in {Key(asked[r].fd, asked[r].rw)} : Watching(l)} = {k}
  BY <1>3, <1>5
<1>7. Stops({k}, "Interrupted")
  BY <1>6, StopEffect DEF Interrupted, StopWatching, Answers, NotAnswered
<1> QED
  BY <1>2, <1>7
-----------------------------------------------------------------------------
(* What maybe_start_closing_fd does: the Fd.t's of C, which nobody uses    *)
(* any more, are on their way to be closed, and their numbers are out of   *)
(* fd_by_descr.                                                            *)
Starts(C) ==
  /\ state' \in [Fds -> States] /\ num_active_syscalls' \in [Fds -> Nat]
  /\ fd_by_descr' \in [Descrs -> Fds \cup {NoFd}] /\ closing' \in [Fds -> Stages]
  /\ \A f \in C : /\ Alive(f) /\ state'[f] = "Closed" /\ num_active_syscalls'[f] = 0
                  /\ closing'[f] \in {"shutdown", "close"}
  /\ \A f \in Fds \ C :
       /\ closing'[f] = closing[f]
       /\ state'[f] = state[f] \/ (state[f] = "Open" /\ state'[f] = "Close_requested")
  /\ \A f \in Fds : state'[f] = "Close_requested" => num_active_syscalls'[f] > 0
  /\ \A d \in Descrs :
       fd_by_descr'[d] = IF \E f \in C : file_descr[f] = d THEN NoFd ELSE fd_by_descr[d]

LEMMA StartEffect ==
  ASSUME TypeOK, NEW st \in [Fds -> States], NEW num \in [Fds -> Nat], NEW C \in SUBSET Fds,
         \A f \in C : Alive(f) /\ num[f] = 0,
         \A f \in Fds \ C : st[f] = "Close_requested" => num[f] > 0,
         \A f \in Fds \ C :
           st[f] = state[f] \/ (state[f] = "Open" /\ st[f] = "Close_requested"),
         num_active_syscalls' = num,
         state' = [f \in Fds |-> IF f \in C THEN "Closed" ELSE st[f]],
         fd_by_descr' = [d \in Descrs |->
                           IF \E f \in C : file_descr[f] = d THEN NoFd ELSE fd_by_descr[d]],
         closing' = [f \in Fds |-> IF f \notin C THEN closing[f]
                                   ELSE IF active_socket[f] THEN "shutdown" ELSE "close"]
  PROVE  Starts(C)
<1> USE DEF TypeOK
<1>1. state' \in [Fds -> States]
  BY DEF States
<1>2. closing' \in [Fds -> Stages]
  BY DEF Stages
<1>3. fd_by_descr' \in [Descrs -> Fds \cup {NoFd}]
  OBVIOUS
<1>4. \A f \in C : /\ Alive(f) /\ state'[f] = "Closed" /\ num_active_syscalls'[f] = 0
                   /\ closing'[f] \in {"shutdown", "close"}
  OBVIOUS
<1>5. \A f \in Fds \ C :
        /\ closing'[f] = closing[f]
        /\ state'[f] = state[f] \/ (state[f] = "Open" /\ state'[f] = "Close_requested")
  OBVIOUS
<1>6. \A f \in Fds : state'[f] = "Close_requested" => num_active_syscalls'[f] > 0
  OBVIOUS
<1>7. \A d \in Descrs :
        fd_by_descr'[d] = IF \E f \in C : file_descr[f] = d THEN NoFd ELSE fd_by_descr[d]
  OBVIOUS
<1> QED
  BY <1>1, <1>2, <1>3, <1>4, <1>5, <1>6, <1>7 DEF Starts

LEMMA CloseStarts ==
  ASSUME TypeOK, CountsActive, NEW f \in Fds, Close(f)
  PROVE  \E C \in SUBSET {f} : Starts(C)
<1>1. PICK st : st = [state EXCEPT ![f] = "Close_requested"]
  OBVIOUS
<1>2. PICK num : num = num_active_syscalls
  OBVIOUS
<1>3. PICK C \in SUBSET {f} : C = {g \in {f} : Closable(g, st, num)}
  OBVIOUS
<1>4. st \in [Fds -> States] /\ num \in [Fds -> Nat]
  BY <1>1, <1>2 DEF TypeOK, States
<1>5. \A g \in C : Alive(g) /\ num[g] = 0
  BY <1>3 DEF Closable, Close, Alive
<1>6. \A g \in Fds \ C : st[g] = "Close_requested" => num[g] > 0
  <2>1. \A g \in Fds : state[g] = "Close_requested" => num_active_syscalls[g] > 0
    BY DEF CountsActive
  <2> QED
    BY <1>1, <1>2, <1>3, <1>4, <2>1 DEF Closable, TypeOK
<1>7. \A g \in Fds \ C :
        st[g] = state[g] \/ (state[g] = "Open" /\ st[g] = "Close_requested")
  BY <1>1 DEF Close, TypeOK
<1>8. Close(f) => MaybeStartClosing({f}, st, num)
  BY <1>1, <1>2 DEF Close, MaybeStartClosing, Closable
<1> QED
  BY <1>3, <1>4, <1>5, <1>6, <1>7, <1>8, StartEffect DEF MaybeStartClosing

(* The terms of the count of active system calls are natural numbers.      *)
LEMMA CountsAreNat ==
  ASSUME TypeOK, IsFiniteSet(post), NEW f \in Fds
  PROVE  /\ IsFiniteSet(Keys)
         /\ IsFiniteSet(KeysOf(f)) /\ Cardinality(KeysOf(f)) \in Nat
         /\ IsFiniteSet(OfPost(f)) /\ Cardinality(OfPost(f)) \in Nat
<1>1. IsFiniteSet(Keys)
  BY FdAssumption, FS_Product DEF Keys
<1>2. KeysOf(f) \subseteq Keys /\ OfPost(f) \subseteq post
  BY DEF KeysOf, OfPost
<1> QED
  BY <1>1, <1>2, FS_Subset, FS_CardinalityType

LEMMA EndStarts ==
  ASSUME TypeOK, OwnersApart, CountsActive, IsFiniteSet(post), NEW f \in Fds, EndSyscall(f)
  PROVE  /\ num_active_syscalls[f] > 0
         /\ num_active_syscalls' = [num_active_syscalls EXCEPT ![f] = @ - 1]
         /\ \E C \in SUBSET {f} : Starts(C)
<1>1. num_active_syscalls[f] > 0
  <2>1. num_active_syscalls[f] = syscalls[f] + Cardinality(OfPost(f)) + Cardinality(KeysOf(f))
    BY DEF CountsActive, KeysOf
  <2> QED
    BY <2>1, CountsAreNat DEF TypeOK, EndSyscall
<1>2. PICK st : st = state
  OBVIOUS
<1>3. PICK num : num = [num_active_syscalls EXCEPT ![f] = @ - 1]
  OBVIOUS
<1>4. PICK C \in SUBSET {f} : C = {g \in {f} : Closable(g, st, num)}
  OBVIOUS
<1>5. st \in [Fds -> States] /\ num \in [Fds -> Nat]
  BY <1>1, <1>2, <1>3 DEF TypeOK
<1>6. \A g \in C : Alive(g) /\ num[g] = 0
  BY <1>2, <1>4 DEF Closable, Alive
<1>7. \A g \in Fds \ C : st[g] = "Close_requested" => num[g] > 0
  <2>1. \A g \in Fds : state[g] = "Close_requested" => num_active_syscalls[g] > 0
    BY DEF CountsActive
  <2> QED
    BY <1>2, <1>3, <1>4, <1>5, <2>1 DEF Closable, TypeOK
<1>8. EndSyscall(f) => MaybeStartClosing({f}, st, num)
  BY <1>2, <1>3 DEF EndSyscall, MaybeStartClosing, Closable
<1>9. \E D \in SUBSET {f} : Starts(D)
  BY <1>2, <1>4, <1>5, <1>6, <1>7, <1>8, StartEffect DEF MaybeStartClosing
<1> QED
  BY <1>1, <1>3, <1>8, <1>9 DEF MaybeStartClosing

LEMMA PostStarts ==
  ASSUME TypeOK, OwnersApart, EntriesTrue, CountsActive, HandlePost
  PROVE  /\ \A f \in Fds : /\ num_active_syscalls'[f] =
                                num_active_syscalls[f] - Cardinality(OfPost(f))
                           /\ num_active_syscalls'[f] \in Nat
         /\ \E C \in SUBSET Fds : Starts(C)
<1>1. PICK num : num = [f \in Fds |-> num_active_syscalls[f] - Cardinality(OfPost(f))]
  OBVIOUS
<1>2. PICK st : st = state
  OBVIOUS
<1>3. PICK fs : fs = {p.entry.fd : p \in post}
  OBVIOUS
<1>4. fs \subseteq Fds
  BY <1>3 DEF EntriesTrue, TypeOK, Entries
<1>5. PICK C \in SUBSET Fds : C = {f \in fs : Closable(f, st, num)}
  BY <1>4
<1>6. ASSUME NEW f \in Fds
      PROVE  num[f] \in Nat /\ (f \notin fs => num[f] = num_active_syscalls[f])
  <2>1. num_active_syscalls[f] = syscalls[f] + Cardinality(OfPost(f)) + Cardinality(KeysOf(f))
    BY DEF CountsActive, KeysOf
  <2>2. /\ Cardinality(OfPost(f)) \in Nat /\ Cardinality(KeysOf(f)) \in Nat
        /\ syscalls[f] \in Nat /\ num_active_syscalls[f] \in Nat
    BY CountsAreNat DEF TypeOK, EntriesTrue
  <2>3. f \notin fs => OfPost(f) = {}
    BY <1>3 DEF OfPost
  <2>4. f \notin fs => Cardinality(OfPost(f)) = 0
    BY <2>3, FS_EmptySet
  <2>5. num[f] = num_active_syscalls[f] - Cardinality(OfPost(f))
    BY <1>1
  <2> QED
    BY <2>1, <2>2, <2>4, <2>5
<1>7. st \in [Fds -> States] /\ num \in [Fds -> Nat]
  BY <1>1, <1>2, <1>6 DEF TypeOK
<1>8. \A f \in C : Alive(f) /\ num[f] = 0
  BY <1>2, <1>5 DEF Closable, Alive
<1>9. \A f \in Fds \ C : st[f] = "Close_requested" => num[f] > 0
  <2>1. \A f \in Fds : state[f] = "Close_requested" => num_active_syscalls[f] > 0
    BY DEF CountsActive
  <2> QED
    BY <1>2, <1>5, <1>6, <2>1 DEF Closable
<1>10. HandlePost => MaybeStartClosing(fs, st, num)
  BY <1>1, <1>2, <1>3 DEF HandlePost, MaybeStartClosing, Closable
<1>11. \E D \in SUBSET Fds : Starts(D)
  <2>1. /\ num_active_syscalls' = num
        /\ state' = [h \in Fds |-> IF h \in C THEN "Closed" ELSE st[h]]
        /\ fd_by_descr' = [d \in Descrs |->
              IF \E h \in C : file_descr[h] = d THEN NoFd ELSE fd_by_descr[d]]
        /\ closing' = [h \in Fds |-> IF h \notin C THEN closing[h]
                                     ELSE IF active_socket[h] THEN "shutdown" ELSE "close"]
    BY <1>5, <1>10 DEF MaybeStartClosing
  <2>2. \A h \in Fds \ C :
          st[h] = state[h] \/ (state[h] = "Open" /\ st[h] = "Close_requested")
    BY <1>2 DEF TypeOK
  <2>3. C \in SUBSET Fds /\ Starts(C)
    BY <2>1, <2>2, <1>7, <1>8, <1>9, StartEffect
  <2> QED BY <2>3
<1>12. num_active_syscalls' = num
  BY <1>10 DEF MaybeStartClosing
<1> QED
  BY <1>1, <1>6, <1>11, <1>12
-----------------------------------------------------------------------------
(* The types of the parts that few actions change.                         *)
FdTypes == /\ state \in [Fds -> States] /\ file_descr \in [Fds -> Descrs \cup {NoDescr}]
           /\ num_active_syscalls \in [Fds -> Nat] /\ active_socket \in [Fds -> BOOLEAN]
           /\ file \in [Fds -> Fds] /\ close_finished \in [Fds -> BOOLEAN]
           /\ closing \in [Fds -> Stages] /\ syscalls \in [Fds -> Nat]
DescrTypes == /\ fd_by_descr \in [Descrs -> Fds \cup {NoFd}]
              /\ open_file \in [Descrs -> Fds \cup {NoFd}]
WatcherTypes == /\ table \in [Keys -> Entries] /\ interrupted \in BOOLEAN
                /\ phase \in {"cycle", "selecting", "post"} /\ watched \subseteq Keys
                /\ post \subseteq [rw : ReadWrite, entry : Entries]
RequestTypes ==
  /\ asked \in [Requests -> [fd : Fds \cup {NoFd}, rw : ReadWrite \cup {NoRequest}]]
  /\ answer \in [Requests -> Answers]
  /\ interrupt \in [Requests -> {"never", "determined", "chosen"}]

LEMMA TypeParts == TypeOK <=> FdTypes /\ DescrTypes /\ WatcherTypes /\ RequestTypes
BY DEF TypeOK, FdTypes, DescrTypes, WatcherTypes, RequestTypes

(* Every step keeps the types.                                             *)
LEMMA TypeStep ==
  TypeOK /\ OwnersApart /\ EntriesTrue /\ CountsActive /\ OnePlace /\ [Next]_vars => TypeOK'
<1> SUFFICES ASSUME TypeOK, OwnersApart, EntriesTrue, CountsActive, OnePlace, [Next]_vars
             PROVE  TypeOK'
  OBVIOUS
<1> USE DEF fdVars, closeVars, loopVars, requestVars
<1>0. FdTypes /\ DescrTypes /\ WatcherTypes /\ RequestTypes
  BY TypeParts
<1>1. (FdTypes /\ DescrTypes /\ WatcherTypes /\ RequestTypes)' => TypeOK'
  BY TypeParts, PTL
<1>2. CASE UNCHANGED vars
  BY <1>2 DEF vars, TypeOK
<1>3. ASSUME NEW f \in Fds, NEW d \in Descrs, OpenFile(f, d) PROVE TypeOK'
  BY <1>3 DEF TypeOK, OpenFile, States
<1>4. ASSUME NEW f \in Fds, NEW kind \in BOOLEAN, Create(f, kind) PROVE TypeOK'
  BY <1>4 DEF TypeOK, Create, States
<1>5. ASSUME NEW f \in Fds, NEW g \in Fds, NEW kind \in BOOLEAN, Replace(f, g, kind)
      PROVE  TypeOK'
  <2>1. FdTypes'
    BY <1>5 DEF TypeOK, FdTypes, Replace, States
  <2>2. DescrTypes' /\ WatcherTypes' /\ RequestTypes'
    BY <1>5, <1>0 DEF DescrTypes, WatcherTypes, RequestTypes, Replace
  <2> QED
    BY <1>1, <2>1, <2>2
<1>6. ASSUME NEW f \in Fds, Close(f) PROVE TypeOK'
  <2>1. PICK S \in SUBSET Keys : Stops(S, "Closed")
    BY <1>6, CloseStops
  <2>2. PICK C \in SUBSET {f} : Starts(C)
    BY <1>6, CloseStarts
  <2>3. FdTypes'
    BY <1>0, <1>6, <2>2 DEF Close, FdTypes, Starts
  <2>4. DescrTypes'
    BY <1>0, <1>6, <2>2 DEF Close, DescrTypes, Starts
  <2>5. WatcherTypes' /\ RequestTypes'
    BY <1>0, <1>6, <2>1 DEF Close, WatcherTypes, RequestTypes, Stops
  <2> QED
    BY <1>1, <2>3, <2>4, <2>5
<1>7. ASSUME NEW f \in Fds, BeginSyscall(f) PROVE TypeOK'
  BY <1>7 DEF TypeOK, BeginSyscall
<1>8. ASSUME NEW f \in Fds, EndSyscall(f) PROVE TypeOK'
  <2>1. PICK C \in SUBSET {f} : Starts(C)
    BY <1>8, EndStarts DEF EntriesTrue
  <2>2. syscalls' \in [Fds -> Nat]
    BY <1>8 DEF EndSyscall, TypeOK
  <2>3. FdTypes'
    BY <1>0, <1>8, <2>1, <2>2 DEF EndSyscall, FdTypes, Starts
  <2>4. DescrTypes' /\ WatcherTypes' /\ RequestTypes'
    BY <1>0, <1>8, <2>1 DEF EndSyscall, DescrTypes, WatcherTypes, RequestTypes, Starts
  <2> QED
    BY <1>1, <2>3, <2>4
<1>9. ASSUME NEW r \in Requests, NEW f \in Fds, NEW rw \in ReadWrite, ReadyTo(r, f, rw)
      PROVE  TypeOK'
  <2>1. FdTypes' /\ DescrTypes'
    BY <1>0, <1>9 DEF ReadyTo, FdTypes, DescrTypes
  <2>2. table' \in [Keys -> Entries] /\ interrupted' \in BOOLEAN
    <3>1. [fd |-> f, request |-> r] \in Entries
      BY DEF Entries
    <3>2. CASE UNCHANGED <<table, interrupted>>
      BY <1>0, <3>2 DEF WatcherTypes
    <3>3. CASE /\ table' = [table EXCEPT ![Key(f, rw)] = [fd |-> f, request |-> r]]
               /\ interrupted' = TRUE
      <4>1. ASSUME NEW e \in Entries, table' = [table EXCEPT ![Key(f, rw)] = e]
            PROVE  table' \in [Keys -> Entries]
        BY <1>0, <4>1 DEF WatcherTypes
      <4> QED
        BY <3>1, <3>3, <4>1
    <3> QED
      BY <1>9, <3>2, <3>3 DEF ReadyTo
  <2>3. WatcherTypes'
    BY <1>0, <1>9, <2>2 DEF ReadyTo, WatcherTypes
  <2>4. RequestTypes'
    BY <1>0, <1>9 DEF ReadyTo, RequestTypes, Answers
  <2> QED
    BY <1>1, <2>1, <2>3, <2>4
<1>10. ASSUME NEW r \in Requests, Interrupt(r) PROVE TypeOK'
  BY <1>10 DEF TypeOK, Interrupt
<1>11. ASSUME NEW r \in Requests, Interrupted(r) PROVE TypeOK'
  <2>1. FdTypes' /\ DescrTypes' /\ UNCHANGED <<asked, loopVars>>
    BY <1>0, <1>11 DEF Interrupted, FdTypes, DescrTypes
  <2>2. interrupt' \in [Requests -> {"never", "determined", "chosen"}]
    BY <1>0, <1>11 DEF Interrupted, RequestTypes
  <2>3. CASE NotAnswered(r)
    <3>1. PICK S \in SUBSET Keys : Stops(S, "Interrupted")
      BY <1>11, <2>3, InterruptedStops
    <3> QED
      BY <1>0, <1>1, <2>1, <2>2, <3>1 DEF WatcherTypes, RequestTypes, Stops
  <2>4. CASE ~NotAnswered(r)
    BY <1>0, <1>1, <1>11, <2>1, <2>2, <2>4 DEF Interrupted, WatcherTypes, RequestTypes
  <2> QED
    BY <2>3, <2>4
<1>12. CASE PreCheck
  BY <1>12 DEF TypeOK, PreCheck
<1>13. ASSUME NEW ready \in SUBSET watched, PostCheck(ready) PROVE TypeOK'
  <2>1. \A k \in Keys : [rw |-> k[1], entry |-> table[k]] \in [rw : ReadWrite, entry : Entries]
    BY <1>0 DEF WatcherTypes, Keys
  <2>2. post' \subseteq [rw : ReadWrite, entry : Entries]
    BY <1>13, <2>1 DEF PostCheck
  <2>3. table' \in [Keys -> Entries]
    BY <1>0, <1>13 DEF PostCheck, WatcherTypes, Entries, NoEntry
  <2> QED
    BY <1>0, <1>1, <1>13, <2>2, <2>3
       DEF PostCheck, FdTypes, DescrTypes, WatcherTypes, RequestTypes
<1>14. CASE HandlePost
  <2>1. PICK C \in SUBSET Fds : Starts(C)
    BY <1>14, PostStarts
  <2>2. answer' \in [Requests -> Answers]
    BY <1>0, <1>14 DEF HandlePost, RequestTypes, Answers
  <2>3. FdTypes' /\ DescrTypes'
    BY <1>0, <1>14, <2>1 DEF HandlePost, FdTypes, DescrTypes, Starts
  <2>4. WatcherTypes' /\ RequestTypes'
    BY <1>0, <1>14, <2>2 DEF HandlePost, WatcherTypes, RequestTypes
  <2> QED
    BY <1>1, <2>3, <2>4
<1>15. ASSUME NEW f \in Fds, Closer(f) PROVE TypeOK'
  BY <1>15 DEF TypeOK, Closer, Shutdown, OsClose, CloseFinish, Stages
<1> QED
  BY <1>2, <1>3, <1>4, <1>5, <1>6, <1>7, <1>8, <1>9, <1>10, <1>11, <1>12, <1>13, <1>14, <1>15
     DEF Next
-----------------------------------------------------------------------------
(* A number keeps one owner.                                               *)
LEMMA StartsOwners ==
  ASSUME TypeOK, OwnersApart, NEW C \in SUBSET Fds, Starts(C),
         UNCHANGED <<file_descr, file, open_file>>,
         \A f \in Fds : num_active_syscalls'[f] <= num_active_syscalls[f]
  PROVE  OwnersApart'
<1> USE DEF TypeOK, Starts
<1>1. \A f \in Fds : Alive(f)' => Alive(f) /\ f \notin C
  BY DEF Alive
<1>2. \A f \in Fds : Owns(f)' <=> Owns(f)
  <2>1. \A f \in C : Owns(f)' /\ Owns(f)
    BY DEF Owns
  <2>2. \A f \in Fds \ C : Owns(f)' <=> Owns(f)
    BY DEF Owns, Alive
  <2> QED
    BY <2>1, <2>2
<1>3. \A f \in Fds : Owns(f)' => file_descr'[f] \in Descrs /\ FindsItsFile(f)'
  BY <1>2 DEF OwnersApart, FindsItsFile
<1>4. \A f, g \in Fds : Owns(f)' /\ Owns(g)' /\ file_descr'[f] = file_descr'[g] => f = g
  BY <1>2 DEF OwnersApart
<1>5. \A f \in Fds : Alive(f)' => fd_by_descr'[file_descr'[f]] = f
  BY <1>1 DEF OwnersApart, Owns
<1>6. \A d \in Descrs, f \in Fds : fd_by_descr'[d] = f => Alive(f)' /\ file_descr'[f] = d
  <2>1. ASSUME NEW d \in Descrs, NEW f \in Fds, fd_by_descr'[d] = f
        PROVE  Alive(f)' /\ file_descr'[f] = d
    <3>1. fd_by_descr[d] = f
      BY <2>1, FdAssumption
    <3>2. Alive(f) /\ file_descr[f] = d
      BY <3>1 DEF OwnersApart
    <3>3. f \notin C
      BY <2>1, <3>2, FdAssumption
    <3> QED
      BY <3>2, <3>3 DEF Alive
  <2> QED
    BY <2>1
<1>7. \A f \in Fds : state'[f] \in {"unborn", "opened"} => file'[f] = f
  <2>1. \A f \in Fds : state'[f] \in {"unborn", "opened"} => state[f] = state'[f]
    OBVIOUS
  <2> QED
    BY <2>1 DEF OwnersApart
<1>8. \A f \in Fds : closing'[f] # "none" => state'[f] = "Closed"
  BY DEF OwnersApart
<1>9. \A f \in Fds : num_active_syscalls'[f] > 0 => Alive(f)'
  <2>1. ASSUME NEW f \in Fds, num_active_syscalls'[f] > 0 PROVE Alive(f)'
    <3>1. f \notin C /\ num_active_syscalls[f] > 0
      BY <2>1
    <3>2. Alive(f)
      BY <3>1 DEF OwnersApart
    <3> QED
      BY <3>1, <3>2 DEF Alive
  <2> QED
    BY <2>1
<1> QED
  BY <1>3, <1>4, <1>5, <1>6, <1>7, <1>8, <1>9 DEF OwnersApart

LEMMA OwnersStep ==
  TypeOK /\ OwnersApart /\ EntriesTrue /\ CountsActive /\ OnePlace /\ [Next]_vars => OwnersApart'
<1> SUFFICES ASSUME TypeOK, OwnersApart, EntriesTrue, CountsActive, OnePlace, [Next]_vars
             PROVE  OwnersApart'
  OBVIOUS
<1> USE DEF fdVars, closeVars, loopVars, requestVars
<1>1. CASE UNCHANGED <<state, file_descr, num_active_syscalls, file, closing, fd_by_descr, open_file>>
  BY <1>1 DEF OwnersApart, Owns, Alive, FindsItsFile
<1>2. ASSUME NEW f \in Fds, state[f] = "Open",
             num_active_syscalls' = [num_active_syscalls EXCEPT ![f] = @ + 1],
             UNCHANGED <<state, file_descr, file, closing, fd_by_descr, open_file>>
      PROVE  OwnersApart'
  BY <1>2 DEF OwnersApart, Owns, Alive, FindsItsFile, TypeOK
<1>3. ASSUME NEW f \in Fds, NEW d \in Descrs, OpenFile(f, d) PROVE OwnersApart'
  <2>1. /\ state[f] = "unborn" /\ open_file[d] = NoFd /\ file[f] = f /\ closing[f] = "none"
        /\ ~Alive(f)
    BY <1>3 DEF OpenFile, OwnersApart, Alive
  <2>2. /\ state' = [state EXCEPT ![f] = "opened"]
        /\ file_descr' = [file_descr EXCEPT ![f] = d]
        /\ open_file' = [open_file EXCEPT ![d] = f]
        /\ UNCHANGED <<file, closing, fd_by_descr, num_active_syscalls>>
    BY <1>3 DEF OpenFile
  <2>3. \A g \in Fds : Owns(g) => file_descr[g] # d
    BY <2>1, FdAssumption DEF OwnersApart, FindsItsFile, TypeOK
  <2>4. \A g \in Fds \ {f} : /\ Owns(g)' <=> Owns(g)
                             /\ Alive(g)' <=> Alive(g)
                             /\ file_descr'[g] = file_descr[g] /\ state'[g] = state[g]
    BY <2>2 DEF Owns, Alive, TypeOK
  <2>5. state'[f] = "opened" /\ file_descr'[f] = d /\ open_file'[d] = f /\ ~Alive(f)'
    BY <2>2 DEF TypeOK, Alive
  <2>6. \A e \in Descrs \ {d} : open_file'[e] = open_file[e]
    BY <2>2 DEF TypeOK
  <2>7. \A g \in Fds : Owns(g)' => file_descr'[g] \in Descrs /\ FindsItsFile(g)'
    BY <2>1, <2>2, <2>3, <2>4, <2>5, <2>6 DEF OwnersApart, FindsItsFile
  <2>8. \A g, h \in Fds : Owns(g)' /\ Owns(h)' /\ file_descr'[g] = file_descr'[h] => g = h
    BY <2>3, <2>4, <2>5 DEF OwnersApart
  <2>9. \A g \in Fds : Alive(g)' => fd_by_descr'[file_descr'[g]] = g
    BY <2>2, <2>4, <2>5 DEF OwnersApart
  <2>10. \A e \in Descrs, g \in Fds : fd_by_descr'[e] = g => Alive(g)' /\ file_descr'[g] = e
    BY <2>1, <2>2, <2>4 DEF OwnersApart
  <2>11. /\ \A g \in Fds : state'[g] \in {"unborn", "opened"} => file'[g] = g
         /\ \A g \in Fds : closing'[g] # "none" => state'[g] = "Closed"
         /\ \A g \in Fds : num_active_syscalls'[g] > 0 => Alive(g)'
    BY <2>1, <2>2, <2>4, <2>5 DEF OwnersApart
  <2> QED
    BY <2>7, <2>8, <2>9, <2>10, <2>11 DEF OwnersApart
<1>4. ASSUME NEW f \in Fds, NEW kind \in BOOLEAN, Create(f, kind) PROVE OwnersApart'
  <2>1. state[f] = "opened" /\ Owns(f) /\ ~Alive(f)
    BY <1>4 DEF Create, Owns, Alive
  <2>2. /\ state' = [state EXCEPT ![f] = "Open"]
        /\ fd_by_descr' = [fd_by_descr EXCEPT ![file_descr[f]] = f]
        /\ UNCHANGED <<file_descr, file, closing, open_file, num_active_syscalls>>
    BY <1>4 DEF Create
  <2>3. PICK d \in Descrs : file_descr[f] = d
    BY <2>1 DEF OwnersApart
  <2>4. /\ \A g \in Fds : (Owns(g)' <=> Owns(g)) /\ (Alive(g)' <=> Alive(g) \/ g = f)
        /\ \A g \in Fds \ {f} : state'[g] = state[g]
    BY <2>1, <2>2 DEF Owns, Alive, TypeOK
  <2>5. fd_by_descr'[d] = f /\ \A e \in Descrs \ {d} : fd_by_descr'[e] = fd_by_descr[e]
    BY <2>2, <2>3 DEF TypeOK
  <2>6. \A g \in Fds : Owns(g)' => file_descr'[g] \in Descrs /\ FindsItsFile(g)'
    BY <2>2, <2>4 DEF OwnersApart, FindsItsFile
  <2>7. \A g, h \in Fds : Owns(g)' /\ Owns(h)' /\ file_descr'[g] = file_descr'[h] => g = h
    BY <2>2, <2>4 DEF OwnersApart
  <2>8. \A g \in Fds : Alive(g)' => fd_by_descr'[file_descr'[g]] = g
    <3>1. ASSUME NEW g \in Fds \ {f}, Alive(g)
          PROVE  file_descr[g] \in Descrs \ {d} /\ fd_by_descr[file_descr[g]] = g
      BY <2>1, <2>3, <3>1 DEF OwnersApart, Owns
    <3> QED
      BY <2>2, <2>3, <2>4, <2>5, <3>1
  <2>9. \A e \in Descrs, g \in Fds : fd_by_descr'[e] = g => Alive(g)' /\ file_descr'[g] = e
    BY <2>2, <2>3, <2>4, <2>5 DEF OwnersApart
  <2>10. /\ \A g \in Fds : state'[g] \in {"unborn", "opened"} => file'[g] = g
         /\ \A g \in Fds : closing'[g] # "none" => state'[g] = "Closed"
         /\ \A g \in Fds : num_active_syscalls'[g] > 0 => Alive(g)'
    BY <2>1, <2>2, <2>4 DEF OwnersApart, TypeOK
  <2> QED
    BY <2>6, <2>7, <2>8, <2>9, <2>10 DEF OwnersApart
<1>5. ASSUME NEW f \in Fds, NEW g \in Fds, NEW kind \in BOOLEAN, Replace(f, g, kind)
      PROVE  OwnersApart'
  <2>1. /\ state[f] = "Open" /\ num_active_syscalls[f] = 0 /\ state[g] = "unborn" /\ f # g
        /\ Owns(f) /\ Alive(f) /\ ~Alive(g) /\ closing[f] = "none" /\ closing[g] = "none"
        /\ ~(num_active_syscalls[g] > 0)
    BY <1>5 DEF Replace, OwnersApart, Owns, Alive
  <2>2. /\ state' = [state EXCEPT ![f] = "Replaced", ![g] = "Open"]
        /\ file_descr' = [file_descr EXCEPT ![g] = file_descr[f]]
        /\ file' = [file EXCEPT ![g] = file[f]]
        /\ fd_by_descr' = [fd_by_descr EXCEPT ![file_descr[f]] = g]
        /\ UNCHANGED <<closing, open_file, num_active_syscalls>>
    BY <1>5 DEF Replace
  <2>3. PICK d \in Descrs : file_descr[f] = d
    BY <2>1 DEF OwnersApart
  <2>4. /\ state'[f] = "Replaced" /\ state'[g] = "Open"
        /\ file_descr'[g] = d /\ file'[g] = file[f] /\ file_descr'[f] = d
        /\ \A h \in Fds \ {f, g} : state'[h] = state[h]
        /\ \A h \in Fds \ {g} : file_descr'[h] = file_descr[h] /\ file'[h] = file[h]
        /\ fd_by_descr'[d] = g /\ \A e \in Descrs \ {d} : fd_by_descr'[e] = fd_by_descr[e]
    BY <2>1, <2>2, <2>3 DEF TypeOK
  <2>5. /\ ~Owns(f)' /\ ~Alive(f)' /\ Owns(g)' /\ Alive(g)'
        /\ \A h \in Fds \ {f, g} : (Owns(h)' <=> Owns(h)) /\ (Alive(h)' <=> Alive(h))
    BY <2>1, <2>2, <2>4 DEF Owns, Alive
  <2>6. \A h \in Fds \ {f, g} : Owns(h) => file_descr[h] # d
    BY <2>1, <2>3 DEF OwnersApart
  <2>7. \A h \in Fds : Owns(h)' => file_descr'[h] \in Descrs /\ FindsItsFile(h)'
    BY <2>1, <2>2, <2>3, <2>4, <2>5 DEF OwnersApart, FindsItsFile
  <2>8. \A h, i \in Fds : Owns(h)' /\ Owns(i)' /\ file_descr'[h] = file_descr'[i] => h = i
    BY <2>4, <2>5, <2>6 DEF OwnersApart
  <2>9. \A h \in Fds : Alive(h)' => fd_by_descr'[file_descr'[h]] = h
    <3>1. ASSUME NEW h \in Fds \ {f, g}, Alive(h)
          PROVE  file_descr[h] \in Descrs \ {d} /\ fd_by_descr[file_descr[h]] = h
      BY <2>6, <3>1 DEF OwnersApart, Owns
    <3> QED
      BY <2>4, <2>5, <3>1
  <2>10. \A e \in Descrs, h \in Fds : fd_by_descr'[e] = h => Alive(h)' /\ file_descr'[h] = e
    <3>1. ASSUME NEW e \in Descrs \ {d}, NEW h \in Fds, fd_by_descr[e] = h
          PROVE  h \notin {f, g} /\ Alive(h) /\ file_descr[h] = e
      BY <2>1, <2>3, <3>1 DEF OwnersApart
    <3> QED
      BY <2>4, <2>5, <3>1
  <2>11. \A h \in Fds : state'[h] \in {"unborn", "opened"} => file'[h] = h
    BY <2>4 DEF OwnersApart
  <2>12. \A h \in Fds : closing'[h] # "none" => state'[h] = "Closed"
    <3>1. \A h \in Fds : closing[h] # "none" => state[h] = "Closed"
      BY DEF OwnersApart
    <3>2. \A h \in Fds : closing'[h] = closing[h]
      BY <2>2
    <3> QED
      BY <2>1, <2>4, <3>1, <3>2
  <2>13. \A h \in Fds : num_active_syscalls'[h] > 0 => Alive(h)'
    BY <2>1, <2>2, <2>5 DEF OwnersApart
  <2> QED
    BY <2>7, <2>8, <2>9, <2>10, <2>11, <2>12, <2>13 DEF OwnersApart
<1>6. ASSUME NEW f \in Fds, Close(f) PROVE OwnersApart'
  <2>1. PICK C \in SUBSET {f} : Starts(C)
    BY <1>6, CloseStarts
  <2>2. UNCHANGED <<file_descr, file, open_file, num_active_syscalls>>
    BY <1>6 DEF Close, MaybeStartClosing
  <2> QED
    BY <2>1, <2>2, StartsOwners DEF TypeOK
<1>7. ASSUME NEW f \in Fds, EndSyscall(f) PROVE OwnersApart'
  <2>1. PICK C \in SUBSET {f} : Starts(C)
    BY <1>7, EndStarts DEF EntriesTrue
  <2>2. UNCHANGED <<file_descr, file, open_file>>
    BY <1>7 DEF EndSyscall
  <2>3. num_active_syscalls' = [num_active_syscalls EXCEPT ![f] = @ - 1]
    BY <1>7, EndStarts DEF EntriesTrue
  <2>4. \A g \in Fds : num_active_syscalls'[g] <= num_active_syscalls[g]
    BY <2>3 DEF TypeOK
  <2> QED
    BY <2>1, <2>2, <2>4, StartsOwners
<1>8. CASE HandlePost
  <2>1. PICK C \in SUBSET Fds : Starts(C)
    BY <1>8, PostStarts
  <2>2. UNCHANGED <<file_descr, file, open_file>>
    BY <1>8 DEF HandlePost
  <2>3. ASSUME NEW g \in Fds PROVE num_active_syscalls'[g] <= num_active_syscalls[g]
    <3>1. num_active_syscalls'[g] = num_active_syscalls[g] - Cardinality(OfPost(g))
      BY <1>8, PostStarts
    <3>2. Cardinality(OfPost(g)) \in Nat /\ num_active_syscalls[g] \in Nat
      BY CountsAreNat DEF EntriesTrue, TypeOK
    <3> QED
      BY <3>1, <3>2
  <2> QED
    BY <2>1, <2>2, <2>3, StartsOwners
<1>9. ASSUME NEW f \in Fds, Shutdown(f) \/ CloseFinish(f) PROVE OwnersApart'
  <2>1. /\ UNCHANGED <<state, file_descr, file, fd_by_descr, open_file, num_active_syscalls>>
        /\ \A g \in Fds : /\ closing'[g] \in {"shutdown", "close"}
                               <=> closing[g] \in {"shutdown", "close"}
                          /\ closing'[g] # "none" => closing[g] # "none"
    BY <1>9 DEF Shutdown, CloseFinish, TypeOK
  <2> QED
    BY <2>1 DEF OwnersApart, Owns, Alive, FindsItsFile
<1>10. ASSUME NEW f \in Fds, OsClose(f) PROVE OwnersApart'
  <2>1. closing[f] = "close" /\ state[f] = "Closed" /\ Owns(f) /\ ~Alive(f)
    BY <1>10 DEF OsClose, OwnersApart, Owns, Alive
  <2>2. /\ open_file' = [open_file EXCEPT ![file_descr[f]] = NoFd]
        /\ closing' = [closing EXCEPT ![f] = "closed"]
        /\ UNCHANGED <<state, file_descr, file, fd_by_descr, num_active_syscalls>>
    BY <1>10 DEF OsClose
  <2>3. PICK d \in Descrs : file_descr[f] = d
    BY <2>1 DEF OwnersApart
  <2>4. /\ \A e \in Descrs \ {d} : open_file'[e] = open_file[e]
        /\ closing'[f] = "closed" /\ \A g \in Fds \ {f} : closing'[g] = closing[g]
    BY <2>2, <2>3 DEF TypeOK
  <2>5. \A g \in Fds : (Owns(g)' <=> Owns(g) /\ g # f) /\ (Alive(g)' <=> Alive(g))
    BY <2>1, <2>2, <2>4 DEF Owns, Alive
  <2>6. \A g \in Fds : Owns(g)' => file_descr[g] \in Descrs \ {d}
    BY <2>1, <2>3, <2>5 DEF OwnersApart
  <2>7. \A g \in Fds : Owns(g)' => file_descr'[g] \in Descrs /\ FindsItsFile(g)'
    BY <2>2, <2>4, <2>5, <2>6 DEF OwnersApart, FindsItsFile
  <2>8. \A g, h \in Fds : Owns(g)' /\ Owns(h)' /\ file_descr'[g] = file_descr'[h] => g = h
    BY <2>2, <2>5 DEF OwnersApart
  <2>9. /\ \A g \in Fds : Alive(g)' => fd_by_descr'[file_descr'[g]] = g
        /\ \A g \in Fds : state'[g] \in {"unborn", "opened"} => file'[g] = g
        /\ \A g \in Fds : closing'[g] # "none" => state'[g] = "Closed"
        /\ \A g \in Fds : num_active_syscalls'[g] > 0 => Alive(g)'
    BY <2>1, <2>2, <2>4, <2>5 DEF OwnersApart
  <2>10. \A e \in Descrs, h \in Fds : fd_by_descr'[e] = h => Alive(h)' /\ file_descr'[h] = e
    BY <2>2, <2>5 DEF OwnersApart
  <2> QED
    BY <2>7, <2>8, <2>9, <2>10 DEF OwnersApart
<1>11. ASSUME NEW f \in Fds, BeginSyscall(f) PROVE OwnersApart'
  BY <1>2, <1>11 DEF BeginSyscall
<1>12. ASSUME NEW r \in Requests, NEW f \in Fds, NEW rw \in ReadWrite, ReadyTo(r, f, rw)
       PROVE  OwnersApart'
  BY <1>1, <1>2, <1>12 DEF ReadyTo
<1>13. ASSUME NEW r \in Requests, Interrupt(r) \/ Interrupted(r) PROVE OwnersApart'
  BY <1>1, <1>13 DEF Interrupt, Interrupted
<1>14. ASSUME NEW ready \in SUBSET watched, PreCheck \/ PostCheck(ready) PROVE OwnersApart'
  BY <1>1, <1>14 DEF PreCheck, PostCheck
<1>15. CASE UNCHANGED vars
  BY <1>1, <1>15 DEF vars
<1>16. {} \in SUBSET watched
  OBVIOUS
<1> QED
  BY <1>3, <1>4, <1>5, <1>6, <1>7, <1>8, <1>9, <1>10, <1>11, <1>12, <1>13, <1>14, <1>15, <1>16
     DEF Next, Closer
-----------------------------------------------------------------------------
(* The count of active system calls.                                       *)
Counted(f) ==
  num_active_syscalls[f] = syscalls[f] + Cardinality(OfPost(f)) + Cardinality(KeysOf(f))
OthersCount(f) ==
  /\ state[f] = "Close_requested" => num_active_syscalls[f] > 0
  /\ close_finished[f] => state[f] = "Closed"

LEMMA CountsParts == CountsActive <=> \A f \in Fds : Counted(f) /\ OthersCount(f)
BY DEF CountsActive, Counted, OthersCount, KeysOf

(* An Fd.t that is in the watcher or in post is alive.                     *)
LEMMA WatchedAlive ==
  ASSUME TypeOK, OwnersApart, CountsActive, IsFiniteSet(post), NEW f \in Fds,
         KeysOf(f) # {} \/ OfPost(f) # {}
  PROVE  Alive(f)
<1>1. Counted(f)
  BY CountsParts
<1>2. Cardinality(KeysOf(f)) > 0 \/ Cardinality(OfPost(f)) > 0
  BY CountsAreNat, FS_EmptySet
<1>3. num_active_syscalls[f] > 0
  BY <1>1, <1>2, CountsAreNat DEF Counted, TypeOK
<1> QED
  BY <1>3 DEF OwnersApart

(* The entries of an Fd.t that post_check removes are as many as the ones  *)
(* that it returns: the number tells two of them apart.                    *)
Taken(tab, S) == {[rw |-> k[1], entry |-> tab[k]] : k \in S}
OfOne(tab, S, f, d) == \A k \in S : tab[k].fd = f /\ k[2] = d

LEMMA AsManyRemoved ==
  ASSUME NEW tab \in [Keys -> Entries], NEW S \in SUBSET Keys, NEW f, NEW d,
         OfOne(tab, S, f, d)
  PROVE  IsFiniteSet(Taken(tab, S)) /\ Cardinality(Taken(tab, S)) = Cardinality(S)
<1> USE DEF OfOne, Taken
<1> DEFINE T == {[rw |-> k[1], entry |-> tab[k]] : k \in S}
           F == [k \in S |-> [rw |-> k[1], entry |-> tab[k]]]
<1>1. IsFiniteSet(S)
  BY FdAssumption, FS_Product, FS_Subset DEF Keys
<1>2. F \in [S -> T]
  OBVIOUS
<1>3. \A k, l \in S : F[k] = F[l] => k = l
  <2>1. ASSUME NEW k \in S, NEW l \in S, F[k] = F[l] PROVE k = l
    <3>1. F[k].rw = k[1] /\ F[l].rw = l[1]
      OBVIOUS
    <3>2. k[1] = l[1] /\ k[2] = l[2]
      BY <2>1, <3>1
    <3> QED
      BY <3>2 DEF Keys
  <2> QED
    BY <2>1
<1>4. \A t \in T : \E k \in S : F[k] = t
  OBVIOUS
<1>5. F \in Bijection(S, T)
  <2>1. DOMAIN F = S
    OBVIOUS
  <2> HIDE DEF F, T
  <2> QED
    BY <1>2, <1>3, <1>4, <2>1 DEF Bijection, Injection, Surjection, IsInjective
<1>6. ExistsBijection(S, T)
  BY <1>5 DEF ExistsBijection
<1> QED
  BY <1>1, <1>6, FS_Bijection

(* Steps after which the same entries and calls count.                     *)
LEMMA SameCount ==
  ASSUME CountsActive, UNCHANGED <<num_active_syscalls, syscalls, post>>,
         \A k \in Keys : table'[k].fd = table[k].fd,
         NEW f \in Fds
  PROVE  Counted(f)'
<1>1. KeysOf(f)' = KeysOf(f) /\ OfPost(f)' = OfPost(f)
  BY DEF KeysOf, OfPost
<1> QED
  BY <1>1, CountsParts DEF Counted

LEMMA RemovedCount ==
  ASSUME TypeOK, EntriesTrue, CountsActive, NEW ready \in SUBSET watched, PostCheck(ready),
         NEW f \in Fds
  PROVE  Counted(f)'
<1>1. PICK tab \in [Keys -> Entries] : tab = table
  BY DEF TypeOK
<1>2. PICK S \in SUBSET Keys : S = {k \in Keys : Removed(k, ready) /\ table[k].fd = f}
  OBVIOUS
<1>3. PICK K \in SUBSET Keys : K = KeysOf(f)
  BY DEF KeysOf
<1>4. \A k \in S : tab[k].fd = f /\ k[2] = file_descr[f]
  BY <1>1, <1>2 DEF EntriesTrue
<1>5. PICK T : T = {[rw |-> k[1], entry |-> tab[k]] : k \in S}
  OBVIOUS
<1>6. Cardinality(T) = Cardinality(S)
  <2>1. PICK d : d = file_descr[f]
    OBVIOUS
  <2>2. OfOne(tab, S, f, d)
    BY <1>4, <2>1 DEF OfOne
  <2>3. Cardinality(Taken(tab, S)) = Cardinality(S)
    BY <2>2, AsManyRemoved
  <2> QED BY <1>5, <2>3 DEF Taken
<1>7. OfPost(f)' = T
  <2>1. post' = {[rw |-> k[1], entry |-> tab[k]] : k \in {k \in Keys : Removed(k, ready)}}
    BY <1>1 DEF PostCheck
  <2>2. ASSUME NEW p \in OfPost(f)' PROVE p \in T
    <3>1. p \in post' /\ p.entry.fd = f
      BY <2>2 DEF OfPost
    <3>2. PICK k \in Keys : Removed(k, ready) /\ p = [rw |-> k[1], entry |-> tab[k]]
      BY <2>1, <3>1
    <3>3. k \in S
      BY <1>1, <1>2, <3>1, <3>2
    <3> QED BY <1>5, <3>2, <3>3
  <2>3. ASSUME NEW p \in T PROVE p \in OfPost(f)'
    <3>1. PICK k \in S : p = [rw |-> k[1], entry |-> tab[k]]
      BY <1>5, <2>3
    <3>2. k \in Keys /\ Removed(k, ready) /\ tab[k].fd = f
      BY <1>1, <1>2
    <3> QED BY <2>1, <3>1, <3>2 DEF OfPost
  <2> QED BY <2>2, <2>3
<1>8. KeysOf(f)' = K \ S
  BY <1>2, <1>3, FdAssumption DEF PostCheck, KeysOf, NoEntry
<1>9. OfPost(f) = {}
  BY DEF PostCheck, EntriesTrue, OfPost
<1>10. IsFiniteSet(K) /\ IsFiniteSet(S) /\ Cardinality(K) \in Nat /\ Cardinality(S) \in Nat
  BY <1>3, CountsAreNat, FS_Subset, FS_CardinalityType DEF EntriesTrue
<1>11. K \cap S = S
  BY <1>2, <1>3 DEF KeysOf
<1>12. Cardinality(K \ S) = Cardinality(K) - Cardinality(S)
  BY <1>10, <1>11, FS_Difference
<1>13. num_active_syscalls[f] = syscalls[f] + Cardinality(K)
  <2>1. num_active_syscalls[f] = syscalls[f] + Cardinality(OfPost(f)) + Cardinality(KeysOf(f))
    BY CountsParts DEF Counted
  <2>2. Cardinality(OfPost(f)) = 0
    BY <1>9, FS_EmptySet
  <2> QED
    BY <1>3, <1>10, <2>1, <2>2 DEF TypeOK
<1>14. UNCHANGED <<num_active_syscalls, syscalls>>
  BY DEF PostCheck, fdVars
<1>15. Cardinality(OfPost(f)') = Cardinality(S)
        /\ Cardinality(KeysOf(f)') = Cardinality(K) - Cardinality(S)
  BY <1>6, <1>7, <1>8, <1>12
<1>16. num_active_syscalls'[f] = syscalls'[f] + Cardinality(OfPost(f)') + Cardinality(KeysOf(f)')
  BY <1>10, <1>13, <1>14, <1>15 DEF TypeOK
<1> QED
  BY <1>16 DEF Counted
LEMMA CountStep ==
  TypeOK /\ OwnersApart /\ EntriesTrue /\ CountsActive /\ OnePlace /\ [Next]_vars
    => \A f \in Fds : Counted(f)'
<1> SUFFICES ASSUME TypeOK, OwnersApart, EntriesTrue, CountsActive, OnePlace, [Next]_vars,
                    NEW f \in Fds
             PROVE  Counted(f)'
  OBVIOUS
<1> USE DEF fdVars, closeVars, loopVars, requestVars
<1>0. /\ num_active_syscalls[f] = syscalls[f] + Cardinality(OfPost(f)) + Cardinality(KeysOf(f))
      /\ num_active_syscalls[f] \in Nat /\ syscalls[f] \in Nat
      /\ Cardinality(KeysOf(f)) \in Nat /\ Cardinality(OfPost(f)) \in Nat
  BY CountsParts, CountsAreNat DEF Counted, EntriesTrue, TypeOK
<1>1. CASE UNCHANGED <<num_active_syscalls, syscalls, post, table>>
  BY <1>1, SameCount
<1>2. ASSUME NEW g \in Fds, Close(g) PROVE Counted(f)'
  <2>1. PICK S \in SUBSET Keys : Stops(S, "Closed")
    BY <1>2, CloseStops
  <2>2. UNCHANGED <<num_active_syscalls, syscalls, post>>
    BY <1>2 DEF Close, MaybeStartClosing
  <2> QED
    BY <2>1, <2>2, SameCount DEF Stops
<1>3. ASSUME NEW r \in Requests, Interrupted(r) PROVE Counted(f)'
  <2>1. UNCHANGED <<num_active_syscalls, syscalls, post>>
    BY <1>3 DEF Interrupted
  <2>2. CASE NotAnswered(r)
    <3>1. PICK S \in SUBSET Keys : Stops(S, "Interrupted")
      BY <1>3, <2>2, InterruptedStops
    <3> QED
      BY <2>1, <3>1, SameCount DEF Stops
  <2>3. CASE ~NotAnswered(r)
    BY <1>1, <1>3, <2>1, <2>3 DEF Interrupted
  <2> QED
    BY <2>2, <2>3
<1>4. ASSUME NEW g \in Fds, BeginSyscall(g) PROVE Counted(f)'
  <2>1. KeysOf(f)' = KeysOf(f) /\ OfPost(f)' = OfPost(f)
    BY <1>4 DEF BeginSyscall, KeysOf, OfPost
  <2>2. /\ num_active_syscalls' = [num_active_syscalls EXCEPT ![g] = @ + 1]
        /\ syscalls' = [syscalls EXCEPT ![g] = @ + 1]
    BY <1>4 DEF BeginSyscall
  <2>3. num_active_syscalls'[f] - syscalls'[f] = num_active_syscalls[f] - syscalls[f]
    BY <2>2 DEF TypeOK
  <2>4. num_active_syscalls'[f] \in Nat /\ syscalls'[f] \in Nat
    BY <2>2 DEF TypeOK
  <2> QED
    BY <1>0, <2>1, <2>3, <2>4 DEF Counted
<1>5. ASSUME NEW g \in Fds, EndSyscall(g) PROVE Counted(f)'
  <2>1. KeysOf(f)' = KeysOf(f) /\ OfPost(f)' = OfPost(f)
    BY <1>5 DEF EndSyscall, KeysOf, OfPost
  <2>2. /\ num_active_syscalls' = [num_active_syscalls EXCEPT ![g] = @ - 1]
        /\ syscalls' = [syscalls EXCEPT ![g] = @ - 1]
    BY <1>5, EndStarts DEF EndSyscall, EntriesTrue
  <2>3. num_active_syscalls'[f] - syscalls'[f] = num_active_syscalls[f] - syscalls[f]
    BY <2>2 DEF TypeOK
  <2>4. num_active_syscalls'[f] \in Int /\ syscalls'[f] \in Int
    BY <2>2 DEF TypeOK
  <2> QED
    BY <1>0, <2>1, <2>3, <2>4 DEF Counted
<1>6. ASSUME NEW r \in Requests, NEW g \in Fds, NEW rw \in ReadWrite, ReadyTo(r, g, rw)
      PROVE  Counted(f)'
  <2>1. UNCHANGED <<syscalls, post, file_descr>> /\ OfPost(f)' = OfPost(f)
    BY <1>6 DEF ReadyTo, OfPost
  <2>2. CASE UNCHANGED <<num_active_syscalls, table>>
    BY <1>1, <2>1, <2>2
  <2>3. CASE state[g] = "Open" /\ table[Key(g, rw)].fd = NoFd
    <3>1. PICK k \in Keys : k = Key(g, rw)
      BY <2>3 DEF Key, Keys, OwnersApart, Owns, Alive
    <3>2. /\ table[k].fd = NoFd
          /\ num_active_syscalls' = [num_active_syscalls EXCEPT ![g] = @ + 1]
          /\ table' = [table EXCEPT ![k] = [fd |-> g, request |-> r]]
      BY <1>6, <2>3, <3>1 DEF ReadyTo
    <3>3. table'[k].fd = g /\ \A l \in Keys \ {k} : table'[l] = table[l]
      BY <3>2 DEF TypeOK
    <3>4. CASE f = g
      <4>1. k \notin KeysOf(f) /\ KeysOf(f)' = KeysOf(f) \cup {k}
        BY <3>2, <3>3, <3>4, FdAssumption DEF KeysOf
      <4>2. Cardinality(KeysOf(f)') = Cardinality(KeysOf(f)) + 1
        BY <4>1, CountsAreNat, FS_AddElement DEF EntriesTrue
      <4>3. num_active_syscalls'[f] = num_active_syscalls[f] + 1
        BY <3>2, <3>4 DEF TypeOK
      <4> QED
        BY <1>0, <2>1, <4>2, <4>3 DEF Counted
    <3>5. CASE f # g
      <4>1. KeysOf(f)' = KeysOf(f)
        BY <3>2, <3>3, <3>5, FdAssumption DEF KeysOf
      <4>2. num_active_syscalls'[f] = num_active_syscalls[f]
        BY <3>2, <3>5 DEF TypeOK
      <4> QED
        BY <1>0, <2>1, <4>1, <4>2 DEF Counted
    <3> QED
      BY <3>4, <3>5
  <2> QED
    BY <1>6, <2>2, <2>3 DEF ReadyTo
<1>7. ASSUME NEW ready \in SUBSET watched, PostCheck(ready) PROVE Counted(f)'
  BY <1>7, RemovedCount
<1>8. CASE HandlePost
  <2>1. KeysOf(f)' = KeysOf(f) /\ OfPost(f)' = {} /\ syscalls' = syscalls
    BY <1>8 DEF HandlePost, KeysOf, OfPost
  <2>2. num_active_syscalls'[f] = num_active_syscalls[f] - Cardinality(OfPost(f))
    BY <1>8, PostStarts
  <2>3. Cardinality(OfPost(f)') = 0
    BY <2>1, FS_EmptySet
  <2>4. num_active_syscalls'[f] = syscalls'[f] + Cardinality(OfPost(f)') + Cardinality(KeysOf(f)')
    BY <1>0, <2>1, <2>2, <2>3
  <2> QED
    BY <2>4 DEF Counted
<1>9. ASSUME NEW g \in Fds, \/ \E d \in Descrs : OpenFile(g, d)
                            \/ \E kind \in BOOLEAN : Create(g, kind)
                            \/ \E kind \in BOOLEAN, h \in Fds : Replace(g, h, kind)
                            \/ Closer(g)
      PROVE  Counted(f)'
  BY <1>1, <1>9 DEF OpenFile, Create, Replace, Closer, Shutdown, OsClose, CloseFinish
<1>10. ASSUME NEW r \in Requests, Interrupt(r) PROVE Counted(f)'
  BY <1>1, <1>10 DEF Interrupt
<1>11. CASE PreCheck \/ UNCHANGED vars
  BY <1>1, <1>11 DEF PreCheck, vars
<1> QED
  BY <1>2, <1>3, <1>4, <1>5, <1>6, <1>7, <1>8, <1>9, <1>10, <1>11 DEF Next

(* A descriptor to be closed is in use, and its closing is finished only   *)
(* when it is closed.                                                      *)
LEMMA OthersCountStep ==
  TypeOK /\ OwnersApart /\ EntriesTrue /\ CountsActive /\ [Next]_vars
    => \A f \in Fds : OthersCount(f)'
<1> SUFFICES ASSUME TypeOK, OwnersApart, EntriesTrue, CountsActive, [Next]_vars, NEW f \in Fds
             PROVE  OthersCount(f)'
  OBVIOUS
<1> USE DEF fdVars, closeVars, loopVars, requestVars
<1>0. OthersCount(f)
  BY CountsParts
<1>1. ASSUME NEW C \in SUBSET Fds, Starts(C), UNCHANGED close_finished PROVE OthersCount(f)'
  BY <1>0, <1>1 DEF OthersCount, Starts, Alive
<1>2. ASSUME NEW g \in Fds, Close(g) \/ EndSyscall(g) PROVE OthersCount(f)'
  <2>1. \E C \in SUBSET Fds : Starts(C)
    BY <1>2, CloseStarts, EndStarts DEF EntriesTrue
  <2> QED
    BY <1>1, <1>2, <2>1 DEF Close, EndSyscall
<1>3. CASE HandlePost
  <2>1. \E C \in SUBSET Fds : Starts(C)
    BY <1>3, PostStarts
  <2> QED
    BY <1>1, <1>3, <2>1 DEF HandlePost
<1>4. CASE UNCHANGED <<state, num_active_syscalls, close_finished>>
  BY <1>0, <1>4 DEF OthersCount
<1>5. ASSUME NEW g \in Fds, state[g] = "Open", UNCHANGED <<state, close_finished>>,
             num_active_syscalls' = [num_active_syscalls EXCEPT ![g] = @ + 1]
      PROVE  OthersCount(f)'
  BY <1>0, <1>5 DEF OthersCount, TypeOK
<1>6. ASSUME NEW g \in Fds, BeginSyscall(g) PROVE OthersCount(f)'
  BY <1>5, <1>6 DEF BeginSyscall
<1>7. ASSUME NEW r \in Requests, NEW g \in Fds, NEW rw \in ReadWrite, ReadyTo(r, g, rw)
      PROVE  OthersCount(f)'
  BY <1>4, <1>5, <1>7 DEF ReadyTo
<1>8. ASSUME NEW g \in Fds, \/ \E d \in Descrs : OpenFile(g, d)
                            \/ \E kind \in BOOLEAN : Create(g, kind)
      PROVE  OthersCount(f)'
  BY <1>0, <1>8 DEF OpenFile, Create, OthersCount, TypeOK
<1>9. ASSUME NEW g \in Fds, NEW h \in Fds, NEW kind \in BOOLEAN, Replace(g, h, kind)
      PROVE  OthersCount(f)'
  BY <1>0, <1>9 DEF Replace, OthersCount, TypeOK
<1>10. ASSUME NEW g \in Fds, Shutdown(g) \/ OsClose(g) PROVE OthersCount(f)'
  BY <1>4, <1>10 DEF Shutdown, OsClose
<1>11. ASSUME NEW g \in Fds, CloseFinish(g) PROVE OthersCount(f)'
  <2>1. state[g] = "Closed"
    BY <1>11 DEF CloseFinish, OwnersApart
  <2> QED
    BY <1>0, <1>11, <2>1 DEF CloseFinish, OthersCount, TypeOK
<1>12. ASSUME NEW r \in Requests, Interrupt(r) \/ Interrupted(r) PROVE OthersCount(f)'
  BY <1>4, <1>12 DEF Interrupt, Interrupted
<1>13. ASSUME NEW ready \in SUBSET watched, PostCheck(ready) PROVE OthersCount(f)'
  BY <1>4, <1>13 DEF PostCheck
<1>14. CASE PreCheck \/ UNCHANGED vars
  BY <1>4, <1>14 DEF PreCheck, vars
<1> QED
  BY <1>2, <1>3, <1>6, <1>7, <1>8, <1>9, <1>10, <1>11, <1>12, <1>13, <1>14 DEF Next, Closer
-----------------------------------------------------------------------------
(* What the entries say.  Alive follows from the count.                    *)
LEMMA AllAlive ==
  TypeOK /\ OwnersApart /\ CountsActive /\ IsFiniteSet(post)
    => \A k \in Keys, f \in Fds : table[k].fd = f => Alive(f)
<1> SUFFICES ASSUME TypeOK, OwnersApart, CountsActive, IsFiniteSet(post),
                    NEW k \in Keys, NEW f \in Fds, table[k].fd = f
             PROVE  Alive(f)
  OBVIOUS
<1>1. KeysOf(f) # {}
  BY DEF KeysOf
<1> QED
  BY <1>1, WatchedAlive

OfNumber == \A k \in Keys, f \in Fds : table[k].fd = f => file_descr[f] = k[2]
Asked == \A k \in Keys : Watching(k) =>
           table[k].fd # NoFd /\ asked[table[k].request] = [fd |-> table[k].fd, rw |-> k[1]]
PostTrue == /\ \A k \in watched : table[k].fd # NoFd
            /\ \A p \in post : p.entry.fd # NoFd
            /\ phase # "post" => post = {}
            /\ IsFiniteSet(post)

LEMMA EntriesParts ==
  TypeOK /\ OwnersApart /\ CountsActive => (EntriesTrue <=> OfNumber /\ Asked /\ PostTrue)
BY AllAlive DEF EntriesTrue, OfNumber, Asked, PostTrue

(* post_check returns finitely many entries.                               *)
LEMMA RemovedFinite ==
  ASSUME NEW tab, NEW S \in SUBSET Keys
  PROVE  IsFiniteSet({[rw |-> k[1], entry |-> tab[k]] : k \in S})
<1> DEFINE T == {[rw |-> k[1], entry |-> tab[k]] : k \in S}
           F == [k \in S |-> [rw |-> k[1], entry |-> tab[k]]]
<1>1. IsFiniteSet(S)
  BY FdAssumption, FS_Product, FS_Subset DEF Keys
<1>2. F \in Surjection(S, T)
  BY DEF Surjection
<1> QED
  BY <1>1, <1>2, FS_Surjection

LEMMA EntriesStep ==
  TypeOK /\ OwnersApart /\ EntriesTrue /\ CountsActive /\ OnePlace /\ [Next]_vars
    => OfNumber' /\ Asked' /\ PostTrue'
<1> SUFFICES ASSUME TypeOK, OwnersApart, EntriesTrue, CountsActive, OnePlace, [Next]_vars
             PROVE  OfNumber' /\ Asked' /\ PostTrue'
  OBVIOUS
<1> USE DEF fdVars, closeVars, loopVars, requestVars
<1>0. OfNumber /\ Asked /\ PostTrue
  BY EntriesParts
<1>1. ASSUME UNCHANGED <<table, asked, watched, post, phase>>,
             \A f \in Fds : Alive(f) => file_descr'[f] = file_descr[f]
      PROVE  OfNumber' /\ Asked' /\ PostTrue'
  BY <1>0, <1>1 DEF EntriesTrue, OfNumber, Asked, PostTrue, Watching
<1>2. ASSUME NEW S \in SUBSET Keys, NEW v \in Answers, Stops(S, v),
             UNCHANGED <<asked, watched, post, phase, file_descr>>
      PROVE  OfNumber' /\ Asked' /\ PostTrue'
  <2>1. OfNumber'
    BY <1>0, <1>2 DEF OfNumber, Stops
  <2>2. Asked'
    BY <1>0, <1>2 DEF Asked, Stops, Watching
  <2>3. PostTrue'
    BY <1>0, <1>2 DEF PostTrue, Stops, TypeOK
  <2> QED
    BY <2>1, <2>2, <2>3
<1>3. ASSUME NEW f \in Fds, Close(f) PROVE OfNumber' /\ Asked' /\ PostTrue'
  <2>1. PICK S \in SUBSET Keys : Stops(S, "Closed")
    BY <1>3, CloseStops
  <2> QED
    BY <1>2, <1>3, <2>1 DEF Close, Answers
<1>4. ASSUME NEW r \in Requests, Interrupted(r) PROVE OfNumber' /\ Asked' /\ PostTrue'
  <2>1. CASE NotAnswered(r)
    <3>1. PICK S \in SUBSET Keys : Stops(S, "Interrupted")
      BY <1>4, <2>1, InterruptedStops
    <3> QED
      BY <1>2, <1>4, <3>1 DEF Interrupted, Answers
  <2>2. CASE ~NotAnswered(r)
    BY <1>1, <1>4, <2>2 DEF Interrupted
  <2> QED
    BY <2>1, <2>2
<1>5. ASSUME NEW r \in Requests, NEW f \in Fds, NEW rw \in ReadWrite, ReadyTo(r, f, rw)
      PROVE  OfNumber' /\ Asked' /\ PostTrue'
  <2>1. /\ UNCHANGED <<file_descr, post, phase, watched>>
        /\ asked' = [asked EXCEPT ![r] = [fd |-> f, rw |-> rw]]
        /\ answer[r] = "unasked"
    BY <1>5 DEF ReadyTo
  <2>2. \A k \in Keys : table[k].request # r
    BY <2>1 DEF OnePlace, KeysFor
  <2>3. \A q \in Requests \ {r} : asked'[q] = asked[q]
    BY <2>1 DEF TypeOK
  <2>4. \A k \in Keys : Watching(k) => table[k].request \in Requests \ {r}
    BY <2>2, EntryTypes DEF Watching, TypeOK
  <2>5. CASE UNCHANGED table
    BY <1>0, <2>1, <2>3, <2>4, <2>5 DEF OfNumber, Asked, PostTrue, Watching
  <2>6. CASE state[f] = "Open" /\ table[Key(f, rw)].fd = NoFd
    <3>1. PICK k \in Keys : k = Key(f, rw)
      BY <2>6 DEF Key, Keys, OwnersApart, Owns, Alive
    <3>2. table[k].fd = NoFd /\ table' = [table EXCEPT ![k] = [fd |-> f, request |-> r]]
      BY <1>5, <2>6, <3>1 DEF ReadyTo
    <3>3. /\ table'[k].fd = f /\ table'[k].request = r
          /\ \A l \in Keys \ {k} : table'[l] = table[l]
      BY <3>2 DEF TypeOK
    <3>4. k[1] = rw /\ k[2] = file_descr[f]
      BY <3>1 DEF Key
    <3>5. OfNumber'
      BY <1>0, <2>1, <3>3, <3>4 DEF OfNumber
    <3>6. asked'[r] = [fd |-> f, rw |-> rw]
      BY <2>1 DEF TypeOK
    <3>7. Asked'
      BY <1>0, <2>3, <2>4, <3>3, <3>4, <3>6, FdAssumption DEF Asked, Watching
    <3>8. PostTrue'
      BY <1>0, <2>1, <3>2, <3>3, FdAssumption DEF PostTrue, TypeOK
    <3> QED
      BY <3>5, <3>7, <3>8
  <2> QED
    BY <1>5, <2>5, <2>6 DEF ReadyTo
<1>6. CASE PreCheck
  <2>1. /\ UNCHANGED <<table, asked, post, file_descr>> /\ post = {} /\ IsFiniteSet(post)
        /\ watched' = {k \in Keys : Watching(k)}
    BY <1>0, <1>6 DEF PreCheck, PostTrue
  <2>2. OfNumber' /\ Asked'
    BY <1>0, <2>1 DEF OfNumber, Asked, Watching
  <2>3. PostTrue'
    BY <1>0, <2>1 DEF Asked, PostTrue
  <2> QED
    BY <2>2, <2>3
<1>7. ASSUME NEW ready \in SUBSET watched, PostCheck(ready) PROVE OfNumber' /\ Asked' /\ PostTrue'
  <2>1. PICK S \in SUBSET Keys : S = {k \in Keys : Removed(k, ready)}
    OBVIOUS
  <2>2. PICK tab : tab = table
    OBVIOUS
  <2>3. /\ post' = {[rw |-> k[1], entry |-> tab[k]] : k \in S}
        /\ \A k \in Keys : table'[k] = IF k \in S THEN NoEntry ELSE table[k]
        /\ UNCHANGED <<asked, file_descr>> /\ phase' = "post" /\ watched' = {}
    BY <1>7, <2>1, <2>2 DEF PostCheck
  <2>4. OfNumber'
    BY <1>0, <2>3, FdAssumption DEF OfNumber, NoEntry
  <2>5. Asked'
    BY <1>0, <2>3 DEF Asked, Watching, NoEntry
  <2>6. \A k \in S : tab[k].fd # NoFd
    BY <1>0, <2>1, <2>2 DEF Removed, Stopping, PostTrue
  <2>7. \A p \in post' : p.entry.fd # NoFd
    BY <2>3, <2>6
  <2>8. IsFiniteSet(post')
    BY <2>3, RemovedFinite
  <2>9. PostTrue'
    BY <2>3, <2>7, <2>8 DEF PostTrue
  <2> QED
    BY <2>4, <2>5, <2>9
<1>8. CASE HandlePost
  <2>1. UNCHANGED <<table, asked, file_descr, watched>> /\ post' = {} /\ phase' = "cycle"
    BY <1>8 DEF HandlePost
  <2>2. OfNumber' /\ Asked'
    BY <1>0, <2>1 DEF OfNumber, Asked, Watching
  <2>3. PostTrue'
    BY <1>0, <2>1, FS_EmptySet DEF PostTrue
  <2> QED
    BY <2>2, <2>3
<1>9. ASSUME NEW f \in Fds, NEW d \in Descrs, OpenFile(f, d)
      PROVE  OfNumber' /\ Asked' /\ PostTrue'
  BY <1>1, <1>9 DEF OpenFile, Alive, TypeOK
<1>10. ASSUME NEW f \in Fds, NEW g \in Fds, NEW kind \in BOOLEAN, Replace(f, g, kind)
       PROVE  OfNumber' /\ Asked' /\ PostTrue'
  BY <1>1, <1>10 DEF Replace, Alive, TypeOK
<1>11. ASSUME NEW f \in Fds,
              BeginSyscall(f) \/ EndSyscall(f) \/ Closer(f) \/ \E kind \in BOOLEAN : Create(f, kind)
       PROVE  OfNumber' /\ Asked' /\ PostTrue'
  BY <1>1, <1>11 DEF BeginSyscall, EndSyscall, Closer, Shutdown, OsClose, CloseFinish, Create
<1>12. ASSUME NEW r \in Requests, Interrupt(r) PROVE OfNumber' /\ Asked' /\ PostTrue'
  BY <1>1, <1>12 DEF Interrupt
<1>13. CASE UNCHANGED vars
  BY <1>1, <1>13 DEF vars
<1> QED
  BY <1>3, <1>4, <1>5, <1>6, <1>7, <1>8, <1>9, <1>10, <1>11, <1>12, <1>13 DEF Next
-----------------------------------------------------------------------------
(* Where a request is.                                                     *)
Placed(r) ==
  \/ answer[r] # "waiting" /\ KeysFor(r) = {} /\ PostsFor(r) = {}
  \/ answer[r] = "waiting" /\ PostsFor(r) = {} /\ \E k \in Keys : KeysFor(r) = {k}
  \/ answer[r] = "waiting" /\ KeysFor(r) = {} /\ \E p \in post : PostsFor(r) = {p}

LEMMA PlacedEach == OnePlace <=> \A r \in Requests : Placed(r)
BY DEF OnePlace, Placed

LEMMA PlaceStep ==
  TypeOK /\ OwnersApart /\ EntriesTrue /\ CountsActive /\ OnePlace /\ [Next]_vars => OnePlace'
<1> SUFFICES ASSUME TypeOK, OwnersApart, EntriesTrue, CountsActive, OnePlace, [Next]_vars,
                    NEW r \in Requests
             PROVE  Placed(r)'
  BY DEF OnePlace, Placed
<1> USE DEF fdVars, closeVars, loopVars, requestVars
<1>0. Placed(r)
  BY PlacedEach
<1>1. CASE UNCHANGED <<answer, table, post>>
  BY <1>0, <1>1 DEF Placed, KeysFor, PostsFor
<1>2. ASSUME NEW S \in SUBSET Keys, NEW v, v # "waiting", Stops(S, v), UNCHANGED post
      PROVE  Placed(r)'
  <2>1. PostsFor(r)' = PostsFor(r)
    BY <1>2 DEF PostsFor
  <2>2. CASE \E k \in S : table[k].request = r
    <3>1. PICK k \in S : table[k].request = r
      BY <2>2
    <3>2. KeysFor(r) = {k} /\ PostsFor(r) = {}
      BY <1>0, <3>1 DEF Placed, KeysFor
    <3>3. answer'[r] = v
      BY <1>2, <3>1 DEF Stops
    <3>4. \A l \in Keys : table'[l].request = r => l \in KeysFor(r) /\ l \notin S
      BY <1>2, FdAssumption DEF Stops, KeysFor
    <3>5. KeysFor(r)' = {}
      BY <3>1, <3>2, <3>4 DEF KeysFor
    <3> QED
      BY <1>2, <2>1, <3>2, <3>3, <3>5 DEF Placed
  <2>3. CASE ~\E k \in S : table[k].request = r
    <3>1. answer'[r] = answer[r]
      BY <1>2, <2>3 DEF Stops
    <3>2. KeysFor(r)' = KeysFor(r)
      BY <1>2, <2>3, FdAssumption DEF Stops, KeysFor
    <3> QED
      BY <1>0, <1>2, <2>1, <3>1, <3>2 DEF Placed
  <2> QED
    BY <2>2, <2>3
<1>3. ASSUME NEW f \in Fds, Close(f) PROVE Placed(r)'
  <2>1. PICK S \in SUBSET Keys : Stops(S, "Closed")
    BY <1>3, CloseStops
  <2> QED
    BY <1>2, <1>3, <2>1 DEF Close
<1>4. ASSUME NEW q \in Requests, Interrupted(q) PROVE Placed(r)'
  <2>1. CASE NotAnswered(q)
    <3>1. PICK S \in SUBSET Keys : Stops(S, "Interrupted")
      BY <1>4, <2>1, InterruptedStops
    <3> QED
      BY <1>2, <1>4, <3>1 DEF Interrupted
  <2>2. CASE ~NotAnswered(q)
    BY <1>1, <1>4, <2>2 DEF Interrupted
  <2> QED
    BY <2>1, <2>2
<1>5. ASSUME NEW q \in Requests, NEW f \in Fds, NEW rw \in ReadWrite, ReadyTo(q, f, rw)
      PROVE  Placed(r)'
  <2>1. answer[q] = "unasked" /\ UNCHANGED post
    BY <1>5 DEF ReadyTo
  <2>2. PostsFor(r)' = PostsFor(r)
    BY <2>1 DEF PostsFor
  <2>3. r = q => KeysFor(r) = {} /\ PostsFor(r) = {}
    BY <1>0, <2>1 DEF Placed
  <2>4. CASE UNCHANGED table
    <3>1. answer' = [answer EXCEPT ![q] = "Closed"] \/ answer' = [answer EXCEPT ![q] = "raised"]
      <4>1. state[f] = "Open" /\ table[Key(f, rw)].fd = NoFd => table' # table
        <5>1. ASSUME state[f] = "Open", table[Key(f, rw)].fd = NoFd PROVE table' # table
          <6>1. Key(f, rw) \in Keys
            BY <5>1 DEF Key, Keys, OwnersApart, Owns, Alive
          <6>2. table' = [table EXCEPT ![Key(f, rw)] = [fd |-> f, request |-> q]]
            BY <1>5, <5>1 DEF ReadyTo
          <6>3. table'[Key(f, rw)].fd = f
            BY <6>1, <6>2 DEF TypeOK
          <6> QED
            BY <5>1, <6>3, FdAssumption
        <5> QED
          BY <5>1
      <4> QED
        BY <1>5, <2>4, <4>1 DEF ReadyTo
    <3>2. KeysFor(r)' = KeysFor(r)
      BY <2>4 DEF KeysFor
    <3>3. IF r = q THEN answer'[r] # "waiting" ELSE answer'[r] = answer[r]
      BY <3>1 DEF TypeOK
    <3> QED
      BY <1>0, <2>1, <2>2, <2>3, <3>2, <3>3 DEF Placed
  <2>5. CASE state[f] = "Open" /\ table[Key(f, rw)].fd = NoFd
    <3>1. PICK k \in Keys : k = Key(f, rw)
      BY <2>5 DEF Key, Keys, OwnersApart, Owns, Alive
    <3>2. /\ table[k].fd = NoFd
          /\ table' = [table EXCEPT ![k] = [fd |-> f, request |-> q]]
          /\ answer' = [answer EXCEPT ![q] = "waiting"]
      BY <1>5, <2>5, <3>1 DEF ReadyTo
    <3>3. table'[k].request = q /\ \A l \in Keys \ {k} : table'[l] = table[l]
      BY <3>2 DEF TypeOK
    <3>4. k \notin KeysFor(r)
      BY <3>2, FdAssumption DEF KeysFor, EntriesTrue, Watching
    <3>5. CASE r = q
      <4>1. KeysFor(r)' = {k}
        BY <2>3, <3>3, <3>5 DEF KeysFor
      <4>2. answer'[r] = "waiting"
        BY <3>2, <3>5 DEF TypeOK
      <4> QED
        BY <2>2, <2>3, <3>5, <4>1, <4>2 DEF Placed
    <3>6. CASE r # q
      <4>1. KeysFor(r)' = KeysFor(r)
        BY <3>3, <3>4, <3>6 DEF KeysFor
      <4>2. answer'[r] = answer[r]
        BY <3>2, <3>6 DEF TypeOK
      <4> QED
        BY <1>0, <2>1, <2>2, <4>1, <4>2 DEF Placed
    <3> QED
      BY <3>5, <3>6
  <2> QED
    BY <1>5, <2>4, <2>5 DEF ReadyTo
<1>6. ASSUME NEW ready \in SUBSET watched, PostCheck(ready) PROVE Placed(r)'
  <2>1. PICK S \in SUBSET Keys : S = {k \in Keys : Removed(k, ready)}
    OBVIOUS
  <2>2. PICK tab : tab = table
    OBVIOUS
  <2>3. /\ post' = {[rw |-> k[1], entry |-> tab[k]] : k \in S}
        /\ \A k \in Keys : table'[k] = IF k \in S THEN NoEntry ELSE table[k]
        /\ UNCHANGED answer
    BY <1>6, <2>1, <2>2 DEF PostCheck
  <2>4. PostsFor(r) = {}
    BY <1>6 DEF PostCheck, EntriesTrue, PostsFor
  <2>5. /\ KeysFor(r)' = KeysFor(r) \ S
        /\ PostsFor(r)' = {[rw |-> k[1], entry |-> tab[k]] : k \in KeysFor(r) \cap S}
    BY <2>2, <2>3, FdAssumption DEF KeysFor, PostsFor, NoEntry
  <2>6. CASE KeysFor(r) = {}
    BY <1>0, <2>3, <2>4, <2>5, <2>6 DEF Placed
  <2>7. CASE KeysFor(r) # {}
    <3>1. PICK k \in Keys : KeysFor(r) = {k} /\ answer[r] = "waiting"
      BY <1>0, <2>4, <2>7 DEF Placed
    <3>2. CASE k \in S
      <4>1. KeysFor(r)' = {} /\ PostsFor(r)' = {[rw |-> k[1], entry |-> tab[k]]}
        BY <2>5, <3>1, <3>2
      <4>2. [rw |-> k[1], entry |-> tab[k]] \in post'
        BY <2>3, <3>2
      <4> QED
        BY <2>3, <3>1, <4>1, <4>2 DEF Placed
    <3>3. CASE k \notin S
      <4>1. KeysFor(r)' = {k} /\ PostsFor(r)' = {}
        BY <2>5, <3>1, <3>3
      <4> QED
        BY <2>3, <3>1, <4>1 DEF Placed
    <3> QED
      BY <3>2, <3>3
  <2> QED
    BY <2>6, <2>7
<1>7. CASE HandlePost
  <2>1. /\ post' = {} /\ table' = table
        /\ answer'[r] = IF PostsFor(r) # {} THEN "Ready" ELSE answer[r]
    BY <1>7 DEF HandlePost, PostsFor
  <2>2. KeysFor(r)' = KeysFor(r) /\ PostsFor(r)' = {}
    BY <2>1 DEF KeysFor, PostsFor
  <2> QED
    BY <1>0, <2>1, <2>2 DEF Placed
<1>8. ASSUME NEW f \in Fds, \/ \E d \in Descrs : OpenFile(f, d)
                            \/ \E kind \in BOOLEAN : Create(f, kind)
                            \/ \E kind \in BOOLEAN, g \in Fds : Replace(f, g, kind)
                            \/ BeginSyscall(f) \/ EndSyscall(f) \/ Closer(f)
      PROVE  Placed(r)'
  BY <1>1, <1>8 DEF OpenFile, Create, Replace, BeginSyscall, EndSyscall,
                    Closer, Shutdown, OsClose, CloseFinish
<1>9. ASSUME NEW q \in Requests, Interrupt(q) PROVE Placed(r)'
  BY <1>1, <1>9 DEF Interrupt
<1>10. CASE PreCheck \/ UNCHANGED vars
  BY <1>1, <1>10 DEF PreCheck, vars
<1> QED
  BY <1>3, <1>4, <1>5, <1>6, <1>7, <1>8, <1>9, <1>10 DEF Next

(* Only a request whose interrupt was chosen is answered Interrupted.      *)
LEMMA ChosenStep ==
  TypeOK /\ OwnersApart /\ EntriesTrue /\ OnePlace /\ ChosenOnly /\ [Next]_vars => ChosenOnly'
<1> SUFFICES ASSUME TypeOK, OwnersApart, EntriesTrue, OnePlace, ChosenOnly, [Next]_vars,
                    NEW r \in Requests, answer'[r] = "Interrupted"
             PROVE  interrupt'[r] = "chosen"
  BY DEF ChosenOnly
<1> USE DEF fdVars, closeVars, loopVars, requestVars
<1>1. CASE answer'[r] = answer[r] /\ UNCHANGED interrupt
  BY <1>1 DEF ChosenOnly
<1>2. ASSUME NEW f \in Fds, Close(f) PROVE interrupt'[r] = "chosen"
  <2>1. PICK S \in SUBSET Keys : Stops(S, "Closed")
    BY <1>2, CloseStops
  <2>2. answer'[r] = answer[r]
    BY <2>1 DEF Stops
  <2> QED
    BY <1>1, <1>2, <2>2 DEF Close
<1>3. ASSUME NEW q \in Requests, Interrupted(q) PROVE interrupt'[r] = "chosen"
  <2>1. interrupt' = [interrupt EXCEPT ![q] = "chosen"]
    BY <1>3 DEF Interrupted
  <2>2. CASE r = q
    BY <2>1, <2>2 DEF TypeOK
  <2>3. CASE r # q
    <3>1. answer'[r] = answer[r]
      <4>1. CASE NotAnswered(q)
        <5>1. PICK S \in SUBSET Keys :
                Stops(S, "Interrupted") /\ \A k \in S : table[k].request = q
          BY <1>3, <4>1, InterruptedStops
        <5> QED
          BY <2>3, <5>1 DEF Stops
      <4>2. CASE ~NotAnswered(q)
        BY <1>3, <4>2 DEF Interrupted
      <4> QED
        BY <4>1, <4>2
    <3> QED
      BY <2>1, <2>3, <3>1 DEF ChosenOnly, TypeOK
  <2> QED
    BY <2>2, <2>3
<1>4. ASSUME NEW q \in Requests, NEW f \in Fds, NEW rw \in ReadWrite, ReadyTo(q, f, rw)
      PROVE  interrupt'[r] = "chosen"
  BY <1>1, <1>4 DEF ReadyTo, TypeOK
<1>5. CASE HandlePost
  BY <1>1, <1>5 DEF HandlePost
<1>6. ASSUME NEW q \in Requests, Interrupt(q) PROVE interrupt'[r] = "chosen"
  BY <1>6 DEF Interrupt, ChosenOnly, TypeOK
<1>7. ASSUME NEW f \in Fds, \/ \E d \in Descrs : OpenFile(f, d)
                            \/ \E kind \in BOOLEAN : Create(f, kind)
                            \/ \E kind \in BOOLEAN, g \in Fds : Replace(f, g, kind)
                            \/ BeginSyscall(f) \/ EndSyscall(f) \/ Closer(f)
      PROVE  interrupt'[r] = "chosen"
  BY <1>1, <1>7 DEF OpenFile, Create, Replace, BeginSyscall, EndSyscall,
                    Closer, Shutdown, OsClose, CloseFinish
<1>8. ASSUME NEW ready \in SUBSET watched, PostCheck(ready) PROVE interrupt'[r] = "chosen"
  BY <1>1, <1>8 DEF PostCheck
<1>9. CASE PreCheck \/ UNCHANGED vars
  BY <1>1, <1>9 DEF PreCheck, vars
<1> QED
  BY <1>2, <1>3, <1>4, <1>5, <1>6, <1>7, <1>8, <1>9 DEF Next
-----------------------------------------------------------------------------
(* Every step preserves the inductive invariant.                           *)
LEMMA NextIInv == IInv /\ [Next]_vars => IInv'
<1> SUFFICES ASSUME IInv, [Next]_vars PROVE IInv'
  OBVIOUS
<1>1. TypeOK' /\ OwnersApart'
  BY TypeStep, OwnersStep DEF IInv
<1>2. \A f \in Fds : Counted(f)' /\ OthersCount(f)'
  BY CountStep, OthersCountStep DEF IInv
<1>3. CountsActive'
  BY <1>2 DEF CountsActive, Counted, OthersCount, KeysOf
<1>4. OfNumber' /\ Asked' /\ PostTrue'
  BY EntriesStep DEF IInv
<1>5. EntriesTrue'
  BY <1>1, <1>3, <1>4, EntriesParts, PTL
<1>6. OnePlace' /\ ChosenOnly'
  BY PlaceStep, ChosenStep DEF IInv
<1> QED
  BY <1>1, <1>3, <1>5, <1>6 DEF IInv

(* The places of a request, counted.                                       *)
LEMMA PlacesCounted ==
  ASSUME IsFiniteSet(post), NEW r \in Requests, Placed(r)
  PROVE  Cardinality(KeysFor(r)) + Cardinality(PostsFor(r))
           = (IF answer[r] = "waiting" THEN 1 ELSE 0)
<1>1. Cardinality({}) = 0 /\ \A x : Cardinality({x}) = 1
  BY FS_EmptySet, FS_Singleton
<1>2. CASE answer[r] # "waiting" /\ KeysFor(r) = {} /\ PostsFor(r) = {}
  BY <1>1, <1>2
<1>3. CASE answer[r] = "waiting" /\ PostsFor(r) = {} /\ \E k \in Keys : KeysFor(r) = {k}
  <2>1. Cardinality(KeysFor(r)) = 1 /\ Cardinality(PostsFor(r)) = 0
    BY <1>1, <1>3
  <2> QED
    BY <1>3, <2>1
<1>4. CASE answer[r] = "waiting" /\ KeysFor(r) = {} /\ \E p \in post : PostsFor(r) = {p}
  <2>1. Cardinality(KeysFor(r)) = 0 /\ Cardinality(PostsFor(r)) = 1
    BY <1>1, <1>4
  <2> QED
    BY <1>4, <2>1
<1> QED
  BY <1>2, <1>3, <1>4 DEF Placed

LEMMA KeptAndSame == IInv => SameFile /\ CallsAccounted
<1> SUFFICES ASSUME IInv PROVE SameFile /\ CallsAccounted
  OBVIOUS
<1> USE DEF IInv
<1>1. RequestsKept
  <2>1. ASSUME NEW r \in Requests
        PROVE  Cardinality({k \in Keys : table[k].request = r})
                 + Cardinality({p \in post : p.entry.request = r})
                 = (IF answer[r] = "waiting" THEN 1 ELSE 0)
    BY PlacedEach, PlacesCounted DEF KeysFor, PostsFor, EntriesTrue
  <2> QED
    BY <2>1 DEF RequestsKept, ChosenOnly
<1>2. ASSUME NEW f \in Fds, syscalls[f] > 0 PROVE Alive(f)
  <2>1. num_active_syscalls[f] > 0
    BY <1>2, CountsParts, CountsAreNat DEF Counted, EntriesTrue, TypeOK
  <2> QED
    BY <2>1 DEF OwnersApart
<1>3. ASSUME NEW f \in Fds, state[f] = "opened" PROVE fd_by_descr[file_descr[f]] = NoFd
  <2>1. Owns(f) /\ ~Alive(f)
    BY <1>3 DEF Owns, Alive
  <2>2. file_descr[f] \in Descrs
    BY <2>1 DEF OwnersApart
  <2>3. \A g \in Fds : fd_by_descr[file_descr[f]] # g
    BY <2>1, <2>2 DEF OwnersApart, Owns
  <2> QED
    BY <2>2, <2>3 DEF TypeOK
<1>4. ASSUME NEW k \in Keys, table[k].fd # NoFd
      PROVE  Alive(table[k].fd) /\ file_descr[table[k].fd] = k[2]
  BY <1>4, EntryTypes DEF EntriesTrue, TypeOK
<1>5. SameFile
  BY <1>2, <1>3, <1>4 DEF SameFile, OwnersApart, Owns, EntriesTrue
<1> QED
  BY <1>1, <1>5 DEF CallsAccounted

LEMMA Invariance == Spec => []IInv
BY InitIInv, NextIInv, PTL DEF Spec

(* Fd's guarantee (fd.mli:1): whoever uses the number of an Fd.t finds the *)
(* file that it was made of, whatever the system reuses numbers for.       *)
THEOREM NumbersNameTheirFiles == Spec => []SameFile
BY Invariance, KeptAndSame, PTL

(* What raw_fd.ml:80 and raw_scheduler.ml:187 assert: the active system    *)
(* calls are the ones that there are, and every request that waits is in   *)
(* one place, from which it will be answered once.                         *)
THEOREM CallsAreAccounted == Spec => []CallsAccounted
BY Invariance, KeptAndSame, PTL
=============================================================================
