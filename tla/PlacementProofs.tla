-------------------------- MODULE PlacementProofs --------------------------
(***************************************************************************)
(* What the control plane promises about the sessions it places, for every *)
(* number of sessions, processes, clients and pool threads: the capacity   *)
(* of a process, the swap flag of a request, the record of what is alive,  *)
(* and that it implements SessionPlacement.  All of it rests on Custody.   *)
(***************************************************************************)
EXTENDS SingleInstanceProofs, FiniteSetTheorems, FunctionTheorems

-----------------------------------------------------------------------------
(* How often a session was placed and asked for, seen from whoever has it: *)
(* what the flag of the next request will be.                              *)
Placing == http.pc \in {"free", "store", "add", "new"}

UnknownIsNew == \A s \in Sid \ known : lives[s] = 0 /\ sent[s] = 0

PlacingFlag ==
  Placing => /\ http.swap <=> lives[http.sid] > 0
             /\ http.swap <=> sent[http.sid] > 0

GivenBackLived ==
  \A s \in Sid : \A k, a :
    Owner(k, a, s) /\ k \in {"swapped", "swap"} => lives[s] > 0 /\ sent[s] > 0

ListedFlag ==
  \A s \in Sid : \A p \in Pid : SomeIn(sessions[p], {s}) =>
    /\ lives[s] > 0
    /\ swap_in[s] <=> lives[s] > 1
    /\ lives[s] > 1 => sent[s] > 0

Carried(p, s) ==
  \/ SomeIn(toProc[p], Requests(s)) \/ s \in running[p]
  \/ SomeIn(fromProc[p], {CloseOf(p, s)}) \/ SomeIn(tasks, {CloseOf(p, s)})
  \/ \E w \in Worker : /\ worker[w].task = CloseOf(p, s)
                       /\ worker[w].pc \in {"run", "erase"}

AliveWasSent ==
  /\ \A s \in Sid : \A p \in Pid : Carried(p, s) => sent[s] > 0
  /\ \A s \in Sid : ~allocated[s] => sent[s] = 0

Flags == /\ UnknownIsNew /\ PlacingFlag /\ GivenBackLived /\ ListedFlag
         /\ AliveWasSent /\ SwapFlagTruthful

-----------------------------------------------------------------------------
(* Which pool threads are about to strike s off SESSIONS_ALIVE_ of h.      *)
Striking(w, s, h) == /\ worker[w].pc = "unalive" /\ worker[w].task.sid = s
                     /\ global_process_id[worker[w].task.pid] = h
Unstruck(s, h) == \A w \in Worker : ~Striking(w, s, h)
StruckOnce(s, h) == \A w, v \in Worker :
                      Striking(w, s, h) /\ Striking(v, s, h) => w = v

(* s is on record as alive where nobody is about to strike it off; or its  *)
(* placement is about to put it there.                                     *)
OnRecord(s) == \E g \in Gid : s \in alive[g] /\ Unstruck(s, g)
Recording(s) == http.pc = "alive" /\ http.sid = s /\ Unstruck(s, http.gid)

ListedOnRecord ==
  \A s \in Sid : \A k, a :
    Owner(k, a, s) /\ k \in {"vector", "swap"} => OnRecord(s) \/ Recording(s)

PlacingOnRecord == Placing => \/ OnRecord(http.sid)
                              \/ Unstruck(http.sid, http.gid)

(* A session that can be swapped in is on record, or will be: unless it is *)
(* listed as alive still, in which case process_client refuses it until it *)
(* was struck off.                                                         *)
SwappedOnRecord ==
  \A s \in Sid : \A h \in Gid : s \in swapped[h] =>
    \/ OnRecord(s) \/ Recording(s) \/ Unstruck(s, h)
    \/ /\ StruckOnce(s, h)
       /\ \/ s \in alive[h]
          \/ http.pc = "alive" /\ http.sid = s /\ http.gid = h

CheckedNotAlive == http.pc = "srem" => http.sid \notin alive[http.gid]

UnknownUnstruck == \A s \in Sid \ known : \A h : Unstruck(s, h)

ClosingIsCreated ==
  \A w \in Worker : worker[w].pc \in {"swap", "unalive"} =>
                      worker[w].task.pid \in processes

Records == /\ ListedOnRecord /\ PlacingOnRecord /\ SwappedOnRecord
           /\ CheckedNotAlive /\ UnknownUnstruck /\ ClosingIsCreated

-----------------------------------------------------------------------------
(* CapacityRespected.                                                      *)

(* The sessions a process runs or was asked for, and those of its vector.  *)
Busy(p) == {s \in Sid : s \in running[p] \/ SomeIn(toProc[p], Requests(s))}
ListedIn(p) == {s \in Sid : SomeIn(sessions[p], {s})}

(* A vector has as many different sessions as positions, at most.          *)
LEMMA ListedBound ==
  ASSUME TypeOK, NEW p \in Pid
  PROVE  /\ IsFiniteSet(ListedIn(p))
         /\ Cardinality(ListedIn(p)) \in Nat
         /\ Cardinality(ListedIn(p)) <= Len(sessions[p])
PROOF
<1> DEFINE n == Len(sessions[p])
<1>1. sessions[p] \in Seq(Sid) /\ n \in Nat
  BY DEF TypeOK
<1>2. sessions[p] \in [1 .. n -> ListedIn(p)]
  <2>1. /\ sessions[p] \in [1 .. n -> Sid] /\ DOMAIN sessions[p] = 1 .. n
    BY <1>1
  <2> QED
    BY <2>1 DEF ListedIn, SomeIn
<1>3. \A s \in ListedIn(p) : \E i \in 1 .. n : sessions[p][i] = s
  BY <1>1 DEF ListedIn, SomeIn
<1>4. sessions[p] \in Surjection(1 .. n, ListedIn(p))
  BY <1>2, <1>3, Fun_IsSurj
<1>5. IsFiniteSet(1 .. n) /\ Cardinality(1 .. n) = n
  BY <1>1, FS_Interval
<1>6. IsFiniteSet(ListedIn(p)) /\ Cardinality(ListedIn(p)) <= n
  BY <1>4, <1>5, FS_Surjection
<1> QED
  BY <1>6, FS_CardinalityType

(* What a process runs or was asked for is listed, every request asks for  *)
(* another session, and for none that runs.                                *)
LEMMA BusyCounts ==
  ASSUME TypeOK, Custody, NEW p \in Pid
  PROVE  /\ Busy(p) \subseteq ListedIn(p)
         /\ IsFiniteSet(Busy(p))
         /\ Cardinality(Busy(p)) = Cardinality(running[p]) + Len(toProc[p])
         /\ Cardinality(running[p]) \in Nat
PROOF
<1> DEFINE n == Len(toProc[p])
           A == {s \in Sid : SomeIn(toProc[p], Requests(s))}
           f == [i \in 1 .. n |-> toProc[p][i].sid]
<1>a. toProc[p] \in Seq(Request) /\ n \in Nat /\ running[p] \subseteq Sid
  BY DEF TypeOK
<1>b. DOMAIN toProc[p] = 1 .. n /\ \A i \in 1 .. n : toProc[p][i] \in Request
  BY <1>a
<1>c. \A i \in 1 .. n, s \in Sid :
        toProc[p][i] \in Requests(s) <=> toProc[p][i].sid = s
  BY <1>b DEF Request, Requests
<1>1. Busy(p) \subseteq ListedIn(p)
  <2> SUFFICES ASSUME NEW s \in Sid,
                      s \in running[p] \/ SomeIn(toProc[p], Requests(s))
               PROVE  SomeIn(sessions[p], {s})
    BY DEF Busy, ListedIn
  <2>1. Life("running", None, p, s) \/ Life("request", None, p, s)
    BY DEF Life
  <2> QED
    BY <2>1 DEF Custody, LifeIsListed
<1>2. f \in [1 .. n -> A]
  <2>1. \A i \in 1 .. n : toProc[p][i].sid \in Sid
    BY <1>b DEF Request
  <2>2. \A i \in 1 .. n : toProc[p][i].sid \in A
    BY <1>b, <1>c, <2>1 DEF SomeIn
  <2> QED
    BY <2>2
<1>3. \A i, j \in 1 .. n : f[i] = f[j] => i = j
  <2> SUFFICES ASSUME NEW i \in 1 .. n, NEW j \in 1 .. n,
                      toProc[p][i].sid = toProc[p][j].sid
               PROVE  i = j
    OBVIOUS
  <2>1. PICK s \in Sid : s = toProc[p][i].sid
    BY <1>b DEF Request
  <2>2. toProc[p][i] \in Requests(s) /\ toProc[p][j] \in Requests(s)
    BY <1>c, <2>1
  <2>3. OnceIn(toProc[p], Requests(s))
    BY DEF Custody, NoneTwice
  <2> QED
    BY <1>b, <2>2, <2>3 DEF OnceIn
<1>4. \A s \in A : \E i \in 1 .. n : f[i] = s
  BY <1>b, <1>c DEF SomeIn
<1>5. IsFiniteSet(A) /\ Cardinality(A) = n
  <2> HIDE DEF f, A
  <2>1. f \in Bijection(1 .. n, A)
    BY <1>2, <1>3, <1>4, Fun_IsBij
  <2>2. ExistsBijection(1 .. n, A)
    BY <2>1 DEF ExistsBijection
  <2>3. Cardinality(A) = n
    BY <1>a, <2>2, FS_CountingElements
  <2>4. IsFiniteSet(A)
    BY <1>a, <2>2, FS_NatBijection
  <2> QED
    BY <2>3, <2>4
<1>6. IsFiniteSet(Busy(p)) /\ IsFiniteSet(running[p])
      /\ Cardinality(running[p]) \in Nat
  <2>1. IsFiniteSet(Busy(p))
    BY <1>1, ListedBound, FS_Subset
  <2>2. running[p] \subseteq Busy(p)
    BY <1>a DEF Busy
  <2>3. IsFiniteSet(running[p])
    BY <2>1, <2>2, FS_Subset
  <2> QED
    BY <2>1, <2>3, FS_CardinalityType
<1>7. running[p] \cap A = {}
  <2> SUFFICES ASSUME NEW s \in Sid, s \in running[p],
                      SomeIn(toProc[p], Requests(s))
               PROVE  FALSE
    BY <1>a
  <2>1. Life("running", None, p, s) /\ Life("request", None, p, s)
    BY DEF Life
  <2>2. "running" = "request"
    BY <2>1, LifeUnique DEF Custody
  <2> QED
    BY <2>2
<1>8. Busy(p) = running[p] \cup A
  BY <1>a DEF Busy
<1> HIDE DEF A
<1>9. Cardinality(running[p] \cup A) =
        Cardinality(running[p]) + Cardinality(A)
          - Cardinality(running[p] \cap A)
  BY <1>5, <1>6, FS_Union, Zenon
<1>10. Cardinality(running[p] \cap A) = 0
  BY <1>7, FS_EmptySet, Zenon
<1>11. Cardinality(Busy(p)) = Cardinality(running[p]) + n
  BY <1>5, <1>6, <1>8, <1>9, <1>10, <1>a
<1> QED
  BY <1>1, <1>6, <1>11

(* CapacityRespected fails in the code, and the lost update of the counter *)
(* is all that breaks it: a process that no update was lost for is never   *)
(* asked for more sessions than it was created for.  What it runs or was   *)
(* asked for is in its vector, each session once, and get_free_process     *)
(* keeps the vector below max_sessions_per_process.                        *)
THEOREM CapacityCorrect == Spec => [](\A p \in Pid \ lost : WithinRoom(p))
PROOF
<1>1. TypeOK /\ Custody /\ SlotsExact => \A p \in Pid \ lost : WithinRoom(p)
  <2> SUFFICES ASSUME TypeOK, Custody, SlotsExact, NEW p \in Pid \ lost
               PROVE  Cardinality(running[p]) + Len(toProc[p]) <= MaxSessions
    BY DEF WithinRoom
  <2>1. /\ Cardinality(Busy(p)) = Cardinality(running[p]) + Len(toProc[p])
        /\ Cardinality(Busy(p)) <= Cardinality(ListedIn(p))
        /\ Cardinality(Busy(p)) \in Nat
    BY BusyCounts, ListedBound, FS_Subset, FS_CardinalityType
  <2>2. /\ Cardinality(ListedIn(p)) <= Len(sessions[p])
        /\ Cardinality(ListedIn(p)) \in Nat
    BY ListedBound
  <2>3. Len(sessions[p]) <= MaxSessions /\ Len(sessions[p]) \in Nat
    <3>1. /\ Len(sessions[p]) \in Nat /\ MaxSessions \in Nat
          /\ allocated_sessions[p] \in Int
      BY SizesAssumption DEF TypeOK
    <3>2. /\ allocated_sessions[p] = Len(sessions[p]) + Held(p)
          /\ allocated_sessions[p] <= MaxSessions
      BY DEF SlotsExact
    <3>3. Held(p) \in {0, 1}
      BY DEF Held
    <3> QED
      BY <3>1, <3>2, <3>3
  <2> QED
    BY <2>1, <2>2, <2>3, SizesAssumption
<1> QED
  BY <1>1, CustodyCorrect, SlotsCorrect, TypeCorrect, PTL

-----------------------------------------------------------------------------
(* Which operations change which part of the state.                        *)

(* The two ways a session is placed, and the two ways it is asked for.     *)
Placed == AddToExisting \/ \E p \in Pid : AddToNew(p)
AskedFor == AddToExisting \/ \E w \in Worker : SendPending(w)
Unlisted == \E w \in Worker : remove_session(w) \/ EraseSession(w)
Answered == \E p \in Pid : ProcAllocate(p) \/ ProcRefuse(p)

(* Only placements, requests, closures and the answers of the processes    *)
(* touch the tables, the Redis sets and the wires of the sessions.         *)
LEMMA OnlyChanges ==
  ASSUME [Next]_vars
  PROVE  /\ UNCHANGED <<lives, swap_in>> \/ Placed
         /\ UNCHANGED <<sent, allocated>> \/ AskedFor
         /\ UNCHANGED sessions \/ Placed \/ Unlisted
         /\ UNCHANGED toProc \/ AskedFor \/ Answered
         /\ \/ UNCHANGED running
            \/ \E p \in Pid : \/ ProcAllocate(p)
                              \/ \E s \in Sid : SessionEnd(p, s)
         /\ \/ UNCHANGED fromProc
            \/ \E p \in Pid : Poll(p) \/ ProcessExit(p)
            \/ \E p \in Pid, s \in Sid : SessionEnd(p, s)
            \/ Answered
         /\ \/ UNCHANGED tasks
            \/ Accept \/ (\E p \in Pid : Poll(p))
            \/ \E w \in Worker : TakeTask(w)
         /\ UNCHANGED worker \/ \E w \in Worker : WorkerStep(w)
         /\ UNCHANGED http \/ Client \/ HttpStep
         /\ UNCHANGED swapped \/ TakeSwapped \/ \E w \in Worker : AddSwapped(w)
         /\ UNCHANGED alive \/ MarkAlive \/ \E w \in Worker : RemoveAlive(w)
         /\ \/ UNCHANGED known
            \/ \E g \in Gid, s \in Sid, f \in Fid \cup {None} :
                 NewSession(g, s, f)
         /\ \/ UNCHANGED <<processes, global_process_id>>
            \/ \E p \in Pid : AddToNew(p)
PROOF
<1> USE DEF redisVars, processVars, sessionVars, poolVars, queueVars,
            wireVars, envVars, historyVars
<1>1. CASE UNCHANGED vars
  BY <1>1 DEF vars
<1>2. CASE \E w \in Worker : handle_process_closure(w)
  BY <1>2 DEF handle_process_closure
<1>3. CASE Client
  BY <1>3 DEF Client, process_allocation, NewSession, CheckAlive
<1>4. CASE HttpStep
  BY <1>4 DEF HttpStep, TakeSwapped, UnknownSession, GetFreeProcess,
    StoreCount, NoFreeProcess, AddToExisting, AddToNew, MarkAlive, Placed,
    AskedFor
<1>5. CASE MainStep
  BY <1>5 DEF MainStep, Accept, Poll
<1>6. CASE \E w \in Worker : WorkerStep(w)
  <2> SUFFICES ASSUME NEW w \in Worker, WorkerStep(w)
               PROVE  /\ UNCHANGED <<lives, swap_in, running, fromProc, http,
                                     known, processes, global_process_id>>
                      /\ UNCHANGED <<sent, allocated, toProc>>
                           \/ SendPending(w)
                      /\ UNCHANGED sessions
                           \/ remove_session(w) \/ EraseSession(w)
                      /\ UNCHANGED tasks \/ TakeTask(w)
                      /\ UNCHANGED swapped \/ AddSwapped(w)
                      /\ UNCHANGED alive \/ RemoveAlive(w)
    BY <1>6 DEF AskedFor, Unlisted
  <2>1. CASE SendPending(w)
    BY <2>1 DEF SendPending
  <2>2. CASE remove_session(w) \/ EraseSession(w)
    BY <2>2 DEF remove_session, EraseSession
  <2>3. CASE AddSwapped(w) \/ RemoveAlive(w) \/ LogStatus(w) \/ TakeTask(w)
    BY <2>3 DEF AddSwapped, RemoveAlive, LogStatus, TakeTask
  <2>4. CASE \/ StoreConnection(w) \/ LockSessions(w) \/ AddEpoll(w)
             \/ process_session(w)
    BY <2>4 DEF StoreConnection, LockSessions, AddEpoll, process_session
  <2> QED
    BY <2>1, <2>2, <2>3, <2>4 DEF WorkerStep
<1>7. CASE \E p \in Pid : Subprocess(p)
  BY <1>7 DEF Subprocess, ProcConnect, ProcAllocate, ProcRefuse,
    SessionConnect, SessionEnd, ProcessExit, Answered
<1> QED
  BY <1>1, <1>2, <1>3, <1>4, <1>5, <1>6, <1>7 DEF Next, Serve

-----------------------------------------------------------------------------
(* The lives of a session.                                                 *)

(* Carried is Life without telling by what.                                *)
LEMMA CarriedIsLife ==
  ASSUME NEW p \in Pid, NEW s \in Sid, Carried(p, s)
  PROVE  \E k, w : Life(k, w, p, s)
PROOF
<1>1. CASE SomeIn(toProc[p], Requests(s))
  <2>1. Life("request", None, p, s)
    BY <1>1 DEF Life
  <2> QED BY <2>1
<1>2. CASE s \in running[p]
  <2>1. Life("running", None, p, s)
    BY <1>2 DEF Life
  <2> QED BY <2>1
<1>3. CASE SomeIn(fromProc[p], {CloseOf(p, s)})
  <2>1. Life("closed", None, p, s)
    BY <1>3 DEF Life
  <2> QED BY <2>1
<1>4. CASE SomeIn(tasks, {CloseOf(p, s)})
  <2>1. Life("task", None, p, s)
    BY <1>4 DEF Life
  <2> QED BY <2>1
<1>5. ASSUME NEW w \in Worker, worker[w].task = CloseOf(p, s),
             worker[w].pc \in {"run", "erase"}
      PROVE  Life("worker", w, p, s)
  BY <1>5 DEF Life
<1> QED
  BY <1>1, <1>2, <1>3, <1>4, <1>5 DEF Carried

(* A session that a process has or had is in its vector and asked for.     *)
LEMMA CarriedIsListed ==
  ASSUME Custody, NEW p \in Pid, NEW s \in Sid, Carried(p, s)
  PROVE  SomeIn(sessions[p], {s}) /\ allocated[s]
PROOF
<1>1. PICK k, w : Life(k, w, p, s)
  BY CarriedIsLife
<1> QED
  BY <1>1 DEF Custody, LifeIsListed

(* A life begins with a request and nothing else: a session starts because *)
(* it was asked for, its end is reported because it ran, and the report is *)
(* handled because it was read.                                            *)
LEMMA CarriedOn ==
  ASSUME TypeOK, Wires, [Next]_vars, NEW p \in Pid, NEW s \in Sid,
         Carried(p, s)'
  PROVE  Carried(p, s) \/ (AskedFor /\ SomeIn(toProc'[p], Requests(s)))
PROOF
<1> USE DEF redisVars, processVars, sessionVars, poolVars, queueVars,
            wireVars, envVars, historyVars
<1>a. /\ toProc \in [Pid -> Seq(Request)] /\ fromProc \in [Pid -> Seq(Task)]
      /\ running \in [Pid -> SUBSET Sid] /\ tasks \in Seq(Task)
      /\ backlog \in Seq(Task) /\ worker \in [Worker -> WorkerState]
  BY DEF TypeOK
<1>1. ASSUME SomeIn(toProc'[p], Requests(s)), ~AskedFor
      PROVE  Carried(p, s)
  <2>1. CASE UNCHANGED toProc
    BY <1>1, <2>1 DEF Carried
  <2>2. ASSUME NEW q \in Pid, ProcAllocate(q) \/ ProcRefuse(q)
        PROVE  Carried(p, s)
    <3>1. toProc' = [toProc EXCEPT ![q] = Tail(@)] /\ toProc[q] # <<>>
      BY <2>2 DEF ProcAllocate, ProcRefuse
    <3>2. SomeIn(Tail(toProc[q]), Requests(s)) =>
            SomeIn(toProc[q], Requests(s))
      BY <1>a, <3>1, TailOnce
    <3> QED
      BY <1>a, <1>1, <3>1, <3>2 DEF Carried
  <2> QED
    BY <1>1, <2>1, <2>2, OnlyChanges DEF Answered
<1>2. ASSUME s \in running'[p]
      PROVE  Carried(p, s)
  <2>1. CASE UNCHANGED running
    BY <1>2, <2>1 DEF Carried
  <2>2. ASSUME NEW q \in Pid, ProcAllocate(q)
        PROVE  Carried(p, s)
    <3>1. /\ toProc[q] # <<>>
          /\ running' = [running EXCEPT ![q] = @ \cup {Head(toProc[q]).sid}]
      BY <2>2 DEF ProcAllocate
    <3>2. s \in running[p] \/ (p = q /\ s = Head(toProc[q]).sid)
      BY <1>a, <1>2, <3>1
    <3>3. ASSUME p = q, s = Head(toProc[q]).sid
          PROVE  SomeIn(toProc[p], Requests(s))
      <4>1. toProc[p] \in Seq(Request) /\ toProc[p] # <<>>
        BY <1>a, <3>1, <3>3
      <4>2. Head(toProc[p]) \in Request
        BY <4>1
      <4>3. Head(toProc[p]) \in Requests(s)
        BY <3>3, <4>2 DEF Request, Requests
      <4> QED
        BY <4>1, <4>3, TailOnce
    <3> QED
      BY <3>2, <3>3 DEF Carried
  <2>3. ASSUME NEW q \in Pid, NEW r \in Sid, SessionEnd(q, r)
        PROVE  Carried(p, s)
    <3>1. running' = [running EXCEPT ![q] = @ \ {r}]
      BY <2>3 DEF SessionEnd
    <3> QED
      BY <1>a, <1>2, <3>1 DEF Carried
  <2> QED
    BY <2>1, <2>2, <2>3, OnlyChanges
<1>3. ASSUME SomeIn(fromProc'[p], {CloseOf(p, s)})
      PROVE  Carried(p, s)
  <2>1. CASE UNCHANGED fromProc
    BY <1>3, <2>1 DEF Carried
  <2>2. ASSUME NEW q \in Pid, Poll(q)
        PROVE  Carried(p, s)
    <3>1. /\ fromProc' = [fromProc EXCEPT ![q] = Tail(@)]
          /\ fromProc[q] # <<>>
      BY <2>2 DEF Poll
    <3>2. SomeIn(Tail(fromProc[q]), {CloseOf(p, s)}) =>
            SomeIn(fromProc[q], {CloseOf(p, s)})
      BY <1>a, <3>1, TailOnce
    <3> QED
      BY <1>a, <1>3, <3>1, <3>2 DEF Carried
  <2>3. ASSUME NEW q \in Pid, ProcessExit(q)
        PROVE  Carried(p, s)
    <3>1. [kind |-> "eof", pid |-> q, sid |-> None] \in Task
      BY DEF Task, ProcessTask
    <3>2. Say(q, "eof", None)
      BY <2>3 DEF ProcessExit
    <3>3. SomeIn(fromProc[p], {CloseOf(p, s)})
      BY <1>3, <3>1, <3>2, SayAdds
    <3> QED
      BY <3>3 DEF Carried
  <2>4. ASSUME NEW q \in Pid, ProcAllocate(q) \/ ProcRefuse(q)
        PROVE  Carried(p, s)
    <3>1. PICK r : r = Head(toProc[q]).sid
      OBVIOUS
    <3>2. Say(q, "status", r) /\ toProc[q] # <<>>
      BY <2>4, <3>1 DEF ProcAllocate, ProcRefuse
    <3>3. Head(toProc[q]) \in Request
      BY <1>a, <3>2
    <3>4. [kind |-> "status", pid |-> q, sid |-> r] \in Task
      BY <3>1, <3>3 DEF Task, StatusTask, Request
    <3>5. SomeIn(fromProc[p], {CloseOf(p, s)})
      BY <1>3, <3>2, <3>4, SayAdds
    <3> QED
      BY <3>5 DEF Carried
  <2>5. ASSUME NEW q \in Pid, NEW r \in Sid, SessionEnd(q, r)
        PROVE  Carried(p, s)
    <3>1. Say(q, "close", r) /\ r \in running[q]
      BY <2>5 DEF SessionEnd
    <3>2. [kind |-> "close", pid |-> q, sid |-> r] \in Task
      BY DEF Task, StatusTask
    <3>3. SomeIn(fromProc[p], {CloseOf(p, s)}) \/ (p = q /\ r = s)
      BY <1>3, <3>1, <3>2, SayAdds
    <3> QED
      BY <3>1, <3>3 DEF Carried
  <2> QED
    BY <2>1, <2>2, <2>3, <2>4, <2>5, OnlyChanges DEF Answered
<1>4. ASSUME SomeIn(tasks', {CloseOf(p, s)})
      PROVE  Carried(p, s)
  <2>1. CASE UNCHANGED tasks
    BY <1>4, <2>1 DEF Carried
  <2>2. CASE Accept
    <3>1. backlog # <<>> /\ tasks' = Append(tasks, Head(backlog))
      BY <2>2 DEF Accept
    <3>2. Head(backlog) \in Task /\ Head(backlog) = backlog[1]
          /\ 1 \in DOMAIN backlog
      BY <1>a, <3>1
    <3>3. Head(backlog) # CloseOf(p, s)
      BY <3>2 DEF Wires, CloseOf
    <3>4. SomeIn(tasks, {CloseOf(p, s)})
      BY <1>a, <1>4, <3>1, <3>2, <3>3, AppendElement
    <3> QED
      BY <3>4 DEF Carried
  <2>3. ASSUME NEW q \in Pid, Poll(q)
        PROVE  Carried(p, s)
    <3>1. fromProc[q] # <<>> /\ tasks' = Append(tasks, Head(fromProc[q]))
      BY <2>3 DEF Poll
    <3>2. fromProc[q] \in Seq(Task)
      BY <1>a
    <3>3. Head(fromProc[q]) \in Task /\ Head(fromProc[q]) = fromProc[q][1]
          /\ 1 \in DOMAIN fromProc[q]
      BY <3>1, <3>2
    <3>4. SomeIn(tasks, {CloseOf(p, s)}) \/ Head(fromProc[q]) = CloseOf(p, s)
      <4>1. PICK m \in Task : m = Head(fromProc[q])
        BY <3>3
      <4>2. tasks' = Append(tasks, m)
        BY <3>1, <4>1
      <4> QED
        BY <1>a, <1>4, <4>1, <4>2, AppendElement
    <3>5. ASSUME Head(fromProc[q]) = CloseOf(p, s)
          PROVE  SomeIn(fromProc[p], {CloseOf(p, s)})
      <4>1. q = p
        BY <3>3, <3>5 DEF Wires, CloseOf
      <4> QED
        BY <3>3, <3>5, <4>1 DEF SomeIn
    <3> QED
      BY <3>4, <3>5 DEF Carried
  <2>4. ASSUME NEW w \in Worker, TakeTask(w)
        PROVE  Carried(p, s)
    <3>1. tasks # <<>> /\ tasks' = Tail(tasks)
      BY <2>4 DEF TakeTask
    <3>2. SomeIn(Tail(tasks), {CloseOf(p, s)}) =>
            SomeIn(tasks, {CloseOf(p, s)})
      BY <1>a, <3>1, TailOnce
    <3> QED
      BY <1>4, <3>1, <3>2 DEF Carried
  <2> QED
    BY <2>1, <2>2, <2>3, <2>4, OnlyChanges
<1>5. ASSUME NEW v \in Worker, worker'[v].task = CloseOf(p, s),
             worker'[v].pc \in {"run", "erase"}
      PROVE  Carried(p, s)
  <2>1. CASE worker'[v] = worker[v]
    BY <1>5, <2>1 DEF Carried
  <2>2. ASSUME NEW w \in Worker, WorkerStep(w), worker'[v] # worker[v]
        PROVE  Carried(p, s)
    <3>1. w = v /\ ~SendPending(w)
      BY <2>2, WorkerMoves
    <3>2. CASE TakeTask(w)
      <4>1. tasks # <<>> /\ Head(tasks) = CloseOf(p, s)
        BY <1>5, <2>2, <3>1, <3>2, WorkerMoves DEF TakeTask
      <4>2. Head(tasks) \in {CloseOf(p, s)}
        BY <4>1
      <4>3. SomeIn(tasks, {CloseOf(p, s)})
        BY <1>a, <4>1, <4>2, TailOnce
      <4> QED
        BY <4>3 DEF Carried
    <3>3. CASE remove_session(w)
      <4>1. worker[v].task = CloseOf(p, s) /\ worker[v].pc = "run"
        BY <1>5, <2>2, <3>1, <3>3, WorkerMoves
      <4> QED
        BY <4>1 DEF Carried
    <3>4. ~(StoreConnection(w) \/ LockSessions(w) \/ AddEpoll(w)
            \/ process_session(w) \/ RemoveAlive(w) \/ LogStatus(w)
            \/ EraseSession(w) \/ AddSwapped(w))
      BY <1>5, <2>2, <3>1, WorkerMoves
    <3> QED
      BY <2>2, <3>1, <3>2, <3>3, <3>4 DEF WorkerStep
  <2> QED
    BY <2>1, <2>2, OnlyChanges
<1>6. \/ SomeIn(toProc'[p], Requests(s)) \/ s \in running'[p]
      \/ SomeIn(fromProc'[p], {CloseOf(p, s)})
      \/ SomeIn(tasks', {CloseOf(p, s)})
      \/ \E v \in Worker : /\ worker'[v].task = CloseOf(p, s)
                           /\ worker'[v].pc \in {"run", "erase"}
  BY DEF Carried, CloseOf
<1> QED
  BY <1>1, <1>2, <1>3, <1>4, <1>5, <1>6

(* The HTTP thread has the session it is placing to itself.                *)
LEMMA PlacingAlone ==
  ASSUME TypeOK, Custody, Placing
  PROVE  /\ http.sid \in Sid /\ http.gid \in Gid /\ http.swap \in BOOLEAN
         /\ http.sid \in known
         /\ \A p \in Pid : ~SomeIn(sessions[p], {http.sid})
         /\ \A p \in Pid : ~Carried(p, http.sid)
PROOF
<1>1. /\ http.sid \in Sid /\ http.gid \in Gid /\ http.swap \in BOOLEAN
      /\ http.sid \in known
  BY HttpLocals DEF TypeOK, Placing, Custody, OwnedIsKnown
<1>2. Owner("http", None, http.sid)
  BY DEF Owner, Placing
<1>3. ASSUME NEW p \in Pid, SomeIn(sessions[p], {http.sid})
      PROVE  FALSE
  <2>1. Owner("vector", p, http.sid)
    BY <1>3 DEF Owner
  <2>2. "vector" = "http"
    BY <1>1, <1>2, <2>1 DEF Custody, OneOwner
  <2> QED
    BY <2>2
<1> QED
  BY <1>1, <1>3, CarriedIsListed

(* What a placement does to the tables: process_client in either branch.   *)
LEMMA PlacedFacts ==
  ASSUME TypeOK, Custody, Placed
  PROVE  /\ Placing /\ http'.pc = "alive"
         /\ http'.sid = http.sid /\ http'.gid = http.gid
         /\ lives' = [lives EXCEPT ![http.sid] = @ + 1]
         /\ swap_in' = [swap_in EXCEPT ![http.sid] = http.swap]
         /\ \E q \in Pid : SomeIn(sessions'[q], {http.sid})
         /\ \A p \in Pid, s \in Sid :
              /\ SomeIn(sessions[p], {s}) => SomeIn(sessions'[p], {s})
              /\ SomeIn(sessions'[p], {s}) =>
                   SomeIn(sessions[p], {s}) \/ s = http.sid
PROOF
<1>a. http \in HttpState /\ sessions \in [Pid -> Seq(Sid)]
  BY DEF TypeOK
<1>b. HttpStep
  BY DEF Placed, HttpStep
<1>1. http.pc \in {"add", "new"} /\ FillSession(http.sid, http.swap, http.fid)
  BY DEF Placed, AddToExisting, AddToNew
<1>2. /\ http'.pc = "alive" /\ http'.sid = http.sid /\ http'.gid = http.gid
  <2>1. http'.pc = "alive"
    BY <1>b, HttpMoves DEF Placed
  <2> QED
    BY <1>b, <2>1, HttpMoves
<1>3. /\ lives' = [lives EXCEPT ![http.sid] = @ + 1]
      /\ swap_in' = [swap_in EXCEPT ![http.sid] = http.swap]
  BY <1>1 DEF FillSession
<1>4. PICK s \in Sid : s = http.sid
  BY <1>a, <1>1, HttpLocals
<1>5. CASE AddToExisting
  <2>1. PICK q \in Pid : q = http.proc
    BY <1>a, <1>5, HttpLocals DEF AddToExisting
  <2>2. sessions' = [sessions EXCEPT ![q] = Append(@, s)]
    BY <1>5, <1>4, <2>1 DEF AddToExisting
  <2>3. /\ sessions'[q] = Append(sessions[q], s)
        /\ \A p \in Pid : p # q => sessions'[p] = sessions[p]
        /\ sessions[q] \in Seq(Sid)
    BY <1>a, <2>2
  <2>4. \A r \in Sid : SomeIn(sessions'[q], {r}) <=>
                         SomeIn(sessions[q], {r}) \/ s = r
    BY <2>3, AppendElement
  <2> QED
    BY <1>1, <1>2, <1>3, <1>4, <2>3, <2>4 DEF Placing
<1>6. ASSUME NEW q \in Pid, AddToNew(q)
      PROVE  /\ SomeIn(sessions'[q], {s})
             /\ \A p \in Pid, r \in Sid :
                  SomeIn(sessions'[p], {r}) <=>
                    SomeIn(sessions[p], {r}) \/ (r = s /\ p = q)
  <2>1. sessions' = [sessions EXCEPT ![q] = <<s>>] /\ q \notin processes
    BY <1>6, <1>4 DEF AddToNew
  <2>2. /\ sessions'[q] = <<s>>
        /\ \A p \in Pid : p # q => sessions'[p] = sessions[p]
    BY <1>a, <2>1
  <2>3. \A r \in Sid : ~SomeIn(sessions[q], {r})
    BY <2>1 DEF Custody, UnusedIsEmpty, SomeIn
  <2>4. \A r \in Sid : SomeIn(sessions'[q], {r}) <=> r = s
    BY <2>2 DEF SomeIn
  <2> QED
    BY <2>2, <2>3, <2>4
<1>7. CASE \E q \in Pid : AddToNew(q)
  BY <1>1, <1>2, <1>3, <1>4, <1>6, <1>7 DEF Placing
<1> QED
  BY <1>5, <1>7 DEF Placed

(* What a request does: WriteRequest for a session that the process lists  *)
(* from now on, that has no life, under the number of its placement and    *)
(* with the flag its entry has; from then on it is marked allocated.       *)
LEMMA AskedFacts ==
  ASSUME TypeOK, Custody, AskedFor
  PROVE  \E p \in Pid, s \in Sid :
           /\ WriteRequest(p, s, swap_in'[s], lives'[s])
           /\ allocated' = [allocated EXCEPT ![s] = TRUE]
           /\ SomeIn(sessions'[p], {s})
           /\ \A q \in Pid : ~Carried(q, s)
           /\ s \in known
           /\ UNCHANGED <<running, known>>
           /\ \/ AddToExisting /\ s = http.sid /\ p = http.proc
              \/ /\ UNCHANGED <<http, lives, swap_in, sessions>>
                 /\ ~allocated[s]
PROOF
<1> USE DEF redisVars, processVars, sessionVars, poolVars, queueVars,
            wireVars, envVars, historyVars
<1>a. /\ http \in HttpState /\ sessions \in [Pid -> Seq(Sid)]
      /\ worker \in [Worker -> WorkerState]
      /\ lives \in [Sid -> Nat] /\ swap_in \in [Sid -> BOOLEAN]
  BY DEF TypeOK
<1>1. CASE AddToExisting
  <2>1. /\ http.pc = "add"
        /\ sessions' = [sessions EXCEPT ![http.proc] = Append(@, http.sid)]
        /\ WriteRequest(http.proc, http.sid, http.swap, lives[http.sid] + 1)
        /\ allocated' = [allocated EXCEPT ![http.sid] = TRUE]
        /\ lives' = [lives EXCEPT ![http.sid] = @ + 1]
        /\ swap_in' = [swap_in EXCEPT ![http.sid] = http.swap]
        /\ UNCHANGED <<running, known>>
    BY <1>1 DEF AddToExisting, FillSession
  <2>2. PICK p \in Pid, s \in Sid : p = http.proc /\ s = http.sid
    BY <1>a, <2>1, HttpLocals
  <2>3. s \in known /\ \A q \in Pid : ~Carried(q, s)
    BY <2>1, <2>2, PlacingAlone DEF Placing
  <2>4. sessions'[p] = Append(sessions[p], s) /\ sessions[p] \in Seq(Sid)
    BY <1>a, <2>1, <2>2
  <2>5. SomeIn(sessions'[p], {s})
    BY <2>4, AppendElement
  <2>6. lives'[s] = lives[s] + 1 /\ swap_in'[s] = http.swap
    BY <1>a, <2>1, <2>2
  <2> QED
    BY <1>1, <2>1, <2>2, <2>3, <2>5, <2>6
<1>2. ASSUME NEW w \in Worker, SendPending(w)
      PROVE  \E p \in Pid, s \in Sid :
           /\ WriteRequest(p, s, swap_in'[s], lives'[s])
           /\ allocated' = [allocated EXCEPT ![s] = TRUE]
           /\ SomeIn(sessions'[p], {s})
           /\ \A q \in Pid : ~Carried(q, s)
           /\ s \in known
           /\ UNCHANGED <<running, known>>
           /\ UNCHANGED <<http, lives, swap_in, sessions>>
           /\ ~allocated[s]
  <2>1. worker[w].task.pid \in Pid
    BY <1>2, <1>a, WorkerLocals DEF SendPending, ProcessTask
  <2>2. PICK p \in Pid : p = worker[w].task.pid
    BY <2>1
  <2>3. PICK i \in 1 .. Len(sessions[p]) :
          LET s == sessions[p][i] IN
          /\ FirstPending(p, i)
          /\ WriteRequest(p, s, swap_in[s], lives[s])
          /\ allocated' = [allocated EXCEPT ![s] = TRUE]
    BY <1>2, <2>2 DEF SendPending
  <2>4. sessions[p][i] \in Sid
    BY <1>a
  <2>5. PICK s \in Sid : s = sessions[p][i]
    BY <2>4
  <2>6. /\ ~allocated[s] /\ WriteRequest(p, s, swap_in[s], lives[s])
        /\ allocated' = [allocated EXCEPT ![s] = TRUE]
    BY <2>3, <2>5 DEF FirstPending
  <2>7. \A q \in Pid : ~Carried(q, s)
    BY <2>6, CarriedIsListed
  <2>8. UNCHANGED <<running, known, http, lives, swap_in, sessions>>
    BY <1>2 DEF SendPending
  <2>9. SomeIn(sessions[p], {s})
    BY <1>a, <2>5 DEF SomeIn
  <2>10. Owner("vector", p, s)
    BY <2>9 DEF Owner
  <2>11. s \in known
    BY <2>10 DEF Custody, OwnedIsKnown
  <2> QED
    BY <2>6, <2>7, <2>8, <2>9, <2>11
<1> QED
  BY <1>1, <1>2 DEF AskedFor

(* A closure is served for a session of the process's vector, and takes it *)
(* from there.                                                             *)
LEMMA ClosingFacts ==
  ASSUME TypeOK, Custody, NEW w \in Worker,
         remove_session(w) \/ EraseSession(w)
  PROVE  \E p \in Pid, s \in Sid :
           /\ worker[w].task = CloseOf(p, s)
           /\ worker'[w].task = CloseOf(p, s)
           /\ Carried(p, s)
PROOF
<1>a. worker \in [Worker -> WorkerState] /\ Wires
  BY DEF TypeOK, Custody
<1>b. WorkerStep(w)
  BY DEF WorkerStep
<1>1. /\ worker[w].pc \in {"run", "erase"} /\ worker[w].task.kind = "close"
      /\ worker'[w].task = worker[w].task
  BY <1>a, <1>b, WorkerMoves DEF Wires
<1>2. worker[w].task \in StatusTask
  BY <1>a, <1>1, WorkerLocals, TaskFields
<1>3. PICK p \in Pid, s \in Sid :
        p = worker[w].task.pid /\ s = worker[w].task.sid
  BY <1>2 DEF StatusTask
<1>4. worker[w].task = CloseOf(p, s)
  BY <1>1, <1>2, <1>3 DEF CloseOf, StatusTask
<1> QED
  BY <1>1, <1>4 DEF Carried

(* Only a placement adds to the vector of a process.                       *)
LEMMA VectorShrinks ==
  ASSUME TypeOK, Custody, [Next]_vars, ~Placed,
         NEW p \in Pid, NEW s \in Sid, SomeIn(sessions'[p], {s})
  PROVE  SomeIn(sessions[p], {s})
PROOF
<1>a. sessions \in [Pid -> Seq(Sid)]
  BY DEF TypeOK
<1>1. CASE UNCHANGED sessions
  BY <1>1
<1>2. ASSUME NEW w \in Worker, remove_session(w) \/ EraseSession(w)
      PROVE  SomeIn(sessions[p], {s})
  <2>1. PICK q \in Pid, r \in Sid : worker[w].task = CloseOf(q, r)
    BY <1>2, ClosingFacts
  <2>2. \/ UNCHANGED sessions
        \/ sessions' = [sessions EXCEPT ![q] = RemoveFirst(@, r)]
    BY <1>2, <2>1 DEF remove_session, EraseSession, CloseOf,
      processVars
  <2>3. SomeIn(RemoveFirst(sessions[q], r), {s}) =>
          SomeIn(sessions[q], {s})
    BY <1>a, RemoveFirstOnce, Zenon
  <2> QED
    BY <1>a, <2>2, <2>3
<1> QED
  BY <1>1, <1>2, OnlyChanges DEF Unlisted

-----------------------------------------------------------------------------
(* SwapFlagTruthful.                                                       *)

(* The flags at start-up: nothing was placed or asked for.                 *)
LEMMA FlagsInit == Init => Flags
PROOF
<1> SUFFICES ASSUME Init PROVE Flags
  OBVIOUS
<1>1. UnknownIsNew /\ PlacingFlag
  BY DEF Init, UnknownIsNew, PlacingFlag, Placing, IdleHttp
<1>2. GivenBackLived
  BY DEF Init, GivenBackLived, Owner, IdleWorker
<1>3. ListedFlag
  BY DEF Init, ListedFlag, SomeIn
<1>4. AliveWasSent
  BY DEF Init, AliveWasSent, Carried, SomeIn, IdleWorker
<1>5. SwapFlagTruthful
  BY DEF Init, SwapFlagTruthful
<1> QED
  BY <1>1, <1>2, <1>3, <1>4, <1>5 DEF Flags

(* The entry of a listed session tells whether it has lived before: a      *)
(* placement sets it to the flag process_client got from Redis, and no     *)
(* session is placed while it is listed.                                   *)
LEMMA ListedStep ==
  ASSUME TypeOK, Custody, Flags, [Next]_vars,
         NEW p \in Pid, NEW s \in Sid, SomeIn(sessions'[p], {s})
  PROVE  /\ lives'[s] \in Nat /\ lives'[s] > 0
         /\ swap_in'[s] <=> lives'[s] > 1
         /\ lives'[s] > 1 => sent[s] > 0
PROOF
<1>a. /\ lives \in [Sid -> Nat] /\ swap_in \in [Sid -> BOOLEAN]
      /\ sessions \in [Pid -> Seq(Sid)] /\ worker \in [Worker -> WorkerState]
  BY DEF TypeOK
<1>1. ASSUME SomeIn(sessions[p], {s})
      PROVE  /\ lives[s] > 0
             /\ swap_in[s] <=> lives[s] > 1
             /\ lives[s] > 1 => sent[s] > 0
  BY <1>1 DEF Flags, ListedFlag
<1>2. CASE Placed
  <2>1. /\ Placing
        /\ lives' = [lives EXCEPT ![http.sid] = @ + 1]
        /\ swap_in' = [swap_in EXCEPT ![http.sid] = http.swap]
        /\ SomeIn(sessions[p], {s}) \/ s = http.sid
    BY <1>2, PlacedFacts
  <2>2. CASE s = http.sid
    <3>1. lives'[s] = lives[s] + 1 /\ swap_in'[s] = http.swap
      BY <1>a, <2>1, <2>2
    <3>2. (http.swap <=> lives[s] > 0) /\ (http.swap <=> sent[s] > 0)
      BY <2>1, <2>2 DEF Flags, PlacingFlag
    <3>3. lives[s] \in Nat
      BY <1>a
    <3> QED
      BY <3>1, <3>2, <3>3
  <2>3. CASE s # http.sid
    <3>1. lives'[s] = lives[s] /\ swap_in'[s] = swap_in[s] /\ lives[s] \in Nat
      BY <1>a, <2>1, <2>3
    <3> QED
      BY <1>1, <2>1, <2>3, <3>1
  <2> QED
    BY <2>2, <2>3
<1>3. CASE ~Placed
  <2>1. UNCHANGED <<lives, swap_in>>
    BY <1>3, OnlyChanges
  <2>2. SomeIn(sessions[p], {s})
    BY <1>3, VectorShrinks
  <2>3. lives[s] \in Nat
    BY <1>a
  <2> QED
    BY <1>1, <2>1, <2>2, <2>3
<1> QED
  BY <1>2, <1>3

(* A session that was placed or asked for stays so.                        *)
LEMMA HistoryGrows ==
  ASSUME TypeOK, Custody, Flags, [Next]_vars, NEW s \in Sid
  PROVE  /\ lives[s] > 0 => lives'[s] > 0
         /\ sent[s] > 0 => sent'[s] > 0
PROOF
<1>a. lives \in [Sid -> Nat] /\ sent \in [Sid -> Nat]
  BY DEF TypeOK
<1>1. lives[s] > 0 => lives'[s] > 0
  <2>1. CASE Placed
    <3>1. lives' = [lives EXCEPT ![http.sid] = @ + 1]
      BY <2>1, PlacedFacts
    <3> QED
      BY <1>a, <3>1
  <2> QED
    BY <2>1, OnlyChanges
<1>2. sent[s] > 0 => sent'[s] > 0
  <2>1. CASE AskedFor
    <3>1. PICK p \in Pid, r \in Sid :
            /\ WriteRequest(p, r, swap_in'[r], lives'[r])
            /\ SomeIn(sessions'[p], {r})
      BY <2>1, AskedFacts
    <3>2. lives'[r] > 0
      BY <3>1, ListedStep
    <3>3. sent' = sent \/ sent' = [sent EXCEPT ![r] = lives'[r]]
      BY <3>1 DEF WriteRequest
    <3> QED
      BY <1>a, <3>2, <3>3
  <2> QED
    BY <2>1, OnlyChanges
<1> QED
  BY <1>1, <1>2

(* Flags is inductive.                                                     *)
LEMMA FlagsStep ==
  ASSUME TypeOK, Custody, Flags, [Next]_vars
  PROVE  Flags'
PROOF
<1> USE DEF redisVars, processVars, sessionVars, poolVars, queueVars,
            wireVars, envVars, historyVars
<1>a. /\ lives \in [Sid -> Nat] /\ sent \in [Sid -> Nat]
      /\ swap_in \in [Sid -> BOOLEAN] /\ allocated \in [Sid -> BOOLEAN]
      /\ toProc \in [Pid -> Seq(Request)] /\ http \in HttpState
      /\ worker \in [Worker -> WorkerState] /\ swapped \in [Gid -> SUBSET Sid]
      /\ known \subseteq Sid
  BY DEF TypeOK
<1>b. TypeOK'
  BY TypeStep
<1>1. ASSUME AskedFor
      PROVE  \E p \in Pid, s \in Sid :
               /\ s \in known /\ SomeIn(sessions'[p], {s})
               /\ lives'[s] \in Nat /\ lives'[s] > 0
               /\ swap_in'[s] \in BOOLEAN
               /\ WriteRequest(p, s, swap_in'[s], lives'[s])
               /\ allocated' = [allocated EXCEPT ![s] = TRUE]
               /\ AddToExisting \/ UNCHANGED <<http, sessions>>
  <2>1. PICK p \in Pid, s \in Sid :
               /\ s \in known /\ SomeIn(sessions'[p], {s})
               /\ WriteRequest(p, s, swap_in'[s], lives'[s])
               /\ allocated' = [allocated EXCEPT ![s] = TRUE]
               /\ AddToExisting \/ UNCHANGED <<http, sessions>>
    BY <1>1, AskedFacts
  <2>2. lives'[s] \in Nat /\ lives'[s] > 0 /\ swap_in'[s] \in BOOLEAN
    BY <1>b, <2>1, ListedStep DEF TypeOK
  <2> QED
    BY <2>1, <2>2
<1>2. UnknownIsNew'
  <2> SUFFICES ASSUME NEW s \in Sid, s \notin known'
               PROVE  lives'[s] = 0 /\ sent'[s] = 0
    BY DEF UnknownIsNew
  <2>1. s \notin known
    BY OnlyChanges DEF NewSession
  <2>2. lives[s] = 0 /\ sent[s] = 0
    BY <2>1 DEF Flags, UnknownIsNew
  <2>3. lives'[s] = lives[s]
    <3>1. CASE Placed
      <4>1. lives' = [lives EXCEPT ![http.sid] = @ + 1] /\ http.sid \in known
        BY <3>1, PlacedFacts, PlacingAlone
      <4> QED
        BY <1>a, <2>1, <4>1
    <3> QED
      BY <3>1, OnlyChanges
  <2>4. sent'[s] = sent[s]
    <3>1. CASE AskedFor
      <4>1. PICK p \in Pid, r \in Sid :
              r \in known /\ WriteRequest(p, r, swap_in'[r], lives'[r])
        BY <1>1, <3>1
      <4>2. sent' = sent \/ sent' = [sent EXCEPT ![r] = lives'[r]]
        BY <4>1 DEF WriteRequest
      <4> QED
        BY <1>a, <2>1, <4>1, <4>2
    <3> QED
      BY <3>1, OnlyChanges
  <2> QED
    BY <2>2, <2>3, <2>4
<1>3. PlacingFlag'
  <2> SUFFICES ASSUME Placing'
               PROVE  /\ http'.swap <=> lives'[http'.sid] > 0
                      /\ http'.swap <=> sent'[http'.sid] > 0
    BY DEF PlacingFlag
  <2>1. ~Placed
    BY PlacedFacts DEF Placing
  <2>2. UNCHANGED lives
    BY <2>1, OnlyChanges
  <2>3. ASSUME Placing, http'.sid = http.sid, http'.swap = http.swap
        PROVE  /\ http'.swap <=> lives'[http'.sid] > 0
               /\ http'.swap <=> sent'[http'.sid] > 0
    <3>1. /\ http.swap <=> lives[http.sid] > 0
          /\ http.swap <=> sent[http.sid] > 0
          /\ http.sid \in Sid
      BY <2>3, PlacingAlone DEF Flags, PlacingFlag
    <3>2. sent'[http.sid] = sent[http.sid]
      <4>1. CASE AskedFor
        <5>1. PICK p \in Pid, r \in Sid :
                /\ SomeIn(sessions'[p], {r})
                /\ WriteRequest(p, r, swap_in'[r], lives'[r])
                /\ AddToExisting \/ UNCHANGED <<http, sessions>>
          BY <1>1, <4>1
        <5>2. UNCHANGED sessions
          BY <2>1, <5>1 DEF Placed
        <5>3. r # http.sid
          BY <2>3, <5>1, <5>2, PlacingAlone
        <5>4. sent' = sent \/ sent' = [sent EXCEPT ![r] = lives'[r]]
          BY <5>1 DEF WriteRequest
        <5> QED
          BY <1>a, <3>1, <5>3, <5>4
      <4> QED
        BY <4>1, OnlyChanges
    <3> QED
      BY <2>2, <2>3, <3>1, <3>2
  <2>4. CASE UNCHANGED http
    BY <2>3, <2>4 DEF Placing
  <2>5. CASE HttpStep /\ ~TakeSwapped
    <3>1. Placing /\ http'.sid = http.sid /\ http'.swap = http.swap
      BY <2>5, HttpMoves DEF Placing
    <3> QED
      BY <2>3, <3>1
  <2>6. CASE TakeSwapped
    <3>1. /\ http.sid \in swapped[http.gid] /\ http.pc = "srem"
          /\ UNCHANGED sent
      BY <2>6 DEF TakeSwapped
    <3>2. http.sid \in Sid /\ http.gid \in Gid
      BY <1>a, <3>1, HttpLocals
    <3>3. Owner("swapped", http.gid, http.sid)
      BY <3>1, <3>2 DEF Owner
    <3>4. lives[http.sid] > 0 /\ sent[http.sid] > 0
      BY <3>2, <3>3 DEF Flags, GivenBackLived
    <3>5. http'.swap = TRUE /\ http'.sid = http.sid
      BY <2>6, HttpMoves DEF HttpStep
    <3> QED
      BY <2>2, <3>1, <3>4, <3>5
  <2>7. CASE Client
    <3>1. PICK s \in Sid : /\ s \notin known /\ UNCHANGED sent
                           /\ http'.sid = s /\ http'.swap = FALSE
      <4>1. \A g \in Gid : ~process_allocation(g)
        BY DEF process_allocation, Placing
      <4>2. \A g \in Gid, s \in Sid, f \in Fid \cup {None} :
              ~CheckAlive(g, s, f)
        BY DEF CheckAlive, Placing, IdleHttp
      <4>3. PICK g \in Gid, s \in Sid, f \in Fid \cup {None} :
              NewSession(g, s, f)
        BY <2>7, <4>1, <4>2 DEF Client
      <4> QED
        BY <4>3 DEF NewSession, IdleHttp
    <3>2. lives[s] = 0 /\ sent[s] = 0
      BY <3>1 DEF Flags, UnknownIsNew
    <3> QED
      BY <2>2, <3>1, <3>2
  <2> QED
    BY <2>4, <2>5, <2>6, <2>7, OnlyChanges
<1>4. GivenBackLived'
  <2> SUFFICES ASSUME NEW s \in Sid, NEW k, NEW a, Owner(k, a, s)',
                      k \in {"swapped", "swap"}
               PROVE  lives'[s] > 0 /\ sent'[s] > 0
    BY DEF GivenBackLived
  <2> SUFFICES lives[s] > 0 /\ sent[s] > 0
    BY HistoryGrows
  <2>1. ASSUME NEW l, NEW b, Owner(l, b, s), l \in {"swapped", "swap"}
        PROVE  lives[s] > 0 /\ sent[s] > 0
    BY <2>1 DEF Flags, GivenBackLived
  <2>2. CASE k = "swapped"
    <3>1. a \in Gid /\ s \in swapped'[a]
      BY <2>2 DEF Owner
    <3>2. CASE s \in swapped[a]
      <4>1. Owner("swapped", a, s)
        BY <3>1, <3>2 DEF Owner
      <4> QED
        BY <2>1, <4>1
    <3>3. ASSUME NEW w \in Worker, AddSwapped(w), s \notin swapped[a]
          PROVE  lives[s] > 0 /\ sent[s] > 0
      <4>1. worker[w].pc = "swap" /\ worker[w].task.sid = s
        BY <1>a, <3>1, <3>3 DEF AddSwapped, SwappedEntry
      <4>2. Owner("swap", w, s)
        BY <4>1 DEF Owner
      <4> QED
        BY <2>1, <4>2
    <3>4. TakeSwapped => s \in swapped[a]
      BY <1>a, <3>1 DEF TakeSwapped
    <3> QED
      BY <3>1, <3>2, <3>3, <3>4, OnlyChanges
  <2>3. CASE k = "swap"
    <3>1. /\ a \in Worker /\ worker'[a].pc = "swap"
          /\ worker'[a].task.sid = s
      BY <2>3 DEF Owner
    <3>2. CASE worker'[a] = worker[a]
      <4>1. Owner("swap", a, s)
        BY <3>1, <3>2 DEF Owner
      <4> QED
        BY <2>1, <4>1
    <3>3. ASSUME NEW w \in Worker, WorkerStep(w), worker'[a] # worker[a]
          PROVE  lives[s] > 0 /\ sent[s] > 0
      <4>1. w = a /\ (remove_session(w) \/ EraseSession(w))
        BY <3>1, <3>3, WorkerMoves DEF WorkerStep
      <4>2. PICK p \in Pid, r \in Sid :
              worker'[w].task = CloseOf(p, r) /\ Carried(p, r)
        BY <4>1, ClosingFacts
      <4>3. r = s
        BY <3>1, <4>1, <4>2 DEF CloseOf
      <4> QED
        BY <4>2, <4>3, CarriedIsListed DEF Flags, AliveWasSent, ListedFlag
    <3> QED
      BY <3>1, <3>2, <3>3, OnlyChanges
  <2> QED
    BY <2>2, <2>3
<1>5. ListedFlag'
  BY ListedStep, HistoryGrows DEF ListedFlag
<1>6. AliveWasSent'
  <2>1. ASSUME NEW s \in Sid, NEW p \in Pid, Carried(p, s)'
        PROVE  sent'[s] > 0
    <3>1. CASE Carried(p, s)
      BY <3>1, HistoryGrows DEF Flags, AliveWasSent
    <3>2. CASE ~Carried(p, s)
      <4>1. AskedFor /\ SomeIn(toProc'[p], Requests(s))
        BY <2>1, <3>2, CarriedOn DEF Custody
      <4>2. PICK q \in Pid, r \in Sid :
               /\ lives'[r] > 0 /\ swap_in'[r] \in BOOLEAN
               /\ WriteRequest(q, r, swap_in'[r], lives'[r])
        BY <1>1, <4>1
      <4>3. ~SomeIn(toProc[p], Requests(s))
        BY <3>2 DEF Carried
      <4>4. /\ toProc' = [toProc EXCEPT ![q] =
                            Append(@, fill(r, swap_in'[r]))]
            /\ sent' = [sent EXCEPT ![r] = lives'[r]]
        BY <4>1, <4>2, <4>3 DEF WriteRequest
      <4>5. PICK m \in Request : m = fill(r, swap_in'[r])
        BY <4>2 DEF fill, Request
      <4>6. toProc'[p] = IF p = q THEN Append(toProc[p], m) ELSE toProc[p]
        BY <1>a, <4>4, <4>5
      <4>7. p = q /\ m \in Requests(s)
        BY <1>a, <4>1, <4>3, <4>6, AppendOnce
      <4>8. r = s
        BY <4>5, <4>7 DEF fill, Requests
      <4> QED
        BY <1>a, <4>2, <4>4, <4>8
    <3> QED
      BY <3>1, <3>2
  <2>2. ASSUME NEW s \in Sid, ~allocated'[s]
        PROVE  sent'[s] = 0
    <3>1. CASE AskedFor
      <4>1. PICK p \in Pid, r \in Sid :
              /\ WriteRequest(p, r, swap_in'[r], lives'[r])
              /\ allocated' = [allocated EXCEPT ![r] = TRUE]
        BY <1>1, <3>1
      <4>2. r # s /\ ~allocated[s]
        BY <1>a, <2>2, <4>1
      <4>3. sent'[s] = sent[s]
        BY <1>a, <4>1, <4>2 DEF WriteRequest
      <4> QED
        BY <4>2, <4>3 DEF Flags, AliveWasSent
    <3>2. CASE ~AskedFor
      BY <2>2, <3>2, OnlyChanges DEF Flags, AliveWasSent
    <3> QED
      BY <3>1, <3>2
  <2> QED
    BY <2>1, <2>2 DEF AliveWasSent
<1>7. SwapFlagTruthful'
  <2> SUFFICES ASSUME NEW p \in Pid, NEW i \in DOMAIN toProc'[p]
               PROVE  toProc'[p][i].swap <=> lives'[toProc'[p][i].sid] > 1
    BY DEF SwapFlagTruthful
  <2>1. ASSUME NEW j \in DOMAIN toProc[p], toProc'[p][i] = toProc[p][j]
        PROVE  toProc'[p][i].swap <=> lives'[toProc'[p][i].sid] > 1
    <3>1. toProc[p][j] \in Request
      BY <1>a
    <3>2. PICK s \in Sid : s = toProc[p][j].sid
      BY <3>1 DEF Request
    <3>3. toProc[p][j] \in Requests(s)
      BY <3>1, <3>2 DEF Request, Requests
    <3>4. Carried(p, s)
      BY <3>3 DEF Carried, SomeIn
    <3>5. lives'[s] = lives[s]
      <4>1. CASE Placed
        <5>1. lives' = [lives EXCEPT ![http.sid] = @ + 1] /\ s # http.sid
          BY <3>4, <4>1, PlacedFacts, PlacingAlone
        <5> QED
          BY <1>a, <5>1
      <4> QED
        BY <4>1, OnlyChanges
    <3> QED
      BY <2>1, <3>2, <3>5 DEF Flags, SwapFlagTruthful
  <2>2. CASE UNCHANGED toProc
    BY <2>1, <2>2
  <2>3. ASSUME NEW q \in Pid, ProcAllocate(q) \/ ProcRefuse(q)
        PROVE  \E j \in DOMAIN toProc[p] : toProc'[p][i] = toProc[p][j]
    <3>1. toProc' = [toProc EXCEPT ![q] = Tail(@)] /\ toProc[q] # <<>>
      BY <2>3 DEF ProcAllocate, ProcRefuse
    <3>2. CASE p = q
      <4>1. toProc'[p] = Tail(toProc[p]) /\ toProc[p] \in Seq(Request)
            /\ toProc[p] # <<>>
        BY <1>a, <3>1, <3>2
      <4>2. /\ i \in 1 .. Len(toProc[p]) - 1
            /\ toProc'[p][i] = toProc[p][i + 1]
            /\ i + 1 \in DOMAIN toProc[p]
        BY <4>1
      <4> QED
        BY <4>2
    <3>3. CASE p # q
      BY <1>a, <3>1, <3>3
    <3> QED
      BY <3>2, <3>3
  <2>4. CASE AskedFor
    <3>1. PICK q \in Pid, r \in Sid :
            /\ SomeIn(sessions'[q], {r}) /\ swap_in'[r] \in BOOLEAN
            /\ WriteRequest(q, r, swap_in'[r], lives'[r])
      BY <1>1, <2>4
    <3>2. swap_in'[r] <=> lives'[r] > 1
      BY <3>1, ListedStep
    <3>3. CASE connection[q] /\ p = q
      <4>1. toProc' = [toProc EXCEPT ![q] = Append(@, fill(r, swap_in'[r]))]
        BY <3>1, <3>3 DEF WriteRequest
      <4>2. PICK m \in Request : m = fill(r, swap_in'[r])
        BY <3>1 DEF fill, Request
      <4>3. toProc'[p] = Append(toProc[p], m) /\ toProc[p] \in Seq(Request)
        BY <1>a, <3>3, <4>1, <4>2
      <4>4. \/ i \in DOMAIN toProc[p] /\ toProc'[p][i] = toProc[p][i]
            \/ toProc'[p][i] = m
        BY <4>3
      <4>5. m.sid = r /\ m.swap = swap_in'[r]
        BY <4>2 DEF fill
      <4> QED
        BY <2>1, <3>2, <4>4, <4>5
    <3>4. CASE ~(connection[q] /\ p = q)
      <4>1. toProc'[p] = toProc[p]
        BY <1>a, <3>1, <3>4 DEF WriteRequest
      <4> QED
        BY <2>1, <4>1
    <3> QED
      BY <3>3, <3>4
  <2> QED
    BY <2>1, <2>2, <2>3, <2>4, OnlyChanges DEF Answered
<1> QED
  BY <1>2, <1>3, <1>4, <1>5, <1>6, <1>7 DEF Flags

(* A request asks for a swap-in exactly when the session has lived before, *)
(* whether the HTTP thread or the pool writes it, whether the process had  *)
(* connected when the session was placed, and whether or not the counter   *)
(* tears.                                                                  *)
THEOREM SwapFlagCorrect == Spec => []SwapFlagTruthful
PROOF
<1>1. TypeOK /\ Custody /\ Flags /\ [Next]_vars => Flags'
  BY FlagsStep
<1>2. Flags => SwapFlagTruthful
  BY DEF Flags
<1> QED
  BY <1>1, <1>2, FlagsInit, CustodyCorrect, TypeCorrect, PTL DEF Spec

-----------------------------------------------------------------------------
(* RunningListedAlive.                                                     *)

(* Nothing is on record at start-up.                                       *)
LEMMA RecordsInit == Init => Records
PROOF
<1> SUFFICES ASSUME Init PROVE Records
  OBVIOUS
<1>1. \A s \in Sid : \A k, a : ~Owner(k, a, s)
  BY DEF Init, Owner, SomeIn, IdleHttp, IdleWorker
<1>2. ListedOnRecord
  BY <1>1 DEF ListedOnRecord
<1>3. SwappedOnRecord /\ PlacingOnRecord /\ CheckedNotAlive
  BY DEF Init, SwappedOnRecord, PlacingOnRecord, CheckedNotAlive, Placing,
    IdleHttp
<1>4. UnknownUnstruck /\ ClosingIsCreated
  BY DEF Init, UnknownUnstruck, Unstruck, Striking, ClosingIsCreated,
    IdleWorker
<1> QED
  BY <1>2, <1>3, <1>4 DEF Records

(* The pool threads that will strike a session off: AddSwapped makes one,  *)
(* RemoveAlive ends one, and no other step does, since a process keeps the *)
(* global id it was created with.                                          *)
LEMMA StrikingStep ==
  ASSUME TypeOK, Records, [Next]_vars, NEW v \in Worker, NEW s, NEW h
  PROVE  /\ Striking(v, s, h)' => Striking(v, s, h) \/ AddSwapped(v)
         /\ Striking(v, s, h) => Striking(v, s, h)' \/ RemoveAlive(v)
PROOF
<1>a. worker \in [Worker -> WorkerState]
      /\ global_process_id \in [Pid -> Gid \cup {None}]
  BY DEF TypeOK
<1>1. ASSUME worker'[v] = worker[v], worker[v].pc = "unalive"
      PROVE  global_process_id'[worker[v].task.pid] =
               global_process_id[worker[v].task.pid]
  <2>1. worker[v].task.pid \in processes /\ worker[v].task.pid \in Pid
    BY <1>a, <1>1, WorkerLocals
    DEF Records, ClosingIsCreated, StatusTask
  <2>2. ASSUME NEW p \in Pid, AddToNew(p)
        PROVE  global_process_id'[worker[v].task.pid] =
                 global_process_id[worker[v].task.pid]
    <3>1. /\ p \notin processes
          /\ global_process_id' = [global_process_id EXCEPT ![p] = http.gid]
      BY <2>2 DEF AddToNew
    <3> QED
      BY <1>a, <2>1, <3>1
  <2> QED
    BY <2>2, OnlyChanges
<1>2. CASE worker'[v] = worker[v]
  BY <1>1, <1>2 DEF Striking
<1>3. ASSUME WorkerStep(v), worker'[v] # worker[v]
      PROVE  /\ worker'[v].pc = "unalive" => AddSwapped(v)
             /\ worker[v].pc = "unalive" => RemoveAlive(v)
  <2>1. worker'[v].pc = "unalive" => AddSwapped(v)
    BY <1>3, WorkerMoves DEF WorkerStep
  <2>2. worker[v].pc = "unalive" => RemoveAlive(v)
    BY <1>3 DEF WorkerStep, TakeTask, StoreConnection, LockSessions,
      SendPending, AddEpoll, process_session, remove_session, EraseSession,
      AddSwapped, LogStatus, Runs
  <2> QED
    BY <2>1, <2>2
<1>4. CASE worker'[v] # worker[v]
  <2>1. WorkerStep(v)
    BY <1>4, WorkerMoves, OnlyChanges
  <2> QED
    BY <1>3, <1>4, <2>1 DEF Striking
<1> QED
  BY <1>2, <1>4

(* Steps that leave the record of what is alive, and who will change it,   *)
(* alone.                                                                  *)
LEMMA RecordsFrame ==
  ASSUME Records, UNCHANGED alive, known \subseteq known',
         \A v \in Worker : \A s, h :
           Striking(v, s, h)' <=> Striking(v, s, h),
         \A h \in Gid : swapped'[h] \subseteq swapped[h],
         http.pc = "alive" =>
           http'.pc = "alive" /\ http'.sid = http.sid /\ http'.gid = http.gid,
         Placing' => \/ OnRecord(http'.sid)
                     \/ Unstruck(http'.sid, http'.gid),
         http'.pc = "srem" => http'.sid \notin alive[http'.gid],
         ClosingIsCreated',
         \A s \in Sid : \A k, a :
           Owner(k, a, s)' /\ k \in {"vector", "swap"} =>
             OnRecord(s) \/ Recording(s) \/ Recording(s)'
  PROVE  Records'
PROOF
<1>1. \A s, h : /\ Unstruck(s, h)' <=> Unstruck(s, h)
                /\ StruckOnce(s, h)' <=> StruckOnce(s, h)
  BY DEF Unstruck, StruckOnce
<1>2. \A s : OnRecord(s)' <=> OnRecord(s)
  BY <1>1 DEF OnRecord
<1>3. \A s : Recording(s) => Recording(s)'
  BY <1>1 DEF Recording
<1>4. ListedOnRecord'
  BY <1>2, <1>3 DEF ListedOnRecord
<1>5. PlacingOnRecord'
  BY <1>1, <1>2 DEF PlacingOnRecord
<1>6. SwappedOnRecord'
  <2> SUFFICES ASSUME NEW s \in Sid, NEW h \in Gid, s \in swapped'[h]
               PROVE  \/ OnRecord(s)' \/ Recording(s)' \/ Unstruck(s, h)'
                      \/ /\ StruckOnce(s, h)'
                         /\ \/ s \in alive'[h]
                            \/ /\ http'.pc = "alive" /\ http'.sid = s
                               /\ http'.gid = h
    BY DEF SwappedOnRecord
  <2>1. \/ OnRecord(s) \/ Recording(s) \/ Unstruck(s, h)
        \/ /\ StruckOnce(s, h)
           /\ \/ s \in alive[h]
              \/ http.pc = "alive" /\ http.sid = s /\ http.gid = h
    BY DEF Records, SwappedOnRecord
  <2> QED
    BY <1>1, <1>2, <1>3, <2>1
<1>7. UnknownUnstruck'
  BY <1>1 DEF Records, UnknownUnstruck
<1>8. CheckedNotAlive'
  BY DEF CheckedNotAlive
<1> QED
  BY <1>4, <1>5, <1>6, <1>7, <1>8 DEF Records

(* A pool thread gives a session back: from now on it will strike it off,  *)
(* and does so once.                                                       *)
LEMMA RecordsAddSwapped ==
  ASSUME TypeOK, Custody, Records, [Next]_vars, NEW w \in Worker,
         AddSwapped(w)
  PROVE  Records'
PROOF
<1>a. /\ worker \in [Worker -> WorkerState]
      /\ swapped \in [Gid -> SUBSET Sid]
  BY DEF TypeOK
<1>b. WorkerStep(w)
  BY DEF WorkerStep
<1>c. /\ UNCHANGED <<alive, http, sessions, known, processes,
                     global_process_id>>
      /\ swapped' = [swapped EXCEPT ![global_process_id[worker[w].task.pid]]
                       = @ \cup {worker[w].task.sid}]
  BY DEF AddSwapped, SwappedEntry, redisVars, processVars
<1>d. /\ worker[w].pc = "swap" /\ worker'[w].pc = "unalive"
      /\ worker'[w].task = worker[w].task
      /\ \A v \in Worker : v # w => worker'[v] = worker[v]
  BY <1>b, WorkerMoves
<1>1. PICK r \in Sid : r = worker[w].task.sid
  BY <1>a, <1>d, WorkerLocals DEF StatusTask
<1>2. PICK h0 : h0 = global_process_id[worker[w].task.pid]
  OBVIOUS
<1>3. \A k, a : Owner(k, a, r) => k = "swap" /\ a = w
  <2>1. Owner("swap", w, r)
    BY <1>d, <1>1 DEF Owner
  <2> QED
    BY <2>1 DEF Custody, OneOwner
<1>4. \A s, h : (s # r \/ h # h0) =>
        /\ Unstruck(s, h)' <=> Unstruck(s, h)
        /\ StruckOnce(s, h)' <=> StruckOnce(s, h)
  <2>1. \A v \in Worker : \A s, h : (s # r \/ h # h0) =>
          (Striking(v, s, h)' <=> Striking(v, s, h))
    BY <1>c, <1>d, <1>1, <1>2 DEF Striking
  <2> QED
    BY <2>1 DEF Unstruck, StruckOnce
<1>5. Unstruck(r, h0) => StruckOnce(r, h0)'
  <2>1. \A v \in Worker : v # w =>
          (Striking(v, r, h0)' <=> Striking(v, r, h0))
    BY <1>c, <1>d DEF Striking
  <2> QED
    BY <2>1 DEF Unstruck, StruckOnce
<1>6. \A s : s # r => /\ OnRecord(s)' <=> OnRecord(s)
                      /\ Recording(s)' <=> Recording(s)
  BY <1>c, <1>4 DEF OnRecord, Recording
<1>7. ListedOnRecord'
  <2> SUFFICES ASSUME NEW s \in Sid, NEW k, NEW a, Owner(k, a, s)',
                      k \in {"vector", "swap"}
               PROVE  OnRecord(s)' \/ Recording(s)'
    BY DEF ListedOnRecord
  <2>1. Owner(k, a, s) /\ ~(k = "swap" /\ a = w)
    BY <1>c, <1>d DEF Owner
  <2>2. s # r
    BY <1>3, <2>1
  <2>3. OnRecord(s) \/ Recording(s)
    BY <2>1 DEF Records, ListedOnRecord
  <2> QED
    BY <1>6, <2>2, <2>3
<1>8. PlacingOnRecord'
  <2> SUFFICES ASSUME Placing
               PROVE  \/ OnRecord(http.sid)'
                      \/ Unstruck(http.sid, http.gid)'
    BY <1>c DEF PlacingOnRecord, Placing
  <2>1. http.sid # r
    <3>1. Owner("http", None, http.sid)
      BY DEF Owner, Placing
    <3>2. http.sid = r => "http" = "swap"
      BY <1>3, <3>1
    <3> QED
      BY <3>2
  <2>2. OnRecord(http.sid) \/ Unstruck(http.sid, http.gid)
    BY DEF Records, PlacingOnRecord
  <2>3. PICK s, g : s = http.sid /\ g = http.gid
    OBVIOUS
  <2>4. OnRecord(s)' \/ Unstruck(s, g)'
    BY <1>4, <1>6, <2>1, <2>2, <2>3
  <2>5. /\ OnRecord(s)' <=> OnRecord(http.sid)'
        /\ Unstruck(s, g)' <=> Unstruck(http.sid, http.gid)'
    BY <1>c, <2>3 DEF OnRecord, Unstruck, Striking
  <2> QED
    BY <2>4, <2>5
<1>9. SwappedOnRecord'
  <2> SUFFICES ASSUME NEW s \in Sid, NEW h \in Gid, s \in swapped'[h]
               PROVE  \/ OnRecord(s)' \/ Recording(s)' \/ Unstruck(s, h)'
                      \/ /\ StruckOnce(s, h)'
                         /\ \/ s \in alive[h]
                            \/ /\ http.pc = "alive" /\ http.sid = s
                               /\ http.gid = h
    BY <1>c DEF SwappedOnRecord
  <2>1. CASE s \in swapped[h]
    <3>1. Owner("swapped", h, s)
      BY <2>1 DEF Owner
    <3>2. s = r => "swapped" = "swap"
      BY <1>3, <3>1
    <3>3. s # r
      BY <3>2
    <3>4. \/ OnRecord(s) \/ Recording(s) \/ Unstruck(s, h)
          \/ /\ StruckOnce(s, h)
             /\ \/ s \in alive[h]
                \/ http.pc = "alive" /\ http.sid = s /\ http.gid = h
      BY <2>1 DEF Records, SwappedOnRecord
    <3> QED
      BY <1>4, <1>6, <3>3, <3>4
  <2>2. CASE s \notin swapped[h]
    <3>1. s = r /\ h = h0
      BY <1>a, <1>c, <1>1, <1>2, <2>2
    <3>2. OnRecord(r) \/ Recording(r)
      <4>1. Owner("swap", w, r)
        BY <1>d, <1>1 DEF Owner
      <4> QED
        BY <4>1 DEF Records, ListedOnRecord
    <3>3. ASSUME NEW g \in Gid, r \in alive[g], Unstruck(r, g)
          PROVE  \/ OnRecord(r)'
                 \/ StruckOnce(r, h0)' /\ r \in alive[h0]
      <4>1. CASE g = h0
        BY <1>5, <3>3, <4>1
      <4>2. CASE g # h0
        <5>1. Unstruck(r, g)' /\ r \in alive'[g]
          BY <1>4, <1>c, <3>3, <4>2
        <5> QED
          BY <5>1 DEF OnRecord
      <4> QED
        BY <4>1, <4>2
    <3>4. ASSUME Recording(r)
          PROVE  \/ Recording(r)'
                 \/ /\ StruckOnce(r, h0)' /\ http.pc = "alive"
                    /\ http.sid = r /\ http.gid = h0
      <4>1. http.pc = "alive" /\ http.sid = r /\ Unstruck(r, http.gid)
        BY <3>4 DEF Recording
      <4>2. CASE http.gid = h0
        BY <1>5, <4>1, <4>2
      <4>3. CASE http.gid # h0
        <5>1. PICK g : g = http.gid /\ Unstruck(r, g)'
          BY <1>4, <4>1, <4>3
        <5>2. Unstruck(r, http.gid)'
          BY <1>c, <5>1 DEF Unstruck, Striking
        <5> QED
          BY <1>c, <4>1, <5>2 DEF Recording
      <4> QED
        BY <4>2, <4>3
    <3> QED
      BY <3>1, <3>2, <3>3, <3>4 DEF OnRecord
  <2> QED
    BY <2>1, <2>2
<1>10. UnknownUnstruck'
  <2>1. Owner("swap", w, r)
    BY <1>d, <1>1 DEF Owner
  <2>2. r \in known
    BY <2>1 DEF Custody, OwnedIsKnown
  <2> QED
    BY <1>c, <1>4, <2>2 DEF Records, UnknownUnstruck
<1>11. CheckedNotAlive' /\ ClosingIsCreated'
  BY <1>c, <1>d DEF Records, CheckedNotAlive, ClosingIsCreated
<1> QED
  BY <1>7, <1>8, <1>9, <1>10, <1>11 DEF Records

(* A pool thread strikes a session off the record of its process: of two   *)
(* that would, the record would lose a session that lives again, but       *)
(* process_client lets nobody take it before the first is done.            *)
LEMMA RecordsRemoveAlive ==
  ASSUME TypeOK, Custody, Records, [Next]_vars, NEW w \in Worker,
         RemoveAlive(w)
  PROVE  Records'
PROOF
<1>a. /\ worker \in [Worker -> WorkerState] /\ alive \in [Gid -> SUBSET Sid]
  BY DEF TypeOK
<1>b. WorkerStep(w)
  BY DEF WorkerStep
<1>c. /\ UNCHANGED <<swapped, http, sessions, known, processes,
                     global_process_id>>
      /\ alive' = [alive EXCEPT ![global_process_id[worker[w].task.pid]]
                     = @ \ {worker[w].task.sid}]
      /\ worker[w].pc = "unalive"
  BY DEF RemoveAlive, redisVars, processVars
<1>d. /\ worker'[w].pc = "idle"
      /\ \A v \in Worker : v # w => worker'[v] = worker[v]
  BY <1>b, WorkerMoves
<1>1. PICK r : r = worker[w].task.sid
  OBVIOUS
<1>2. PICK h0 : h0 = global_process_id[worker[w].task.pid]
  OBVIOUS
<1>3. /\ Striking(w, r, h0)
      /\ \A v \in Worker : \A s, h :
           Striking(v, s, h)' <=> Striking(v, s, h) /\ v # w
  BY <1>c, <1>d, <1>1, <1>2 DEF Striking
<1>4. /\ \A s, h : Unstruck(s, h) => Unstruck(s, h)'
      /\ \A s, h : StruckOnce(s, h) => StruckOnce(s, h)'
      /\ StruckOnce(r, h0) => Unstruck(r, h0)'
      /\ ~Unstruck(r, h0)
  BY <1>3 DEF Unstruck, StruckOnce
<1>5. \A g \in Gid : \A s : s \in alive'[g] <=>
                              s \in alive[g] /\ ~(g = h0 /\ s = r)
  BY <1>a, <1>c, <1>1, <1>2
<1>6. \A s : /\ OnRecord(s) => OnRecord(s)'
             /\ Recording(s) => Recording(s)'
  <2>1. ASSUME NEW s, OnRecord(s) PROVE OnRecord(s)'
    <3>1. PICK g \in Gid : s \in alive[g] /\ Unstruck(s, g)
      BY <2>1 DEF OnRecord
    <3>2. ~(g = h0 /\ s = r)
      BY <1>4, <3>1
    <3>3. s \in alive'[g] /\ Unstruck(s, g)'
      BY <1>4, <1>5, <3>1, <3>2
    <3> QED
      BY <3>3 DEF OnRecord
  <2>2. ASSUME NEW s, Recording(s) PROVE Recording(s)'
    <3>1. PICK g : g = http.gid
      OBVIOUS
    <3>2. Unstruck(s, g)'
      BY <1>4, <2>2, <3>1 DEF Recording
    <3>3. Unstruck(s, http.gid)'
      BY <1>c, <3>1, <3>2 DEF Unstruck, Striking
    <3> QED
      BY <1>c, <2>2, <3>3 DEF Recording
  <2> QED
    BY <2>1, <2>2
<1>7. ListedOnRecord'
  <2>1. \A s \in Sid : \A k, a : Owner(k, a, s)' => Owner(k, a, s)
    BY <1>c, <1>d DEF Owner
  <2> QED
    BY <1>6, <2>1 DEF Records, ListedOnRecord
<1>8. PlacingOnRecord'
  <2> SUFFICES ASSUME Placing
               PROVE  \/ OnRecord(http.sid)'
                      \/ Unstruck(http.sid, http.gid)'
    BY <1>c DEF PlacingOnRecord, Placing
  <2>1. PICK s, g : s = http.sid /\ g = http.gid
    OBVIOUS
  <2>2. OnRecord(s)' \/ Unstruck(s, g)'
    BY <1>4, <1>6, <2>1 DEF Records, PlacingOnRecord
  <2>3. /\ OnRecord(s)' <=> OnRecord(http.sid)'
        /\ Unstruck(s, g)' <=> Unstruck(http.sid, http.gid)'
    BY <1>c, <2>1 DEF OnRecord, Unstruck, Striking
  <2> QED
    BY <2>2, <2>3
<1>9. SwappedOnRecord'
  <2> SUFFICES ASSUME NEW s \in Sid, NEW h \in Gid, s \in swapped[h]
               PROVE  \/ OnRecord(s)' \/ Recording(s)' \/ Unstruck(s, h)'
                      \/ /\ StruckOnce(s, h)'
                         /\ \/ s \in alive'[h]
                            \/ /\ http.pc = "alive" /\ http.sid = s
                               /\ http.gid = h
    BY <1>c DEF SwappedOnRecord
  <2>1. \/ OnRecord(s) \/ Recording(s) \/ Unstruck(s, h)
        \/ /\ StruckOnce(s, h)
           /\ \/ s \in alive[h]
              \/ http.pc = "alive" /\ http.sid = s /\ http.gid = h
    BY DEF Records, SwappedOnRecord
  <2> QED
    BY <1>4, <1>5, <1>6, <2>1
<1>10. UnknownUnstruck'
  BY <1>c, <1>4 DEF Records, UnknownUnstruck
<1>11. CheckedNotAlive'
  <2>1. http.pc = "srem" => http.gid \in Gid
    BY HttpLocals DEF TypeOK
  <2> QED
    BY <1>c, <1>5, <2>1 DEF Records, CheckedNotAlive
<1>12. ClosingIsCreated'
  BY <1>c, <1>d DEF Records, ClosingIsCreated
<1> QED
  BY <1>7, <1>8, <1>9, <1>10, <1>11, <1>12 DEF Records

(* process_client puts the session it has placed on record.                *)
LEMMA RecordsMarkAlive ==
  ASSUME TypeOK, Custody, Records, MarkAlive
  PROVE  Records'
PROOF
<1>a. alive \in [Gid -> SUBSET Sid] /\ http \in HttpState
  BY DEF TypeOK
<1>c. /\ UNCHANGED <<swapped, sessions, known, processes, worker,
                     global_process_id>>
      /\ alive' = [alive EXCEPT ![http.gid] = @ \cup {http.sid}]
      /\ http.pc = "alive" /\ http'.pc = "idle"
  BY DEF MarkAlive, redisVars, processVars, poolVars, IdleHttp
<1>d. http.gid \in Gid /\ http.sid \in Sid
  BY <1>a, <1>c, HttpLocals
<1>1. \A s, h : /\ Unstruck(s, h)' <=> Unstruck(s, h)
                /\ StruckOnce(s, h)' <=> StruckOnce(s, h)
  BY <1>c DEF Unstruck, StruckOnce, Striking
<1>2. /\ http.sid \in alive'[http.gid]
      /\ \A g \in Gid : alive[g] \subseteq alive'[g]
  BY <1>a, <1>c, <1>d
<1>3. \A s : OnRecord(s) \/ Recording(s) => OnRecord(s)'
  <2>1. ASSUME NEW s, OnRecord(s) PROVE OnRecord(s)'
    BY <1>1, <1>2, <2>1 DEF OnRecord
  <2>2. ASSUME NEW s, Recording(s) PROVE OnRecord(s)'
    <3>1. PICK g \in Gid : g = http.gid
      BY <1>d
    <3>2. s \in alive'[g] /\ Unstruck(s, g)'
      BY <1>1, <1>2, <2>2, <3>1 DEF Recording
    <3> QED
      BY <3>2 DEF OnRecord
  <2> QED
    BY <2>1, <2>2
<1>4. ListedOnRecord'
  <2>1. \A s \in Sid : \A k, a : Owner(k, a, s)' => Owner(k, a, s)
    BY <1>c DEF Owner
  <2> QED
    BY <1>3, <2>1 DEF Records, ListedOnRecord
<1>5. PlacingOnRecord' /\ CheckedNotAlive'
  BY <1>c DEF PlacingOnRecord, CheckedNotAlive, Placing
<1>6. SwappedOnRecord'
  <2> SUFFICES ASSUME NEW s \in Sid, NEW h \in Gid, s \in swapped[h]
               PROVE  \/ OnRecord(s)' \/ Recording(s)' \/ Unstruck(s, h)'
                      \/ StruckOnce(s, h)' /\ s \in alive'[h]
    BY <1>c DEF SwappedOnRecord
  <2>1. \/ OnRecord(s) \/ Recording(s) \/ Unstruck(s, h)
        \/ /\ StruckOnce(s, h)
           /\ \/ s \in alive[h]
              \/ http.pc = "alive" /\ http.sid = s /\ http.gid = h
    BY DEF Records, SwappedOnRecord
  <2> QED
    BY <1>1, <1>2, <1>3, <2>1
<1>7. UnknownUnstruck' /\ ClosingIsCreated'
  BY <1>c, <1>1 DEF Records, UnknownUnstruck, ClosingIsCreated
<1> QED
  BY <1>4, <1>5, <1>6, <1>7 DEF Records

(* Records is inductive.                                                   *)
LEMMA RecordsStep ==
  ASSUME TypeOK, Custody, Records, [Next]_vars
  PROVE  Records'
PROOF
<1>a. /\ http \in HttpState /\ worker \in [Worker -> WorkerState]
      /\ swapped \in [Gid -> SUBSET Sid] /\ sessions \in [Pid -> Seq(Sid)]
  BY DEF TypeOK
<1>1. CASE \E w \in Worker : AddSwapped(w) \/ RemoveAlive(w)
  BY <1>1, RecordsAddSwapped, RecordsRemoveAlive
<1>2. CASE MarkAlive
  BY <1>2, RecordsMarkAlive
<1>3. CASE /\ ~MarkAlive
           /\ \A w \in Worker : ~AddSwapped(w) /\ ~RemoveAlive(w)
  <2>1. UNCHANGED alive
    BY <1>3, OnlyChanges
  <2>2. known \subseteq known'
    BY OnlyChanges DEF NewSession
  <2>3. \A v \in Worker : \A s, h : Striking(v, s, h)' <=> Striking(v, s, h)
    BY <1>3, StrikingStep
  <2>4. \A h \in Gid : swapped'[h] \subseteq swapped[h]
    <3>1. CASE TakeSwapped
      BY <1>a, <3>1 DEF TakeSwapped
    <3> QED
      BY <1>3, <3>1, OnlyChanges
  <2>5. http.pc = "alive" =>
          http'.pc = "alive" /\ http'.sid = http.sid /\ http'.gid = http.gid
    <3> SUFFICES ASSUME http.pc = "alive" PROVE UNCHANGED http
      OBVIOUS
    <3>1. ~Client \/ UNCHANGED http
      BY DEF Client, process_allocation, NewSession, CheckAlive
    <3>2. ~HttpStep
      BY <1>3 DEF HttpStep, TakeSwapped, UnknownSession, GetFreeProcess,
        AddToNew, StoreCount, NoFreeProcess, AddToExisting
    <3> QED
      BY <3>1, <3>2, OnlyChanges
  <2>6. Placing' => OnRecord(http'.sid) \/ Unstruck(http'.sid, http'.gid)
    <3> SUFFICES ASSUME Placing'
                 PROVE  OnRecord(http'.sid) \/ Unstruck(http'.sid, http'.gid)
      OBVIOUS
    <3>1. ASSUME Placing, http'.sid = http.sid, http'.gid = http.gid
          PROVE  OnRecord(http'.sid) \/ Unstruck(http'.sid, http'.gid)
      BY <3>1 DEF Records, PlacingOnRecord
    <3>2. CASE UNCHANGED http
      BY <3>1, <3>2 DEF Placing
    <3>3. CASE HttpStep /\ ~TakeSwapped
      <4>1. Placing /\ http'.sid = http.sid /\ http'.gid = http.gid
        BY <3>3, HttpMoves DEF Placing
      <4> QED
        BY <3>1, <4>1
    <3>4. CASE TakeSwapped
      <4>1. http.pc = "srem" /\ http.sid \in swapped[http.gid]
        BY <3>4 DEF TakeSwapped
      <4>2. PICK s \in Sid, g \in Gid : s = http.sid /\ g = http.gid
        BY <1>a, <4>1, HttpLocals
      <4>3. http'.sid = s /\ http'.gid = g
        BY <3>4, <4>2, HttpMoves DEF HttpStep, Placing
      <4>4. ~Recording(s) /\ s \notin alive[g]
        BY <4>1, <4>2 DEF Recording, Records, CheckedNotAlive
      <4>5. OnRecord(s) \/ Unstruck(s, g)
        BY <4>1, <4>2, <4>4 DEF Records, SwappedOnRecord
      <4> QED
        BY <4>3, <4>5
    <3>5. CASE Client
      <4>1. \A g \in Gid : ~process_allocation(g) \/ UNCHANGED http
        BY DEF process_allocation
      <4>2. \A g \in Gid, s \in Sid, f \in Fid \cup {None} :
              ~CheckAlive(g, s, f)
        BY DEF CheckAlive, Placing, IdleHttp
      <4>3. ASSUME NEW g \in Gid, NEW s \in Sid, NEW f \in Fid \cup {None},
                   NewSession(g, s, f)
            PROVE  Unstruck(http'.sid, http'.gid)
        <5>1. s \notin known /\ http'.sid = s
          BY <4>3 DEF NewSession, IdleHttp
        <5> QED
          BY <5>1 DEF Records, UnknownUnstruck
      <4> QED
        BY <3>2, <3>5, <4>1, <4>2, <4>3 DEF Client
    <3> QED
      BY <3>2, <3>3, <3>4, <3>5, OnlyChanges
  <2>7. http'.pc = "srem" => http'.sid \notin alive[http'.gid]
    <3> SUFFICES ASSUME http'.pc = "srem"
                 PROVE  http'.sid \notin alive[http'.gid]
      OBVIOUS
    <3>1. CASE UNCHANGED http
      BY <3>1 DEF Records, CheckedNotAlive
    <3>2. ~HttpStep
      <4> SUFFICES ASSUME HttpStep PROVE FALSE
        OBVIOUS
      <4>1. ~TakeSwapped /\ ~UnknownSession /\ ~StoreCount /\ ~NoFreeProcess
            /\ ~Placed
        BY HttpMoves DEF IdleHttp, Placed
      <4>2. \A p \in Pid : ~GetFreeProcess(p)
        BY HttpMoves
      <4> QED
        BY <1>3, <4>1, <4>2 DEF HttpStep, Placed
    <3>3. CASE Client
      <4>1. \A g \in Gid : ~process_allocation(g) \/ UNCHANGED http
        BY DEF process_allocation
      <4>2. \A g \in Gid, s \in Sid, f \in Fid \cup {None} :
              ~NewSession(g, s, f)
        BY DEF NewSession, IdleHttp
      <4>3. ASSUME NEW g \in Gid, NEW s \in Sid, NEW f \in Fid \cup {None},
                   CheckAlive(g, s, f)
            PROVE  http'.sid \notin alive[http'.gid]
        BY <4>3 DEF CheckAlive, IdleHttp, IsAlive
      <4> QED
        BY <3>1, <3>3, <4>1, <4>2, <4>3 DEF Client
    <3> QED
      BY <3>1, <3>2, <3>3, OnlyChanges
  <2>8. ASSUME NEW v \in Worker, worker'[v] # worker[v],
               worker'[v].pc \in {"swap", "unalive"}
        PROVE  /\ worker'[v].pc = "swap"
               /\ \E p \in Pid, s \in Sid :
                    /\ worker'[v].task = CloseOf(p, s)
                    /\ SomeIn(sessions[p], {s})
    <3>1. WorkerStep(v)
      BY <2>8, WorkerMoves, OnlyChanges
    <3>2. remove_session(v) \/ EraseSession(v)
      BY <1>3, <2>8, <3>1, WorkerMoves DEF WorkerStep
    <3>3. worker'[v].pc = "swap"
      BY <2>8, <3>1, <3>2, WorkerMoves
    <3> QED
      BY <3>2, <3>3, ClosingFacts, CarriedIsListed
  <2>9. ClosingIsCreated'
    <3> SUFFICES ASSUME NEW v \in Worker,
                        worker'[v].pc \in {"swap", "unalive"}
                 PROVE  worker'[v].task.pid \in processes'
      BY DEF ClosingIsCreated
    <3>1. processes \subseteq processes'
      BY OnlyChanges DEF AddToNew
    <3>2. CASE worker'[v] = worker[v]
      BY <3>1, <3>2 DEF Records, ClosingIsCreated
    <3>3. CASE worker'[v] # worker[v]
      <4>1. PICK p \in Pid, s \in Sid : /\ worker'[v].task = CloseOf(p, s)
                                        /\ SomeIn(sessions[p], {s})
        BY <2>8, <3>3
      <4>2. p \in processes
        BY <4>1 DEF Custody, UnusedIsEmpty, SomeIn
      <4> QED
        BY <3>1, <4>1, <4>2 DEF CloseOf
    <3> QED
      BY <3>2, <3>3
  <2>10. ASSUME NEW s \in Sid, NEW k, NEW a, Owner(k, a, s)',
                k \in {"vector", "swap"}
         PROVE  OnRecord(s) \/ Recording(s) \/ Recording(s)'
    <3>1. ASSUME NEW l, NEW b, Owner(l, b, s), l \in {"vector", "swap"}
          PROVE  OnRecord(s) \/ Recording(s)
      BY <3>1 DEF Records, ListedOnRecord
    <3>2. CASE k = "swap"
      <4>1. a \in Worker /\ worker'[a].pc = "swap" /\ worker'[a].task.sid = s
        BY <2>10, <3>2 DEF Owner
      <4>2. CASE worker'[a] = worker[a]
        <5>1. Owner("swap", a, s)
          BY <4>1, <4>2 DEF Owner
        <5> QED
          BY <3>1, <5>1
      <4>3. CASE worker'[a] # worker[a]
        <5>1. PICK p \in Pid : SomeIn(sessions[p], {s})
          <6>1. PICK p \in Pid, r \in Sid :
                  worker'[a].task = CloseOf(p, r) /\ SomeIn(sessions[p], {r})
            BY <2>8, <4>1, <4>3
          <6>2. r = s
            BY <4>1, <6>1 DEF CloseOf
          <6> QED
            BY <6>1, <6>2
        <5>2. Owner("vector", p, s)
          BY <5>1 DEF Owner
        <5> QED
          BY <3>1, <5>2
      <4> QED
        BY <4>2, <4>3
    <3>3. CASE k = "vector"
      <4>1. a \in Pid /\ SomeIn(sessions'[a], {s})
        BY <2>10, <3>3 DEF Owner
      <4>2. CASE SomeIn(sessions[a], {s})
        <5>1. Owner("vector", a, s)
          BY <4>1, <4>2 DEF Owner
        <5> QED
          BY <3>1, <5>1
      <4>3. CASE ~SomeIn(sessions[a], {s})
        <5>1. Placed
          BY <4>1, <4>3, VectorShrinks, OnlyChanges
        <5>2. /\ Placing /\ http'.pc = "alive" /\ http'.sid = s
              /\ http'.gid = http.gid /\ http.sid = s
          BY <4>1, <4>3, <5>1, PlacedFacts
        <5>3. PICK g : g = http.gid
          OBVIOUS
        <5>4. OnRecord(s) \/ Unstruck(s, g)
          BY <5>2, <5>3 DEF Records, PlacingOnRecord
        <5>5. Unstruck(s, g) => Unstruck(s, g)'
          BY <2>3 DEF Unstruck
        <5>6. Unstruck(s, g)' => Unstruck(s, http.gid)'
          BY <5>2, <5>3 DEF Unstruck, Striking
        <5> QED
          BY <5>2, <5>4, <5>5, <5>6 DEF Recording
      <4> QED
        BY <4>2, <4>3
    <3> QED
      BY <2>10, <3>2, <3>3
  <2> QED
    BY <2>1, <2>2, <2>3, <2>4, <2>5, <2>6, <2>7, <2>9, <2>10, RecordsFrame
<1> QED
  BY <1>1, <1>2, <1>3

(* A session that runs is on record as alive, so that process_client       *)
(* refuses to swap it in a second time, although the closure of its last   *)
(* life may be recorded after it was placed again.                         *)
THEOREM RecordCorrect == Spec => []RunningListedAlive
PROOF
<1>1. TypeOK /\ Custody /\ Records /\ [Next]_vars => Records'
  BY RecordsStep
<1>2. TypeOK /\ Custody /\ Records => RunningListedAlive
  <2> SUFFICES ASSUME Custody, Records, TypeOK, NEW p \in Pid,
                      NEW s \in running[p]
               PROVE  \/ \E g \in Gid : s \in alive[g]
                      \/ http.pc = "alive" /\ http.sid = s
    BY DEF RunningListedAlive
  <2>1. s \in Sid
    BY DEF TypeOK
  <2>2. SomeIn(sessions[p], {s})
    BY <2>1, CarriedIsListed DEF Carried
  <2>3. Owner("vector", p, s)
    BY <2>2 DEF Owner
  <2> QED
    BY <2>1, <2>3 DEF Records, ListedOnRecord, OnRecord, Recording
<1> QED
  BY <1>1, <1>2, RecordsInit, CustodyCorrect, TypeCorrect, PTL DEF Spec
=============================================================================
