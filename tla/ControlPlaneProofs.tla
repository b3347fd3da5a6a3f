------------------------- MODULE ControlPlaneProofs -------------------------
(***************************************************************************)
(* What ControlPlane guarantees for every number of sessions, processes,   *)
(* clients and pool threads.                                               *)
(***************************************************************************)
EXTENDS ControlPlane, SequenceTheorems, WellFoundedInduction, TLAPS

(* A nonempty set of naturals has a least element, and Min is it.          *)
LEMMA MinOfNaturals ==
  ASSUME NEW S \in SUBSET Nat, S # {}
  PROVE  Min(S) \in S
PROOF
<1>1. PICK x \in S : \A y \in S : ~ (<<y, x>> \in OpToRel(<, Nat))
  BY NatLessThanWellFounded, WFMin
<1>2. \A y \in S : x =< y
  <2> SUFFICES ASSUME NEW y \in S, y < x PROVE FALSE
    OBVIOUS
  <2>1. <<y, x>> \in OpToRel(<, Nat)
    BY DEF OpToRel
  <2> QED
    BY <1>1, <2>1
<1> QED
  BY <1>2 DEF Min

(* Removing the first occurrence of an element that is there leaves a      *)
(* sequence over the same set, shorter by one (std::vector::erase in       *)
(* Resources::remove_session).                                             *)
LEMMA RemoveFirstShrinks ==
  ASSUME NEW S, NEW q \in Seq(S), NEW e, Contains(q, e)
  PROVE  /\ RemoveFirst(q, e) \in Seq(S)
         /\ Len(RemoveFirst(q, e)) = Len(q) - 1
PROOF
<1> DEFINE I == {i \in 1 .. Len(q) : q[i] = e}
<1>1. Len(q) \in Nat
  OBVIOUS
<1>2. Min(I) \in 1 .. Len(q)
  <2>1. I # {} /\ I \in SUBSET Nat
    BY <1>1 DEF Contains
  <2> QED
    BY <2>1, MinOfNaturals
<1>3. RemoveFirst(q, e) = RemoveAt(q, Min(I))
  BY DEF RemoveFirst, SelectInSeq, Contains
<1>4. PICK k \in 1 .. Len(q) : RemoveFirst(q, e) = RemoveAt(q, k)
  BY <1>2, <1>3
<1> HIDE DEF I
<1> DEFINE a == SubSeq(q, 1, k - 1)
           b == SubSeq(q, k + 1, Len(q))
<1>5. k \in Int /\ k - 1 \in Int /\ k + 1 \in Int /\ Len(q) \in Int
      /\ 1 <= k /\ k <= Len(q)
  BY <1>1
<1>6. \A i \in 1 .. Len(q) : q[i] \in S
  OBVIOUS
<1>7. \A i \in 1 .. k - 1 : q[i] \in S
  BY <1>5, <1>6
<1>8. \A i \in k + 1 .. Len(q) : q[i] \in S
  BY <1>5, <1>6
<1>9. a \in Seq(S) /\ Len(a) = IF 1 <= k - 1 THEN k - 1 - 1 + 1 ELSE 0
  BY <1>5, <1>7, SubSeqProperties
<1>10. b \in Seq(S)
       /\ Len(b) = IF k + 1 <= Len(q) THEN Len(q) - (k + 1) + 1 ELSE 0
  BY <1>5, <1>8, SubSeqProperties
<1>11. Len(a) + Len(b) = Len(q) - 1
  <2> HIDE DEF a, b
  <2>1. Len(a) = k - 1 /\ Len(b) = Len(q) - k
    BY <1>5, <1>9, <1>10
  <2> QED
    BY <1>5, <2>1
<1>12. a \o b \in Seq(S) /\ Len(a \o b) = Len(a) + Len(b)
  BY <1>9, <1>10, ConcatProperties
<1> QED
  BY <1>4, <1>11, <1>12 DEF RemoveAt

(* Removing an element that is not there changes nothing.                  *)
LEMMA RemoveFirstAbsent ==
  ASSUME NEW q, NEW e, ~Contains(q, e)
  PROVE  RemoveFirst(q, e) = q
PROOF BY DEF RemoveFirst, Contains

-----------------------------------------------------------------------------
(* TypeOK.                                                                 *)

(* The empty tables, Redis sets and queues at start-up are well typed.     *)
LEMMA TypeInit == Init => TypeOK
PROOF
  BY NoneAssumption
  DEF Init, TypeOK, HttpState, WorkerState, IdleHttp, IdleWorker, Stage

(* What the locals of the HTTP thread are while it serves a request.       *)
LEMMA HttpLocals ==
  ASSUME http \in HttpState, http.pc # "idle"
  PROVE  /\ http.gid \in Gid /\ http.sid \in Sid
         /\ http.fid \in Fid \cup {None} /\ http.swap \in BOOLEAN
         /\ http.proc \in Pid \cup {None} /\ http.reg \in Int
         /\ http.pc \in {"store", "add"} => http.proc \in Pid
         /\ http = [pc |-> http.pc, gid |-> http.gid, sid |-> http.sid,
                    fid |-> http.fid, swap |-> http.swap, proc |-> http.proc,
                    reg |-> http.reg]
PROOF BY DEF HttpState, IdleHttp

(* A session request keeps the types of the wire and of the history.       *)
LEMMA WriteRequestTyped ==
  ASSUME NEW p \in Pid, NEW s \in Sid, NEW swap \in BOOLEAN, NEW l \in Nat,
         toProc \in [Pid -> Seq(Request)], sent \in [Sid -> Nat],
         WriteRequest(p, s, swap, l)
  PROVE  toProc' \in [Pid -> Seq(Request)] /\ sent' \in [Sid -> Nat]
PROOF
<1>1. fill(s, swap) \in Request
  BY DEF fill, Request
<1>2. CASE connection[p]
  <2>1. /\ toProc' = [toProc EXCEPT ![p] = Append(@, fill(s, swap))]
        /\ sent' = [sent EXCEPT ![s] = l]
    BY <1>2 DEF WriteRequest
  <2>2. Append(toProc[p], fill(s, swap)) \in Seq(Request)
    BY <1>1
  <2> QED
    BY <2>1, <2>2
<1>3. CASE ~connection[p]
  BY <1>3 DEF WriteRequest
<1> QED
  BY <1>2, <1>3

(* The fields of a session and its history keep their types.               *)
LEMMA FillSessionTyped ==
  ASSUME TypeOK, NEW s \in Sid, NEW swap \in BOOLEAN,
         NEW f \in Fid \cup {None}, FillSession(s, swap, f)
  PROVE  /\ swap_in' \in [Sid -> BOOLEAN]
         /\ allocations' \in [Sid -> Seq(Fid)]
         /\ lives' \in [Sid -> Nat]
PROOF
<1>1. ASSUME NEW q \in Seq(Fid) PROVE Queue(q, f) \in Seq(Fid)
  BY DEF Queue
<1>2. /\ allocations \in [Sid -> Seq(Fid)]
      /\ lives \in [Sid -> Nat] /\ swap_in \in [Sid -> BOOLEAN]
  BY DEF TypeOK
<1>3. allocations' \in [Sid -> Seq(Fid)]
  BY <1>1, <1>2 DEF FillSession
<1> QED
  BY <1>2, <1>3 DEF FillSession

(* Every step of the HTTP thread, from the look-up in Redis to the reply   *)
(* (process_client), keeps the types.                                      *)
LEMMA TypeHttp == TypeOK /\ HttpStep /\ UNCHANGED up => TypeOK'
PROOF
<1> SUFFICES ASSUME TypeOK, UNCHANGED up, HttpStep PROVE TypeOK'
  OBVIOUS
<1> USE DEF redisVars, processVars, sessionVars, poolVars, queueVars,
            wireVars, envVars, historyVars
<1>a. http \in HttpState /\ allocated_sessions \in [Pid -> Int]
      /\ toProc \in [Pid -> Seq(Request)] /\ sent \in [Sid -> Nat]
      /\ lives \in [Sid -> Nat]
  BY DEF TypeOK
<1>1. CASE TakeSwapped
  <2>1. http' \in HttpState
    BY <1>a, <1>1, HttpLocals DEF TakeSwapped, HttpState
  <2> QED
    BY <1>1, <2>1, HttpLocals DEF TakeSwapped, TypeOK
<1>2. CASE UnknownSession
  <2>1. http' \in HttpState
    BY <1>2 DEF UnknownSession, HttpState
  <2> QED
    BY <1>2, <2>1 DEF UnknownSession, TypeOK
<1>3. ASSUME NEW p \in Pid, GetFreeProcess(p) PROVE TypeOK'
  <2>1. http.pc = "free" /\ allocated_sessions[p] \in Int
    BY <1>a, <1>3 DEF GetFreeProcess
  <2>2. http' = [http EXCEPT !.pc = "store", !.proc = p,
                             !.reg = allocated_sessions[p]]
    BY <1>3 DEF GetFreeProcess
  <2>3. http' \in HttpState
    BY <1>a, <2>1, <2>2, HttpLocals DEF HttpState
  <2> QED
    BY <1>3, <2>3 DEF GetFreeProcess, TypeOK
<1>4. ASSUME NEW p \in Pid, AddToNew(p) PROVE TypeOK'
  <2>1. http' \in HttpState
    BY <1>a, <1>4, HttpLocals DEF AddToNew, HttpState
  <2>2. http.gid \in Gid /\ http.sid \in Sid /\ http.swap \in BOOLEAN
        /\ http.fid \in Fid \cup {None}
    BY <1>a, <1>4, HttpLocals DEF AddToNew
  <2>3. /\ swap_in' \in [Sid -> BOOLEAN] /\ allocations' \in [Sid -> Seq(Fid)]
        /\ lives' \in [Sid -> Nat]
    BY <1>4, <2>2, FillSessionTyped DEF AddToNew
  <2>4. sessions' \in [Pid -> Seq(Sid)]
    BY <1>4, <2>2 DEF AddToNew, TypeOK
  <2>5. allocated_sessions' \in [Pid -> Int]
    BY <1>a, <1>4 DEF AddToNew
  <2>6. stage' \in [Pid -> Stage]
    BY <1>4 DEF AddToNew, Stage, TypeOK
  <2>7. global_process_id' \in [Pid -> Gid \cup {None}]
    BY <1>4, <2>2 DEF AddToNew, TypeOK
  <2> QED
    BY <1>4, <2>1, <2>3, <2>4, <2>5, <2>6, <2>7 DEF AddToNew, TypeOK
<1>5. CASE StoreCount
  <2>1. http.pc = "store" /\ http' = [http EXCEPT !.pc = "add", !.reg = 0]
    BY <1>5 DEF StoreCount
  <2>2. http' = [pc |-> "add", gid |-> http.gid, sid |-> http.sid,
                 fid |-> http.fid, swap |-> http.swap, proc |-> http.proc,
                 reg |-> 0]
    BY <1>a, <2>1, HttpLocals
  <2>3. http' \in HttpState
    BY <1>a, <2>1, <2>2, HttpLocals DEF HttpState
  <2>4. http.reg + 1 \in Int
    BY <1>a, <2>1, HttpLocals
  <2>5. allocated_sessions' \in [Pid -> Int]
    BY <1>a, <1>5, <2>4 DEF StoreCount
  <2>6. lost' \subseteq Pid
    BY <1>a, <1>5, <2>1, HttpLocals DEF StoreCount, NoteLost, TypeOK
  <2> QED
    BY <1>5, <2>3, <2>5, <2>6 DEF StoreCount, TypeOK
<1>6. CASE NoFreeProcess
  <2>1. http' \in HttpState
    BY <1>a, <1>6, HttpLocals DEF NoFreeProcess, HttpState
  <2> QED
    BY <1>6, <2>1 DEF NoFreeProcess, TypeOK
<1>7. CASE AddToExisting
  <2>1. http.pc = "add" /\ http' = [http EXCEPT !.pc = "alive"]
    BY <1>7 DEF AddToExisting
  <2>2. http' \in HttpState
    BY <1>a, <2>1, HttpLocals DEF HttpState
  <2>3. http.proc \in Pid /\ http.sid \in Sid /\ http.swap \in BOOLEAN
        /\ http.fid \in Fid \cup {None}
    BY <1>a, <2>1, HttpLocals
  <2>4. toProc' \in [Pid -> Seq(Request)] /\ sent' \in [Sid -> Nat]
    <3>1. lives[http.sid] + 1 \in Nat
      BY <1>a, <2>3
    <3>2. WriteRequest(http.proc, http.sid, http.swap, lives[http.sid] + 1)
      BY <1>7 DEF AddToExisting
    <3> QED
      BY <1>a, <2>3, <3>1, <3>2, WriteRequestTyped
  <2>5. /\ swap_in' \in [Sid -> BOOLEAN] /\ allocations' \in [Sid -> Seq(Fid)]
        /\ lives' \in [Sid -> Nat]
    BY <1>7, <2>3, FillSessionTyped DEF AddToExisting
  <2>6. sessions' \in [Pid -> Seq(Sid)]
    BY <1>7, <2>3 DEF AddToExisting, TypeOK
  <2> QED
    BY <1>7, <2>2, <2>3, <2>4, <2>5, <2>6 DEF AddToExisting, TypeOK
<1>8. CASE MarkAlive
  <2>1. http' \in HttpState
    BY <1>8 DEF MarkAlive, HttpState
  <2> QED
    BY <1>8, <2>1, HttpLocals DEF MarkAlive, TypeOK
<1> QED
  BY <1>1, <1>2, <1>3, <1>4, <1>5, <1>6, <1>7, <1>8 DEF HttpStep

(* What a pool thread works on, by how far it has come.                    *)
LEMMA WorkerLocals ==
  ASSUME NEW x \in WorkerState
  PROVE  /\ x = [pc |-> x.pc, task |-> x.task, reg |-> x.reg]
         /\ x.reg \in Int
         /\ x.pc = "run" => x.task \in Task
         /\ x.pc \in {"lock", "send"} => x.task \in ProcessTask
         /\ x.pc \in {"erase", "swap", "unalive"} => x.task \in StatusTask
PROOF BY DEF WorkerState, IdleWorker

(* A parsed header carries the fields that its kind promises to the        *)
(* handler (Header::parse).                                                *)
LEMMA TaskFields ==
  ASSUME NEW t \in Task
  PROVE  /\ t.kind \in {"process", "eof"} => t \in ProcessTask /\ t.pid \in Pid
         /\ t.kind = "session" => t.sid \in Sid
         /\ t.kind \in {"status", "close"} =>
              t \in StatusTask /\ t.pid \in Pid /\ t.sid \in Sid
PROOF BY DEF Task, ProcessTask, SessionTask, StatusTask

(* Every step of a pool thread (process_process, process_session,          *)
(* handle_message) keeps the types; a thread only works on a task of the   *)
(* kind its handler expects.                                               *)
LEMMA TypeWorker ==
  ASSUME TypeOK, UNCHANGED up, NEW w \in Worker, WorkerStep(w)
  PROVE  TypeOK'
PROOF
<1> USE DEF redisVars, processVars, sessionVars, poolVars, queueVars,
            wireVars, envVars, historyVars
<1> DEFINE x == worker[w]
           t == worker[w].task
<1>a. worker \in [Worker -> WorkerState] /\ x \in WorkerState
  BY DEF TypeOK
<1>b. /\ x = [pc |-> x.pc, task |-> t, reg |-> x.reg]
      /\ x.reg \in Int
      /\ x.pc = "run" => t \in Task
      /\ x.pc \in {"lock", "send"} => t \in ProcessTask /\ t.pid \in Pid
      /\ x.pc \in {"erase", "swap", "unalive"} =>
           t \in StatusTask /\ t.pid \in Pid /\ t.sid \in Sid
  BY <1>a, WorkerLocals DEF ProcessTask, StatusTask
<1>c. IdleWorker \in WorkerState
  BY DEF WorkerState
<1>d. ASSUME worker' = [worker EXCEPT ![w] = IdleWorker]
      PROVE  worker' \in [Worker -> WorkerState]
  BY <1>a, <1>c, <1>d
<1>1. CASE TakeTask(w)
  <2>1. Head(tasks) \in Task /\ Tail(tasks) \in Seq(Task)
    BY <1>1 DEF TakeTask, TypeOK
  <2>2. [pc |-> "run", task |-> Head(tasks), reg |-> 0] \in WorkerState
    BY <2>1 DEF WorkerState
  <2>3. worker' \in [Worker -> WorkerState]
    BY <1>1, <1>a, <2>2 DEF TakeTask
  <2> QED
    BY <1>1, <2>1, <2>3 DEF TakeTask, TypeOK
<1>2. CASE StoreConnection(w)
  <2>1. t \in ProcessTask /\ t.pid \in Pid
    BY <1>2, <1>b, TaskFields DEF StoreConnection, Runs
  <2>2. [x EXCEPT !.pc = "lock"] \in WorkerState
    BY <1>b, <2>1 DEF WorkerState
  <2>3. worker' \in [Worker -> WorkerState]
    BY <1>2, <1>a, <2>2 DEF StoreConnection
  <2> QED
    BY <1>2, <2>1, <2>3 DEF StoreConnection, TypeOK
<1>3. CASE LockSessions(w)
  <2>1. [x EXCEPT !.pc = "send"] \in WorkerState
    BY <1>3, <1>b DEF LockSessions, WorkerState
  <2>2. worker' \in [Worker -> WorkerState]
    BY <1>3, <1>a, <2>1 DEF LockSessions
  <2> QED
    BY <1>3, <2>2 DEF LockSessions, TypeOK
<1>4. CASE SendPending(w)
  <2>1. t.pid \in Pid
    BY <1>4, <1>b DEF SendPending
  <2>2. PICK i \in 1 .. Len(sessions[t.pid]) :
          LET s == sessions[t.pid][i] IN
          /\ WriteRequest(t.pid, s, swap_in[s], lives[s])
          /\ allocated' = [allocated EXCEPT ![s] = TRUE]
    BY <1>4 DEF SendPending
  <2> DEFINE s == sessions[t.pid][i]
  <2>3. s \in Sid /\ swap_in[s] \in BOOLEAN /\ lives[s] \in Nat
    <3>1. /\ sessions[t.pid] \in Seq(Sid)
          /\ swap_in \in [Sid -> BOOLEAN] /\ lives \in [Sid -> Nat]
      BY <2>1 DEF TypeOK
    <3>2. s \in Sid
      BY <2>2, <3>1, ElementOfSeq
    <3> QED
      BY <3>1, <3>2
  <2>4. toProc' \in [Pid -> Seq(Request)] /\ sent' \in [Sid -> Nat]
    <3>1. WriteRequest(t.pid, s, swap_in[s], lives[s])
      BY <2>2
    <3>2. toProc \in [Pid -> Seq(Request)] /\ sent \in [Sid -> Nat]
      BY DEF TypeOK
    <3> HIDE DEF s, t
    <3> QED
      BY <2>1, <2>3, <3>1, <3>2, WriteRequestTyped
  <2>5. allocated' \in [Sid -> BOOLEAN]
    BY <2>2, <2>3 DEF TypeOK
  <2> QED
    BY <1>4, <2>4, <2>5 DEF SendPending, TypeOK
<1>5. CASE AddEpoll(w)
  BY <1>5, <1>b, <1>d DEF AddEpoll, TypeOK
<1>6. CASE process_session(w)
  <2>1. t.sid \in Sid
    BY <1>6, <1>b, TaskFields DEF process_session, Runs
  <2>4. allocations' \in [Sid -> Seq(Fid)]
    <3>1. <<>> \in Seq(Fid) /\ allocations \in [Sid -> Seq(Fid)]
      BY DEF TypeOK
    <3>2. allocations' = [allocations EXCEPT ![t.sid] = <<>>]
      BY <1>6 DEF process_session
    <3> QED
      BY <3>1, <3>2
  <2> QED
    BY <1>6, <1>d, <2>4 DEF process_session, TypeOK
<1>7. CASE remove_session(w)
  <2>1. t \in StatusTask /\ t.pid \in Pid /\ t.sid \in Sid
    BY <1>7, <1>b, TaskFields DEF remove_session, Runs
  <2>2. allocated_sessions[t.pid] \in Int /\ sessions[t.pid] \in Seq(Sid)
    BY <2>1 DEF TypeOK
  <2>3. CASE Contains(sessions[t.pid], t.sid)
    <3>1. [x EXCEPT !.pc = "erase", !.reg = allocated_sessions[t.pid]]
            \in WorkerState
      BY <1>b, <2>1, <2>2 DEF WorkerState
    <3>2. worker' \in [Worker -> WorkerState]
      BY <1>7, <1>a, <2>3, <3>1 DEF remove_session
    <3> QED
      BY <1>7, <2>3, <3>2 DEF remove_session, TypeOK
  <2>4. CASE ~Contains(sessions[t.pid], t.sid)
    <3>1. [x EXCEPT !.pc = "swap"] \in WorkerState
      BY <1>b, <2>1 DEF WorkerState
    <3>2. worker' \in [Worker -> WorkerState]
      BY <1>7, <1>a, <2>4, <3>1 DEF remove_session
    <3> QED
      BY <1>7, <2>4, <3>2 DEF remove_session, TypeOK
  <2> QED
    BY <2>3, <2>4
<1>8. CASE EraseSession(w)
  <2>1. t \in StatusTask /\ t.pid \in Pid /\ t.sid \in Sid
    BY <1>8, <1>b DEF EraseSession
  <2>2. RemoveFirst(sessions[t.pid], t.sid) \in Seq(Sid)
    BY <2>1, RemoveFirstShrinks, RemoveFirstAbsent DEF TypeOK
  <2>3. [x EXCEPT !.pc = "swap"] \in WorkerState
    BY <1>b, <2>1 DEF WorkerState
  <2>4. worker' \in [Worker -> WorkerState]
    BY <1>8, <1>a, <2>3 DEF EraseSession
  <2>5. allocated_sessions' \in [Pid -> Int]
    BY <1>8, <1>b DEF EraseSession, Decremented, TypeOK
  <2>6. sessions' \in [Pid -> Seq(Sid)]
    BY <1>8, <2>2 DEF EraseSession, TypeOK
  <2>7. lost' \subseteq Pid
    BY <1>8, <2>1 DEF EraseSession, NoteLost, TypeOK
  <2> QED
    BY <1>8, <2>4, <2>5, <2>6, <2>7 DEF EraseSession, TypeOK
<1>9. CASE AddSwapped(w)
  <2>1. t.sid \in Sid
    BY <1>9, <1>b DEF AddSwapped
  <2>2. [x EXCEPT !.pc = "unalive"] \in WorkerState
    BY <1>9, <1>b DEF AddSwapped, WorkerState
  <2>3. worker' \in [Worker -> WorkerState]
    BY <1>9, <1>a, <2>2 DEF AddSwapped
  <2>4. swapped' \in [Gid -> SUBSET Sid]
    BY <1>9, <2>1 DEF AddSwapped, SwappedEntry, TypeOK
  <2> QED
    BY <1>9, <2>3, <2>4 DEF AddSwapped, TypeOK
<1>10. CASE RemoveAlive(w)
  BY <1>10, <1>b, <1>d DEF RemoveAlive, Rearm, TypeOK
<1>11. CASE LogStatus(w)
  <2>1. t.pid \in Pid
    BY <1>11, <1>b, TaskFields DEF LogStatus, Runs
  <2> QED
    BY <1>11, <1>d, <2>1 DEF LogStatus, Rearm, TypeOK
<1> QED
  BY <1>1, <1>2, <1>3, <1>4, <1>5, <1>6, <1>7, <1>8, <1>9, <1>10, <1>11
  DEF WorkerStep

(* A message of a subprocess keeps the types.                              *)
LEMMA SayTyped ==
  ASSUME TypeOK, NEW p \in Pid, NEW k, NEW s,
         [kind |-> k, pid |-> p, sid |-> s] \in Task, Say(p, k, s)
  PROVE  fromProc' \in [Pid -> Seq(Task)]
PROOF
<1> DEFINE m == [kind |-> k, pid |-> p, sid |-> s]
<1>1. Append(fromProc[p], m) \in Seq(Task) /\ fromProc \in [Pid -> Seq(Task)]
  BY DEF TypeOK
<1> QED
  BY <1>1 DEF Say

(* Whatever a subprocess or a session says on its connection is well       *)
(* typed.                                                                  *)
LEMMA TypeSubprocess ==
  ASSUME TypeOK, UNCHANGED up, NEW p \in Pid, Subprocess(p)
  PROVE  TypeOK'
PROOF
<1> USE DEF redisVars, processVars, sessionVars, poolVars, queueVars,
            wireVars, envVars, historyVars
<1>1. CASE ProcConnect(p)
  <2>1. [kind |-> "process", pid |-> p, sid |-> None] \in Task
    BY DEF Task, ProcessTask
  <2>2. backlog' \in Seq(Task)
    BY <1>1, <2>1 DEF ProcConnect, TypeOK
  <2>3. stage' \in [Pid -> Stage]
    BY <1>1 DEF ProcConnect, Stage, TypeOK
  <2> QED
    BY <1>1, <2>2, <2>3 DEF ProcConnect, TypeOK
<1>2. ASSUME toProc[p] # <<>>
      PROVE  /\ Head(toProc[p]).sid \in Sid
             /\ Tail(toProc[p]) \in Seq(Request)
  <2>1. toProc[p] \in Seq(Request)
    BY DEF TypeOK
  <2>2. Head(toProc[p]) \in Request /\ Tail(toProc[p]) \in Seq(Request)
    BY <1>2, <2>1
  <2> QED
    BY <2>2 DEF Request
<1>3. ASSUME NEW s \in Sid, NEW k \in {"status", "close"}
      PROVE  [kind |-> k, pid |-> p, sid |-> s] \in Task
  BY DEF Task, StatusTask
<1>4. CASE ProcAllocate(p)
  <2> DEFINE s == Head(toProc[p]).sid
  <2>1. s \in Sid /\ Tail(toProc[p]) \in Seq(Request)
    BY <1>2, <1>4 DEF ProcAllocate
  <2>2. fromProc' \in [Pid -> Seq(Task)]
    <3>1. Say(p, "status", s)
      BY <1>4 DEF ProcAllocate
    <3> HIDE DEF s
    <3> QED
      BY <1>3, <2>1, <3>1, SayTyped
  <2>3. toProc' \in [Pid -> Seq(Request)]
    BY <1>4, <2>1 DEF ProcAllocate, TypeOK
  <2>4. running' \in [Pid -> SUBSET Sid]
    BY <1>4, <2>1 DEF ProcAllocate, TypeOK
  <2> QED
    BY <1>4, <2>2, <2>3, <2>4 DEF ProcAllocate, TypeOK
<1>5. CASE ProcRefuse(p)
  <2> DEFINE s == Head(toProc[p]).sid
  <2>1. s \in Sid /\ Tail(toProc[p]) \in Seq(Request)
    BY <1>2, <1>5 DEF ProcRefuse
  <2>2. fromProc' \in [Pid -> Seq(Task)]
    <3>1. Say(p, "status", s)
      BY <1>5 DEF ProcRefuse
    <3> HIDE DEF s
    <3> QED
      BY <1>3, <2>1, <3>1, SayTyped
  <2>3. toProc' \in [Pid -> Seq(Request)]
    BY <1>5, <2>1 DEF ProcRefuse, TypeOK
  <2> QED
    BY <1>5, <2>2, <2>3 DEF ProcRefuse, TypeOK
<1>6. CASE ProcessExit(p)
  <2>1. [kind |-> "eof", pid |-> p, sid |-> None] \in Task
    BY DEF Task, ProcessTask
  <2>2. fromProc' \in [Pid -> Seq(Task)]
    BY <1>6, <2>1, SayTyped DEF ProcessExit
  <2>3. stage' \in [Pid -> Stage]
    BY <1>6 DEF ProcessExit, Stage, TypeOK
  <2> QED
    BY <1>6, <2>2, <2>3 DEF ProcessExit, TypeOK
<1>7. ASSUME NEW s \in Sid, SessionConnect(p, s) PROVE TypeOK'
  <2>1. [kind |-> "session", pid |-> None, sid |-> s] \in Task
    BY DEF Task, SessionTask
  <2>2. backlog' \in Seq(Task)
    BY <1>7, <2>1 DEF SessionConnect, TypeOK
  <2> QED
    BY <1>7, <2>2 DEF SessionConnect, TypeOK
<1>8. ASSUME NEW s \in Sid, SessionEnd(p, s) PROVE TypeOK'
  <2>1. fromProc' \in [Pid -> Seq(Task)]
    BY <1>3, <1>8, SayTyped DEF SessionEnd
  <2>2. running' \in [Pid -> SUBSET Sid]
    BY <1>8 DEF SessionEnd, TypeOK
  <2> QED
    BY <1>8, <2>1, <2>2 DEF SessionEnd, TypeOK
<1> QED
  BY <1>1, <1>4, <1>5, <1>6, <1>7, <1>8 DEF Subprocess

(* TypeOK is inductive: one case per thread of the control plane and one   *)
(* for the subprocesses.                                                   *)
LEMMA TypeStep == TypeOK /\ [Next]_vars => TypeOK'
PROOF
<1> SUFFICES ASSUME TypeOK, [Next]_vars PROVE TypeOK'
  OBVIOUS
<1> USE DEF redisVars, processVars, sessionVars, poolVars, queueVars,
            wireVars, envVars, historyVars
<1>1. CASE UNCHANGED vars
  BY <1>1 DEF vars, TypeOK
<1>2. ASSUME NEW w \in Worker, handle_process_closure(w) PROVE TypeOK'
  BY <1>2 DEF handle_process_closure, TypeOK
<1>3. CASE UNCHANGED up /\ Client
  <2>1. ASSUME NEW g \in Gid, process_allocation(g) PROVE TypeOK'
    BY <1>3, <2>1 DEF process_allocation, TypeOK
  <2>2. ASSUME NEW g \in Gid, NEW s \in Sid, NEW f \in Fid \cup {None},
               NEW pc \in {"free", "srem"},
               http' = [IdleHttp EXCEPT !.pc = pc, !.gid = g, !.sid = s,
                                        !.fid = f]
        PROVE  http' \in HttpState
    <3>1. http' = [pc |-> pc, gid |-> g, sid |-> s, fid |-> f,
                   swap |-> FALSE, proc |-> None, reg |-> 0]
      BY <2>2 DEF IdleHttp
    <3> QED
      BY <3>1 DEF HttpState
  <2>3. ASSUME NEW g \in Gid, NEW s \in Sid, NEW f \in Fid \cup {None},
               NewSession(g, s, f)
        PROVE  TypeOK'
    <3>1. http' \in HttpState
      BY <2>2, <2>3 DEF NewSession
    <3> QED
      BY <1>3, <2>3, <3>1 DEF NewSession, TypeOK
  <2>4. ASSUME NEW g \in Gid, NEW s \in Sid, NEW f \in Fid \cup {None},
               CheckAlive(g, s, f)
        PROVE  TypeOK'
    <3>1. http' \in HttpState
      BY <2>2, <2>4 DEF CheckAlive
    <3> QED
      BY <1>3, <2>4, <3>1 DEF CheckAlive, TypeOK
  <2> QED
    BY <1>3, <2>1, <2>3, <2>4 DEF Client
<1>4. CASE UNCHANGED up /\ Accept
  <2>1. tasks' \in Seq(Task) /\ backlog' \in Seq(Task)
    BY <1>4 DEF Accept, TypeOK
  <2> QED
    BY <1>4, <2>1 DEF Accept, TypeOK
<1>5. ASSUME UNCHANGED up, NEW p \in Pid, Poll(p) PROVE TypeOK'
  <2>1. fromProc[p] \in Seq(Task) /\ fromProc[p] # <<>>
    BY <1>5 DEF Poll, TypeOK
  <2>2. Head(fromProc[p]) \in Task /\ Tail(fromProc[p]) \in Seq(Task)
    BY <2>1
  <2>3. tasks' \in Seq(Task) /\ fromProc' \in [Pid -> Seq(Task)]
    BY <1>5, <2>2 DEF Poll, TypeOK
  <2> QED
    BY <1>5, <2>3 DEF Poll, TypeOK
<1> QED
  BY <1>1, <1>2, <1>3, <1>4, <1>5, TypeHttp, TypeWorker, TypeSubprocess
  DEF Next, Serve, MainStep

(* Every reachable state of the control plane is well typed; above all,    *)
(* Redis only ever holds ids that process_client can find again.           *)
THEOREM TypeCorrect == Spec => []TypeOK
PROOF BY TypeInit, TypeStep, PTL DEF Spec

-----------------------------------------------------------------------------
(* The threads.                                                            *)

(* Where a step of the pool thread w takes it; the others stay.            *)
LEMMA WorkerMoves ==
  ASSUME TypeOK, NEW w \in Worker, WorkerStep(w)
  PROVE  /\ \A v \in Worker : v # w => worker'[v] = worker[v]
         /\ TakeTask(w) =>
              /\ worker[w].pc = "idle" /\ worker'[w].pc = "run"
              /\ worker'[w].task = Head(tasks)
         /\ StoreConnection(w) => worker'[w].pc = "lock"
         /\ LockSessions(w) => worker'[w].pc = "send"
         /\ SendPending(w) => worker' = worker
         /\ AddEpoll(w) \/ process_session(w) \/ RemoveAlive(w)
               \/ LogStatus(w) => worker'[w].pc = "idle"
         /\ remove_session(w) =>
              /\ worker[w].pc = "run" /\ worker[w].task.kind = "close"
              /\ worker'[w].task = worker[w].task
              /\ worker'[w].pc =
                   IF Contains(sessions[worker[w].task.pid],
                               worker[w].task.sid)
                     THEN "erase" ELSE "swap"
         /\ EraseSession(w) =>
              /\ worker[w].pc = "erase" /\ worker'[w].pc = "swap"
              /\ worker'[w].task = worker[w].task
         /\ AddSwapped(w) =>
              /\ worker[w].pc = "swap" /\ worker'[w].pc = "unalive"
              /\ worker'[w].task = worker[w].task
PROOF
<1> USE DEF redisVars, processVars, sessionVars, poolVars, queueVars,
            wireVars, envVars, historyVars
<1>a. worker \in [Worker -> WorkerState]
  BY DEF TypeOK
<1>b. \A v \in Worker :
        worker[v] = [pc |-> worker[v].pc, task |-> worker[v].task,
                     reg |-> worker[v].reg]
  BY <1>a, WorkerLocals
<1>c. ASSUME NEW l, worker' = [worker EXCEPT ![w].pc = l]
      PROVE  /\ \A v \in Worker : v # w => worker'[v] = worker[v]
             /\ worker'[w].pc = l /\ worker'[w].task = worker[w].task
  BY <1>a, <1>b, <1>c
<1>d. ASSUME NEW x, worker' = [worker EXCEPT ![w] = x]
      PROVE  /\ \A v \in Worker : v # w => worker'[v] = worker[v]
             /\ worker'[w] = x
  BY <1>a, <1>d
<1>1. ASSUME TakeTask(w)
      PROVE  /\ \A v \in Worker : v # w => worker'[v] = worker[v]
             /\ worker[w].pc = "idle" /\ worker'[w].pc = "run"
             /\ worker'[w].task = Head(tasks)
  BY <1>1, <1>d DEF TakeTask
<1>2. ASSUME StoreConnection(w)
      PROVE  /\ \A v \in Worker : v # w => worker'[v] = worker[v]
             /\ worker'[w].pc = "lock"
  BY <1>2, <1>c DEF StoreConnection
<1>3. ASSUME LockSessions(w)
      PROVE  /\ \A v \in Worker : v # w => worker'[v] = worker[v]
             /\ worker'[w].pc = "send"
  BY <1>3, <1>c DEF LockSessions
<1>4. SendPending(w) => worker' = worker
  BY DEF SendPending
<1>5. ASSUME AddEpoll(w) \/ process_session(w) \/ RemoveAlive(w)
               \/ LogStatus(w)
      PROVE  /\ \A v \in Worker : v # w => worker'[v] = worker[v]
             /\ worker'[w].pc = "idle"
  <2>1. worker' = [worker EXCEPT ![w] = IdleWorker]
    BY <1>5 DEF AddEpoll, process_session, RemoveAlive, LogStatus
  <2> QED
    BY <2>1, <1>d DEF IdleWorker
<1>6. ASSUME remove_session(w)
      PROVE  /\ \A v \in Worker : v # w => worker'[v] = worker[v]
             /\ worker[w].pc = "run" /\ worker[w].task.kind = "close"
             /\ worker'[w].task = worker[w].task
             /\ worker'[w].pc =
                  IF Contains(sessions[worker[w].task.pid],
                              worker[w].task.sid)
                    THEN "erase" ELSE "swap"
  <2>1. worker[w].pc = "run" /\ worker[w].task.kind = "close"
    BY <1>6 DEF remove_session, Runs
  <2>2. CASE Contains(sessions[worker[w].task.pid],
                      worker[w].task.sid)
    <3>1. PICK x : worker' = [worker EXCEPT ![w].pc = "erase", ![w].reg = x]
      BY <1>6, <2>2 DEF remove_session
    <3>2. /\ \A v \in Worker : v # w => worker'[v] = worker[v]
          /\ worker'[w].task = worker[w].task /\ worker'[w].pc = "erase"
      BY <1>a, <1>b, <3>1
    <3> QED
      BY <2>1, <2>2, <3>2
  <2>3. CASE ~Contains(sessions[worker[w].task.pid],
                       worker[w].task.sid)
    <3>1. worker' = [worker EXCEPT ![w].pc = "swap"]
      BY <1>6, <2>3 DEF remove_session
    <3> QED
      BY <2>1, <2>3, <3>1, <1>c
  <2> QED
    BY <2>2, <2>3
<1>7. ASSUME EraseSession(w)
      PROVE  /\ \A v \in Worker : v # w => worker'[v] = worker[v]
             /\ worker[w].pc = "erase" /\ worker'[w].pc = "swap"
             /\ worker'[w].task = worker[w].task
  BY <1>7, <1>c DEF EraseSession
<1>8. ASSUME AddSwapped(w)
      PROVE  /\ \A v \in Worker : v # w => worker'[v] = worker[v]
             /\ worker[w].pc = "swap" /\ worker'[w].pc = "unalive"
             /\ worker'[w].task = worker[w].task
  BY <1>8, <1>c DEF AddSwapped
<1>9. \A v \in Worker : v # w => worker'[v] = worker[v]
  BY <1>1, <1>2, <1>3, <1>4, <1>5, <1>6, <1>7, <1>8 DEF WorkerStep
<1> QED
  BY <1>1, <1>2, <1>3, <1>4, <1>5, <1>6, <1>7, <1>8, <1>9

(* Where a step of the HTTP thread takes it.                               *)
LEMMA HttpMoves ==
  ASSUME TypeOK, HttpStep
  PROVE  /\ UnknownSession \/ MarkAlive => http' = IdleHttp
         /\ http'.pc # "idle" =>
              /\ http.pc # "idle"
              /\ http'.sid = http.sid /\ http'.gid = http.gid
         /\ http'.pc \in {"free", "store", "add", "new"} /\ ~TakeSwapped =>
              http.pc \in {"free", "store", "add", "new"}
         /\ AddToExisting \/ (\E p \in Pid : AddToNew(p)) =>
              http'.pc = "alive"
         /\ TakeSwapped => http'.pc = "free" /\ http'.swap = TRUE
         /\ ~TakeSwapped /\ http'.pc # "idle" => http'.swap = http.swap
         /\ StoreCount => http'.pc = "add" /\ http'.proc = http.proc
         /\ NoFreeProcess => http'.pc = "new"
         /\ \A p \in Pid : GetFreeProcess(p) =>
              http'.pc = "store" /\ http'.proc = p
PROOF
<1>a. http \in HttpState
  BY DEF TypeOK
<1>b. http.pc # "idle" =>
        http = [pc |-> http.pc, gid |-> http.gid, sid |-> http.sid,
                fid |-> http.fid, swap |-> http.swap, proc |-> http.proc,
                reg |-> http.reg]
  BY <1>a, HttpLocals
<1>1. CASE UnknownSession \/ MarkAlive
  <2>1. http' = IdleHttp /\ http'.pc = "idle"
    BY <1>1 DEF UnknownSession, MarkAlive, IdleHttp
  <2>2. http.pc \in {"srem", "alive"} /\ ~TakeSwapped
    BY <1>1 DEF UnknownSession, MarkAlive, TakeSwapped
  <2>3. /\ ~AddToExisting /\ ~StoreCount /\ ~NoFreeProcess
        /\ \A p \in Pid : ~AddToNew(p) /\ ~GetFreeProcess(p)
    BY <2>2 DEF AddToExisting, AddToNew, StoreCount, NoFreeProcess,
      GetFreeProcess
  <2> QED
    BY <2>1, <2>2, <2>3
<1>2. CASE TakeSwapped
  BY <1>2, <1>b DEF UnknownSession, MarkAlive, TakeSwapped, AddToExisting,
    AddToNew, StoreCount, NoFreeProcess, GetFreeProcess
<1>3. CASE AddToExisting \/ \E p \in Pid : AddToNew(p)
  BY <1>3, <1>b DEF UnknownSession, MarkAlive, TakeSwapped, AddToExisting,
    AddToNew, StoreCount, NoFreeProcess, GetFreeProcess
<1>4. CASE StoreCount \/ NoFreeProcess
  BY <1>4, <1>b DEF UnknownSession, MarkAlive, TakeSwapped, AddToExisting,
    AddToNew, StoreCount, NoFreeProcess, GetFreeProcess
<1>5. CASE \E p \in Pid : GetFreeProcess(p)
  BY <1>5, <1>b DEF UnknownSession, MarkAlive, TakeSwapped, AddToExisting,
    AddToNew, StoreCount, NoFreeProcess, GetFreeProcess
<1> QED
  BY <1>1, <1>2, <1>3, <1>4, <1>5 DEF HttpStep

-----------------------------------------------------------------------------
(* SlotsExact.                                                             *)

(* What a thread that has loaded the counter of a process and not yet      *)
(* stored it relies on: get_free_process has found a slot below the        *)
(* maximum; remove_session has found the session it will erase.  The       *)
(* mutex keeps the vectors as they are for whoever holds it.               *)
StoresSlot ==
  /\ http.pc = "store" => http.reg < MaxSessions
  /\ \A w \in Worker : worker[w].pc \in {"send", "erase"} => mutex = w
  /\ \A w \in Worker : worker[w].pc = "erase" =>
       Contains(sessions[worker[w].task.pid], worker[w].task.sid)

(* A step of the HTTP thread, of main or of the environment keeps it when  *)
(* it changes no vector, or changes one while nobody holds the mutex.      *)
LEMMA StoresFrame ==
  ASSUME StoresSlot, UNCHANGED <<worker, mutex>>,
         mutex = None \/ UNCHANGED sessions,
         http' = http \/ (http'.pc = "store" => http'.reg < MaxSessions)
  PROVE  StoresSlot'
PROOF
<1>1. http'.pc = "store" => http'.reg < MaxSessions
  BY DEF StoresSlot
<1>2. ASSUME mutex = None, NEW w \in Worker PROVE worker[w].pc # "erase"
  BY <1>2, NoneAssumption DEF StoresSlot
<1> QED
  BY <1>1, <1>2 DEF StoresSlot

(* So does a step of a pool thread: whoever holds the mutex is the only    *)
(* one between two steps of a critical section.                            *)
LEMMA StoresWorker ==
  ASSUME TypeOK, StoresSlot, NEW w \in Worker, WorkerStep(w)
  PROVE  StoresSlot'
PROOF
<1> USE DEF redisVars, processVars, sessionVars, poolVars, queueVars,
            wireVars, envVars, historyVars
<1>a. \A v \in Worker : v # w => worker'[v] = worker[v]
  BY WorkerMoves
<1>b. http' = http
  BY DEF WorkerStep, TakeTask, StoreConnection, LockSessions, SendPending,
    AddEpoll, process_session, remove_session, EraseSession, AddSwapped,
    RemoveAlive, LogStatus
<1>c. None \notin Worker
  BY NoneAssumption
<1>1. ASSUME UNCHANGED <<mutex, sessions>>,
             worker' = worker \/ worker'[w].pc \notin {"send", "erase"}
      PROVE  StoresSlot'
  BY <1>1, <1>a, <1>b DEF StoresSlot
<1>2. ASSUME mutex \in {None, w},
             worker'[w].pc \in {"send", "erase"} => mutex' = w,
             worker'[w].pc = "erase" =>
               Contains(sessions'[worker'[w].task.pid], worker'[w].task.sid)
      PROVE  StoresSlot'
  <2>1. \A v \in Worker : v # w => worker'[v].pc \notin {"send", "erase"}
    BY <1>2, <1>a, <1>c DEF StoresSlot
  <2> QED
    BY <1>2, <1>b, <2>1 DEF StoresSlot
<1>3. CASE TakeTask(w) \/ StoreConnection(w) \/ SendPending(w)
           \/ process_session(w) \/ AddSwapped(w) \/ RemoveAlive(w)
           \/ LogStatus(w)
  <2>1. UNCHANGED <<mutex, sessions>>
    BY <1>3 DEF TakeTask, StoreConnection, SendPending, process_session,
      AddSwapped, RemoveAlive, LogStatus
  <2>2. worker' = worker \/ worker'[w].pc \notin {"send", "erase"}
    BY <1>3, WorkerMoves
  <2> QED
    BY <1>1, <2>1, <2>2
<1>4. CASE LockSessions(w)
  <2>1. mutex = None /\ mutex' = w /\ worker'[w].pc = "send"
    BY <1>4, WorkerMoves DEF LockSessions
  <2> QED
    BY <1>2, <2>1
<1>5. CASE AddEpoll(w) \/ EraseSession(w)
  <2>1. mutex = w
    BY <1>5 DEF AddEpoll, EraseSession, StoresSlot
  <2>2. worker'[w].pc \notin {"send", "erase"}
    BY <1>5, WorkerMoves
  <2> QED
    BY <1>2, <2>1, <2>2
<1>6. CASE remove_session(w)
  <2>1. /\ mutex = None /\ UNCHANGED sessions
        /\ worker'[w].task = worker[w].task
        /\ worker'[w].pc = IF Contains(sessions[worker[w].task.pid],
                                       worker[w].task.sid)
                             THEN "erase" ELSE "swap"
    BY <1>6, WorkerMoves DEF remove_session
  <2>2. Contains(sessions[worker[w].task.pid], worker[w].task.sid)
          => mutex' = w
    BY <1>6 DEF remove_session
  <2> QED
    BY <1>2, <2>1, <2>2
<1> QED
  BY <1>3, <1>4, <1>5, <1>6 DEF WorkerStep

(* No step lets a thread store a slot that it did not find.                *)
LEMMA StoresStep ==
  ASSUME TypeOK, StoresSlot, [Next]_vars
  PROVE  StoresSlot'
PROOF
<1> USE DEF redisVars, processVars, sessionVars, poolVars, queueVars,
            wireVars, envVars, historyVars
<1>1. CASE UNCHANGED vars
  BY <1>1, StoresFrame DEF vars
<1>2. CASE Client
  BY <1>2, StoresFrame
  DEF Client, process_allocation, NewSession, CheckAlive, IdleHttp
<1>3. CASE HttpStep
  <2>1. UNCHANGED <<worker, mutex>>
    BY <1>3 DEF HttpStep, TakeSwapped, UnknownSession, GetFreeProcess,
      AddToNew, StoreCount, NoFreeProcess, AddToExisting, MarkAlive
  <2>2. mutex = None \/ UNCHANGED sessions
    BY <1>3 DEF HttpStep, TakeSwapped, UnknownSession, GetFreeProcess,
      AddToNew, StoreCount, NoFreeProcess, AddToExisting, MarkAlive
  <2>3. ASSUME NEW p \in Pid, GetFreeProcess(p)
        PROVE  http'.reg < MaxSessions
    <3>1. http \in HttpState /\ http.pc # "idle"
      BY <2>3 DEF GetFreeProcess, TypeOK
    <3>2. http'.reg = allocated_sessions[p]
      BY <2>3, <3>1, HttpLocals DEF GetFreeProcess
    <3> QED
      BY <2>3, <3>2 DEF GetFreeProcess, IsFree
  <2>4. ASSUME \A p \in Pid : ~GetFreeProcess(p)
        PROVE  http'.pc # "store"
    <3>1. TakeSwapped \/ StoreCount \/ NoFreeProcess \/ AddToExisting
            \/ (\E p \in Pid : AddToNew(p)) => http'.pc # "store"
      BY <1>3, HttpMoves
    <3>2. UnknownSession \/ MarkAlive => http'.pc # "store"
      BY DEF UnknownSession, MarkAlive, IdleHttp
    <3> QED
      BY <1>3, <2>4, <3>1, <3>2 DEF HttpStep
  <2> QED
    BY <2>1, <2>2, <2>3, <2>4, StoresFrame
<1>4. CASE MainStep
  BY <1>4, StoresFrame DEF MainStep, Accept, Poll
<1>5. CASE \E p \in Pid : Subprocess(p)
  BY <1>5, StoresFrame
  DEF Subprocess, ProcConnect, ProcAllocate, ProcRefuse, ProcessExit,
      SessionConnect, SessionEnd
<1>6. CASE \E w \in Worker : handle_process_closure(w)
  BY <1>6, StoresFrame DEF handle_process_closure
<1> QED
  BY <1>1, <1>2, <1>3, <1>4, <1>5, <1>6, StoresWorker DEF Next, Serve

(* Steps that touch neither the vectors, the counters nor a held slot.     *)
LEMMA SlotsFrame ==
  ASSUME SlotsExact, UNCHANGED <<allocated_sessions, sessions, lost>>,
         \/ UNCHANGED http
         \/ http.pc # "add" /\ http'.pc # "add"
  PROVE  SlotsExact'
PROOF BY DEF SlotsExact, Held

(* SlotsExact is inductive: a store of the counter moves it together with  *)
(* the vector (or the slot held by the HTTP thread), unless it overwrites  *)
(* what the other thread has stored, and then the process is in lost.      *)
LEMMA SlotsStep ==
  ASSUME TypeOK, StoresSlot, SlotsExact, [Next]_vars
  PROVE  SlotsExact'
PROOF
<1> USE DEF redisVars, processVars, sessionVars, poolVars, queueVars,
            wireVars, envVars, historyVars
<1>a. /\ http \in HttpState
      /\ worker \in [Worker -> WorkerState]
      /\ allocated_sessions \in [Pid -> Int]
      /\ sessions \in [Pid -> Seq(Sid)]
      /\ MaxSessions \in Nat /\ MaxSessions >= 1
  BY SizesAssumption DEF TypeOK
<1>1. CASE UNCHANGED vars
  BY <1>1, SlotsFrame DEF vars
<1>2. CASE Client
  BY <1>2, SlotsFrame
  DEF Client, process_allocation, NewSession, CheckAlive, IdleHttp
<1>3. CASE HttpStep
  <2>1. CASE UnknownSession \/ MarkAlive
    BY <2>1, SlotsFrame DEF UnknownSession, MarkAlive, IdleHttp
  <2>2. CASE TakeSwapped \/ NoFreeProcess
    <3>1. http.pc # "add" /\ http'.pc # "add"
      BY <1>3, <2>2, HttpMoves DEF TakeSwapped, NoFreeProcess
    <3> QED
      BY <2>2, <3>1, SlotsFrame DEF TakeSwapped, NoFreeProcess
  <2>3. ASSUME NEW p \in Pid, GetFreeProcess(p) PROVE SlotsExact'
    <3>1. http.pc # "add" /\ http'.pc # "add"
      BY <1>a, <2>3, HttpLocals DEF GetFreeProcess
    <3> QED
      BY <2>3, <3>1, SlotsFrame DEF GetFreeProcess
  <2>4. CASE StoreCount
    <3>1. /\ http.pc = "store" /\ http.reg \in Int /\ http.reg < MaxSessions
          /\ http.proc \in Pid
      BY <1>a, <2>4, HttpLocals DEF StoreCount, StoresSlot
    <3>2. http'.pc = "add" /\ http'.proc = http.proc
      BY <1>3, <2>4, HttpMoves
    <3>3. PICK p \in Pid, r \in Int : p = http.proc /\ r = http.reg
      BY <3>1
    <3>4. /\ allocated_sessions' = [allocated_sessions EXCEPT ![p] = r + 1]
          /\ sessions' = sessions
          /\ lost' = IF allocated_sessions[p] = r THEN lost
                                                  ELSE lost \cup {p}
      BY <2>4, <3>3 DEF StoreCount, NoteLost
    <3> SUFFICES ASSUME NEW q \in Pid \ lost'
                 PROVE  /\ allocated_sessions'[q]
                             = Len(sessions'[q]) + Held(q)'
                        /\ allocated_sessions'[q] <= MaxSessions
      BY DEF SlotsExact
    <3>5. q \notin lost /\ (q = p => allocated_sessions[p] = r)
      BY <3>4
    <3>6. /\ allocated_sessions[q] = Len(sessions[q]) + 0
          /\ allocated_sessions[q] <= MaxSessions
      BY <3>1, <3>5 DEF SlotsExact, Held
    <3>7. Held(q)' = IF q = p THEN 1 ELSE 0
      BY <3>2, <3>3 DEF Held
    <3>8. Len(sessions[q]) \in Int
      BY <1>a
    <3> QED
      BY <1>a, <3>1, <3>3, <3>4, <3>5, <3>6, <3>7, <3>8
  <2>5. ASSUME NEW p \in Pid, AddToNew(p) PROVE SlotsExact'
    <3>1. /\ http.pc = "new" /\ UNCHANGED lost
          /\ allocated_sessions' = [allocated_sessions EXCEPT ![p] = 1]
          /\ sessions' = [sessions EXCEPT ![p] = <<http.sid>>]
      BY <2>5 DEF AddToNew
    <3>2. http'.pc = "alive"
      BY <1>3, <2>5, HttpMoves
    <3>3. Len(<<http.sid>>) = 1
      OBVIOUS
    <3> QED
      BY <1>a, <3>1, <3>2, <3>3 DEF SlotsExact, Held
  <2>6. CASE AddToExisting
    <3>1. /\ http.pc = "add" /\ UNCHANGED <<allocated_sessions, lost>>
          /\ sessions' = [sessions EXCEPT ![http.proc] = Append(@, http.sid)]
      BY <2>6 DEF AddToExisting
    <3>2. http'.pc = "alive" /\ http.proc \in Pid /\ http.sid \in Sid
      BY <1>a, <1>3, <2>6, <3>1, HttpLocals, HttpMoves
    <3>3. Len(sessions'[http.proc]) = Len(sessions[http.proc]) + 1
      BY <1>a, <3>1, <3>2
    <3>4. \A p \in Pid : p # http.proc => sessions'[p] = sessions[p]
      BY <1>a, <3>1
    <3> QED
      BY <1>a, <3>1, <3>2, <3>3, <3>4 DEF SlotsExact, Held
  <2> QED
    BY <1>3, <2>1, <2>2, <2>3, <2>4, <2>5, <2>6 DEF HttpStep
<1>4. CASE MainStep
  BY <1>4, SlotsFrame DEF MainStep, Accept, Poll
<1>5. ASSUME NEW w \in Worker, WorkerStep(w) PROVE SlotsExact'
  <2>1. CASE EraseSession(w)
    <3>0. /\ worker[w].task.pid \in Pid /\ worker[w].task.sid \in Sid
          /\ worker[w].reg \in Int
      BY <1>a, <2>1, WorkerLocals DEF EraseSession, StatusTask
    <3>1. PICK p \in Pid, s \in Sid, r \in Int :
            /\ p = worker[w].task.pid /\ s = worker[w].task.sid
            /\ r = worker[w].reg
      BY <3>0
    <3>2. /\ allocated_sessions' = [allocated_sessions EXCEPT ![p] = r - 1]
          /\ sessions' = [sessions EXCEPT ![p] = RemoveFirst(@, s)]
          /\ lost' = IF allocated_sessions[p] = r THEN lost
                                                  ELSE lost \cup {p}
          /\ http' = http
      BY <2>1, <3>1 DEF EraseSession, NoteLost, Decremented
    <3>3. Contains(sessions[p], s)
      BY <2>1, <3>1 DEF EraseSession, StoresSlot
    <3>4. Len(sessions'[p]) = Len(sessions[p]) - 1
      BY <1>a, <3>1, <3>2, <3>3, RemoveFirstShrinks
    <3> SUFFICES ASSUME NEW q \in Pid \ lost'
                 PROVE  /\ allocated_sessions'[q]
                             = Len(sessions'[q]) + Held(q)'
                        /\ allocated_sessions'[q] <= MaxSessions
      BY DEF SlotsExact
    <3>5. q \notin lost /\ (q = p => allocated_sessions[p] = r)
      BY <3>2
    <3>6. /\ allocated_sessions[q] = Len(sessions[q]) + Held(q)
          /\ allocated_sessions[q] <= MaxSessions
      BY <3>5 DEF SlotsExact
    <3>7. Held(q)' = Held(q) /\ Held(q) \in Int /\ Len(sessions[q]) \in Int
      BY <1>a, <3>2 DEF Held
    <3>8. q # p => /\ sessions'[q] = sessions[q]
                   /\ allocated_sessions'[q] = allocated_sessions[q]
      BY <1>a, <3>2
    <3>9. allocated_sessions'[p] = r - 1
      BY <1>a, <3>2
    <3>10. CASE q = p
      <4>1. allocated_sessions'[q] = allocated_sessions[q] - 1
        BY <3>5, <3>9, <3>10
      <4>2. allocated_sessions[q] \in Int
        BY <1>a
      <4>3. Len(sessions'[q]) = Len(sessions[q]) - 1
        BY <3>4, <3>10
      <4> QED
        BY <1>a, <3>6, <3>7, <4>1, <4>2, <4>3
    <3>11. CASE q # p
      BY <3>6, <3>7, <3>8, <3>11
    <3> QED
      BY <3>10, <3>11
  <2>2. CASE ~EraseSession(w)
    <3>1. UNCHANGED <<allocated_sessions, sessions, lost, http>>
      BY <1>5, <2>2
      DEF WorkerStep, TakeTask, StoreConnection, LockSessions, SendPending,
          AddEpoll, process_session, remove_session, AddSwapped,
          RemoveAlive, LogStatus
    <3> QED
      BY <3>1, SlotsFrame
  <2> QED
    BY <2>1, <2>2
<1>6. CASE \E p \in Pid : Subprocess(p)
  BY <1>6, SlotsFrame
  DEF Subprocess, ProcConnect, ProcAllocate, ProcRefuse, ProcessExit,
      SessionConnect, SessionEnd
<1>7. CASE \E w \in Worker : handle_process_closure(w)
  BY <1>7, SlotsFrame DEF handle_process_closure
<1> QED
  BY <1>1, <1>2, <1>3, <1>4, <1>5, <1>6, <1>7 DEF Next, Serve

(* The unlocked increment and the locked decrement of allocated_sessions   *)
(* can spoil it in one way only: by losing an update to each other.  For   *)
(* every process to which that has not happened, however the HTTP thread   *)
(* and the pool interleave, the counter is the number of sessions placed   *)
(* in the process plus the slot being filled, and at most the maximum.     *)
THEOREM SlotsCorrect == Spec => []SlotsExact
PROOF
<1>1. Init => StoresSlot /\ SlotsExact
  BY SizesAssumption
  DEF Init, StoresSlot, SlotsExact, Held, IdleHttp, IdleWorker
<1>2. TypeOK /\ StoresSlot /\ SlotsExact /\ [Next]_vars
        => StoresSlot' /\ SlotsExact'
  BY StoresStep, SlotsStep
<1> QED
  BY <1>1, <1>2, TypeCorrect, PTL DEF Spec

=============================================================================
