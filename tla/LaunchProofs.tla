---------------------------- MODULE LaunchProofs ----------------------------
(***************************************************************************)
(* What Launch guarantees for every number of requests, control planes and *)
(* slots, and for both launchers.                                          *)
(***************************************************************************)
EXTENDS Launch, FiniteSetTheorems, TLAPS

(* A request that has not been read asks for a process that nobody has     *)
(* touched.                                                                *)
Untouched(p) ==
  /\ proc[p] = "none" /\ answer[p] = None
  /\ p # req /\ p \notin forks
  /\ \A i \in Slot : _processes[i] # p

Waiting ==
  \A b \in Backend : \A k \in 1..Len(stream[b]) :
    stream[b][k] <= asked /\ Untouched(stream[b][k])

WaitingOnce ==
  \A b, c \in Backend : \A k \in 1..Len(stream[b]), l \in 1..Len(stream[c]) :
    stream[b][k] = stream[c][l] => b = c /\ k = l

NotYet == \A p \in Pid : p > asked => Untouched(p)

(* Where no trace of a process is left.                                    *)
Absent(p) == /\ proc[p] = "none" /\ p \notin forks
             /\ \A i \in Slot : _processes[i] # p

Serving == pc \in {"read", "find", "create", "thread", "reply"}

(* What the main thread has done for the request it serves.                *)
Progress ==
  /\ Serving => cur \in Backend
  /\ pc \in {"find", "create", "thread", "reply"} =>
       req \in Pid /\ answer[req] = None
  /\ pc = "find" => Absent(req)
  /\ pc \in {"create", "thread"} =>
       /\ kind = "local" /\ _processes[pos] = req
       /\ proc[req] = "none" /\ _threads[pos] = "none"
  /\ pc = "reply" /\ ret = 0 /\ kind = "local" => proc[req] # "none"
  /\ pc = "reply" /\ ret # 0 => Absent(req)
  /\ pc = "ended" => ~LeftJoinable

(* The two tables and the processes: a slot has one process and a process  *)
(* one slot; a slot whose process runs has a thread to join.               *)
Table ==
  /\ \A i, j \in Slot :
       _processes[i] # None /\ _processes[i] = _processes[j] => i = j
  /\ \A i \in Slot : _processes[i] = None => _threads[i] = "none"
  /\ \A p \in Pid : proc[p] # "none" => \E i \in Slot : _processes[i] = p
  /\ \A p \in forks : kind = "serving" /\ proc[p] = "none"
                      /\ \E i \in Slot : _processes[i] = p
  /\ kind = "local" =>
       \A i \in Slot, p \in Pid :
         _processes[i] = p /\ proc[p] = "running" => _threads[i] = "joinable"

(* What an answer says stays true: a slot is freed only for the request    *)
(* that has just taken it, which needs a free slot.                        *)
Answered ==
  \A p \in Pid :
    /\ answer[p] # None => p # req
    /\ answer[p] = 0 /\ kind = "local" => proc[p] # "none"
    /\ answer[p] \in {1, 2} => Absent(p)

Exhausted ==
  (pc = "reply" /\ ret = 1) \/ (\E p \in Pid : answer[p] = 1) =>
    /\ pc \notin {"create", "thread"}
    /\ \A i \in Slot : _processes[i] # None

Books == /\ Progress /\ Table /\ Answered /\ Exhausted
         /\ Waiting /\ WaitingOnce /\ NotYet

-----------------------------------------------------------------------------
(* TypeOK.                                                                 *)

(* The empty tables and the listening socket at start-up are well typed.   *)
LEMMA TypeInit == Init => TypeOK
PROOF
<1> SUFFICES ASSUME Init PROVE TypeOK
  OBVIOUS
<1>1. 0 \in Slot /\ 0 \in 0..MaxAsked
  BY LaunchAssumption DEF Slot
<1> QED
  BY <1>1 DEF Init, TypeOK

(* The head and the rest of the requests or connections that wait.         *)
LEMMA HeadTail ==
  ASSUME NEW S, NEW q \in Seq(S), q # <<>>
  PROVE  /\ Head(q) \in S /\ Head(q) = q[1] /\ Tail(q) \in Seq(S)
         /\ Len(q) \in Nat \ {0} /\ Len(Tail(q)) = Len(q) - 1
         /\ \A k \in 1..Len(Tail(q)) : Tail(q)[k] = q[k + 1]
PROOF OBVIOUS

(* Every system call of the launcher and of its control planes keeps every *)
(* variable in its type.                                                   *)
LEMMA TypeStep == TypeOK /\ Progress /\ [Next]_vars => TypeOK'
PROOF
<1> SUFFICES ASSUME TypeOK, Progress, [Next]_vars PROVE TypeOK'
  OBVIOUS
<1> USE LaunchAssumption
<1>1. ASSUME NEW b \in Backend, create(b) PROVE TypeOK'
  <2>1. Append(backlog, b) \in Seq(Backend)
    BY DEF TypeOK
  <2> QED
    BY <1>1, <2>1
    DEF create, TypeOK, mainVars, tableVars
<1>2. ASSUME NEW b \in Backend, allocate_process(b) PROVE TypeOK'
  <2>1. asked + 1 \in Pid /\ asked + 1 \in 0..MaxAsked
    BY <1>2 DEF allocate_process, TypeOK, Pid
  <2>2. Append(stream[b], asked + 1) \in Seq(Pid)
    BY <2>1 DEF TypeOK
  <2>3. stream' \in [Backend -> Seq(Pid)]
    BY <1>2, <2>2 DEF allocate_process, TypeOK
  <2> QED
    BY <1>2, <2>1, <2>3 DEF allocate_process, TypeOK, mainVars, tableVars
<1>3. ASSUME NEW b \in Backend, BackendEnds(b) PROVE TypeOK'
  BY <1>3 DEF BackendEnds, TypeOK, mainVars, tableVars
<1>4. CASE Accept
  <2>1. Head(backlog) \in Backend /\ Tail(backlog) \in Seq(Backend)
    BY <1>4, HeadTail DEF Accept, TypeOK
  <2> QED
    BY <1>4, <2>1 DEF Accept, TypeOK, mainVars, tableVars
<1>5. CASE ReadRequest
  <2>1. cur \in Backend
    BY <1>5 DEF ReadRequest, At, Progress, Serving
  <2>2. Head(stream[cur]) \in Pid /\ Tail(stream[cur]) \in Seq(Pid)
    BY <1>5, <2>1, HeadTail DEF ReadRequest, TypeOK
  <2>3. stream' \in [Backend -> Seq(Pid)]
    BY <1>5, <2>1, <2>2 DEF ReadRequest, TypeOK
  <2> QED
    BY <1>5, <2>2, <2>3 DEF ReadRequest, TypeOK, mainVars, tableVars
<1>6. ASSUME Close
      PROVE  /\ cur' \in Backend \cup {None} /\ req' \in Pid \cup {None}
             /\ link' \in [Backend -> {"none", "open", "eof", "closed"}]
             /\ stream' \in [Backend -> Seq(Pid)] /\ pc' = "accept"
  <2>1. <<>> \in Seq(Pid)
    OBVIOUS
  <2> QED
    BY <1>6, <2>1 DEF Close, TypeOK
<1>7. CASE ReadEof
  BY <1>6, <1>7 DEF ReadEof, TypeOK, tableVars
<1>8. CASE ReadShort
  <2>1. answer' \in [Pid -> (0..2) \cup {None}]
    <3>1. CASE stream[cur] # <<>>
      <4>1. cur \in Backend
        BY <1>8 DEF ReadShort, At, Progress, Serving
      <4>2. PICK p \in Pid : p = Head(stream[cur])
        BY <3>1, <4>1, HeadTail DEF TypeOK
      <4> QED
        BY <1>8, <3>1, <4>2 DEF ReadShort, TypeOK
    <3> QED
      BY <1>8, <3>1 DEF ReadShort, TypeOK
  <2> QED
    BY <1>6, <1>8, <2>1 DEF ReadShort, TypeOK, tableVars
<1>9. ASSUME NEW i \in Slot, FindSlot(i) PROVE TypeOK'
  <2>1. req \in Pid
    BY <1>9 DEF FindSlot, At, Progress
  <2>2. _processes' \in [Slot -> Pid \cup {None}]
    BY <1>9, <2>1 DEF FindSlot, TypeOK
  <2>3. /\ pc' \in {"create", "reply"} /\ ret' \in 0..2 /\ forks' \subseteq Pid
    BY <1>9, <2>1 DEF FindSlot, TypeOK
  <2>4. pos' \in Slot
    BY <1>9 DEF FindSlot
  <2> QED
    BY <1>9, <2>2, <2>3, <2>4 DEF FindSlot, TypeOK, wireVars
<1>10. CASE NoSlot
  BY <1>10 DEF NoSlot, TypeOK, tableVars, wireVars
<1>11. CASE Created
  BY <1>11 DEF Created, TypeOK, tableVars, wireVars
<1>12. CASE CreateFails
  <2>1. _processes' \in [Slot -> Pid \cup {None}]
    BY <1>12 DEF CreateFails, TypeOK
  <2>2. ret' \in 0..2 /\ pc' = "reply"
    BY <1>12 DEF CreateFails, Failed
  <2> QED
    BY <1>12, <2>1, <2>2 DEF CreateFails, TypeOK, wireVars
<1>13. CASE StartThread
  <2>1. proc' \in [Pid -> {"none", "running", "stopped"}]
    BY <1>13 DEF StartThread, TypeOK
  <2>2. _threads' \in [Slot -> {"none", "joinable", "joined"}]
    BY <1>13 DEF StartThread, TypeOK
  <2>3. ret' \in 0..2 /\ pc' = "reply"
    BY <1>13 DEF StartThread
  <2> QED
    BY <1>13, <2>1, <2>2, <2>3 DEF StartThread, TypeOK, wireVars
<1>14. CASE Reply
  <2>1. answer' \in [Pid -> (0..2) \cup {None}]
    BY <1>14 DEF Reply, Written, TypeOK
  <2> QED
    BY <1>6, <1>14, <2>1 DEF Reply, TypeOK, tableVars
<1>15. CASE Leave
  BY <1>15 DEF Leave, TypeOK, tableVars, wireVars
<1>16. ASSUME NEW o \in {"main", "other"}, shutdown(o) PROVE TypeOK'
  <2>1. 0 \in Slot
    BY DEF Slot
  <2>2. handler' \in [on : {"main", "other"}, i : Slot]
    BY <1>16, <2>1 DEF shutdown
  <2> QED
    BY <1>16, <2>2 DEF shutdown, TypeOK, mainVars, tableVars, wireVars
<1>17. ASSUME NEW i \in Slot, Handling(i), Turn(i)
       PROVE  handler' \in [on : {"main", "other"}, i : Slot] \cup {None}
  <2>1. handler \in [on : {"main", "other"}, i : Slot]
    BY <1>17 DEF Handling, TypeOK
  <2> QED
    BY <1>17, <2>1 DEF Turn
<1>18. ASSUME NEW i \in Slot, PassSlot(i) PROVE TypeOK'
  BY <1>17, <1>18
  DEF PassSlot, TypeOK, mainVars, tableVars, wireVars
<1>19. ASSUME NEW i \in Slot, JoinProcess(i) PROVE TypeOK'
  BY <1>17, <1>19 DEF JoinProcess, TypeOK, mainVars, wireVars
<1>20. ASSUME NEW i \in Slot, JoinFails(i) PROVE TypeOK'
  BY <1>20 DEF JoinFails, TypeOK, tableVars, wireVars
<1>21. ASSUME NEW p \in Pid, ForkProcess(p) PROVE TypeOK'
  BY <1>21 DEF ForkProcess, TypeOK, mainVars, tableVars, wireVars
<1>22. ASSUME NEW p \in Pid, ProcessEnds(p) PROVE TypeOK'
  BY <1>22 DEF ProcessEnds, TypeOK, mainVars, tableVars, wireVars
<1>23. CASE UNCHANGED vars
  BY <1>23 DEF vars, TypeOK, mainVars, tableVars, wireVars
<1> QED
  BY <1>1, <1>2, <1>3, <1>4, <1>5, <1>7, <1>8, <1>9, <1>10, <1>11, <1>12,
     <1>13, <1>14, <1>15, <1>16, <1>18, <1>19, <1>20, <1>21, <1>22, <1>23
  DEF Next, Step, Main, Handler

-----------------------------------------------------------------------------
(* The books.                                                              *)

(* Nothing has been asked for or started when the launcher comes up.       *)
LEMMA BooksInit == Init => Books
PROOF
<1> SUFFICES ASSUME Init PROVE Books
  OBVIOUS
<1>1. \A b \in Backend : Len(stream[b]) = 0
  BY DEF Init
<1>2. \A p \in Pid : p # None
  BY LaunchAssumption DEF Pid
<1>3. Progress /\ Table
  BY <1>2 DEF Init, Progress, Serving, Table
<1>4. Answered /\ Exhausted
  BY LaunchAssumption DEF Init, Answered, Exhausted
<1>5. Waiting /\ WaitingOnce
  BY <1>1 DEF Waiting, WaitingOnce
<1>6. NotYet
  BY <1>2 DEF Init, NotYet, Untouched
<1> QED
  BY <1>3, <1>4, <1>5, <1>6 DEF Books

(* Which steps change what: the slots change when one is found and when a  *)
(* start fails, a request leaves its connection when it is read or when    *)
(* the connection is closed, and so on.                                    *)
LEMMA OnlyChanges ==
  ASSUME Step
  PROVE  /\ kind' = kind
         /\ \/ _processes' = _processes \/ \E i \in Slot : FindSlot(i)
            \/ CreateFails
         /\ \/ _threads' = _threads \/ StartThread
            \/ \E i \in Slot : JoinProcess(i)
         /\ \/ forks' = forks \/ Leave \/ (\E i \in Slot : FindSlot(i))
            \/ \E p \in Pid : ForkProcess(p)
         /\ \/ proc' = proc \/ StartThread
            \/ (\E i \in Slot : JoinProcess(i))
            \/ \E p \in Pid : ForkProcess(p) \/ ProcessEnds(p)
         /\ \/ stream' = stream \/ ReadRequest \/ ReadEof \/ ReadShort
            \/ Reply \/ \E b \in Backend : allocate_process(b)
         /\ \/ answer' = answer \/ ReadShort \/ Reply
         /\ \/ asked' = asked \/ \E b \in Backend : allocate_process(b)
         /\ \/ req' = req \/ ReadRequest \/ ReadEof \/ ReadShort \/ Reply
         /\ \/ UNCHANGED mainVars \/ Main \/ \E i \in Slot : JoinFails(i)
PROOF
<1>1. ASSUME NEW b \in Backend, create(b)
      PROVE  UNCHANGED <<kind, _processes, _threads, forks, proc, stream,
                         answer, asked, mainVars>>
  BY <1>1 DEF create, mainVars, tableVars
<1>2. ASSUME NEW b \in Backend, allocate_process(b)
      PROVE  UNCHANGED <<kind, _processes, _threads, forks, proc, answer,
                         mainVars>>
  BY <1>2 DEF allocate_process, mainVars, tableVars
<1>3. ASSUME NEW b \in Backend, BackendEnds(b)
      PROVE  UNCHANGED <<kind, _processes, _threads, forks, proc, stream,
                         answer, asked, mainVars>>
  BY <1>3 DEF BackendEnds, mainVars, tableVars
<1>4. ASSUME Accept \/ NoSlot \/ Created
      PROVE  UNCHANGED <<kind, _processes, _threads, forks, proc, stream,
                         answer, asked, req>>
  BY <1>4 DEF Accept, NoSlot, Created, tableVars, wireVars
<1>5. ASSUME ReadRequest \/ ReadEof
      PROVE  UNCHANGED <<kind, _processes, _threads, forks, proc, answer,
                         asked>>
  BY <1>5 DEF ReadRequest, ReadEof, tableVars
<1>6. ASSUME ReadShort \/ Reply
      PROVE  UNCHANGED <<kind, _processes, _threads, forks, proc, asked>>
  BY <1>6 DEF ReadShort, Reply, tableVars
<1>7. ASSUME NEW i \in Slot, FindSlot(i)
      PROVE  UNCHANGED <<kind, _threads, proc, stream, answer, asked, req>>
  BY <1>7 DEF FindSlot, wireVars
<1>8. ASSUME CreateFails
      PROVE  UNCHANGED <<kind, _threads, forks, proc, stream, answer, asked,
                         req>>
  BY <1>8 DEF CreateFails, wireVars
<1>9. ASSUME StartThread
      PROVE  UNCHANGED <<kind, _processes, forks, stream, answer, asked, req>>
  BY <1>9 DEF StartThread, wireVars
<1>10. ASSUME Leave
       PROVE  UNCHANGED <<kind, _processes, _threads, proc, stream, answer,
                          asked, req>>
  BY <1>10 DEF Leave, tableVars, wireVars
<1>11. ASSUME NEW o, shutdown(o)
       PROVE  UNCHANGED <<kind, _processes, _threads, forks, proc, stream,
                          answer, asked, mainVars>>
  BY <1>11 DEF shutdown, mainVars, tableVars, wireVars
<1>12. ASSUME NEW i \in Slot, PassSlot(i)
       PROVE  UNCHANGED <<kind, _processes, _threads, forks, proc, stream,
                          answer, asked, mainVars>>
  BY <1>12 DEF PassSlot, mainVars, tableVars, wireVars
<1>13. ASSUME NEW i \in Slot, JoinProcess(i)
       PROVE  UNCHANGED <<kind, _processes, forks, stream, answer, asked,
                          mainVars>>
  BY <1>13 DEF JoinProcess, mainVars, wireVars
<1>14. ASSUME NEW i \in Slot, JoinFails(i)
       PROVE  UNCHANGED <<kind, _processes, _threads, forks, proc, stream,
                          answer, asked, req>>
  BY <1>14 DEF JoinFails, tableVars, wireVars
<1>15. ASSUME NEW p \in Pid, ForkProcess(p)
       PROVE  UNCHANGED <<kind, _processes, _threads, stream, answer, asked,
                          mainVars>>
  BY <1>15 DEF ForkProcess, mainVars, tableVars, wireVars
<1>16. ASSUME NEW p \in Pid, ProcessEnds(p)
       PROVE  UNCHANGED <<kind, _processes, _threads, forks, stream, answer,
                          asked, mainVars>>
  BY <1>16 DEF ProcessEnds, mainVars, tableVars, wireVars
<1>17. CASE Main
  BY <1>17, <1>4, <1>5, <1>6, <1>7, <1>8, <1>9, <1>10 DEF Main
<1>18. CASE Handler
  BY <1>18, <1>12, <1>13, <1>14 DEF Handler, mainVars
<1> QED
  BY <1>1, <1>2, <1>3, <1>11, <1>15, <1>16, <1>17, <1>18 DEF Step, mainVars

(* What a closed connection leaves: the main thread is back in accept, and *)
(* the requests of that connection are gone.                               *)
LEMMA ClosedFacts ==
  ASSUME TypeOK, Progress, ReadEof \/ ReadShort \/ Reply
  PROVE  /\ cur \in Backend /\ req' = None /\ pc' = "accept"
         /\ stream' = [stream EXCEPT ![cur] = <<>>]
         /\ Len(stream'[cur]) = 0
         /\ \A b \in Backend : b # cur => stream'[b] = stream[b]
PROOF
<1>1. cur \in Backend
  BY DEF ReadEof, ReadShort, Reply, At, Progress, Serving
<1>2. req' = None /\ pc' = "accept" /\ stream' = [stream EXCEPT ![cur] = <<>>]
  BY DEF ReadEof, ReadShort, Reply, Close
<1>3. stream'[cur] = <<>>
  BY <1>1, <1>2 DEF TypeOK
<1>4. Len(stream'[cur]) = 0
  BY <1>3
<1> QED
  BY <1>1, <1>2, <1>4 DEF TypeOK

(* The request that is read is the first of its connection.                *)
LEMMA ReadFacts ==
  ASSUME TypeOK, Progress, ReadRequest
  PROVE  /\ cur \in Backend /\ pc' = "find"
         /\ req' \in Pid /\ req' = stream[cur][1]
         /\ 1 \in 1..Len(stream[cur])
         /\ Len(stream'[cur]) = Len(stream[cur]) - 1
         /\ Len(stream[cur]) \in Nat
         /\ \A k \in 1..Len(stream'[cur]) :
              stream'[cur][k] = stream[cur][k + 1]
         /\ \A b \in Backend : b # cur => stream'[b] = stream[b]
PROOF
<1>1. cur \in Backend
  BY DEF ReadRequest, At, Progress, Serving
<1>2. PICK q \in Seq(Pid) : q = stream[cur]
  BY <1>1 DEF TypeOK
<1>3. q # <<>> /\ req' = Head(q) /\ pc' = "find"
  BY <1>2 DEF ReadRequest
<1>4. stream'[cur] = Tail(q)
      /\ \A b \in Backend : b # cur => stream'[b] = stream[b]
  BY <1>1, <1>2 DEF ReadRequest, TypeOK
<1>5. /\ Head(q) \in Pid /\ Head(q) = q[1]
      /\ Len(q) \in Nat \ {0} /\ Len(Tail(q)) = Len(q) - 1
      /\ \A k \in 1..Len(Tail(q)) : Tail(q)[k] = q[k + 1]
  BY <1>3, HeadTail
<1>6. 1 \in 1..Len(q)
  BY <1>5
<1> QED
  BY <1>1, <1>2, <1>3, <1>4, <1>5, <1>6

(* A request that waits after a step waited before it on the same          *)
(* connection, and is not the one that was read; or it has just been       *)
(* written, the last of its connection.                                    *)
LEMMA StreamFrom ==
  ASSUME TypeOK, Progress, Step,
         NEW b \in Backend, NEW k \in 1..Len(stream'[b])
  PROVE  \/ /\ k \in 1..Len(stream[b]) /\ stream'[b][k] = stream[b][k]
            /\ ReadRequest => b # cur
            /\ ReadShort => b # cur
         \/ /\ k + 1 \in 1..Len(stream[b])
            /\ stream'[b][k] = stream[b][k + 1]
            /\ b = cur /\ ReadRequest /\ ~ReadShort
         \/ /\ allocate_process(b) /\ stream'[b][k] = asked + 1
            /\ k = Len(stream[b]) + 1
            /\ \A c \in Backend : c # b => stream'[c] = stream[c]
            /\ ~ReadRequest /\ ~ReadShort
PROOF
<1>1. CASE ReadRequest
  <2>1. ~ReadShort
    BY <1>1 DEF ReadRequest, ReadShort, Close
  <2>2. CASE b = cur
    <3>1. k + 1 \in 1..Len(stream[b])
      BY <1>1, <2>2, ReadFacts
    <3> QED
      BY <1>1, <2>1, <2>2, <3>1, ReadFacts
  <2>3. CASE b # cur
    BY <1>1, <2>1, <2>3, ReadFacts
  <2> QED
    BY <2>2, <2>3
<1>2. CASE ReadEof \/ ReadShort \/ Reply
  <2>1. ~ReadRequest
    BY <1>2 DEF ReadRequest, ReadEof, ReadShort, Reply, Close
  <2>2. b # cur
    BY <1>2, ClosedFacts
  <2> QED
    BY <1>2, <2>1, <2>2, ClosedFacts
<1>3. ASSUME NEW c \in Backend, allocate_process(c),
             ~ReadRequest, ~ReadShort
      PROVE  \/ k \in 1..Len(stream[b]) /\ stream'[b][k] = stream[b][k]
             \/ /\ allocate_process(b) /\ stream'[b][k] = asked + 1
                /\ k = Len(stream[b]) + 1
                /\ \A e \in Backend : e # b => stream'[e] = stream[e]
  <2>1. CASE stream'[b] = stream[b]
    BY <2>1
  <2>2. CASE stream'[b] # stream[b]
    <3>1. /\ b = c /\ stream'[b] = Append(stream[b], asked + 1)
          /\ \A e \in Backend : e # b => stream'[e] = stream[e]
      BY <1>3, <2>2 DEF allocate_process, TypeOK
    <3>2. PICK q \in Seq(Pid) : q = stream[b]
      BY DEF TypeOK
    <3> DEFINE r == stream'[b]
    <3>3. r = Append(q, asked + 1) /\ asked + 1 \in Pid
      BY <1>3, <3>1, <3>2, LaunchAssumption
      DEF allocate_process, TypeOK, Pid
    <3> HIDE DEF r
    <3>4. /\ Len(q) \in Nat /\ Len(r) = Len(q) + 1 /\ r[Len(q) + 1] = asked + 1
          /\ \A l \in 1..Len(q) : r[l] = q[l]
      BY <3>3
    <3>5. k \in 1..Len(q) \/ k = Len(q) + 1
      BY <3>2, <3>4 DEF r
    <3> QED
      BY <1>3, <3>1, <3>2, <3>4, <3>5 DEF r
  <2> QED
    BY <2>1, <2>2
<1>4. CASE stream' = stream /\ ~ReadRequest /\ ~ReadShort
  BY <1>4
<1> QED
  BY <1>1, <1>2, <1>3, <1>4, OnlyChanges

(* Only reading its request touches a process for the first time.          *)
LEMMA UntouchedOn ==
  ASSUME TypeOK, Progress, Step, NEW p \in Pid, Untouched(p),
         ReadRequest => p # stream[cur][1],
         ReadShort /\ stream[cur] # <<>> => p # Head(stream[cur])
  PROVE  Untouched(p)'
PROOF
<1>1. p # None
  BY LaunchAssumption DEF Pid
<1>2. /\ proc[p] = "none" /\ answer[p] = None /\ p # req /\ p \notin forks
      /\ \A i \in Slot : _processes[i] # p
  BY DEF Untouched
<1>3. proc'[p] = "none"
  <2>1. CASE StartThread
    BY <1>2, <2>1 DEF StartThread, TypeOK
  <2>2. ASSUME NEW i \in Slot, JoinProcess(i) PROVE proc'[p] = "none"
    BY <1>2, <2>2 DEF JoinProcess, TypeOK
  <2>3. ASSUME NEW q \in Pid, ForkProcess(q) PROVE proc'[p] = "none"
    BY <1>2, <2>3 DEF ForkProcess, TypeOK
  <2>4. ASSUME NEW q \in Pid, ProcessEnds(q) PROVE proc'[p] = "none"
    BY <1>2, <2>4 DEF ProcessEnds, TypeOK
  <2> QED
    BY <1>2, <2>1, <2>2, <2>3, <2>4, OnlyChanges
<1>4. answer'[p] = None
  <2>1. CASE ReadShort
    BY <1>2, <2>1 DEF ReadShort, TypeOK
  <2>2. CASE Reply
    BY <1>2, <2>2 DEF Reply, TypeOK
  <2> QED
    BY <1>2, <2>1, <2>2, OnlyChanges
<1>5. p # req'
  BY <1>1, <1>2, OnlyChanges, ReadFacts, ClosedFacts
<1>6. p \notin forks'
  <2>1. CASE Leave
    BY <2>1 DEF Leave
  <2>2. ASSUME NEW i \in Slot, FindSlot(i) PROVE p \notin forks'
    BY <1>2, <2>2 DEF FindSlot
  <2>3. ASSUME NEW q \in Pid, ForkProcess(q) PROVE p \notin forks'
    BY <1>2, <2>3 DEF ForkProcess
  <2> QED
    BY <1>2, <2>1, <2>2, <2>3, OnlyChanges
<1>7. ASSUME NEW i \in Slot PROVE _processes'[i] # p
  <2>1. ASSUME NEW j \in Slot, FindSlot(j) PROVE _processes'[i] # p
    BY <1>2, <2>1 DEF FindSlot, TypeOK
  <2>2. CASE CreateFails
    BY <1>1, <1>2, <2>2 DEF CreateFails, TypeOK
  <2> QED
    BY <1>2, <2>1, <2>2, OnlyChanges
<1> QED
  BY <1>3, <1>4, <1>5, <1>6, <1>7 DEF Untouched

(* The number of requests only grows.                                      *)
LEMMA AskedGrows ==
  ASSUME TypeOK, Step
  PROVE  asked \in Nat /\ asked' \in Nat /\ asked <= asked'
         /\ \A b \in Backend : allocate_process(b) => asked' = asked + 1
PROOF
<1>1. asked \in Nat
  BY LaunchAssumption DEF TypeOK
<1>2. ASSUME NEW b \in Backend, allocate_process(b) PROVE asked' = asked + 1
  BY <1>2 DEF allocate_process
<1> QED
  BY <1>1, <1>2, OnlyChanges

(* The requests that wait stay untouched and distinct, across connections  *)
(* that are read, closed and written in any order.                         *)
LEMMA WaitingStep ==
  ASSUME TypeOK, Books, Step
  PROVE  (Waiting /\ WaitingOnce /\ NotYet)'
PROOF
<1> USE DEF Books
<1>1. \A b \in Backend : \A k \in 1..Len(stream[b]) :
        stream[b][k] \in Pid /\ stream[b][k] <= asked
  BY DEF TypeOK, Waiting
<1>2. asked + 1 \in Nat /\ asked + 1 > asked
  BY AskedGrows
<1>3. ASSUME ReadShort, stream[cur] # <<>>
      PROVE  Head(stream[cur]) = stream[cur][1] /\ 1 \in 1..Len(stream[cur])
             /\ cur \in Backend
  <2>1. cur \in Backend
    BY <1>3, ClosedFacts
  <2>2. PICK q \in Seq(Pid) : q = stream[cur]
    BY <2>1 DEF TypeOK
  <2>3. Head(q) = q[1] /\ 1 \in 1..Len(q)
    BY <1>3, <2>2, HeadTail
  <2> QED
    BY <2>1, <2>2, <2>3
<1>4. ASSUME NEW p \in Pid, p > asked PROVE Untouched(p)'
  <2>1. Untouched(p)
    BY <1>4 DEF NotYet
  <2>2. ReadRequest => p # stream[cur][1]
    <3> SUFFICES ASSUME ReadRequest, p = stream[cur][1] PROVE FALSE
      OBVIOUS
    <3>1. cur \in Backend /\ 1 \in 1..Len(stream[cur])
      BY ReadFacts
    <3>2. stream[cur][1] <= asked
      BY <1>1, <3>1
    <3> QED
      BY <1>4, <3>2, AskedGrows DEF Pid
  <2>3. ReadShort /\ stream[cur] # <<>> => p # Head(stream[cur])
    <3> SUFFICES ASSUME ReadShort, stream[cur] # <<>>, p = Head(stream[cur])
                 PROVE  FALSE
      OBVIOUS
    <3>1. p <= asked
      BY <1>1, <1>3
    <3> QED
      BY <1>4, <3>1, AskedGrows DEF Pid
  <2> QED
    BY <2>1, <2>2, <2>3, UntouchedOn
<1>5. ASSUME NEW b \in Backend, NEW k \in 1..Len(stream'[b])
      PROVE  \E p \in Pid : stream'[b][k] = p /\ p <= asked' /\ Untouched(p)'
  <2>1. CASE allocate_process(b) /\ stream'[b][k] = asked + 1
    <3>1. asked + 1 \in Pid /\ asked' = asked + 1
      BY <2>1, LaunchAssumption DEF allocate_process, TypeOK, Pid
    <3>2. PICK p \in Pid : p = asked + 1
      BY <3>1
    <3>3. Untouched(p)'
      BY <1>2, <1>4, <3>2
    <3>4. p <= asked'
      BY <1>2, <3>1, <3>2
    <3> QED
      BY <2>1, <3>2, <3>3, <3>4
  <2>2. ASSUME NEW l \in 1..Len(stream[b]), stream'[b][k] = stream[b][l],
               ReadRequest => b # cur \/ l # 1,
               ReadShort => b # cur
        PROVE  \E p \in Pid :
                 stream'[b][k] = p /\ p <= asked' /\ Untouched(p)'
    <3>1. PICK p \in Pid : p = stream[b][l] /\ p <= asked /\ Untouched(p)
      BY <1>1 DEF Waiting
    <3>2. ReadRequest => p # stream[cur][1]
      BY <2>2, <3>1, ReadFacts DEF WaitingOnce
    <3>3. ReadShort /\ stream[cur] # <<>> => p # Head(stream[cur])
      BY <1>3, <2>2, <3>1 DEF WaitingOnce
    <3>4. Untouched(p)'
      BY <3>1, <3>2, <3>3, UntouchedOn
    <3>5. p <= asked'
      BY <3>1, AskedGrows DEF Pid
    <3> QED
      BY <2>2, <3>1, <3>4, <3>5
  <2>3. k + 1 # 1 /\ k \in Nat
    <3>1. k \in 1..Len(stream'[b])
      BY <1>5
    <3> QED
      BY <3>1
  <2> QED
    BY <2>1, <2>2, <2>3, StreamFrom
<1>6. ASSUME NEW b \in Backend, NEW k \in 1..Len(stream'[b]),
             NEW c \in Backend, NEW l \in 1..Len(stream'[c]),
             stream'[b][k] = stream'[c][l]
      PROVE  b = c /\ k = l
  <2>1. k \in Int /\ l \in Int
    BY <1>6
  <2>2. ASSUME NEW e \in Backend, NEW d \in 1..Len(stream[e])
        PROVE  stream[e][d] # asked + 1
    BY <1>1, <1>2, <2>2, AskedGrows DEF Pid
  <2>3. ASSUME NEW k1 \in 1..Len(stream[b]), NEW l1 \in 1..Len(stream[c]),
               stream[b][k1] = stream[c][l1]
        PROVE  b = c /\ k1 = l1
    BY <2>3 DEF WaitingOnce
  <2>4. ASSUME NEW e \in Backend, stream'[e] = stream[e]
        PROVE  Len(stream[e]) + 1 \notin 1..Len(stream'[e])
    <3>1. Len(stream[e]) \in Nat
      BY DEF TypeOK
    <3> QED
      BY <2>4, <3>1
  <2> QED
    BY <1>6, <2>1, <2>2, <2>3, <2>4, StreamFrom
<1>7. Waiting'
  <2> SUFFICES ASSUME NEW b \in Backend, NEW k \in 1..Len(stream'[b])
               PROVE  (stream[b][k] <= asked /\ Untouched(stream[b][k]))'
    BY DEF Waiting
  <2> QED
    BY <1>5 DEF Untouched
<1>8. WaitingOnce'
  BY <1>6 DEF WaitingOnce
<1>9. NotYet'
  <2> SUFFICES ASSUME NEW p \in Pid, p > asked' PROVE Untouched(p)'
    BY DEF NotYet
  <2>1. p > asked
    BY AskedGrows DEF Pid
  <2> QED
    BY <1>4, <2>1
<1> QED
  BY <1>7, <1>8, <1>9

(* A process nobody has a trace of stays absent unless it is the one that  *)
(* is served, and then only the main thread starts it.                     *)
LEMMA AbsentOn ==
  ASSUME TypeOK, Step, NEW p \in Pid, Absent(p), p # req \/ ~Main
  PROVE  Absent(p)'
PROOF
<1>1. p # None
  BY LaunchAssumption DEF Pid
<1>2. /\ proc[p] = "none" /\ p \notin forks
      /\ \A i \in Slot : _processes[i] # p
  BY DEF Absent
<1>3. proc'[p] = "none"
  <2>1. CASE StartThread
    BY <1>2, <2>1 DEF StartThread, Main, TypeOK
  <2>2. ASSUME NEW i \in Slot, JoinProcess(i) PROVE proc'[p] = "none"
    BY <1>2, <2>2 DEF JoinProcess, TypeOK
  <2>3. ASSUME NEW q \in Pid, ForkProcess(q) PROVE proc'[p] = "none"
    BY <1>2, <2>3 DEF ForkProcess, TypeOK
  <2>4. ASSUME NEW q \in Pid, ProcessEnds(q) PROVE proc'[p] = "none"
    BY <1>2, <2>4 DEF ProcessEnds, TypeOK
  <2> QED
    BY <1>2, <2>1, <2>2, <2>3, <2>4, OnlyChanges
<1>4. p \notin forks'
  <2>1. CASE Leave
    BY <2>1 DEF Leave
  <2>2. ASSUME NEW i \in Slot, FindSlot(i) PROVE p \notin forks'
    BY <1>2, <2>2 DEF FindSlot, Main
  <2>3. ASSUME NEW q \in Pid, ForkProcess(q) PROVE p \notin forks'
    BY <1>2, <2>3 DEF ForkProcess
  <2> QED
    BY <1>2, <2>1, <2>2, <2>3, OnlyChanges
<1>5. ASSUME NEW i \in Slot PROVE _processes'[i] # p
  <2>1. ASSUME NEW j \in Slot, FindSlot(j) PROVE _processes'[i] # p
    BY <1>2, <2>1 DEF FindSlot, Main, TypeOK
  <2>2. CASE CreateFails
    BY <1>1, <1>2, <2>2 DEF CreateFails, TypeOK
  <2> QED
    BY <1>2, <2>1, <2>2, OnlyChanges
<1> QED
  BY <1>3, <1>4, <1>5 DEF Absent

(* A process that has been started is never unstarted.                     *)
LEMMA StartedOn ==
  ASSUME TypeOK, Step, NEW p \in Pid, proc[p] # "none"
  PROVE  proc'[p] # "none"
PROOF
<1>1. CASE StartThread
  BY <1>1 DEF StartThread, TypeOK
<1>2. ASSUME NEW i \in Slot, JoinProcess(i) PROVE proc'[p] # "none"
  BY <1>2 DEF JoinProcess, TypeOK
<1>3. ASSUME NEW q \in Pid, ForkProcess(q) PROVE proc'[p] # "none"
  BY <1>3 DEF ForkProcess, TypeOK
<1>4. ASSUME NEW q \in Pid, ProcessEnds(q) PROVE proc'[p] # "none"
  BY <1>4 DEF ProcessEnds, TypeOK
<1> QED
  BY <1>1, <1>2, <1>3, <1>4, OnlyChanges

(* The main thread's view of the request it serves survives the signal     *)
(* handler, the detached threads and the control planes.                   *)
LEMMA ProgressStep ==
  ASSUME TypeOK, Books, ~Over, Step
  PROVE  Progress'
PROOF
<1> USE DEF Books
<1>1. ASSUME UNCHANGED mainVars, ~Main PROVE Progress'
  <2>1. pc' = pc /\ cur' = cur /\ req' = req /\ pos' = pos /\ ret' = ret
    BY <1>1 DEF mainVars
  <2>2. answer' = answer /\ _processes' = _processes /\ kind' = kind
    BY <1>1, OnlyChanges DEF Main
  <2>3. ASSUME req \in Pid, Absent(req) PROVE Absent(req)'
    <3>1. PICK p \in Pid : p = req
      BY <2>3
    <3>2. Absent(p)'
      BY <1>1, <2>3, <3>1, AbsentOn
    <3> QED
      BY <2>1, <3>1, <3>2 DEF Absent
  <2>4. ASSUME pc \in {"create", "thread"}
        PROVE  proc'[req] = "none" /\ _threads'[pos] = "none"
    <3>1. /\ kind = "local" /\ _processes[pos] = req /\ req \in Pid
          /\ proc[req] = "none" /\ _threads[pos] = "none"
      BY <2>4 DEF Progress
    <3>2. req # None /\ "local" # "serving"
      BY <3>1, LaunchAssumption DEF Pid
    <3>3. ASSUME NEW i \in Slot, JoinProcess(i)
          PROVE  proc'[req] = "none" /\ _threads'[pos] = "none"
      <4>1. i # pos /\ _processes[i] # req
        BY <3>1, <3>2, <3>3 DEF JoinProcess, Table, TypeOK
      <4> QED
        BY <3>1, <3>3, <4>1 DEF JoinProcess, TypeOK
    <3>4. ASSUME NEW p \in Pid, ForkProcess(p) PROVE FALSE
      BY <3>1, <3>2, <3>4 DEF ForkProcess, Table
    <3>5. ASSUME NEW p \in Pid, ProcessEnds(p) PROVE proc'[req] = "none"
      BY <3>1, <3>5 DEF ProcessEnds, TypeOK
    <3>6. proc'[req] = "none"
      BY <1>1, <3>1, <3>3, <3>4, <3>5, OnlyChanges DEF Main
    <3>7. _threads'[pos] = "none"
      BY <1>1, <3>1, <3>3, OnlyChanges DEF Main
    <3> QED
      BY <3>6, <3>7
  <2>5. ASSUME req \in Pid, proc[req] # "none" PROVE proc'[req] # "none"
    BY <2>5, StartedOn
  <2>6. pc # "ended"
    BY DEF Over
  <2> QED
    BY <2>1, <2>2, <2>3, <2>4, <2>5, <2>6 DEF Progress, Serving
<1>2. CASE Accept
  <2>1. Head(backlog) \in Backend
    BY <1>2, HeadTail DEF Accept, TypeOK
  <2> QED
    BY <1>2, <2>1 DEF Accept, Progress, Serving
<1>3. CASE ReadRequest
  <2>1. cur' = cur /\ cur \in Backend /\ pc' = "find" /\ req' \in Pid
    BY <1>3, ReadFacts DEF ReadRequest
  <2>2. Untouched(req') /\ answer' = answer
        /\ UNCHANGED <<proc, forks, _processes>>
    <3>1. answer' = answer /\ UNCHANGED <<proc, forks, _processes>>
      BY <1>3 DEF ReadRequest, tableVars
    <3> QED
      BY <1>3, <3>1, ReadFacts DEF Waiting
  <2>3. answer'[req'] = None /\ Absent(req)'
    BY <2>2 DEF Untouched, Absent
  <2> QED
    BY <2>1, <2>3 DEF Progress, Serving
<1>4. CASE ReadEof \/ ReadShort \/ Reply
  BY <1>4, ClosedFacts DEF Progress, Serving
<1>5. ASSUME NEW i \in Slot, FindSlot(i) PROVE Progress'
  <2>1. req \in Pid /\ answer[req] = None /\ Absent(req) /\ cur \in Backend
    BY <1>5 DEF FindSlot, At, Progress, Serving
  <2>2. /\ UNCHANGED <<cur, req, kind, proc, _threads, answer>>
        /\ pos' = i /\ _processes'[i] = req /\ _threads[i] = "none"
    BY <1>5 DEF FindSlot, wireVars, TypeOK, FirstFree, Table
  <2>3. CASE kind = "local"
    <3>1. pc' = "create"
      BY <1>5, <2>3 DEF FindSlot
    <3> QED
      BY <2>1, <2>2, <2>3, <3>1 DEF Progress, Serving, Absent
  <2>4. CASE kind # "local"
    <3>1. pc' = "reply" /\ ret' = 0
      BY <1>5, <2>4 DEF FindSlot
    <3> QED
      BY <2>1, <2>2, <2>4, <3>1 DEF Progress, Serving, Absent
  <2> QED
    BY <2>3, <2>4
<1>6. CASE NoSlot
  <2>1. UNCHANGED <<cur, req, forks, proc, _processes, answer>>
        /\ pc' = "reply" /\ ret' = 1
    BY <1>6 DEF NoSlot, tableVars, wireVars
  <2>2. req \in Pid /\ answer[req] = None /\ Absent(req) /\ cur \in Backend
    BY <1>6 DEF NoSlot, At, Progress, Serving
  <2> QED
    BY <2>1, <2>2 DEF Progress, Serving, Absent
<1>7. CASE Created
  <2>1. UNCHANGED <<cur, req, pos, kind, proc, _processes, _threads, answer>>
        /\ pc' = "thread" /\ pc = "create"
    BY <1>7 DEF Created, At, tableVars, wireVars
  <2> QED
    BY <2>1 DEF Progress, Serving
<1>8. CASE CreateFails
  <2>1. UNCHANGED <<cur, req, forks, proc, answer, kind>>
        /\ pc' = "reply" /\ ret' = 2 /\ pc = "create"
    BY <1>8 DEF CreateFails, Failed, At, wireVars
  <2>2. /\ req \in Pid /\ answer[req] = None /\ cur \in Backend
        /\ kind = "local" /\ _processes[pos] = req /\ proc[req] = "none"
    BY <2>1 DEF Progress, Serving
  <2>3. req # None /\ req \notin forks /\ "local" # "serving"
    BY <2>2, LaunchAssumption DEF Pid, Table
  <2>4. ASSUME NEW i \in Slot PROVE _processes'[i] # req
    BY <1>8, <2>2, <2>3 DEF CreateFails, TypeOK, Table
  <2>5. Absent(req)'
    BY <2>1, <2>2, <2>3, <2>4 DEF Absent
  <2> QED
    BY <2>1, <2>2, <2>5 DEF Progress, Serving
<1>9. CASE StartThread
  <2>1. UNCHANGED <<cur, req, answer>> /\ pc' = "reply" /\ ret' = 0
        /\ pc = "thread"
    BY <1>9 DEF StartThread, At, wireVars
  <2>2. req \in Pid /\ answer[req] = None /\ cur \in Backend
    BY <2>1 DEF Progress, Serving
  <2>3. proc'[req] # "none"
    BY <1>9, <2>2 DEF StartThread, TypeOK
  <2> QED
    BY <2>1, <2>2, <2>3 DEF Progress, Serving
<1>10. CASE Leave
  <2>1. pc' \in {"ended", "crashed"} /\ _threads' = _threads
        /\ (pc' = "ended" => ~LeftJoinable)
    BY <1>10 DEF Leave, tableVars
  <2> QED
    BY <2>1 DEF Progress, Serving, LeftJoinable
<1>11. ASSUME NEW i \in Slot, JoinFails(i) PROVE Progress'
  BY <1>11 DEF JoinFails, Progress, Serving
<1> QED
  BY <1>1, <1>2, <1>3, <1>4, <1>5, <1>6, <1>7, <1>8, <1>9, <1>10, <1>11,
     OnlyChanges DEF Main

(* A start, a failed start, a join and a fork keep slots, threads and      *)
(* processes in step.                                                      *)
LEMMA TableStep ==
  ASSUME TypeOK, Books, ~Over, Step
  PROVE  Table'
PROOF
<1> USE DEF Books
<1>1. \A p \in Pid : p # None
  BY LaunchAssumption DEF Pid
<1>2. kind' = kind /\ "local" # "serving"
  BY OnlyChanges
<1>3. ASSUME NEW i \in Slot, FindSlot(i) PROVE Table'
  <2>1. req \in Pid /\ Absent(req) /\ req # None
    BY <1>1, <1>3 DEF FindSlot, At, Progress
  <2>2. /\ _processes' = [_processes EXCEPT ![i] = req]
        /\ _processes[i] = None
        /\ UNCHANGED <<_threads, proc, kind>>
        /\ \/ forks' = forks
           \/ forks' = forks \cup {req} /\ kind # "local"
    BY <1>3 DEF FindSlot, FirstFree
  <2>3. kind # "local" => kind = "serving"
    BY LaunchAssumption DEF TypeOK
  <2>4. /\ _processes'[i] = req
        /\ \A j \in Slot : j # i => _processes'[j] = _processes[j]
    BY <2>2 DEF TypeOK
  <2>5. /\ \A j \in Slot : _processes[j] # req
        /\ proc[req] = "none" /\ req \notin forks
    BY <2>1 DEF Absent
  <2>6. \A j, k \in Slot :
          _processes'[j] # None /\ _processes'[j] = _processes'[k] => j = k
    BY <2>4, <2>5 DEF Table
  <2>7. \A j \in Slot : _processes'[j] = None => _threads'[j] = "none"
    BY <2>1, <2>2, <2>4 DEF Table
  <2>8. \A p \in Pid : (\E j \in Slot : _processes[j] = p) =>
                         \E j \in Slot : _processes'[j] = p
    BY <1>1, <2>2, <2>4
  <2>9. \A p \in Pid : proc'[p] # "none" => \E j \in Slot : _processes'[j] = p
    BY <2>2, <2>8 DEF Table
  <2>10. \A p \in forks' : kind' = "serving" /\ proc'[p] = "none"
                           /\ \E j \in Slot : _processes'[j] = p
    BY <2>2, <2>3, <2>4, <2>5, <2>8 DEF Table, TypeOK
  <2>11. kind' = "local" =>
           \A j \in Slot, p \in Pid :
             _processes'[j] = p /\ proc'[p] = "running" =>
               _threads'[j] = "joinable"
    BY <2>2, <2>4, <2>5 DEF Table
  <2> QED
    BY <2>6, <2>7, <2>9, <2>10, <2>11 DEF Table
<1>4. CASE CreateFails
  <2>1. /\ _processes' = [_processes EXCEPT ![pos] = None]
        /\ UNCHANGED <<_threads, proc, kind, forks>> /\ pc = "create"
    BY <1>4 DEF CreateFails, At
  <2>2. /\ kind = "local" /\ _processes[pos] = req /\ req \in Pid
        /\ proc[req] = "none" /\ _threads[pos] = "none" /\ pos \in Slot
    BY <2>1 DEF Progress, TypeOK
  <2>3. /\ _processes'[pos] = None
        /\ \A j \in Slot : j # pos => _processes'[j] = _processes[j]
    BY <2>1, <2>2 DEF TypeOK
  <2>4. \A p \in Pid : proc[p] # "none" => \E j \in Slot : _processes'[j] = p
    BY <2>2, <2>3 DEF Table
  <2>5. forks = {}
    BY <1>2, <2>2 DEF Table
  <2> QED
    BY <1>1, <2>1, <2>2, <2>3, <2>4, <2>5 DEF Table
<1>5. CASE StartThread
  <2>1. /\ _threads' = [_threads EXCEPT ![pos] = "joinable"]
        /\ proc' = [proc EXCEPT ![req] = "running"]
        /\ UNCHANGED <<_processes, kind, forks>> /\ pc = "thread"
    BY <1>5 DEF StartThread, At
  <2>2. /\ kind = "local" /\ _processes[pos] = req /\ req \in Pid
        /\ pos \in Slot /\ req # None
    BY <1>1, <2>1 DEF Progress, TypeOK
  <2>3. forks = {}
    BY <1>2, <2>2 DEF Table
  <2>4. \A j \in Slot : j # pos => _threads'[j] = _threads[j]
                                   /\ _processes[j] # req
    BY <2>1, <2>2 DEF Table, TypeOK
  <2>5. \A p \in Pid : p # req => proc'[p] = proc[p]
    BY <2>1 DEF TypeOK
  <2>6. _threads'[pos] = "joinable"
    BY <2>1, <2>2 DEF TypeOK
  <2> QED
    BY <2>1, <2>2, <2>3, <2>4, <2>5, <2>6 DEF Table
<1>6. ASSUME NEW i \in Slot, JoinProcess(i) PROVE Table'
  <2>1. /\ _threads' = [_threads EXCEPT ![i] = "joined"]
        /\ proc' = [proc EXCEPT ![_processes[i]] = "stopped"]
        /\ UNCHANGED <<_processes, kind, forks>>
        /\ kind = "local" /\ _processes[i] # None
    BY <1>6 DEF JoinProcess, mainVars
  <2>2. PICK q \in Pid : q = _processes[i]
    BY <2>1 DEF TypeOK
  <2>3. forks = {}
    BY <1>2, <2>1 DEF Table
  <2>4. \A j \in Slot : j # i => _threads'[j] = _threads[j]
                                 /\ _processes[j] # q
    BY <2>1, <2>2 DEF Table, TypeOK
  <2>5. proc'[q] = "stopped" /\ \A p \in Pid : p # q => proc'[p] = proc[p]
    BY <2>1, <2>2 DEF TypeOK
  <2> QED
    BY <2>1, <2>2, <2>3, <2>4, <2>5 DEF Table
<1>7. ASSUME NEW q \in Pid, ForkProcess(q) PROVE Table'
  <2>1. /\ q \in forks /\ forks' = forks \ {q}
        /\ UNCHANGED <<_processes, _threads, kind>>
        /\ \A p \in Pid : p # q => proc'[p] = proc[p]
    BY <1>7 DEF ForkProcess, tableVars, TypeOK
  <2>2. kind = "serving" /\ \E j \in Slot : _processes[j] = q
    BY <2>1 DEF Table
  <2>3. forks' \subseteq Pid
    BY <2>1 DEF TypeOK
  <2> QED
    BY <1>2, <2>1, <2>2, <2>3 DEF Table
<1>8. ASSUME NEW q \in Pid, ProcessEnds(q) PROVE Table'
  <2>1. /\ proc[q] = "running" /\ proc'[q] = "stopped"
        /\ UNCHANGED <<_processes, _threads, kind, forks>>
        /\ \A p \in Pid : p # q => proc'[p] = proc[p]
    BY <1>8 DEF ProcessEnds, tableVars, TypeOK
  <2>2. forks \subseteq Pid /\ q \notin forks
    BY <2>1 DEF TypeOK, Table
  <2> QED
    BY <2>1, <2>2 DEF Table
<1>9. CASE Leave
  <2>1. UNCHANGED <<_processes, _threads, kind, proc>> /\ forks' = {}
    BY <1>9 DEF Leave, tableVars
  <2> QED
    BY <2>1 DEF Table
<1>10. CASE UNCHANGED <<_processes, _threads, kind, proc, forks>>
  BY <1>10 DEF Table
<1> QED
  BY <1>2, <1>3, <1>4, <1>5, <1>6, <1>7, <1>8, <1>9, <1>10, OnlyChanges

(* An answer agrees with what became of the process when it is written,    *)
(* and ever after.                                                         *)
LEMMA AnsweredStep ==
  ASSUME TypeOK, Books, ~Over, Step
  PROVE  Answered'
PROOF
<1> USE DEF Books
<1> SUFFICES ASSUME NEW p \in Pid, answer'[p] # None
             PROVE  /\ p # req'
                    /\ answer'[p] = 0 /\ kind' = "local" => proc'[p] # "none"
                    /\ answer'[p] \in {1, 2} => Absent(p)'
  BY LaunchAssumption DEF Answered
<1>1. p # None /\ kind' = kind
  BY OnlyChanges, LaunchAssumption DEF Pid
<1>2. CASE answer'[p] = answer[p]
  <2>1. p # req
    BY <1>2 DEF Answered
  <2>2. p # req'
    <3>1. CASE ReadRequest
      <4>1. Untouched(req')
        BY <3>1, ReadFacts DEF Waiting
      <4> QED
        BY <1>2, <4>1 DEF Untouched
    <3> QED
      BY <1>1, <2>1, <3>1, ClosedFacts, OnlyChanges
  <2>3. answer[p] = 0 /\ kind = "local" => proc'[p] # "none"
    BY StartedOn DEF Answered
  <2>4. answer[p] \in {1, 2} => Absent(p)'
    BY <2>1, AbsentOn DEF Answered
  <2> QED
    BY <1>1, <1>2, <2>2, <2>3, <2>4
<1>3. CASE answer'[p] # answer[p]
  <2>1. CASE ReadShort
    <3>1. req' = None /\ cur \in Backend
      BY <2>1, ClosedFacts
    <3>2. stream[cur] # <<>> /\ p = Head(stream[cur]) /\ answer'[p] = 2
      BY <1>3, <2>1 DEF ReadShort, TypeOK
    <3>3. PICK q \in Seq(Pid) : q = stream[cur]
      BY <3>1 DEF TypeOK
    <3>4. p = q[1] /\ 1 \in 1..Len(q)
      BY <3>2, <3>3, HeadTail
    <3>5. Untouched(p)
      BY <3>1, <3>3, <3>4 DEF Waiting
    <3>6. Absent(p) /\ p # req
      BY <3>5 DEF Untouched, Absent
    <3> QED
      BY <1>1, <3>1, <3>2, <3>6, AbsentOn
  <2>2. CASE Reply
    <3>1. p = req /\ answer'[p] = ret /\ req' = None /\ pc = "reply"
      BY <1>3, <2>2, ClosedFacts DEF Reply, At, Written, TypeOK
    <3>2. UNCHANGED <<proc, forks, _processes>>
      BY <2>2 DEF Reply, tableVars
    <3>3. answer'[p] = 0 /\ kind' = "local" => proc'[p] # "none"
      BY <1>1, <3>1, <3>2 DEF Progress
    <3>4. answer'[p] \in {1, 2} => Absent(p)'
      BY <3>1, <3>2 DEF Progress, Absent
    <3> QED
      BY <1>1, <3>1, <3>3, <3>4
  <2> QED
    BY <1>3, <2>1, <2>2, OnlyChanges
<1> QED
  BY <1>2, <1>3

(* Once a request has been turned away for want of a slot, no slot is ever *)
(* free again.                                                             *)
LEMMA ExhaustedStep ==
  ASSUME TypeOK, Books, ~Over, Step
  PROVE  Exhausted'
PROOF
<1> USE DEF Books
<1> DEFINE Full == \A i \in Slot : _processes[i] # None
           Turned == (pc = "reply" /\ ret = 1) \/ \E p \in Pid : answer[p] = 1
<1>1. ASSUME Turned PROVE Full /\ pc \notin {"create", "thread"}
  BY <1>1 DEF Exhausted
<1>2. ASSUME Turned
      PROVE  Full' /\ pc' \notin {"create", "thread"}
  <2>1. ASSUME NEW i \in Slot PROVE ~FindSlot(i)
    BY <1>1, <1>2 DEF FindSlot, FirstFree
  <2>2. ~CreateFails /\ ~Created
    BY <1>1, <1>2 DEF CreateFails, Created, At
  <2>3. _processes' = _processes
    BY <2>1, <2>2, OnlyChanges
  <2>4. Main => pc' \notin {"create", "thread"}
    <3>1. Accept \/ ReadRequest \/ NoSlot \/ StartThread \/ Leave =>
            pc' \in {"read", "find", "reply", "ended", "crashed"}
      BY DEF Accept, ReadRequest, NoSlot, StartThread, Leave
    <3>2. ReadEof \/ ReadShort \/ Reply => pc' = "accept"
      BY ClosedFacts
    <3> QED
      BY <2>1, <2>2, <3>1, <3>2 DEF Main
  <2>5. ASSUME NEW i \in Slot, JoinFails(i) PROVE pc' = "crashed"
    BY <2>5 DEF JoinFails
  <2>6. pc' \notin {"create", "thread"}
    BY <1>1, <1>2, <2>4, <2>5, OnlyChanges DEF mainVars
  <2> QED
    BY <1>1, <1>2, <2>3, <2>6
<1>3. ASSUME ~Turned, Turned'
      PROVE  Full' /\ pc' \notin {"create", "thread"}
  <2>1. CASE NoSlot
    BY <2>1 DEF NoSlot, tableVars
  <2>2. CASE ReadShort
    <3>1. ASSUME NEW p \in Pid PROVE answer'[p] # 1
      BY <1>3, <2>2 DEF ReadShort, TypeOK
    <3> QED
      BY <1>3, <2>2, <3>1, ClosedFacts
  <2>3. CASE Reply
    <3>1. pc = "reply" /\ ret # 1
      BY <1>3, <2>3 DEF Reply, At
    <3>2. ASSUME NEW p \in Pid PROVE answer'[p] # 1
      BY <1>3, <2>3, <3>1 DEF Reply, Written, TypeOK
    <3> QED
      BY <2>3, <3>2, <1>3, ClosedFacts
  <2>4. CASE ~NoSlot /\ ~ReadShort /\ ~Reply
    <3>1. answer' = answer
      BY <2>4, OnlyChanges
    <3>2. pc' = "reply" /\ ret' = 1
      BY <1>3, <3>1
    <3>3. UNCHANGED mainVars => FALSE
      BY <1>3, <3>2 DEF mainVars
    <3>4. ASSUME NEW i \in Slot, JoinFails(i) PROVE FALSE
      BY <3>2, <3>4 DEF JoinFails
    <3>5. ASSUME NEW i \in Slot, FindSlot(i) PROVE FALSE
      BY <3>2, <3>5 DEF FindSlot
    <3>6. Accept \/ ReadRequest \/ ReadEof \/ Created \/ CreateFails
          \/ StartThread \/ Leave => FALSE
      BY <3>2 DEF Accept, ReadRequest, ReadEof, Close, Created, CreateFails,
                  Failed, StartThread, Leave
    <3> QED
      BY <2>4, <3>3, <3>4, <3>5, <3>6, OnlyChanges DEF Main
  <2> QED
    BY <2>1, <2>2, <2>3, <2>4
<1> QED
  BY <1>2, <1>3 DEF Exhausted

-----------------------------------------------------------------------------
(* The theorems.                                                           *)

(* The books hold in every state of the launcher.                          *)
LEMMA BooksStep ==
  ASSUME TypeOK, Books, [Next]_vars
  PROVE  Books'
PROOF
<1>1. CASE Next
  BY <1>1, ProgressStep, TableStep, AnsweredStep, ExhaustedStep, WaitingStep
  DEF Next, Books
<1>2. CASE UNCHANGED vars
  <2>1. UNCHANGED <<kind, pc, cur, req, pos, ret, _processes, _threads, forks,
                    proc, stream, asked, answer>>
    BY <1>2 DEF vars, mainVars, tableVars, wireVars
  <2>2. Progress'
    BY <2>1 DEF Books, Progress, Serving, LeftJoinable, Absent
  <2>3. Table' /\ Answered' /\ Exhausted'
    BY <2>1 DEF Books, Table, Answered, Absent, Exhausted
  <2>4. Waiting' /\ WaitingOnce' /\ NotYet'
    BY <2>1 DEF Books, Waiting, WaitingOnce, NotYet, Untouched
  <2> QED
    BY <2>2, <2>3, <2>4 DEF Books
<1> QED
  BY <1>1, <1>2

(* Server::start, Server::shutdown and the threads they start never leave  *)
(* the types, and the books on slots, threads, requests and answers agree  *)
(* in every state.                                                         *)
THEOREM LaunchCorrect == Spec => []TypeOK /\ []Books
PROOF
<1>1. Init => TypeOK /\ Books
  BY TypeInit, BooksInit
<1>2. TypeOK /\ Books /\ [Next]_vars => (TypeOK /\ Books)'
  BY TypeStep, BooksStep DEF Books
<1> QED
  BY <1>1, <1>2, PTL DEF Spec

(* Every process that either launcher has started has one slot, its own,   *)
(* for good.                                                               *)
THEOREM SlotsCorrect == Spec => []StartedHasSlot
PROOF
<1>1. TypeOK /\ Books => StartedHasSlot
  <2> SUFFICES ASSUME TypeOK, Table, NEW p \in Pid, proc[p] # "none"
               PROVE  Cardinality({i \in Slot : _processes[i] = p}) = 1
    BY DEF Books, StartedHasSlot
  <2>1. PICK i \in Slot : _processes[i] = p
    BY DEF Table
  <2>2. {j \in Slot : _processes[j] = p} = {i}
    BY <2>1, LaunchAssumption DEF Table, Pid
  <2> QED
    BY <2>2, FS_Singleton
<1> QED
  BY <1>1, LaunchCorrect, PTL

(* The local worker's 0, 1 and 2 say what happened, and stay true.         *)
THEOREM AnswersCorrect == Spec => []AnswersTruthful
PROOF
<1>1. TypeOK /\ Books => AnswersTruthful
  BY DEF Books, Answered, Absent, Exhausted, AnswersTruthful
<1> QED
  BY <1>1, LaunchCorrect, PTL

(* However the signal meets the main thread, a local worker that ends      *)
(* without a crash has stopped every process it had started.               *)
THEOREM NoneLeftCorrect == Spec => []NoneLeftBehind
PROOF
<1>1. TypeOK /\ Books => NoneLeftBehind
  <2> SUFFICES ASSUME Progress, Table, pc = "ended", kind = "local",
                      NEW p \in Pid, proc[p] = "running"
               PROVE  FALSE
    BY DEF Books, NoneLeftBehind
  <2>1. PICK i \in Slot : _processes[i] = p
    BY DEF Table
  <2>2. _threads[i] = "joinable"
    BY <2>1 DEF Table
  <2> QED
    BY <2>2 DEF Progress, LeftJoinable
<1> QED
  BY <1>1, LaunchCorrect, PTL
=============================================================================
