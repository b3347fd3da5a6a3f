------------------------------- MODULE Launch -------------------------------
(***************************************************************************)
(* How a subprocess comes to life: the backend of a control plane writes   *)
(* allocation requests to a launcher, which reads one request from each    *)
(* connection, finds a slot for the process, starts it and answers.  There *)
(* are two launchers with one protocol: the local worker runs a process as *)
(* a thread of its own, the serving forks it from a detached thread.       *)
(*                                                                         *)
(*   src/system/control-plane/backend.cpp,                                 *)
(*   src/system/local-worker/server.cpp, Process::create,                  *)
(*   src/system/praas-serving/{server,subprocess}.cpp                      *)
(*                                                                         *)
(* A step is one system call of the launcher's main thread, or a stretch   *)
(* of it in which nothing else can see or do anything; the signal handler  *)
(* runs between two of them, or on another thread at the same time.        *)
(***************************************************************************)
EXTENDS Integers, Sequences, FiniteSets

CONSTANTS
  MaxAsked,        \* bound: processes that control planes ask for
  MaxBackends,     \* bound: control planes that connect
  Kinds,           \* the launchers to consider
  MaxProcesses,    \* --processes
  None             \* no value

ASSUME LaunchAssumption ==
  /\ Kinds \subseteq {"local", "serving"}
  /\ MaxProcesses \in Nat \ {0} /\ MaxAsked \in Nat /\ MaxBackends \in Nat
  /\ None \notin Nat

(* Processes are named in the order they are asked for, control planes in  *)
(* the order they connect.                                                 *)
Pid == 1..MaxAsked
Backend == 1..MaxBackends
Slot == 0..(MaxProcesses - 1)

VARIABLES
  kind,        \* which launcher it is
  pc,          \* where Server::start is
  cur,         \* the backend whose connection is served, or None
  req,         \* the process it asked for, or None
  pos,         \* the slot that was found
  ret,         \* what will be answered
  _processes,  \* the process of a slot, or None
  _threads,    \* local worker: none, joinable or joined, by slot
  _ending,     \* shutdown has begun
  handler,     \* the signal handler: [on, i], the slot it is at, or None
  forks,       \* serving: processes whose detached thread has not forked
  proc,        \* the processes: none, running, stopped
  backlog,     \* connections that have not been accepted
  link,        \* the connection of a backend: none, open, eof, closed
  stream,      \* requests on the connection that have not been read
  asked,       \* how many processes were asked for
  answer       \* what was written for a process: 0, 1, 2 or None

mainVars  == <<pc, cur, req, pos, ret>>
tableVars == <<_processes, _threads>>
wireVars  == <<backlog, link, stream, asked, answer>>
vars == <<kind, mainVars, tableVars, _ending, handler, forks, proc, wireVars>>

Over == pc \in {"ended", "crashed"}

Init ==
  /\ kind \in Kinds
  /\ pc = "accept" /\ cur = None /\ req = None /\ pos = 0 /\ ret = 0
  /\ _processes = [i \in Slot |-> None] /\ _threads = [i \in Slot |-> "none"]
  /\ _ending = FALSE /\ handler = None
  /\ forks = {} /\ proc = [p \in Pid |-> "none"]
  /\ backlog = <<>> /\ link = [b \in Backend |-> "none"]
  /\ stream = [b \in Backend |-> <<>>]
  /\ asked = 0 /\ answer = [p \in Pid |-> None]

-----------------------------------------------------------------------------
(* A control plane and its LocalBackend, which never reads an answer.      *)

create(b) ==
  /\ link[b] = "none" /\ ~_ending
  /\ \A c \in Backend : c < b => link[c] # "none"
  /\ link' = [link EXCEPT ![b] = "open"]
  /\ backlog' = Append(backlog, b)
  /\ UNCHANGED <<kind, mainVars, tableVars, _ending, handler, forks, proc,
                 stream, asked, answer>>

(* All requests are written to the one connection; what is written after   *)
(* the launcher has closed it is lost.                                     *)
allocate_process(b) ==
  /\ link[b] \in {"open", "closed"} /\ asked < MaxAsked
  /\ asked' = asked + 1
  /\ stream' = IF link[b] = "open"
                 THEN [stream EXCEPT ![b] = Append(@, asked + 1)] ELSE stream
  /\ UNCHANGED <<kind, mainVars, tableVars, _ending, handler, forks, proc,
                 backlog, link, answer>>

(* The control plane ends.                                                 *)
BackendEnds(b) ==
  /\ link[b] = "open"
  /\ link' = [link EXCEPT ![b] = "eof"]
  /\ UNCHANGED <<kind, mainVars, tableVars, _ending, handler, forks, proc,
                 backlog, stream, asked, answer>>

-----------------------------------------------------------------------------
(* The main thread: Server::start.                                         *)

(* It runs, unless it is the thread the signal has interrupted.            *)
At(l) == /\ pc = l
         /\ IF handler = None THEN TRUE ELSE handler.on # "main"

Accept ==
  /\ At("accept") /\ ~_ending
  /\ backlog # <<>>
  /\ cur' = Head(backlog) /\ backlog' = Tail(backlog)
  /\ pc' = "read"
  /\ UNCHANGED <<kind, req, pos, ret, tableVars, _ending, handler, forks, proc,
                 link, stream, asked, answer>>

(* One request is read, however many have been written.                    *)
ReadRequest ==
  /\ At("read") /\ stream[cur] # <<>>
  /\ req' = Head(stream[cur])
  /\ stream' = [stream EXCEPT ![cur] = Tail(@)]
  /\ pc' = "find"
  /\ UNCHANGED <<kind, cur, pos, ret, tableVars, _ending, handler, forks, proc,
                 backlog, link, asked, answer>>

(* The connection is closed, and what was not read of it is lost.          *)
Close == /\ cur' = None /\ req' = None
         /\ link' = [link EXCEPT ![cur] = "closed"]
         /\ stream' = [stream EXCEPT ![cur] = <<>>]
         /\ pc' = "accept"

ReadEof ==
  /\ At("read") /\ stream[cur] = <<>> /\ link[cur] = "eof"
  /\ Close
  /\ UNCHANGED <<kind, pos, ret, tableVars, _ending, handler, forks, proc,
                 backlog, asked, answer>>

(* Less than a request, or a read that the signal interrupted: answer 2.   *)
ReadShort ==
  /\ At("read") /\ (stream[cur] # <<>> \/ _ending)
  /\ answer' = IF stream[cur] # <<>>
                 THEN [answer EXCEPT ![Head(stream[cur])] = 2] ELSE answer
  /\ Close
  /\ UNCHANGED <<kind, pos, ret, tableVars, _ending, handler, forks, proc,
                 backlog, asked>>

(* std::find_if: the first slot without a value.  And: any slot.           *)
FirstFree_any(i) == TRUE
FirstFree(i) == /\ _processes[i] = None
                /\ \A j \in Slot : j < i => _processes[j] # None

(* The local worker constructs the process in the slot before it connects  *)
(* it; the serving fills the slot, leaves the rest to a thread and answers *)
(* 0.                                                                      *)
FindSlot(i) ==
  /\ At("find") /\ FirstFree(i)
  /\ pos' = i
  /\ _processes' = [_processes EXCEPT ![i] = req]
  /\ IF kind = "local"
       THEN pc' = "create" /\ UNCHANGED <<ret, forks>>
       ELSE pc' = "reply" /\ ret' = 0 /\ forks' = forks \cup {req}
  /\ UNCHANGED <<kind, cur, req, _threads, _ending, handler, proc, wireVars>>

NoSlot ==
  /\ At("find") /\ \A i \in Slot : _processes[i] # None
  /\ ret' = 1 /\ pc' = "reply"
  /\ UNCHANGED <<kind, cur, req, pos, tableVars, _ending, handler, forks, proc,
                 wireVars>>

(* Process::create: swapping and the connection to the control plane.      *)
Created ==
  /\ At("create")
  /\ pc' = "thread"
  /\ UNCHANGED <<kind, cur, req, pos, ret, tableVars, _ending, handler, forks,
                 proc, wireVars>>

(* The answer to a failed start; and the failure not looked at, or the     *)
(* result of the call passed on.                                           *)
Failed_raw == -1
Failed_ignored == 0
Failed == 2

(* The process is destroyed, and its slot is free again.                   *)
CreateFails ==
  /\ At("create")
  /\ _processes' = [_processes EXCEPT ![pos] = None]
  /\ ret' = Failed /\ pc' = "reply"
  /\ UNCHANGED <<kind, cur, req, pos, _threads, _ending, handler, forks, proc,
                 wireVars>>

StartThread ==
  /\ At("thread")
  /\ _threads' = [_threads EXCEPT ![pos] = "joinable"]
  /\ proc' = [proc EXCEPT ![req] = "running"]
  /\ ret' = 0 /\ pc' = "reply"
  /\ UNCHANGED <<kind, cur, req, pos, _processes, _ending, handler, forks,
                 wireVars>>

(* What is written, and nothing when the slots are exhausted.              *)
Written_started == IF ret = 1 THEN None ELSE ret
Written == ret

Reply ==
  /\ At("reply")
  /\ answer' = [answer EXCEPT ![req] = Written]
  /\ Close
  /\ UNCHANGED <<kind, pos, ret, tableVars, _ending, handler, forks, proc,
                 backlog, asked>>

(* ~Server deletes the threads: one that is joinable terminates the        *)
(* program.  And: they are detached.                                       *)
LeftJoinable_detached == FALSE
LeftJoinable == \E i \in Slot : _threads[i] = "joinable"

(* The loop ends, and with it the program.                                 *)
Leave ==
  /\ At("accept") /\ _ending
  /\ pc' = IF LeftJoinable THEN "crashed" ELSE "ended"
  /\ forks' = {} /\ handler' = None
  /\ UNCHANGED <<kind, cur, req, pos, ret, tableVars, _ending, proc, wireVars>>

-----------------------------------------------------------------------------
(* The signal handler: Server::shutdown.  (Bound: one SIGINT.)             *)

shutdown(on) ==
  /\ ~_ending /\ ~Over
  /\ _ending' = TRUE
  /\ handler' = [on |-> on, i |-> 0]
  /\ UNCHANGED <<kind, mainVars, tableVars, forks, proc, wireVars>>

Handling(i) == IF handler = None THEN FALSE ELSE handler.i = i

Turn(i) == handler' = IF i + 1 \in Slot THEN [handler EXCEPT !.i = i + 1]
                      ELSE None

(* A slot without a process, and every slot of the serving, whose          *)
(* SubprocessFork::shutdown does nothing.                                  *)
PassSlot(i) ==
  /\ Handling(i)
  /\ _processes[i] = None \/ kind = "serving"
  /\ Turn(i)
  /\ UNCHANGED <<kind, mainVars, tableVars, _ending, forks, proc, wireVars>>

(* Process::shutdown ends the process, and its thread is joined.           *)
JoinProcess(i) ==
  /\ Handling(i)
  /\ kind = "local" /\ _processes[i] # None /\ _threads[i] = "joinable"
  /\ proc' = [proc EXCEPT ![_processes[i]] = "stopped"]
  /\ _threads' = [_threads EXCEPT ![i] = "joined"]
  /\ Turn(i)
  /\ UNCHANGED <<kind, mainVars, _processes, _ending, forks, wireVars>>

(* The process is there and its thread is not, a null pointer; or the      *)
(* handler runs on the very thread it has to join.                         *)
JoinFails(i) ==
  /\ Handling(i)
  /\ kind = "local" /\ _processes[i] # None
  /\ _threads[i] = "none" \/ handler.on = "other"
  /\ pc' = "crashed" /\ handler' = None
  /\ UNCHANGED <<kind, cur, req, pos, ret, tableVars, _ending, forks, proc,
                 wireVars>>

-----------------------------------------------------------------------------
(* The processes.                                                          *)

(* SubprocessFork::fork on its thread; nobody learns of a failure.         *)
ForkProcess(p) ==
  /\ p \in forks
  /\ forks' = forks \ {p}
  /\ \/ proc' = [proc EXCEPT ![p] = "running"]
     \/ UNCHANGED proc
  /\ UNCHANGED <<kind, mainVars, tableVars, _ending, handler, wireVars>>

(* A process ends by itself; its slot stays taken.                         *)
ProcessEnds(p) ==
  /\ proc[p] = "running"
  /\ proc' = [proc EXCEPT ![p] = "stopped"]
  /\ UNCHANGED <<kind, mainVars, tableVars, _ending, handler, forks, wireVars>>

-----------------------------------------------------------------------------
Main ==
  \/ Accept \/ ReadRequest \/ ReadEof \/ ReadShort
  \/ (\E i \in Slot : FindSlot(i)) \/ NoSlot
  \/ Created \/ CreateFails \/ StartThread \/ Reply \/ Leave

Handler == \E i \in Slot : PassSlot(i) \/ JoinProcess(i) \/ JoinFails(i)

Step ==
  \/ \E b \in Backend :
       create(b) \/ allocate_process(b) \/ BackendEnds(b)
  \/ Main \/ Handler
  \/ shutdown("main") \/ shutdown("other")
  \/ \E p \in Pid : ForkProcess(p) \/ ProcessEnds(p)

(* Nothing matters after the end of the launcher.                          *)
Next == ~Over /\ Step

Spec == Init /\ [][Next]_vars

(* The operating system runs the main thread and the handler; nothing      *)
(* makes a control plane ask.                                              *)
FairSpec == Spec /\ WF_vars(~Over /\ Main) /\ WF_vars(~Over /\ Handler)

-----------------------------------------------------------------------------
(* Properties.                                                             *)

(* Every variable has its type.                                            *)
TypeOK ==
  /\ kind \in Kinds
  /\ pc \in {"accept", "read", "find", "create", "thread", "reply", "ended",
             "crashed"}
  /\ cur \in Backend \cup {None} /\ req \in Pid \cup {None}
  /\ pos \in Slot /\ ret \in 0..2
  /\ _processes \in [Slot -> Pid \cup {None}]
  /\ _threads \in [Slot -> {"none", "joinable", "joined"}]
  /\ _ending \in BOOLEAN
  /\ handler \in [on : {"main", "other"}, i : Slot] \cup {None}
  /\ forks \subseteq Pid
  /\ proc \in [Pid -> {"none", "running", "stopped"}]
  /\ backlog \in Seq(Backend)
  /\ link \in [Backend -> {"none", "open", "eof", "closed"}]
  /\ stream \in [Backend -> Seq(Pid)]
  /\ asked \in 0..MaxAsked
  /\ answer \in [Pid -> (0..2) \cup {None}]

(* Every process that was started has a slot of its own for good: the      *)
(* launcher never starts more than it may, never starts one twice and      *)
(* never loses one that it would have to shut down.                        *)
StartedHasSlot ==
  \A p \in Pid : proc[p] # "none" =>
    Cardinality({i \in Slot : _processes[i] = p}) = 1

(* 0 -> success, 1 -> exhausted resources, 2 -> another error              *)
(* (local-worker/server.cpp:107): the local worker answers 0 exactly for   *)
(* the processes it has started, and 1 only when all slots are taken.      *)
AnswersTruthful ==
  kind = "local" =>
    \A p \in Pid : /\ answer[p] = 0 => proc[p] # "none"
                   /\ answer[p] \in {1, 2} => proc[p] = "none"
                   /\ answer[p] = 1 => \A i \in Slot : _processes[i] # None

(* A local worker that returns from main leaves no process behind,         *)
(* wherever the signal found it.                                           *)
NoneLeftBehind ==
  pc = "ended" /\ kind = "local" => \A p \in Pid : proc[p] # "running"

(* The launcher waits for a connection that says nothing.                  *)
HeldUp(b) == IF cur \in {None, b} THEN FALSE
             ELSE pc = "read" /\ link[cur] = "open" /\ stream[cur] = <<>>

(* p is the first process b asks for, and the request has not been read.   *)
FirstOf(b, p) == /\ stream[b] # <<>> /\ Head(stream[b]) = p
                 /\ cur = b => pc = "read"

(* The request a control plane writes first is answered, unless another    *)
(* connection holds the launcher up or it is shut down.  (The requests     *)
(* behind it on the connection are lost.)                                  *)
FirstAnswered ==
  \A b \in Backend, p \in Pid :
    FirstOf(b, p) ~> (answer[p] # None \/ HeldUp(b) \/ _ending)
=============================================================================
