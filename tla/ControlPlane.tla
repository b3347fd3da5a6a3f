---------------------------- MODULE ControlPlane ----------------------------
(***************************************************************************)
(* The PraaS control plane: the HTTP front end that places sessions into   *)
(* subprocesses, the resource tables it shares with a pool of worker       *)
(* threads, the epoll loop that feeds the pool, and the Redis sets that    *)
(* remember which session is alive and which one is swapped out.           *)
(*                                                                         *)
(*   src/system/control-plane/{http,worker,resources,server,backend}.cpp   *)
(*                                                                         *)
(* One step is one access to Redis, one critical section of                *)
(* Resources::_sessions_mutex, or one access to the shared tables that the *)
(* code makes without the mutex.  The subprocesses and their sessions are  *)
(* the environment here: only what they say on their connections matters   *)
(* (module ProcessRuntime models them from the inside).                    *)
(***************************************************************************)
EXTENDS Integers, Sequences, FiniteSets, SequencesExt

CONSTANTS
  Sid,          \* session identifiers (uuids drawn by process_client)
  Pid,          \* subprocess identifiers (uuids drawn by process_client)
  Gid,          \* global process identifiers (uuids of process_allocation)
  Fid,          \* invocation identifiers chosen by the clients
  Worker,       \* threads of the pool
  MaxSessions,  \* max_sessions_per_process
  MaxLives,     \* bound: how often one session may be placed
  None          \* no value: empty string, null pointer

ASSUME SizesAssumption == MaxSessions \in Nat \ {0} /\ MaxLives \in Nat \ {0}
ASSUME NoneAssumption ==
  None \notin Sid \cup Pid \cup Gid \cup Fid \cup Worker

VARIABLES
  registered,   \* Redis: PROCESS_<id> exists
  known,        \* Redis: SESSION_<id> exists
  alive,        \* Redis: the sets SESSIONS_ALIVE_<global process>
  swapped,      \* Redis: the sets SESSIONS_SWAPPED_<global process>
  processes,    \* Resources::processes, its keys
  global_process_id,  \* Process fields, by subprocess
  allocated_sessions,
  connection,         \* is the socket of the process open?
  sessions,           \* the vector of its sessions
  allocated,    \* Session fields, by session; an entry is never erased, and
  swap_in,      \* before it exists its fields have their initial values
  allocations,
  mutex,        \* the pool thread that holds _sessions_mutex between steps
  http,         \* the HTTP thread and the locals of process_client
  worker,       \* the pool threads and the locals of their task
  tasks,        \* the pool's queue
  backlog,      \* connections the listening socket has not accepted yet
  epoll,        \* processes whose one-shot descriptor is armed
  toProc,       \* bytes on the way to a subprocess
  fromProc,     \* bytes on the way from a subprocess
  up,           \* the control plane has not been terminated
  stage,        \* environment: how far the subprocess has come
  running,      \* environment: sessions a subprocess runs
  identified,   \* environment: running sessions that have called back
  lives,        \* history: how often a session was placed
  sent,         \* history: the last placement whose request was written
  lost          \* history: processes whose slot counter lost an update

redisVars   == <<registered, known, alive, swapped>>
processVars == <<processes, global_process_id, allocated_sessions, connection,
                 sessions>>
sessionVars == <<allocated, swap_in, allocations>>
poolVars    == <<worker, mutex>>
queueVars   == <<tasks, backlog, epoll>>
wireVars    == <<toProc, fromProc>>
envVars     == <<stage, running, identified>>
historyVars == <<lives, sent, lost>>
vars == <<redisVars, processVars, sessionVars, http, poolVars, queueVars,
          wireVars, up, envVars, historyVars>>

-----------------------------------------------------------------------------
(* The shapes of the state.                                                *)

Stage == {"absent", "requested", "connected", "exited"}

(* What a connection or a message carries once its header is parsed.       *)
ProcessTask == [kind : {"process", "eof"}, pid : Pid, sid : {None}]
SessionTask == [kind : {"session"}, pid : {None}, sid : Sid]
StatusTask  == [kind : {"status", "close"}, pid : Pid, sid : Sid]
Task        == ProcessTask \cup SessionTask \cup StatusTask

(* SessionRequest: a negative memory size asks for a swap-in.  The size is  *)
(* the client's, and nothing checks that it is positive (http.cpp:60): it  *)
(* is taken to be here, so that process_client alone decides the sign.     *)
Request == [sid : Sid, swap : BOOLEAN]

(* The locals of process_client, by how far it has come.                   *)
IdleHttp  == [pc |-> "idle", gid |-> None, sid |-> None, fid |-> None,
              swap |-> FALSE, proc |-> None, reg |-> 0]
HttpState ==
  {IdleHttp}
  \cup [pc : {"srem", "free", "new", "alive"}, gid : Gid, sid : Sid,
        fid : Fid \cup {None}, swap : BOOLEAN, proc : Pid \cup {None},
        reg : Int]
  \cup [pc : {"store", "add"}, gid : Gid, sid : Sid, fid : Fid \cup {None},
        swap : BOOLEAN, proc : Pid, reg : Int]

(* The locals of a pool thread, by how far its task has come.              *)
NoTask      == [kind |-> "none", pid |-> None, sid |-> None]
IdleWorker  == [pc |-> "idle", task |-> NoTask, reg |-> 0]
WorkerState ==
  {IdleWorker}
  \cup [pc : {"run"}, task : Task, reg : Int]
  \cup [pc : {"lock", "send"}, task : ProcessTask, reg : Int]
  \cup [pc : {"erase", "swap", "unalive"}, task : StatusTask, reg : Int]

Init ==
  /\ registered = {} /\ known = {}
  /\ alive = [g \in Gid |-> {}] /\ swapped = [g \in Gid |-> {}]
  /\ processes = {}
  /\ global_process_id = [p \in Pid |-> None]
  /\ allocated_sessions = [p \in Pid |-> 0]
  /\ connection = [p \in Pid |-> FALSE]
  /\ sessions = [p \in Pid |-> <<>>]
  /\ allocated = [s \in Sid |-> FALSE]
  /\ swap_in = [s \in Sid |-> FALSE]
  /\ allocations = [s \in Sid |-> <<>>]
  /\ mutex = None
  /\ http = IdleHttp
  /\ worker = [w \in Worker |-> IdleWorker]
  /\ tasks = <<>> /\ backlog = <<>> /\ epoll = {}
  /\ toProc = [p \in Pid |-> <<>>] /\ fromProc = [p \in Pid |-> <<>>]
  /\ up = TRUE
  /\ stage = [p \in Pid |-> "absent"]
  /\ running = [p \in Pid |-> {}]
  /\ identified = {}
  /\ lives = [s \in Sid |-> 0] /\ sent = [s \in Sid |-> 0] /\ lost = {}

-----------------------------------------------------------------------------
(* The HTTP thread.  Crow runs one thread, so one request at a time; every *)
(* early return with code 400 that changes nothing is a stuttering step.   *)

(* POST /add_process.                                                      *)
process_allocation(g) ==
  /\ http.pc = "idle"
  /\ g \notin registered
  /\ registered' = registered \cup {g}
  /\ UNCHANGED <<known, alive, swapped, processVars, sessionVars, http,
                 poolVars, queueVars, wireVars, envVars, historyVars>>

(* A request without a session id: draw one and store its parameters.  It  *)
(* carries an invocation (/invoke) or none (/add_session).                 *)
NewSession(g, s, f) ==
  /\ http.pc = "idle"
  /\ g \in registered
  /\ s \notin known
  /\ known' = known \cup {s}
  /\ http' = [IdleHttp EXCEPT !.pc = "free", !.gid = g, !.sid = s, !.fid = f]
  /\ UNCHANGED <<registered, alive, swapped, processVars, sessionVars,
                 poolVars, queueVars, wireVars, envVars, historyVars>>

(* sismember SESSIONS_ALIVE_, and the test forgotten.                      *)
IsAlive_forgotten(g, s) == FALSE
IsAlive(g, s) == s \in alive[g]

(* A request that names a session: it must not be alive.                   *)
CheckAlive(g, s, f) ==
  /\ http.pc = "idle"
  /\ g \in registered
  /\ s \in known
  /\ lives[s] < MaxLives
  /\ ~IsAlive(g, s)
  /\ http' = [IdleHttp EXCEPT !.pc = "srem", !.gid = g, !.sid = s, !.fid = f]
  /\ UNCHANGED <<redisVars, processVars, sessionVars, poolVars, queueVars,
                 wireVars, envVars, historyVars>>

(* srem SESSIONS_SWAPPED_ returned 1: swap the session in, memory_size     *)
(* negated.                                                                *)
TakeSwapped ==
  /\ http.pc = "srem"
  /\ http.sid \in swapped[http.gid]
  /\ swapped' = [swapped EXCEPT ![http.gid] = @ \ {http.sid}]
  /\ http' = [http EXCEPT !.pc = "free", !.swap = TRUE]
  /\ UNCHANGED <<registered, known, alive, processVars, sessionVars,
                 poolVars, queueVars, wireVars, envVars, historyVars>>

(* srem removed nothing: 400, "Session ID unknown!".                       *)
UnknownSession ==
  /\ http.pc = "srem"
  /\ http.sid \notin swapped[http.gid]
  /\ http' = IdleHttp
  /\ UNCHANGED <<redisVars, processVars, sessionVars, poolVars, queueVars,
                 wireVars, envVars, historyVars>>

(* The test of get_free_process.                                           *)
IsFree(p) == allocated_sessions[p] < MaxSessions

(* get_free_process: the first process in hash order with a free slot,     *)
(* whatever global process it was started for, and outside the mutex.  Its *)
(* allocated_sessions++ is a load ...                                      *)
GetFreeProcess(p) ==
  /\ http.pc = "free"
  /\ p \in processes /\ IsFree(p)
  /\ http' = [http EXCEPT !.pc = "store", !.proc = p,
                          !.reg = allocated_sessions[p]]
  /\ UNCHANGED <<redisVars, processVars, sessionVars, poolVars, queueVars,
                 wireVars, envVars, historyVars>>

(* A store to the counter of p of a value computed from n overwrites what  *)
(* another thread has stored since.                                        *)
NoteLost(p, n) ==
  lost' = IF allocated_sessions[p] = n THEN lost ELSE lost \cup {p}

(* ... and a later store: the field is a plain int16_t.                    *)
StoreCount ==
  /\ http.pc = "store"
  /\ allocated_sessions' =
       [allocated_sessions EXCEPT ![http.proc] = http.reg + 1]
  /\ NoteLost(http.proc, http.reg)
  /\ http' = [http EXCEPT !.pc = "add", !.reg = 0]
  /\ UNCHANGED <<redisVars, processes, global_process_id, connection,
                 sessions, sessionVars, poolVars, queueVars, wireVars,
                 envVars, lives, sent>>

NoFreeProcess ==
  /\ http.pc = "free"
  /\ \A p \in processes : ~IsFree(p)
  /\ http' = [http EXCEPT !.pc = "new"]
  /\ UNCHANGED <<redisVars, processVars, sessionVars, poolVars, queueVars,
                 wireVars, envVars, historyVars>>

(* The queue of a session gets one more invocation.                        *)
Queue(q, f) == IF f = None THEN q ELSE Append(q, f)

(* The fields of the session that both branches of process_client set; the *)
(* payload is queued until the session calls back.                         *)
FillSession(s, swap, f) ==
  /\ swap_in' = [swap_in EXCEPT ![s] = swap]
  /\ allocations' = [allocations EXCEPT ![s] = Queue(@, f)]
  /\ lives' = [lives EXCEPT ![s] = @ + 1]

(* SessionRequest::fill, and with the sign of the memory size lost.        *)
fill_unsigned(s, swap) == [sid |-> s, swap |-> FALSE]
fill(s, swap) == [sid |-> s, swap |-> swap]

(* The write of a request to the process: what is written to a socket that *)
(* is not open is lost, and nobody looks at the result.                    *)
WriteRequest(p, s, swap, life) ==
  IF connection[p]
    THEN /\ toProc' = [toProc EXCEPT ![p] = Append(@, fill(s, swap))]
         /\ sent' = [sent EXCEPT ![s] = life]
    ELSE UNCHANGED <<toProc, sent>>

(* Place the session in an existing process: add_session, then send the    *)
(* request at once, and call the session allocated.                        *)
AddToExisting ==
  /\ http.pc = "add"
  /\ mutex = None
  /\ sessions' = [sessions EXCEPT ![http.proc] = Append(@, http.sid)]
  /\ FillSession(http.sid, http.swap, http.fid)
  /\ WriteRequest(http.proc, http.sid, http.swap, lives[http.sid] + 1)
  /\ allocated' = [allocated EXCEPT ![http.sid] = TRUE]
  /\ http' = [http EXCEPT !.pc = "alive"]
  /\ UNCHANGED <<redisVars, processes, global_process_id, allocated_sessions,
                 connection, poolVars, queueVars, fromProc, envVars, lost>>

(* Place the session in a new process: add_process, add_session and the    *)
(* backend's allocate_process.  add_session emplaces, so the entry of a    *)
(* session that has lived before keeps its flag `allocated`.               *)
AddToNew(p) ==
  /\ http.pc = "new"
  /\ mutex = None
  /\ p \notin processes
  /\ processes' = processes \cup {p}
  /\ global_process_id' = [global_process_id EXCEPT ![p] = http.gid]
  /\ allocated_sessions' = [allocated_sessions EXCEPT ![p] = 1]
  /\ sessions' = [sessions EXCEPT ![p] = <<http.sid>>]
  /\ FillSession(http.sid, http.swap, http.fid)
  /\ stage' = [stage EXCEPT ![p] = "requested"]
  /\ http' = [http EXCEPT !.pc = "alive"]
  /\ UNCHANGED <<redisVars, connection, allocated, poolVars, queueVars,
                 wireVars, running, identified, sent, lost>>

(* sadd SESSIONS_ALIVE_, after the mutex is released, and the reply 200.   *)
MarkAlive ==
  /\ http.pc = "alive"
  /\ alive' = [alive EXCEPT ![http.gid] = @ \cup {http.sid}]
  /\ http' = IdleHttp
  /\ UNCHANGED <<registered, known, swapped, processVars, sessionVars,
                 poolVars, queueVars, wireVars, envVars, historyVars>>

-----------------------------------------------------------------------------
(* The main thread: Server::start.                                         *)

(* Accept a connection; the pool thread that gets it reads its header.     *)
Accept ==
  /\ backlog # <<>>
  /\ tasks' = Append(tasks, Head(backlog))
  /\ backlog' = Tail(backlog)
  /\ UNCHANGED <<redisVars, processVars, sessionVars, http, poolVars, epoll,
                 wireVars, envVars, historyVars>>

(* Read one message of a process whose descriptor is armed; EPOLLONESHOT   *)
(* disarms it.                                                             *)
Poll(p) ==
  /\ p \in epoll
  /\ fromProc[p] # <<>>
  /\ tasks' = Append(tasks, Head(fromProc[p]))
  /\ fromProc' = [fromProc EXCEPT ![p] = Tail(@)]
  /\ epoll' = epoll \ {p}
  /\ UNCHANGED <<redisVars, processVars, sessionVars, http, poolVars,
                 backlog, toProc, envVars, historyVars>>

-----------------------------------------------------------------------------
(* The pool threads: Worker::worker and Worker::handle_message.            *)

TakeTask(w) ==
  /\ worker[w].pc = "idle"
  /\ tasks # <<>>
  /\ worker' = [worker EXCEPT ![w] = [pc |-> "run", task |-> Head(tasks),
                                      reg |-> 0]]
  /\ tasks' = Tail(tasks)
  /\ UNCHANGED <<redisVars, processVars, sessionVars, http, mutex, backlog,
                 epoll, wireVars, envVars, historyVars>>

Runs(w, pc, kind) == worker[w].pc = pc /\ worker[w].task.kind = kind

(* process_process, first part: keep the connection, outside the mutex.    *)
StoreConnection(w) ==
  /\ Runs(w, "run", "process")
  /\ connection' = [connection EXCEPT ![worker[w].task.pid] = TRUE]
  /\ worker' = [worker EXCEPT ![w].pc = "lock"]
  /\ UNCHANGED <<redisVars, processes, global_process_id, allocated_sessions,
                 sessions, sessionVars, http, mutex, queueVars, wireVars,
                 envVars, historyVars>>

LockSessions(w) ==
  /\ worker[w].pc = "lock"
  /\ mutex = None
  /\ mutex' = w
  /\ worker' = [worker EXCEPT ![w].pc = "send"]
  /\ UNCHANGED <<redisVars, processVars, sessionVars, http, queueVars,
                 wireVars, envVars, historyVars>>

(* Any position, requested before or not.                                  *)
FirstPending_any(p, i) == i \in DOMAIN sessions[p]

(* The first position of p's vector from which no session was requested.   *)
FirstPending(p, i) ==
  /\ i \in DOMAIN sessions[p]
  /\ ~allocated[sessions[p][i]]
  /\ \A j \in DOMAIN sessions[p] : j < i => allocated[sessions[p][j]]

(* process_process, one turn of the loop over the process's sessions.      *)
SendPending(w) ==
  LET p == worker[w].task.pid IN
  /\ worker[w].pc = "send"
  /\ \E i \in 1 .. Len(sessions[p]) :
       LET s == sessions[p][i] IN
       /\ FirstPending(p, i)
       /\ WriteRequest(p, s, swap_in[s], lives[s])
       /\ allocated' = [allocated EXCEPT ![s] = TRUE]
  /\ UNCHANGED <<redisVars, processVars, swap_in, allocations, http,
                 poolVars, queueVars, fromProc, envVars, lives, lost>>

(* process_process, last part: unlock and poll the connection from now on. *)
AddEpoll(w) ==
  LET p == worker[w].task.pid IN
  /\ worker[w].pc = "send"
  /\ \A i \in DOMAIN sessions[p] : allocated[sessions[p][i]]
  /\ epoll' = epoll \cup {p}
  /\ mutex' = None
  /\ worker' = [worker EXCEPT ![w] = IdleWorker]
  /\ UNCHANGED <<redisVars, processVars, sessionVars, http, tasks, backlog,
                 wireVars, envVars, historyVars>>

(* A session calls back: write every queued invocation (or the empty one)  *)
(* to it and close the connection, all under the mutex.  Whatever the      *)
(* writes return, and be it the connection of a life that has ended, the   *)
(* queue is empty afterwards.                                              *)
process_session(w) ==
  LET s == worker[w].task.sid IN
  /\ Runs(w, "run", "session")
  /\ mutex = None
  /\ allocations' = [allocations EXCEPT ![s] = <<>>]
  /\ worker' = [worker EXCEPT ![w] = IdleWorker]
  /\ UNCHANGED <<redisVars, processVars, allocated, swap_in, http, mutex,
                 queueVars, wireVars, envVars, historyVars>>

(* handle_session_closure, the critical section: remove_session does       *)
(* nothing when the session is not in the process's vector; otherwise its  *)
(* allocated_sessions-- is a load ...                                      *)
remove_session(w) ==
  LET p == worker[w].task.pid
      s == worker[w].task.sid IN
  /\ Runs(w, "run", "close")
  /\ mutex = None
  /\ IF Contains(sessions[p], s)
       THEN /\ mutex' = w
            /\ worker' = [worker EXCEPT ![w].pc = "erase",
                                        ![w].reg = allocated_sessions[p]]
       ELSE /\ worker' = [worker EXCEPT ![w].pc = "swap"]
            /\ UNCHANGED mutex
  /\ UNCHANGED <<redisVars, processVars, sessionVars, http, queueVars,
                 wireVars, envVars, historyVars>>

(* The counter after remove_session, and with the slot kept.               *)
Decremented_not(n) == n
Decremented(n) == n - 1

(* ... and a store, before the session is erased from the vector.          *)
EraseSession(w) ==
  LET p == worker[w].task.pid IN
  /\ worker[w].pc = "erase"
  /\ allocated_sessions' =
       [allocated_sessions EXCEPT ![p] = Decremented(worker[w].reg)]
  /\ NoteLost(p, worker[w].reg)
  /\ sessions' = [sessions EXCEPT ![p] =
                    RemoveFirst(@, worker[w].task.sid)]
  /\ mutex' = None
  /\ worker' = [worker EXCEPT ![w].pc = "swap"]
  /\ UNCHANGED <<redisVars, processes, global_process_id, connection,
                 sessionVars, http, queueVars, wireVars, envVars, lives,
                 sent>>

(* What is stored for a swapped session, and what the comment in the code  *)
(* says is stored: the id with the size of the memory.                     *)
SwappedEntry_sized(s) == <<s, 0>>
SwappedEntry(s) == s

(* sadd SESSIONS_SWAPPED_ under the process's own global id.  (The srem    *)
(* before it names SESSIONS_ALIVE_<subprocess>, a key that never exists.)  *)
AddSwapped(w) ==
  LET p == worker[w].task.pid
      g == global_process_id[p] IN
  /\ worker[w].pc = "swap"
  /\ swapped' = [swapped EXCEPT ![g] =
                   @ \cup {SwappedEntry(worker[w].task.sid)}]
  /\ worker' = [worker EXCEPT ![w].pc = "unalive"]
  /\ UNCHANGED <<registered, known, alive, processVars, sessionVars, http,
                 mutex, queueVars, wireVars, envVars, historyVars>>

(* mod_epoll on the descriptor of the process, and forgotten.              *)
Rearm_forgotten(p) == epoll' = epoll
Rearm(p) == epoll' = epoll \cup {p}

(* srem SESSIONS_ALIVE_, then re-arm the descriptor of the process.        *)
RemoveAlive(w) ==
  LET p == worker[w].task.pid
      g == global_process_id[p] IN
  /\ worker[w].pc = "unalive"
  /\ alive' = [alive EXCEPT ![g] = @ \ {worker[w].task.sid}]
  /\ Rearm(p)
  /\ worker' = [worker EXCEPT ![w] = IdleWorker]
  /\ UNCHANGED <<registered, known, swapped, processVars, sessionVars, http,
                 mutex, tasks, backlog, wireVars, envVars, historyVars>>

(* An allocation status, success or failure, is only logged.               *)
LogStatus(w) ==
  /\ Runs(w, "run", "status")
  /\ Rearm(worker[w].task.pid)
  /\ worker' = [worker EXCEPT ![w] = IdleWorker]
  /\ UNCHANGED <<redisVars, processVars, sessionVars, http, mutex, tasks,
                 backlog, wireVars, envVars, historyVars>>

(* End of file on a process connection: the handler throws, the pool task  *)
(* does not catch, the control plane is terminated.                        *)
handle_process_closure(w) ==
  /\ Runs(w, "run", "eof")
  /\ up' = FALSE
  /\ UNCHANGED <<redisVars, processVars, sessionVars, http, poolVars,
                 queueVars, wireVars, envVars, historyVars>>

-----------------------------------------------------------------------------
(* The environment: the subprocesses, as the control plane sees them.      *)

(* A started subprocess connects and identifies itself.                    *)
ProcConnect(p) ==
  /\ stage[p] = "requested"
  /\ stage' = [stage EXCEPT ![p] = "connected"]
  /\ backlog' = Append(backlog, [kind |-> "process", pid |-> p, sid |-> None])
  /\ UNCHANGED <<redisVars, processVars, sessionVars, http, poolVars, tasks,
                 epoll, wireVars, running, identified, historyVars>>

Say(p, kind, s) ==
  fromProc' = [fromProc EXCEPT ![p] =
                 Append(@, [kind |-> kind, pid |-> p, sid |-> s])]

(* It has room for the session and does not run it yet.                    *)
CanStart(p, s) == s \notin running[p] /\ Cardinality(running[p]) < MaxSessions

(* It serves a session request with room for the session and reports it.   *)
ProcAllocate(p) ==
  /\ stage[p] = "connected"
  /\ toProc[p] # <<>>
  /\ LET s == Head(toProc[p]).sid IN
       /\ CanStart(p, s)
       /\ running' = [running EXCEPT ![p] = @ \cup {s}]
       /\ identified' = identified \ {s}
       /\ Say(p, "status", s)
  /\ toProc' = [toProc EXCEPT ![p] = Tail(@)]
  /\ UNCHANGED <<redisVars, processVars, sessionVars, http, poolVars,
                 queueVars, stage, historyVars>>

(* It reports that it could not start the session: no room, a session of   *)
(* that name, or a failure of its own.                                     *)
ProcRefuse(p) ==
  /\ stage[p] = "connected"
  /\ toProc[p] # <<>>
  /\ Say(p, "status", Head(toProc[p]).sid)
  /\ toProc' = [toProc EXCEPT ![p] = Tail(@)]
  /\ UNCHANGED <<redisVars, processVars, sessionVars, http, poolVars,
                 queueVars, envVars, historyVars>>

(* A started session calls back to the control plane.                      *)
SessionConnect(p, s) ==
  /\ s \in running[p] \ identified
  /\ identified' = identified \cup {s}
  /\ backlog' = Append(backlog, [kind |-> "session", pid |-> None, sid |-> s])
  /\ UNCHANGED <<redisVars, processVars, sessionVars, http, poolVars, tasks,
                 epoll, wireVars, stage, running, historyVars>>

(* A session ends, having called back or not; its process swaps it out and *)
(* reports the closure.                                                    *)
SessionEnd(p, s) ==
  /\ s \in running[p]
  /\ running' = [running EXCEPT ![p] = @ \ {s}]
  /\ Say(p, "close", s)
  /\ UNCHANGED <<redisVars, processVars, sessionVars, http, poolVars,
                 queueVars, toProc, stage, identified, historyVars>>

(* A subprocess without sessions ends and closes its connection.           *)
ProcessExit(p) ==
  /\ stage[p] = "connected"
  /\ running[p] = {}
  /\ stage' = [stage EXCEPT ![p] = "exited"]
  /\ Say(p, "eof", None)
  /\ UNCHANGED <<redisVars, processVars, sessionVars, http, poolVars,
                 queueVars, toProc, running, identified, historyVars>>

-----------------------------------------------------------------------------
Client ==
  \/ \E g \in Gid : process_allocation(g)
  \/ \E g \in Gid, s \in Sid, f \in Fid \cup {None} :
       NewSession(g, s, f) \/ CheckAlive(g, s, f)

HttpStep ==
  \/ TakeSwapped \/ UnknownSession
  \/ \E p \in Pid : GetFreeProcess(p) \/ AddToNew(p)
  \/ StoreCount \/ NoFreeProcess \/ AddToExisting \/ MarkAlive

MainStep == Accept \/ \E p \in Pid : Poll(p)

WorkerStep(w) ==
  \/ TakeTask(w) \/ StoreConnection(w) \/ LockSessions(w) \/ SendPending(w)
  \/ AddEpoll(w) \/ process_session(w) \/ remove_session(w)
  \/ EraseSession(w) \/ AddSwapped(w) \/ RemoveAlive(w) \/ LogStatus(w)

Subprocess(p) ==
  \/ ProcConnect(p) \/ ProcAllocate(p) \/ ProcRefuse(p) \/ ProcessExit(p)
  \/ \E s \in Sid : SessionConnect(p, s) \/ SessionEnd(p, s)

Serve == Client \/ HttpStep \/ MainStep \/ (\E w \in Worker : WorkerStep(w))
         \/ \E p \in Pid : Subprocess(p)

Next == /\ up
        /\ \/ Serve /\ UNCHANGED up
           \/ \E w \in Worker : handle_process_closure(w)

Spec == Init /\ [][Next]_vars

(* The operating system runs every thread of the control plane; nothing    *)
(* makes a client, a subprocess or a session act.                          *)
Fairness ==
  /\ WF_vars(up /\ HttpStep /\ UNCHANGED up)
  /\ WF_vars(up /\ Accept /\ UNCHANGED up)
  /\ \A p \in Pid : WF_vars(up /\ Poll(p) /\ UNCHANGED up)
  /\ \A w \in Worker :
       WF_vars(/\ up
               /\ \/ WorkerStep(w) /\ UNCHANGED up
                  \/ handle_process_closure(w))

FairSpec == Spec /\ Fairness
-----------------------------------------------------------------------------
(* Properties.                                                             *)

(* Every variable has its type.  In particular the sets in Redis hold bare *)
(* session ids, as process_client looks them up (worker.cpp:76-78); the    *)
(* comment above the sadd (worker.cpp:325) says <session-id>;<size>, an    *)
(* entry that no srem would ever find.                                     *)
TypeOK ==
  /\ registered \subseteq Gid
  /\ known \subseteq Sid
  /\ alive \in [Gid -> SUBSET Sid]
  /\ swapped \in [Gid -> SUBSET Sid]
  /\ processes \subseteq Pid
  /\ global_process_id \in [Pid -> Gid \cup {None}]
  /\ allocated_sessions \in [Pid -> Int]
  /\ connection \in [Pid -> BOOLEAN]
  /\ sessions \in [Pid -> Seq(Sid)]
  /\ allocated \in [Sid -> BOOLEAN]
  /\ swap_in \in [Sid -> BOOLEAN]
  /\ allocations \in [Sid -> Seq(Fid)]
  /\ mutex \in Worker \cup {None}
  /\ http \in HttpState
  /\ worker \in [Worker -> WorkerState]
  /\ tasks \in Seq(Task)
  /\ backlog \in Seq(Task)
  /\ epoll \subseteq Pid
  /\ toProc \in [Pid -> Seq(Request)]
  /\ fromProc \in [Pid -> Seq(Task)]
  /\ up \in BOOLEAN
  /\ stage \in [Pid -> Stage]
  /\ running \in [Pid -> SUBSET Sid]
  /\ identified \subseteq Sid
  /\ lives \in [Sid -> Nat]
  /\ sent \in [Sid -> Nat]
  /\ lost \subseteq Pid

(* Session s runs in p (i = 0), or the i-th request on its way to p asks   *)
(* for it.                                                                 *)
Active(s, p, i) == \/ i = 0 /\ s \in running[p]
                   \/ i \in DOMAIN toProc[p] /\ toProc[p][i].sid = s

(* A session exists once: its id never runs in, or is on its way to, two   *)
(* places, although placement (process_client) and closure                 *)
(* (handle_session_closure) run on different threads and hand the session  *)
(* over through Redis and not under one lock.                              *)
SingleInstance ==
  \A s \in Sid : \A p, q \in Pid :
    \A i \in 0 .. Len(toProc[p]), j \in 0 .. Len(toProc[q]) :
      Active(s, p, i) /\ Active(s, q, j) => p = q /\ i = j

(* The slot the HTTP thread has taken in p and not yet filled.             *)
Held(p) == IF http.pc = "add" /\ http.proc = p THEN 1 ELSE 0

(* allocated_sessions, incremented outside the mutex by get_free_process   *)
(* and decremented inside it by remove_session, counts the sessions of the *)
(* process's vector and the slot being filled, and is at most the maximum, *)
(* until the two lose an update to each other: nothing but that race ever  *)
(* makes it wrong.                                                         *)
SlotsExact ==
  \A p \in Pid \ lost :
    /\ allocated_sessions[p] = Len(sessions[p]) + Held(p)
    /\ allocated_sessions[p] <= MaxSessions

(* A process is never asked for more sessions than it was created for      *)
(* ("Check if we have free processes", worker.cpp:112), so that it never   *)
(* has to refuse one for lack of room (process.cpp:149).                   *)
WithinRoom(p) == Cardinality(running[p]) + Len(toProc[p]) <= MaxSessions
CapacityRespected == \A p \in Pid : WithinRoom(p)

(* A request asks for a swap-in exactly when the session has lived before: *)
(* a fresh session never resumes, and a resumed one never starts empty.    *)
SwapFlagTruthful ==
  \A p \in Pid : \A i \in DOMAIN toProc[p] :
    toProc[p][i].swap <=> lives[toProc[p][i].sid] > 1

(* A session that runs is on record as alive, or its placement is about to *)
(* record it: otherwise process_client would let a client swap it in a     *)
(* second time.                                                            *)
RunningListedAlive ==
  \A p \in Pid : \A s \in running[p] :
    \/ \E g \in Gid : s \in alive[g]
    \/ http.pc = "alive" /\ http.sid = s

(* A closure that a process reports reaches Redis: the session becomes     *)
(* available for swapping in, unless the control plane was terminated.     *)
ClosureRecorded ==
  \A p \in Pid, s \in Sid :
    (\E i \in DOMAIN fromProc[p] :
        fromProc[p][i].kind = "close" /\ fromProc[p][i].sid = s)
      ~> (~up \/ \E g \in Gid : s \in swapped[g])

(* A session of a process that is marked allocated was requested from it:  *)
(* process_process looks for the sessions that still have to be requested  *)
(* by that mark (worker.cpp:206-212).                                      *)
AllocatedMeansRequested ==
  \A p \in Pid : \A i \in DOMAIN sessions[p] :
    LET s == sessions[p][i] IN allocated[s] => sent[s] = lives[s]

-----------------------------------------------------------------------------
(* The control plane with its subprocesses implements SessionPlacement: a  *)
(* session is where it runs and where a request that was written to a      *)
(* process asks for it.                                                    *)

Asked(s, p, swap) == \E i \in DOMAIN toProc[p] :
                       toProc[p][i] = [sid |-> s, swap |-> swap]

PlacesOf(s) ==
  {x \in [proc : Pid, as : {"new", "resumed", "running"}] :
     CASE x.as = "running" -> s \in running[x.proc]
       [] x.as = "resumed" -> Asked(s, x.proc, TRUE)
       [] x.as = "new"     -> Asked(s, x.proc, FALSE)}

Placement == INSTANCE SessionPlacement WITH
  places <- [s \in Sid |-> PlacesOf(s)],
  begun <- {s \in Sid : sent[s] > 0}

(* Threads, tables, Redis sets and late closures are invisible: seen from  *)
(* the sessions, every step of the control plane is a step of              *)
(* SessionPlacement or changes nothing there.                              *)
ImplementsPlacement == Placement!Spec
=============================================================================
