---------------------------- MODULE LocalMemory ----------------------------
(***************************************************************************)
(* The local memory controller: a main thread that accepts sessions, polls *)
(* their connections and reads request headers, a pool of threads that     *)
(* read the payloads, work on a table of objects and write the replies,    *)
(* and the client library of the functions, which waits for every reply.   *)
(*                                                                         *)
(*   src/runtime/local-memory/{server.cpp,*.hpp,cache.cpp} and             *)
(*   src/runtime/include/praas/global_memory.hpp                           *)
(*                                                                         *)
(* A step is one system call on a connection, one access to a flag `busy`, *)
(* one operation of the pool or one of the table.  A header and a payload  *)
(* are one unit of a stream each.  The kernel (TCP, signals), the pool and *)
(* the table's locks are the environment.                                  *)
(***************************************************************************)
EXTENDS Integers, Sequences, FiniteSets, SequencesExt

CONSTANTS
  Client,           \* sessions that use the controller
  Threads,          \* size of _pool
  MAX_CONNECTIONS,  \* connections there is a slot for
  Req,              \* requests the clients will make, in any order
  Type,             \* the type of each
  Key,              \* the object it names
  Payload,          \* the size of its payload
  ShortReads,       \* may a read return a part of a payload?
  MaxSilent,        \* bound: connections that stay open without requests
  None              \* no value

Types == {"CREATE", "GET", "PUT", "DELETE", "UNKNOWN"}

ASSUME ClientAssumption ==
  /\ Type \in [Req -> Types] /\ DOMAIN Key = Req
  /\ Payload \in [Req -> Nat]
  /\ None \notin Client \cup Req
ASSUME ServerAssumption ==
  /\ MAX_CONNECTIONS \in Nat \ {0} /\ Threads \in Nat \ {0}
  /\ MaxSilent \in 0..MAX_CONNECTIONS /\ ShortReads \in BOOLEAN

VARIABLES
  phase,    \* serving; returned from start; the process is gone
  main,     \* the slot whose flag start will set, or None
  active,   \* SessionConnections::active, by slot
  conn,     \* whose socket a slot holds, or None when it is closed
  busy,     \* Connection::busy, by slot
  tasks,    \* the queue of _pool
  handler,  \* a thread's handle_session_message, by request, or None
  cache,    \* _objects_cache: the request that stored an object, or None
  backlog,  \* connections the listening socket has not accepted
  stream,   \* what a client has sent and nobody has read
  inbox,    \* what was written to a client and it has not read
  client,   \* how far a client is, and its request
  unsent,   \* requests no client has made
  maker     \* who has made a request, or None

flagVars  == <<active, conn, busy>>
poolVars  == <<tasks, handler>>
wireVars  == <<backlog, stream, inbox>>
userVars  == <<client, unsent, maker>>
vars == <<phase, main, flagVars, poolVars, cache, wireVars, userVars>>

Slot == 0..(MAX_CONNECTIONS - 1)
Keys == {Key[r] : r \in Req}

Unit == {"head", "body"} \X Req \cup {<<"eof", None>>}
Task == [unit : Unit, pos : Slot]
Handler == [pos : Slot, ret : Int, acc : Req \cup {None},
            pc : {"read", "clear", "work", "reply", "data"}]
Item == [kind : {"reply"}, req : Req, size : Int, from : Req \cup {None}]
        \cup [kind : {"data"}, req : Req, size : {0}, from : Req \cup {None}]
Place == {"out", "idle", "payload", "reply", "data", "left"}

ASSUME NoneAssumption == None \notin Slot /\ None \notin Handler

(* The first slots may be taken by sessions that never make a request.     *)
Init ==
  /\ phase = "serving" /\ main = None
  /\ \E n \in 0..MaxSilent : active = [p \in Slot |-> p < n]
  /\ conn = [p \in Slot |-> None]
  /\ busy = [p \in Slot |-> FALSE]
  /\ tasks = <<>> /\ handler = [r \in Req |-> None]
  /\ cache = [k \in Keys |-> None]
  /\ backlog = <<>>
  /\ stream = [c \in Client |-> <<>>] /\ inbox = [c \in Client |-> <<>>]
  /\ client = [c \in Client |-> [at |-> "out", req |-> None]]
  /\ unsent = Req /\ maker = [r \in Req |-> None]

-----------------------------------------------------------------------------
(* The clients: praas::global::Memory, one request at a time.              *)

At(c, p) == client[c].at = p
Goto(c, p, r) == client' = [client EXCEPT ![c] = [at |-> p, req |-> r]]
Put(c, u) == stream' = [stream EXCEPT ![c] = Append(@, u)]

Connect(c) ==
  /\ At(c, "out") /\ phase = "serving"
  /\ backlog' = Append(backlog, c)
  /\ Goto(c, "idle", None)
  /\ UNCHANGED <<phase, main, flagVars, poolVars, cache, stream, inbox,
                 unsent, maker>>

(* The header is written, and then the payload if there is one.            *)
SendHeader(c, r) ==
  /\ At(c, "idle") /\ r \in unsent
  /\ Put(c, <<"head", r>>)
  /\ Goto(c, IF Payload[r] > 0 THEN "payload" ELSE "reply", r)
  /\ unsent' = unsent \ {r}
  /\ maker' = [maker EXCEPT ![r] = c]
  /\ UNCHANGED <<phase, main, flagVars, poolVars, cache, backlog, inbox>>

SendPayload(c) ==
  /\ At(c, "payload")
  /\ Put(c, <<"body", client[c].req>>)
  /\ Goto(c, "reply", client[c].req)
  /\ UNCHANGED <<phase, main, flagVars, poolVars, cache, backlog, inbox,
                 unsent, maker>>

(* The library looks at nothing but the size in the reply.                 *)
HasData(c, m) == /\ Type[client[c].req] = "GET"
                 /\ m.kind = "reply" /\ m.size > 0

ReadReply(c) ==
  /\ At(c, "reply") /\ inbox[c] # <<>>
  /\ inbox' = [inbox EXCEPT ![c] = Tail(@)]
  /\ IF HasData(c, Head(inbox[c])) THEN Goto(c, "data", client[c].req)
     ELSE Goto(c, "idle", None)
  /\ UNCHANGED <<phase, main, flagVars, poolVars, cache, backlog, stream,
                 unsent, maker>>

ReadData(c) ==
  /\ At(c, "data") /\ inbox[c] # <<>>
  /\ inbox' = [inbox EXCEPT ![c] = Tail(@)]
  /\ Goto(c, "idle", None)
  /\ UNCHANGED <<phase, main, flagVars, poolVars, cache, backlog, stream,
                 unsent, maker>>

(* The controller has closed the connection: read() returns 0, which the   *)
(* library ignores.                                                        *)
ReadEof(c) ==
  /\ phase # "serving"
  /\ client[c].at \in {"reply", "data"} /\ inbox[c] = <<>>
  /\ Goto(c, "idle", None)
  /\ UNCHANGED <<phase, main, flagVars, poolVars, cache, wireVars, unsent,
                 maker>>

(* A client closes its connection or dies, within a request too.           *)
ClientLeaves(c) ==
  /\ client[c].at \notin {"out", "left"}
  /\ Put(c, <<"eof", None>>)
  /\ Goto(c, "left", client[c].req)
  /\ inbox' = [inbox EXCEPT ![c] = <<>>]
  /\ UNCHANGED <<phase, main, flagVars, poolVars, cache, backlog, unsent,
                 maker>>

-----------------------------------------------------------------------------
(* The main thread: Server::start.                                         *)

Polling == phase = "serving" /\ main = None

(* std::find: the first slot that is not active.  And: any slot.           *)
FirstFree_any(p) == p \in Slot
FirstFree(p) == ~active[p] /\ \A q \in Slot : q < p => active[q]

(* The connection gets a slot, which forgets what it held before.          *)
Accept(p) ==
  /\ Polling /\ backlog # <<>>
  /\ FirstFree(p)
  /\ active' = [active EXCEPT ![p] = TRUE]
  /\ conn' = [conn EXCEPT ![p] = Head(backlog)]
  /\ busy' = [busy EXCEPT ![p] = FALSE]
  /\ backlog' = Tail(backlog)
  /\ UNCHANGED <<phase, main, poolVars, cache, stream, inbox, userVars>>

(* The process is gone with its threads and its connections.               *)
Gone ==
  /\ phase' = "gone" /\ main' = None
  /\ tasks' = <<>> /\ handler' = [r \in Req |-> None]
  /\ conn' = [p \in Slot |-> None]
  /\ UNCHANGED <<active, busy, cache, wireVars, userVars>>

(* No slot is free: insert returns a null pointer, which is dereferenced.  *)
AcceptFull ==
  /\ Polling /\ backlog # <<>>
  /\ \A p \in Slot : active[p]
  /\ Gone

(* Something can be read from a connection that is not busy.               *)
Readable(p) == /\ Polling /\ conn[p] # None /\ ~busy[p]
               /\ stream[conn[p]] # <<>>

Consume(c) == stream' = [stream EXCEPT ![c] = Tail(@)]

(* A header is read and handed to the pool ...                             *)
Poll(p) ==
  /\ Readable(p)
  /\ Head(stream[conn[p]])[1] # "eof"
  /\ tasks' = Append(tasks, [unit |-> Head(stream[conn[p]]), pos |-> p])
  /\ Consume(conn[p])
  /\ main' = p
  /\ UNCHANGED <<phase, flagVars, handler, cache, backlog, inbox, userVars>>

(* ... and then the connection is marked busy; or not at all.              *)
Marked_not == busy
Marked == [busy EXCEPT ![main] = TRUE]

StoreBusy ==
  /\ main # None
  /\ busy' = Marked
  /\ main' = None
  /\ UNCHANGED <<phase, active, conn, poolVars, cache, wireVars, userVars>>

(* End of file or an error: SessionConnections::release.                   *)
release(p) ==
  /\ Readable(p)
  /\ Head(stream[conn[p]])[1] = "eof"
  /\ active' = [active EXCEPT ![p] = FALSE]
  /\ conn' = [conn EXCEPT ![p] = None]
  /\ Consume(conn[p])
  /\ UNCHANGED <<phase, main, busy, poolVars, cache, backlog, inbox, userVars>>

(* SIGINT: the loop ends, start returns, and ~Server closes the            *)
(* connections before it waits for the pool.                               *)
shutdown ==
  /\ Polling
  /\ phase' = "closing"
  /\ conn' = [p \in Slot |-> None]
  /\ UNCHANGED <<main, active, busy, poolVars, cache, wireVars, userVars>>

Leave ==
  /\ phase = "closing"
  /\ tasks = <<>> /\ \A r \in Req : handler[r] = None
  /\ Gone

-----------------------------------------------------------------------------
(* A thread of the pool: Worker::handle_session_message.                   *)

In(r, l) == handler[r] # None /\ handler[r].pc = l
Step(r, l) == handler' = [handler EXCEPT ![r].pc = l]
Return(r) == handler' = [handler EXCEPT ![r] = None]

(* A thread is free for the request at the head of the queue.              *)
Take(r) ==
  /\ Cardinality({q \in Req : handler[q] # None}) < Threads
  /\ tasks # <<>> /\ Head(tasks).unit[2] = r
  /\ handler' = [handler EXCEPT ![r] =
                   [pos |-> Head(tasks).pos, ret |-> 0, acc |-> None,
                    pc |-> IF Payload[r] > 0 THEN "read" ELSE "clear"]]
  /\ tasks' = Tail(tasks)
  /\ UNCHANGED <<phase, main, flagVars, cache, wireVars, userVars>>

(* One read for the whole payload.                                         *)
ReadPayload(r) ==
  /\ In(r, "read")
  /\ LET c == conn[handler[r].pos] IN
       /\ c # None
       /\ stream[c] # <<>>
       /\ Head(stream[c])[1] # "eof"
       /\ Consume(c)
  /\ Step(r, "clear")
  /\ UNCHANGED <<phase, main, flagVars, tasks, cache, backlog, inbox,
                 userVars>>

(* read() has less to return than was asked for.  And: an end of file is   *)
(* not noticed.                                                            *)
CutShort_eof(c) == /\ stream[c] # <<>>
                   /\ ShortReads /\ Head(stream[c])[1] # "eof"
CutShort(c) == /\ stream[c] # <<>>
               /\ ShortReads \/ Head(stream[c])[1] = "eof"

(* It got less, or nothing: no reply, and the connection stays busy.       *)
ReadShort(r) ==
  /\ In(r, "read")
  /\ LET c == conn[handler[r].pos] IN IF c = None THEN TRUE ELSE CutShort(c)
  /\ Return(r)
  /\ UNCHANGED <<phase, main, flagVars, tasks, cache, wireVars, userVars>>

(* The connection may be polled again.                                     *)
ClearBusy(r) ==
  /\ In(r, "clear")
  /\ busy' = [busy EXCEPT ![handler[r].pos] = FALSE]
  /\ Step(r, "work")
  /\ UNCHANGED <<phase, main, active, conn, tasks, cache, wireVars, userVars>>

(* The object a handler has found: its const_accessor keeps writers away   *)
(* until the handler is done.  And: they are let in before.                *)
Accessor(r) == IF handler[r] = None THEN None ELSE handler[r].acc
Held_not(k) == FALSE
Held(k) == \E r \in Req : Key[r] = k /\ Accessor(r) # None

(* Cache::create, put, get and erase: what the table holds afterwards and  *)
(* what they return.  create replaces an object that exists, and fails.    *)
Stored(r) == CASE Type[r] = "CREATE" -> r
               [] Type[r] = "PUT" /\ cache[Key[r]] # None -> r
               [] Type[r] = "DELETE" -> None
               [] OTHER -> cache[Key[r]]

Result(r) == CASE Type[r] = "CREATE" -> cache[Key[r]] = None
               [] Type[r] = "UNKNOWN" -> FALSE
               [] OTHER -> cache[Key[r]] # None

(* What the accessor refers to after get.  And: the key, not the object.   *)
Found_key(r) == IF Type[r] = "GET" THEN Key[r] ELSE None
Found(r) == IF Type[r] = "GET" THEN cache[Key[r]] ELSE None

(* The size in the reply.                                                  *)
Announced(r) == IF ~Result(r) THEN -1
                ELSE IF Type[r] = "GET" THEN Payload[cache[Key[r]]] ELSE 0

Work(r) ==
  /\ In(r, "work")
  /\ Type[r] \in {"CREATE", "PUT", "DELETE"} => ~Held(Key[r])
  /\ cache' = [cache EXCEPT ![Key[r]] = Stored(r)]
  /\ handler' = [handler EXCEPT ![r].pc = "reply", ![r].ret = Announced(r),
                               ![r].acc = Found(r)]
  /\ UNCHANGED <<phase, main, flagVars, tasks, wireVars, userVars>>

(* A write on the connection of slot p reaches whoever has it now.         *)
Write(p, m) ==
  LET c == conn[p] IN
  inbox' = IF c # None /\ client[c].at # "left"
             THEN [inbox EXCEPT ![c] = Append(@, m)] ELSE inbox

WriteReply(r) ==
  LET h == handler[r] IN
  /\ In(r, "reply")
  /\ Write(h.pos, [kind |-> "reply", req |-> r, size |-> h.ret,
                   from |-> h.acc])
  /\ IF h.ret > 0 THEN Step(r, "data") ELSE Return(r)
  /\ UNCHANGED <<phase, main, flagVars, tasks, cache, backlog, stream,
                 userVars>>

(* The table keeps a pointer to the buffer of the handler that stored the  *)
(* object, which deletes it on its return.  From then on the bytes there   *)
(* are any: what they were, nobody's, or the payload of a request whose    *)
(* buffer has got the place.                                               *)
Contents(o) ==
  IF o # None /\ handler[o] # None THEN {o}
  ELSE {o, None} \cup {q \in Req \ unsent : Payload[q] > 0}

(* The data of the object; `from` says whose payload it is.                *)
WriteData(r) ==
  LET h == handler[r] IN
  /\ In(r, "data")
  /\ \E x \in Contents(cache[Key[r]]) :
       Write(h.pos, [kind |-> "data", req |-> r, size |-> 0, from |-> x])
  /\ Return(r)
  /\ UNCHANGED <<phase, main, flagVars, tasks, cache, backlog, stream,
                 userVars>>

(* A write to a client that has left may raise SIGPIPE, whose handler      *)
(* exits.                                                                  *)
SigPipe(r) ==
  /\ In(r, "reply") \/ In(r, "data")
  /\ LET c == conn[handler[r].pos] IN c # None /\ client[c].at = "left"
  /\ Gone

-----------------------------------------------------------------------------
User(c) ==
  \/ SendPayload(c) \/ ReadReply(c) \/ ReadData(c) \/ ReadEof(c)

Main == \/ \E p \in Slot : Accept(p) \/ Poll(p) \/ release(p)
        \/ AcceptFull \/ StoreBusy \/ Leave

Worker(r) ==
  \/ Take(r) \/ ReadPayload(r) \/ ReadShort(r) \/ ClearBusy(r) \/ Work(r)
  \/ WriteReply(r) \/ WriteData(r)

Next ==
  \/ \E c \in Client :
       \/ User(c) \/ Connect(c) \/ ClientLeaves(c)
       \/ \E r \in Req : SendHeader(c, r)
  \/ Main \/ shutdown
  \/ \E r \in Req : Worker(r) \/ SigPipe(r)

Spec == Init /\ [][Next]_vars

(* The operating system runs every thread, and a client that has started a *)
(* request goes on with it; nothing makes it start one or leave.           *)
Fairness ==
  /\ WF_vars(Main)
  /\ \A r \in Req : WF_vars(Worker(r))
  /\ \A c \in Client : WF_vars(User(c))

FairSpec == Spec /\ Fairness

-----------------------------------------------------------------------------
(* Properties.                                                             *)

(* Every variable has its type.                                            *)
TypeOK ==
  /\ phase \in {"serving", "closing", "gone"}
  /\ main \in Slot \cup {None}
  /\ active \in [Slot -> BOOLEAN] /\ busy \in [Slot -> BOOLEAN]
  /\ conn \in [Slot -> Client \cup {None}]
  /\ tasks \in Seq(Task) /\ handler \in [Req -> Handler \cup {None}]
  /\ cache \in [Keys -> Req \cup {None}]
  /\ backlog \in Seq(Client)
  /\ stream \in [Client -> Seq(Unit)] /\ inbox \in [Client -> Seq(Item)]
  /\ client \in [Client -> [at : Place, req : Req \cup {None}]]
  /\ unsent \subseteq Req /\ maker \in [Req -> Client \cup {None}]

(* The main thread never takes a payload for a request, although it shares *)
(* the connection with the threads of the pool and marks it busy only      *)
(* after they may have started on the request.                             *)
RequestsFramed == \A i \in DOMAIN tasks : tasks[i].unit[1] = "head"

(* A message reaches the client that has made the request, although slots  *)
(* are used again while handlers still hold their number (worker.hpp:70):  *)
(* only the answer to a client that has left may go to someone else.       *)
RepliesRouted ==
  \A c \in Client : \A i \in DOMAIN inbox[c] :
    LET m == maker[inbox[c][i].req] IN m # c => At(m, "left")

(* The length passed to write is that of the object the pointer belongs    *)
(* to, and the object is still in the table (worker.hpp:69-75), although   *)
(* others replace and delete objects at the same time.                     *)
SizeMatchesData ==
  \A r \in Req : In(r, "data") =>
    /\ cache[Key[r]] # None
    /\ handler[r].ret = Payload[cache[Key[r]]]

(* What get returns is what put stored: the data behind a reply are those  *)
(* of the object the reply is about (examples/memory.cpp:12-18).           *)
GetReturnsStored ==
  \A c \in Client : \A i, j \in DOMAIN inbox[c] :
    /\ inbox[c][i].kind = "reply" /\ inbox[c][j].kind = "data"
    /\ inbox[c][i].req = inbox[c][j].req
    => inbox[c][i].from = inbox[c][j].from

(* A request that was read is worked off, whatever its client does and     *)
(* whoever holds the object.                                               *)
TaskEnds ==
  \A r \in Req :
    (\E i \in DOMAIN tasks : tasks[i].unit[2] = r)
      ~> /\ \A i \in DOMAIN tasks : tasks[i].unit[2] # r
         /\ handler[r] = None

(* A connection becomes available for polling again when its request has   *)
(* been read (worker.hpp:38): a client that makes a request is answered,   *)
(* or leaves, unless the controller ends.                                  *)
Served ==
  \A c \in Client :
    client[c].at \in {"reply", "data"}
      ~> (client[c].at \in {"idle", "left"} \/ phase # "serving")
=============================================================================
