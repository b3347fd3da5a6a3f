------------------------- MODULE LocalMemoryProofs -------------------------
(***************************************************************************)
(* What LocalMemory guarantees for every number of clients, threads, slots *)
(* and requests.                                                           *)
(***************************************************************************)
EXTENDS LocalMemory, SequenceTheorems, TLAPS

(* A header that is followed by a payload.                                 *)
Owes(u) == u[1] = "head" /\ Payload[u[2]] > 0

(* What a client may write next, and what it has written last.             *)
Follows(u, v) == /\ u[1] # "eof"
                 /\ v[1] = "body" => Owes(u)
                 /\ v[1] = "head" => ~Owes(u)

LastSent(c, u) == /\ Owes(u) <=> At(c, "payload")
                  /\ u[1] = "eof" <=> At(c, "left")

Written ==
  \A c \in Client :
    /\ \A i, j \in 1..Len(stream[c]) :
         j = i + 1 => Follows(stream[c][i], stream[c][j])
    /\ \A i \in 1..Len(stream[c]) :
         i = Len(stream[c]) => LastSent(c, stream[c][i])

(* Whether the client has a request under way, and which.                  *)
Requesting ==
  \A c \in Client :
    /\ client[c].at \in {"payload", "reply", "data"} => client[c].req \in Req
    /\ client[c].at \in {"out", "idle"} => client[c].req = None

(* The next thing on a connection is a payload, or will be; or the client  *)
(* has left instead.                                                       *)
Expects(c) == IF stream[c] = <<>> THEN At(c, "payload")
              ELSE stream[c][1][1] = "body"
Ended(c) == stream[c] # <<>> /\ stream[c][1][1] = "eof"

(* A connection is accepted once and has one slot at a time.               *)
Connections ==
  /\ \A p, q \in Slot : conn[p] # None /\ conn[p] = conn[q] => p = q
  /\ \A p \in Slot : conn[p] # None => active[p]
  /\ \A i, j \in 1..Len(backlog) : backlog[i] = backlog[j] => i = j
  /\ \A i \in 1..Len(backlog), p \in Slot : conn[p] # backlog[i]
  /\ \A i \in 1..Len(backlog) :
       ~At(backlog[i], "out") /\ ~Expects(backlog[i])
  /\ \A c \in Client : At(c, "out") =>
       ~Expects(c) /\ \A p \in Slot : conn[p] # c

(* The threads of the pool that have still to clear the flag of a slot.    *)
Reads(r, p) == /\ handler[r] # None
               /\ handler[r].pos = p /\ handler[r].pc \in {"read", "clear"}

(* The flag of a slot belongs to one request at a time.                    *)
Marks ==
  /\ \A i \in 1..Len(tasks), p \in Slot : tasks[i].pos = p =>
       (busy[p] \/ main = p) /\ active[p]
  /\ \A r \in Req, p \in Slot : Reads(r, p) =>
       (busy[p] \/ main = p) /\ active[p]
  /\ \A i, j \in 1..Len(tasks) : tasks[i].pos = tasks[j].pos => i = j
  /\ \A i \in 1..Len(tasks), r \in Req : ~Reads(r, tasks[i].pos)
  /\ \A r, q \in Req, p \in Slot : Reads(r, p) /\ Reads(q, p) => r = q

(* While a payload is due, its connection is not polled; and the flag is   *)
(* cleared only when it no longer is.                                      *)
Bodies ==
  /\ \A p \in Slot : conn[p] # None /\ Expects(conn[p]) =>
       busy[p] \/ main = p
  /\ \A i \in 1..Len(tasks), c \in Client : conn[tasks[i].pos] = c =>
       IF Payload[tasks[i].unit[2]] > 0 THEN Expects(c) \/ Ended(c)
       ELSE ~Expects(c)
  /\ \A r \in Req, c \in Client :
       handler[r] # None /\ conn[handler[r].pos] = c =>
         /\ handler[r].pc = "read" => Expects(c) \/ Ended(c)
         /\ handler[r].pc = "clear" => ~Expects(c)

Framing == /\ Written /\ Requesting /\ Connections /\ Marks /\ Bodies
           /\ RequestsFramed

(* Where traces of a request are: one header, one task, one handler, and   *)
(* only then replies.                                                      *)
InStream(r) == \E c \in Client : \E i \in 1..Len(stream[c]) :
                 stream[c][i] = <<"head", r>>
Queued(r) == \E i \in 1..Len(tasks) : tasks[i].unit[2] = r
Answered(r) == \E c \in Client : \E i \in 1..Len(inbox[c]) :
                 inbox[c][i].req = r

Once ==
  /\ \A r \in unsent : ~InStream(r)
  /\ \A r \in Req : InStream(r) \/ r \in unsent => ~Queued(r)
  /\ \A r \in Req : InStream(r) \/ r \in unsent \/ Queued(r) =>
       handler[r] = None /\ ~Answered(r)
  /\ \A r \in Req : handler[r] # None /\ handler[r].pc # "data" => ~Answered(r)
  /\ \A c, d \in Client :
       \A i \in 1..Len(stream[c]), j \in 1..Len(stream[d]) :
         stream[c][i] = stream[d][j] /\ stream[c][i][1] = "head" =>
           c = d /\ i = j
  /\ \A i, j \in 1..Len(tasks) : tasks[i].unit[2] = tasks[j].unit[2] => i = j

(* What a handler has found stays in the table while it holds it.          *)
Accessors ==
  \A r \in Req : handler[r] # None =>
    /\ handler[r].acc # None => handler[r].acc = cache[Key[r]]
    /\ handler[r].pc \in {"read", "clear", "work"} => handler[r].acc = None
    /\ handler[r].pc = "reply" /\ handler[r].ret > 0 =>
         handler[r].acc # None /\ Type[r] = "GET"
    /\ handler[r].pc = "data" => handler[r].acc # None /\ Type[r] = "GET"
    /\ handler[r].acc # None => handler[r].ret = Payload[handler[r].acc]

(* A request belongs to the client behind the slot its task or handler     *)
(* holds, unless that client has left or the controller ends.              *)
Belongs(r, p) ==
  /\ maker[r] \in Client
  /\ \/ conn[p] = maker[r]
     \/ At(maker[r], "left")
     \/ phase # "serving"

Routed ==
  /\ \A c \in Client : \A i \in 1..Len(stream[c]) :
       stream[c][i][1] = "head" => maker[stream[c][i][2]] = c
  /\ \A i \in 1..Len(tasks) : Belongs(tasks[i].unit[2], tasks[i].pos)
  /\ \A r \in Req : handler[r] # None => Belongs(r, handler[r].pos)
  /\ \A c \in Client : \A i \in 1..Len(inbox[c]) :
       LET m == maker[inbox[c][i].req] IN
       m \in Client /\ (m = c \/ At(m, "left"))

-----------------------------------------------------------------------------
(* Sequences.                                                              *)

(* The first unit of a stream and what is left without it.                 *)
LEMMA HeadTail ==
  ASSUME NEW S, NEW q \in Seq(S), q # <<>>
  PROVE  /\ Head(q) \in S /\ Head(q) = q[1] /\ Tail(q) \in Seq(S)
         /\ Len(q) \in Nat \ {0} /\ Len(Tail(q)) = Len(q) - 1
         /\ \A k \in 1..Len(Tail(q)) : k + 1 \in 1..Len(q)
                                       /\ Tail(q)[k] = q[k + 1]
         /\ 1 \in 1..Len(q)
PROOF
<1>1. /\ Head(q) \in S /\ Head(q) = q[1] /\ Tail(q) \in Seq(S)
      /\ Len(q) \in Nat \ {0} /\ Len(Tail(q)) = Len(q) - 1
  OBVIOUS
<1>2. \A k \in 1..Len(Tail(q)) : Tail(q)[k] = q[k + 1]
  OBVIOUS
<1>3. \A k \in 1..Len(Tail(q)) : k + 1 \in 1..Len(q)
  BY <1>1
<1>4. 1 \in 1..Len(q)
  BY <1>1
<1> QED
  BY <1>1, <1>2, <1>3, <1>4

(* A sequence with one more unit at its end.                               *)
LEMMA AppendElement ==
  ASSUME NEW S, NEW q \in Seq(S), NEW e \in S, NEW r, r = Append(q, e)
  PROVE  /\ r \in Seq(S) /\ Len(q) \in Nat /\ Len(r) = Len(q) + 1
         /\ r[Len(q) + 1] = e /\ \A k \in 1..Len(q) : r[k] = q[k]
         /\ \A k \in 1..Len(r) : k \in 1..Len(q) \/ k = Len(q) + 1
PROOF
<1>1. r \in Seq(S) /\ Len(q) \in Nat /\ Len(r) = Len(q) + 1
  OBVIOUS
<1>2. r[Len(q) + 1] = e /\ \A k \in 1..Len(q) : r[k] = q[k]
  OBVIOUS
<1>3. \A k \in 1..Len(r) : k \in 1..Len(q) \/ k = Len(q) + 1
  BY <1>1
<1> QED
  BY <1>1, <1>2, <1>3

-----------------------------------------------------------------------------
(* TypeOK.                                                                 *)

(* The controller starts with empty tables, queues and connections.        *)
LEMMA TypeInit == Init => TypeOK
PROOF
<1> SUFFICES ASSUME Init PROVE TypeOK
  OBVIOUS
<1>1. PICK n \in 0..MaxSilent : active = [p \in Slot |-> p < n]
  BY DEF Init
<1>2. active \in [Slot -> BOOLEAN]
  BY <1>1
<1>3. client \in [Client -> [at : Place, req : Req \cup {None}]]
  BY DEF Init, Place
<1>4. /\ tasks \in Seq(Task) /\ backlog \in Seq(Client)
      /\ stream \in [Client -> Seq(Unit)] /\ inbox \in [Client -> Seq(Item)]
  BY DEF Init
<1> QED
  BY <1>2, <1>3, <1>4 DEF Init, TypeOK

(* The fields of the state of a client, of a task and of a handler.        *)
LEMMA Fields ==
  ASSUME TypeOK
  PROVE  /\ \A c \in Client : /\ client[c].at \in Place
                              /\ client[c].req \in Req \cup {None}
         /\ \A i \in 1..Len(tasks) : /\ tasks[i].pos \in Slot
                                     /\ tasks[i].unit \in Unit
         /\ \A r \in Req : handler[r] # None =>
              /\ handler[r] \in Handler
              /\ handler[r].pos \in Slot /\ handler[r].ret \in Int
              /\ handler[r].acc \in Req \cup {None}
              /\ handler[r].pc \in {"read", "clear", "work", "reply", "data"}
PROOF
<1>1. \A c \in Client : /\ client[c].at \in Place
                        /\ client[c].req \in Req \cup {None}
  BY DEF TypeOK
<1>2. \A i \in 1..Len(tasks) : /\ tasks[i].pos \in Slot
                               /\ tasks[i].unit \in Unit
  <2>1. \A t \in Task : t.pos \in Slot /\ t.unit \in Unit
    BY DEF Task
  <2>2. \A i \in 1..Len(tasks) : tasks[i] \in Task
    BY DEF TypeOK
  <2> QED
    BY <2>1, <2>2
<1>3. \A r \in Req : handler[r] # None => handler[r] \in Handler
  BY DEF TypeOK
<1>4. \A h \in Handler :
        /\ h.pos \in Slot /\ h.ret \in Int /\ h.acc \in Req \cup {None}
        /\ h.pc \in {"read", "clear", "work", "reply", "data"}
  BY DEF Handler
<1> QED
  BY <1>1, <1>2, <1>3, <1>4

(* What a step of the pool makes of a handler, field by field.             *)
LEMMA HandlerMoves ==
  ASSUME TypeOK, NEW r \in Req, handler[r] # None
  PROVE  /\ \A l \in {"read", "clear", "work", "reply", "data"} : Step(r, l) =>
              /\ handler' \in [Req -> Handler \cup {None}]
              /\ handler'[r] \in Handler /\ handler'[r] # None
              /\ handler'[r].pc = l
              /\ handler'[r].pos = handler[r].pos
              /\ handler'[r].ret = handler[r].ret
              /\ handler'[r].acc = handler[r].acc
              /\ \A q \in Req : q # r => handler'[q] = handler[q]
         /\ Return(r) =>
              /\ handler' \in [Req -> Handler \cup {None}]
              /\ handler'[r] = None
              /\ \A q \in Req : q # r => handler'[q] = handler[q]
PROOF
<1>1. PICK h \in Handler : h = handler[r]
  BY Fields
<1>2. ASSUME NEW l \in {"read", "clear", "work", "reply", "data"}, Step(r, l)
      PROVE  /\ handler' \in [Req -> Handler \cup {None}]
             /\ handler'[r] \in Handler /\ handler'[r] # None
             /\ handler'[r].pc = l
             /\ handler'[r].pos = handler[r].pos
             /\ handler'[r].ret = handler[r].ret
             /\ handler'[r].acc = handler[r].acc
             /\ \A q \in Req : q # r => handler'[q] = handler[q]
  <2> DEFINE g == [h EXCEPT !.pc = l]
  <2>1. /\ g \in Handler /\ g.pc = l /\ g.pos = h.pos /\ g.ret = h.ret
        /\ g.acc = h.acc
    BY DEF Handler
  <2>2. handler' = [handler EXCEPT ![r] = g]
    BY <1>1, <1>2 DEF Step
  <2> HIDE DEF g
  <2>3. handler'[r] = g /\ \A q \in Req : q # r => handler'[q] = handler[q]
    BY <2>2 DEF TypeOK
  <2>4. handler' \in [Req -> Handler \cup {None}]
    BY <2>1, <2>2 DEF TypeOK
  <2> QED
    BY <1>1, <2>1, <2>3, <2>4, NoneAssumption
<1>3. Return(r) => /\ handler' \in [Req -> Handler \cup {None}]
                   /\ handler'[r] = None
                   /\ \A q \in Req : q # r => handler'[q] = handler[q]
  BY DEF Return, TypeOK
<1> QED
  BY <1>2, <1>3

(* A thread takes the task at the head of the queue.                       *)
LEMMA TakeFacts ==
  ASSUME TypeOK, NEW r \in Req, Take(r)
  PROVE  /\ tasks # <<>> /\ 1 \in 1..Len(tasks)
         /\ Head(tasks) = tasks[1] /\ tasks[1].unit[2] = r
         /\ tasks' = Tail(tasks) /\ tasks' \in Seq(Task)
         /\ handler' \in [Req -> Handler \cup {None}]
         /\ handler'[r] \in Handler /\ handler'[r] # None
         /\ handler'[r].pos = tasks[1].pos /\ handler'[r].pos \in Slot
         /\ handler'[r].ret = 0 /\ handler'[r].acc = None
         /\ handler'[r].pc = IF Payload[r] > 0 THEN "read" ELSE "clear"
         /\ \A q \in Req : q # r => handler'[q] = handler[q]
         /\ UNCHANGED <<phase, main, flagVars, cache, wireVars, userVars>>
PROOF
<1>1. tasks # <<>> /\ tasks' = Tail(tasks)
  BY DEF Take
<1>2. /\ Head(tasks) = tasks[1] /\ 1 \in 1..Len(tasks)
      /\ Tail(tasks) \in Seq(Task)
  BY <1>1, HeadTail DEF TypeOK
<1>3. tasks[1].pos \in Slot
  BY <1>2, Fields
<1>4. tasks[1].unit[2] = r
  BY <1>2 DEF Take
<1> DEFINE h == [pos |-> tasks[1].pos, ret |-> 0, acc |-> None,
                 pc |-> IF Payload[r] > 0 THEN "read" ELSE "clear"]
<1>5. /\ h \in Handler /\ h.pos = tasks[1].pos /\ h.ret = 0 /\ h.acc = None
      /\ h.pc = IF Payload[r] > 0 THEN "read" ELSE "clear"
  BY <1>3 DEF Handler
<1>6. handler' = [handler EXCEPT ![r] = h]
  BY <1>2 DEF Take
<1> HIDE DEF h
<1>7. handler'[r] = h /\ \A q \in Req : q # r => handler'[q] = handler[q]
  BY <1>6 DEF TypeOK
<1>8. handler' \in [Req -> Handler \cup {None}]
  BY <1>5, <1>6 DEF TypeOK
<1>9. UNCHANGED <<phase, main, flagVars, cache, wireVars, userVars>>
  BY DEF Take
<1> QED
  BY <1>1, <1>2, <1>3, <1>4, <1>5, <1>7, <1>8, <1>9, NoneAssumption

(* Cache::create, put, get and erase: the result and the table.            *)
LEMMA WorkFacts ==
  ASSUME TypeOK, NEW r \in Req, Work(r)
  PROVE  /\ In(r, "work")
         /\ handler' \in [Req -> Handler \cup {None}]
         /\ handler'[r] \in Handler /\ handler'[r] # None
         /\ handler'[r].pos = handler[r].pos /\ handler'[r].pc = "reply"
         /\ handler'[r].ret = Announced(r) /\ handler'[r].acc = Found(r)
         /\ \A q \in Req : q # r => handler'[q] = handler[q]
         /\ cache' = [cache EXCEPT ![Key[r]] = Stored(r)]
         /\ cache' \in [Keys -> Req \cup {None}]
         /\ Announced(r) > 0 => Type[r] = "GET" /\ Found(r) # None
         /\ UNCHANGED <<phase, main, flagVars, tasks, wireVars, userVars>>
PROOF
<1>1. /\ In(r, "work") /\ cache' = [cache EXCEPT ![Key[r]] = Stored(r)]
      /\ UNCHANGED <<phase, main, flagVars, tasks, wireVars, userVars>>
      /\ handler' = [handler EXCEPT ![r].pc = "reply",
                       ![r].ret = Announced(r), ![r].acc = Found(r)]
  BY DEF Work
<1>2. cache[Key[r]] \in Req \cup {None} /\ Type[r] \in Types
  BY ClientAssumption DEF TypeOK, Keys
<1>3. Stored(r) \in Req \cup {None}
  BY <1>2 DEF Stored
<1>4. Found(r) \in Req \cup {None}
  BY <1>2 DEF Found
<1>5. Type[r] = "GET" /\ Result(r) => cache[Key[r]] # None
  BY DEF Result
<1>6. Announced(r) \in Int
  BY <1>2, <1>5, ClientAssumption DEF Announced
<1>7. Announced(r) > 0 => Type[r] = "GET" /\ Found(r) # None
  BY <1>5 DEF Announced, Found
<1>8. PICK h \in Handler : h = handler[r]
  BY <1>1, Fields DEF In
<1> DEFINE g == [h EXCEPT !.pc = "reply", !.ret = Announced(r),
                          !.acc = Found(r)]
<1>9. /\ g \in Handler /\ g.pos = h.pos /\ g.pc = "reply"
      /\ g.ret = Announced(r) /\ g.acc = Found(r)
  BY <1>4, <1>6 DEF Handler
<1>10. handler' = [handler EXCEPT ![r] = g]
  BY <1>1, <1>8
<1> HIDE DEF g
<1>11. handler'[r] = g /\ \A q \in Req : q # r => handler'[q] = handler[q]
  BY <1>10 DEF TypeOK
<1>12. handler' \in [Req -> Handler \cup {None}]
  BY <1>9, <1>10 DEF TypeOK
<1>13. cache' \in [Keys -> Req \cup {None}]
  BY <1>1, <1>3 DEF TypeOK
<1> QED
  BY <1>1, <1>7, <1>8, <1>9, <1>11, <1>12, <1>13, NoneAssumption

(* A write reaches the client that has the slot, or nobody.                *)
LEMMA WriteFacts ==
  ASSUME TypeOK, NEW p \in Slot, NEW m \in Item, Write(p, m)
  PROVE  /\ inbox' \in [Client -> Seq(Item)]
         /\ \A c \in Client :
              \/ inbox'[c] = inbox[c]
              \/ /\ c = conn[p] /\ client[c].at # "left"
                 /\ inbox'[c] = Append(inbox[c], m)
                 /\ inbox'[c] \in Seq(Item)
                 /\ Len(inbox[c]) \in Nat /\ Len(inbox'[c]) = Len(inbox[c]) + 1
                 /\ inbox'[c][Len(inbox[c]) + 1] = m
                 /\ \A k \in 1..Len(inbox[c]) : inbox'[c][k] = inbox[c][k]
                 /\ \A k \in 1..Len(inbox'[c]) :
                      k \in 1..Len(inbox[c]) \/ k = Len(inbox[c]) + 1
PROOF
<1>1. CASE conn[p] # None /\ client[conn[p]].at # "left"
  <2>1. PICK d \in Client : d = conn[p]
    BY <1>1 DEF TypeOK
  <2>2. inbox' = [inbox EXCEPT ![d] = Append(@, m)]
    BY <1>1, <2>1 DEF Write
  <2>3. PICK q \in Seq(Item) : q = inbox[d]
    BY DEF TypeOK
  <2>4. inbox'[d] = Append(q, m)
        /\ \A c \in Client : c # d => inbox'[c] = inbox[c]
    BY <2>2, <2>3 DEF TypeOK
  <2> DEFINE r == inbox'[d]
  <2>5. r = Append(q, m)
    BY <2>4
  <2> HIDE DEF r
  <2>6. /\ r \in Seq(Item) /\ Len(q) \in Nat /\ Len(r) = Len(q) + 1
        /\ r[Len(q) + 1] = m /\ \A k \in 1..Len(q) : r[k] = q[k]
        /\ \A k \in 1..Len(r) : k \in 1..Len(q) \/ k = Len(q) + 1
    BY <2>5, AppendElement
  <2>7. inbox' \in [Client -> Seq(Item)]
    BY <2>2, <2>3, <2>5, <2>6 DEF TypeOK
  <2> QED
    BY <1>1, <2>1, <2>3, <2>4, <2>6, <2>7 DEF r
<1>2. CASE ~(conn[p] # None /\ client[conn[p]].at # "left")
  <2>1. inbox' = inbox
    BY <1>2 DEF Write
  <2> QED
    BY <2>1 DEF TypeOK
<1> QED
  BY <1>1, <1>2

(* Which steps change what: the table only Work, the flags only the main   *)
(* thread and ClearBusy, a stream its client and whoever reads it, and so  *)
(* on.                                                                     *)
LEMMA OnlyChanges ==
  ASSUME Next
  PROVE  /\ \/ phase' = phase
            \/ Gone
            \/ shutdown
         /\ \/ main' = main
            \/ Gone
            \/ StoreBusy
            \/ (\E p \in Slot : Poll(p))
         /\ \/ active' = active
            \/ (\E p \in Slot : Accept(p) \/ release(p))
         /\ \/ conn' = conn
            \/ (\E p \in Slot : Accept(p) \/ release(p))
            \/ Gone
            \/ shutdown
         /\ \/ busy' = busy
            \/ (\E p \in Slot : Accept(p))
            \/ StoreBusy
            \/ (\E r \in Req : ClearBusy(r))
         /\ \/ tasks' = tasks
            \/ Gone
            \/ (\E p \in Slot : Poll(p))
            \/ (\E r \in Req : Take(r))
         /\ \/ handler' = handler
            \/ Gone
            \/ (\E r \in Req : Take(r) \/ ReadPayload(r) \/ ReadShort(r)
                    \/ ClearBusy(r) \/ Work(r) \/ WriteReply(r)
                    \/ WriteData(r))
         /\ \/ cache' = cache
            \/ (\E r \in Req : Work(r))
         /\ \/ backlog' = backlog
            \/ (\E c \in Client : Connect(c))
            \/ (\E p \in Slot : Accept(p))
         /\ \/ stream' = stream
            \/ (\E c \in Client, r \in Req : SendHeader(c, r))
            \/ (\E c \in Client : SendPayload(c) \/ ClientLeaves(c))
            \/ (\E p \in Slot : Poll(p) \/ release(p))
            \/ (\E r \in Req : ReadPayload(r))
         /\ \/ inbox' = inbox
            \/ (\E c \in Client : ReadReply(c) \/ ReadData(c)
                    \/ ClientLeaves(c))
            \/ (\E r \in Req : WriteReply(r) \/ WriteData(r))
         /\ \/ client' = client
            \/ (\E c \in Client : Connect(c) \/ SendPayload(c)
                    \/ ReadReply(c) \/ ReadData(c) \/ ReadEof(c)
                    \/ ClientLeaves(c))
            \/ (\E c \in Client, r \in Req : SendHeader(c, r))
         /\ \/ unsent' = unsent
            \/ (\E c \in Client, r \in Req : SendHeader(c, r))
         /\ \/ maker' = maker
            \/ (\E c \in Client, r \in Req : SendHeader(c, r))
PROOF
<1>1. ASSUME NEW c \in Client, Connect(c)
      PROVE  UNCHANGED <<phase, main, active, conn, busy, tasks, handler,
                         cache, stream, inbox, unsent,
                         maker>>
  BY <1>1 DEF Connect, flagVars, poolVars, wireVars, userVars
<1>2. ASSUME NEW c \in Client, NEW r \in Req, SendHeader(c, r)
      PROVE  UNCHANGED <<phase, main, active, conn, busy, tasks, handler,
                         cache, backlog, inbox>>
  BY <1>2 DEF SendHeader, flagVars, poolVars, wireVars, userVars
<1>3. ASSUME NEW c \in Client, SendPayload(c)
      PROVE  UNCHANGED <<phase, main, active, conn, busy, tasks, handler,
                         cache, backlog, inbox, unsent,
                         maker>>
  BY <1>3 DEF SendPayload, flagVars, poolVars, wireVars, userVars
<1>4. ASSUME NEW c \in Client, ReadReply(c)
      PROVE  UNCHANGED <<phase, main, active, conn, busy, tasks, handler,
                         cache, backlog, stream, unsent,
                         maker>>
  BY <1>4 DEF ReadReply, flagVars, poolVars, wireVars, userVars
<1>5. ASSUME NEW c \in Client, ReadData(c)
      PROVE  UNCHANGED <<phase, main, active, conn, busy, tasks, handler,
                         cache, backlog, stream, unsent,
                         maker>>
  BY <1>5 DEF ReadData, flagVars, poolVars, wireVars, userVars
<1>6. ASSUME NEW c \in Client, ReadEof(c)
      PROVE  UNCHANGED <<phase, main, active, conn, busy, tasks, handler,
                         cache, backlog, stream, inbox, unsent,
                         maker>>
  BY <1>6 DEF ReadEof, flagVars, poolVars, wireVars, userVars
<1>7. ASSUME NEW c \in Client, ClientLeaves(c)
      PROVE  UNCHANGED <<phase, main, active, conn, busy, tasks, handler,
                         cache, backlog, unsent,
                         maker>>
  BY <1>7 DEF ClientLeaves, flagVars, poolVars, wireVars, userVars
<1>8. ASSUME NEW p \in Slot, Accept(p)
      PROVE  UNCHANGED <<phase, main, tasks, handler, cache, stream, inbox,
                         client, unsent,
                         maker>>
  BY <1>8 DEF Accept, flagVars, poolVars, wireVars, userVars
<1>9. ASSUME Gone
      PROVE  UNCHANGED <<active, busy, cache, backlog, stream, inbox, client,
                         unsent,
                         maker>>
  BY <1>9 DEF Gone, flagVars, poolVars, wireVars, userVars
<1>10. ASSUME NEW p \in Slot, Poll(p)
      PROVE  UNCHANGED <<phase, active, conn, busy, handler, cache, backlog,
                         inbox, client, unsent,
                         maker>>
  BY <1>10 DEF Poll, flagVars, poolVars, wireVars, userVars
<1>11. ASSUME StoreBusy
      PROVE  UNCHANGED <<phase, active, conn, tasks, handler, cache, backlog,
                         stream, inbox, client, unsent,
                         maker>>
  BY <1>11 DEF StoreBusy, flagVars, poolVars, wireVars, userVars
<1>12. ASSUME NEW p \in Slot, release(p)
      PROVE  UNCHANGED <<phase, main, busy, tasks, handler, cache, backlog,
                         inbox, client, unsent,
                         maker>>
  BY <1>12 DEF release, flagVars, poolVars, wireVars, userVars
<1>13. ASSUME shutdown
      PROVE  UNCHANGED <<main, active, busy, tasks, handler, cache, backlog,
                         stream, inbox, client, unsent,
                         maker>>
  BY <1>13 DEF shutdown, flagVars, poolVars, wireVars, userVars
<1>14. ASSUME NEW r \in Req, Take(r)
      PROVE  UNCHANGED <<phase, main, active, conn, busy, cache, backlog,
                         stream, inbox, client, unsent,
                         maker>>
  BY <1>14 DEF Take, flagVars, poolVars, wireVars, userVars
<1>15. ASSUME NEW r \in Req, ReadPayload(r)
      PROVE  UNCHANGED <<phase, main, active, conn, busy, tasks, cache,
                         backlog, inbox, client, unsent,
                         maker>>
  BY <1>15 DEF ReadPayload, flagVars, poolVars, wireVars, userVars
<1>16. ASSUME NEW r \in Req, ReadShort(r)
      PROVE  UNCHANGED <<phase, main, active, conn, busy, tasks, cache,
                         backlog, stream, inbox, client, unsent,
                         maker>>
  BY <1>16 DEF ReadShort, flagVars, poolVars, wireVars, userVars
<1>17. ASSUME NEW r \in Req, ClearBusy(r)
      PROVE  UNCHANGED <<phase, main, active, conn, tasks, cache, backlog,
                         stream, inbox, client, unsent,
                         maker>>
  BY <1>17 DEF ClearBusy, flagVars, poolVars, wireVars, userVars
<1>18. ASSUME NEW r \in Req, Work(r)
      PROVE  UNCHANGED <<phase, main, active, conn, busy, tasks, backlog,
                         stream, inbox, client, unsent,
                         maker>>
  BY <1>18 DEF Work, flagVars, poolVars, wireVars, userVars
<1>19. ASSUME NEW r \in Req, WriteReply(r)
      PROVE  UNCHANGED <<phase, main, active, conn, busy, tasks, cache,
                         backlog, stream, client, unsent,
                         maker>>
  BY <1>19 DEF WriteReply, flagVars, poolVars, wireVars, userVars
<1>20. ASSUME NEW r \in Req, WriteData(r)
      PROVE  UNCHANGED <<phase, main, active, conn, busy, tasks, cache,
                         backlog, stream, client, unsent,
                         maker>>
  BY <1>20 DEF WriteData, flagVars, poolVars, wireVars, userVars
<1>21. AcceptFull => Gone
  BY DEF AcceptFull
<1>22. Leave => Gone
  BY DEF Leave
<1>23. ASSUME NEW r \in Req, SigPipe(r) PROVE Gone
  BY <1>23 DEF SigPipe
<1> QED
  BY <1>1, <1>2, <1>3, <1>4, <1>5, <1>6, <1>7, <1>8, <1>9, <1>10, <1>11, <1>12,
     <1>13, <1>14, <1>15, <1>16, <1>17, <1>18, <1>19, <1>20, <1>21, <1>22,
     <1>23
  DEF Next, User, Main, Worker

(* Who writes what to a stream, and who reads it.                          *)
Sends(c, u) ==
  /\ u \in Unit /\ Put(c, u)
  /\ \/ \E r \in Req : SendHeader(c, r) /\ u = <<"head", r>>
     \/ SendPayload(c) /\ u = <<"body", client[c].req>>
        /\ client[c].req \in Req
     \/ ClientLeaves(c) /\ u = <<"eof", None>>

Takes(c) ==
  /\ stream[c] # <<>> /\ Consume(c)
  /\ \/ \E p \in Slot : (Poll(p) \/ release(p)) /\ conn[p] = c
     \/ \E r \in Req : ReadPayload(r) /\ conn[handler[r].pos] = c

(* Every step leaves the streams alone, adds a unit at the end of one or   *)
(* takes the first unit of one.                                            *)
LEMMA StreamSteps ==
  ASSUME TypeOK, Requesting, Next
  PROVE  \/ stream' = stream
         \/ \E c \in Client, u \in Unit : Sends(c, u)
         \/ \E c \in Client : Takes(c)
PROOF
<1>1. ASSUME NEW c \in Client, NEW r \in Req, SendHeader(c, r)
      PROVE  Sends(c, <<"head", r>>) /\ <<"head", r>> \in Unit
  BY <1>1 DEF SendHeader, Sends, Unit
<1>2. ASSUME NEW c \in Client, SendPayload(c)
      PROVE  \E u \in Unit : Sends(c, u)
  <2>1. client[c].req \in Req
    BY <1>2 DEF SendPayload, Requesting, At
  <2>2. <<"body", client[c].req>> \in Unit
    BY <2>1 DEF Unit
  <2>3. Put(c, <<"body", client[c].req>>)
    BY <1>2 DEF SendPayload
  <2>4. Sends(c, <<"body", client[c].req>>)
    BY <1>2, <2>1, <2>2, <2>3 DEF Sends
  <2> QED
    BY <2>2, <2>4
<1>3. ASSUME NEW c \in Client, ClientLeaves(c)
      PROVE  \E u \in Unit : Sends(c, u)
  <2>1. <<"eof", None>> \in Unit
    BY DEF Unit
  <2>2. Sends(c, <<"eof", None>>)
    BY <1>3, <2>1 DEF ClientLeaves, Sends
  <2> QED
    BY <2>1, <2>2
<1>4. ASSUME NEW p \in Slot, Poll(p) \/ release(p)
      PROVE  \E c \in Client : Takes(c)
  <2>1. PICK c \in Client : c = conn[p]
    BY <1>4 DEF Poll, release, Readable, TypeOK
  <2>2. Takes(c)
    BY <1>4, <2>1 DEF Poll, release, Readable, Takes
  <2> QED
    BY <2>2
<1>5. ASSUME NEW r \in Req, ReadPayload(r)
      PROVE  \E c \in Client : Takes(c)
  <2>1. handler[r].pos \in Slot
    BY <1>5, Fields DEF ReadPayload, In
  <2>2. PICK c \in Client : c = conn[handler[r].pos]
    BY <1>5, <2>1 DEF ReadPayload, TypeOK
  <2>3. Takes(c)
    BY <1>5, <2>2 DEF ReadPayload, Takes
  <2> QED
    BY <2>3
<1> QED
  BY <1>1, <1>2, <1>3, <1>4, <1>5, OnlyChanges

(* A stream with one more unit.                                            *)
LEMMA SendFacts ==
  ASSUME TypeOK, NEW c \in Client, NEW u \in Unit, Put(c, u)
  PROVE  /\ stream' \in [Client -> Seq(Unit)]
         /\ \A d \in Client : d # c => stream'[d] = stream[d]
         /\ Len(stream[c]) \in Nat /\ Len(stream'[c]) = Len(stream[c]) + 1
         /\ stream'[c][Len(stream[c]) + 1] = u
         /\ \A k \in 1..Len(stream[c]) : stream'[c][k] = stream[c][k]
         /\ \A k \in 1..Len(stream'[c]) :
              k \in 1..Len(stream[c]) \/ k = Len(stream[c]) + 1
PROOF
<1>1. PICK q \in Seq(Unit) : q = stream[c]
  BY DEF TypeOK
<1>2. stream' = [stream EXCEPT ![c] = Append(@, u)]
  BY DEF Put
<1>3. stream'[c] = Append(q, u)
      /\ \A d \in Client : d # c => stream'[d] = stream[d]
  BY <1>1, <1>2 DEF TypeOK
<1> DEFINE r == stream'[c]
<1>4. r = Append(q, u)
  BY <1>3
<1> HIDE DEF r
<1>5. /\ r \in Seq(Unit) /\ Len(q) \in Nat /\ Len(r) = Len(q) + 1
      /\ r[Len(q) + 1] = u /\ \A k \in 1..Len(q) : r[k] = q[k]
      /\ \A k \in 1..Len(r) : k \in 1..Len(q) \/ k = Len(q) + 1
  BY <1>4, AppendElement
<1>6. stream' \in [Client -> Seq(Unit)]
  BY <1>1, <1>2, <1>4, <1>5 DEF TypeOK
<1> QED
  BY <1>1, <1>3, <1>5, <1>6 DEF r

(* A stream without its first unit.                                        *)
LEMMA ConsumeFacts ==
  ASSUME TypeOK, NEW c \in Client, stream[c] # <<>>, Consume(c)
  PROVE  /\ stream' \in [Client -> Seq(Unit)]
         /\ \A d \in Client : d # c => stream'[d] = stream[d]
         /\ Len(stream[c]) \in Nat /\ Len(stream'[c]) = Len(stream[c]) - 1
         /\ Head(stream[c]) = stream[c][1] /\ 1 \in 1..Len(stream[c])
         /\ stream[c][1] \in Unit
         /\ \A k \in 1..Len(stream'[c]) :
              k + 1 \in 1..Len(stream[c]) /\ stream'[c][k] = stream[c][k + 1]
PROOF
<1>1. PICK q \in Seq(Unit) : q = stream[c]
  BY DEF TypeOK
<1>2. stream' = [stream EXCEPT ![c] = Tail(@)]
  BY DEF Consume
<1>3. stream'[c] = Tail(q)
      /\ \A d \in Client : d # c => stream'[d] = stream[d]
  BY <1>1, <1>2 DEF TypeOK
<1>4. /\ Head(q) \in Unit /\ Head(q) = q[1] /\ Tail(q) \in Seq(Unit)
      /\ Len(q) \in Nat \ {0} /\ Len(Tail(q)) = Len(q) - 1
      /\ \A k \in 1..Len(Tail(q)) : k + 1 \in 1..Len(q)
                                    /\ Tail(q)[k] = q[k + 1]
      /\ 1 \in 1..Len(q)
  BY <1>1, HeadTail
<1>5. stream' \in [Client -> Seq(Unit)]
  BY <1>1, <1>2, <1>4 DEF TypeOK
<1> QED
  BY <1>1, <1>3, <1>4, <1>5

(* Whose payload the bytes of a stored object may be.                      *)
LEMMA ContentsType ==
  ASSUME TypeOK, NEW r \in Req
  PROVE  Contents(cache[Key[r]]) \subseteq Req \cup {None}
PROOF
<1>1. cache[Key[r]] \in Req \cup {None}
  BY DEF TypeOK, Keys
<1> QED
  BY <1>1 DEF Contents

(* Every step of the clients, the main thread and the pool keeps every     *)
(* variable in its type.                                                   *)
LEMMA TypeStep == TypeOK /\ Requesting /\ [Next]_vars => TypeOK'
PROOF
<1> SUFFICES ASSUME TypeOK, Requesting, Next PROVE TypeOK'
  <2>1. TypeOK /\ UNCHANGED vars => TypeOK'
    BY DEF vars, flagVars, poolVars, wireVars, userVars, TypeOK
  <2> QED
    BY <2>1
<1>1. phase' \in {"serving", "closing", "gone"}
  BY OnlyChanges DEF TypeOK, Gone, shutdown
<1>2. main' \in Slot \cup {None}
  BY OnlyChanges DEF TypeOK, Gone, StoreBusy, Poll
<1>3. active' \in [Slot -> BOOLEAN]
  BY OnlyChanges DEF TypeOK, Accept, release
<1>4. conn' \in [Slot -> Client \cup {None}]
  <2>1. ASSUME NEW p \in Slot, Accept(p)
        PROVE  conn' \in [Slot -> Client \cup {None}]
    <3>1. Head(backlog) \in Client
      BY <2>1, HeadTail DEF Accept, TypeOK
    <3> QED
      BY <2>1, <3>1 DEF Accept, TypeOK
  <2>2. ASSUME NEW p \in Slot, release(p)
        PROVE  conn' \in [Slot -> Client \cup {None}]
    BY <2>2 DEF release, TypeOK
  <2>3. Gone \/ shutdown => conn' \in [Slot -> Client \cup {None}]
    BY DEF Gone, shutdown
  <2> QED
    BY <2>1, <2>2, <2>3, OnlyChanges DEF TypeOK
<1>5. busy' \in [Slot -> BOOLEAN]
  BY OnlyChanges DEF TypeOK, Accept, StoreBusy, Marked, ClearBusy
<1>6. tasks' \in Seq(Task)
  <2>1. ASSUME NEW p \in Slot, Poll(p) PROVE tasks' \in Seq(Task)
    <3>1. PICK c \in Client : c = conn[p] /\ stream[c] # <<>>
      BY <2>1 DEF Poll, Readable, TypeOK
    <3>2. Head(stream[c]) \in Unit
      BY <3>1, HeadTail DEF TypeOK
    <3>3. [unit |-> Head(stream[c]), pos |-> p] \in Task
      BY <3>2 DEF Task
    <3> QED
      BY <2>1, <3>1, <3>3 DEF Poll, TypeOK
  <2>2. Gone => tasks' \in Seq(Task)
    BY DEF Gone
  <2> QED
    BY <2>1, <2>2, TakeFacts, OnlyChanges DEF TypeOK
<1>7. handler' \in [Req -> Handler \cup {None}]
  <2>1. ASSUME NEW r \in Req, ReadPayload(r) \/ ReadShort(r) \/ ClearBusy(r)
                              \/ WriteReply(r) \/ WriteData(r)
        PROVE  handler' \in [Req -> Handler \cup {None}]
    <3>1. /\ handler[r] # None
          /\ Step(r, "clear") \/ Step(r, "work") \/ Step(r, "data")
             \/ Return(r)
      BY <2>1
      DEF ReadPayload, ReadShort, ClearBusy, WriteReply, WriteData, In
    <3> QED
      BY <3>1, HandlerMoves
  <2>2. Gone => handler' \in [Req -> Handler \cup {None}]
    BY DEF Gone
  <2> QED
    BY <2>1, <2>2, TakeFacts, WorkFacts, OnlyChanges DEF TypeOK
<1>8. cache' \in [Keys -> Req \cup {None}]
  BY OnlyChanges, WorkFacts DEF TypeOK
<1>9. backlog' \in Seq(Client)
  <2>1. ASSUME NEW c \in Client, Connect(c) PROVE backlog' \in Seq(Client)
    BY <2>1 DEF Connect, TypeOK
  <2>2. ASSUME NEW p \in Slot, Accept(p) PROVE backlog' \in Seq(Client)
    BY <2>2, HeadTail DEF Accept, TypeOK
  <2> QED
    BY <2>1, <2>2, OnlyChanges DEF TypeOK
<1>10. stream' \in [Client -> Seq(Unit)]
  BY StreamSteps, SendFacts, ConsumeFacts DEF TypeOK, Sends, Takes
<1>11. inbox' \in [Client -> Seq(Item)]
  <2>1. ASSUME NEW c \in Client, ReadReply(c) \/ ReadData(c)
        PROVE  inbox' \in [Client -> Seq(Item)]
    <3>1. inbox[c] # <<>> /\ inbox' = [inbox EXCEPT ![c] = Tail(@)]
      BY <2>1 DEF ReadReply, ReadData
    <3>2. Tail(inbox[c]) \in Seq(Item)
      BY <3>1, HeadTail DEF TypeOK
    <3> QED
      BY <3>1, <3>2 DEF TypeOK
  <2>2. ASSUME NEW c \in Client, ClientLeaves(c)
        PROVE  inbox' \in [Client -> Seq(Item)]
    <3>1. <<>> \in Seq(Item)
      OBVIOUS
    <3> QED
      BY <2>2, <3>1 DEF ClientLeaves, TypeOK
  <2>3. ASSUME NEW r \in Req, WriteReply(r)
        PROVE  inbox' \in [Client -> Seq(Item)]
    <3>1. PICK m : /\ m = [kind |-> "reply", req |-> r,
                           size |-> handler[r].ret, from |-> handler[r].acc]
                   /\ Write(handler[r].pos, m) /\ handler[r] # None
      BY <2>3 DEF WriteReply, In
    <3>2. m \in Item /\ handler[r].pos \in Slot
      BY <3>1, Fields DEF Item
    <3> QED
      BY <3>1, <3>2, WriteFacts
  <2>4. ASSUME NEW r \in Req, WriteData(r)
        PROVE  inbox' \in [Client -> Seq(Item)]
    <3>0. PICK x \in Req \cup {None} :
            /\ Write(handler[r].pos, [kind |-> "data", req |-> r,
                                      size |-> 0, from |-> x])
            /\ handler[r] # None
      BY <2>4, ContentsType DEF WriteData, In
    <3>1. PICK m : /\ m = [kind |-> "data", req |-> r, size |-> 0,
                           from |-> x]
                   /\ Write(handler[r].pos, m)
      BY <3>0
    <3>2. m \in Item /\ handler[r].pos \in Slot
      BY <3>0, <3>1, Fields DEF Item
    <3> QED
      BY <3>1, <3>2, WriteFacts
  <2> QED
    BY <2>1, <2>2, <2>3, <2>4, OnlyChanges DEF TypeOK
<1>12. client' \in [Client -> [at : Place, req : Req \cup {None}]]
  <2>1. ASSUME NEW c \in Client, NEW l \in Place, NEW r \in Req \cup {None},
               Goto(c, l, r)
        PROVE  client' \in [Client -> [at : Place, req : Req \cup {None}]]
    BY <2>1 DEF Goto, TypeOK
  <2>2. ASSUME NEW c \in Client, NEW r \in Req, SendHeader(c, r)
        PROVE  Goto(c, "payload", r) \/ Goto(c, "reply", r)
    BY <2>2 DEF SendHeader
  <2>3. ASSUME NEW c \in Client,
               Connect(c) \/ SendPayload(c) \/ ReadReply(c) \/ ReadData(c)
               \/ ReadEof(c) \/ ClientLeaves(c)
        PROVE  \E l \in Place, r \in Req \cup {None} : Goto(c, l, r)
    <3>1. client[c].req \in Req \cup {None} /\ None \in Req \cup {None}
      BY Fields
    <3>2. \/ Goto(c, "idle", None) \/ Goto(c, "reply", client[c].req)
          \/ Goto(c, "data", client[c].req) \/ Goto(c, "left", client[c].req)
      BY <2>3 DEF Connect, SendPayload, ReadReply, ReadData, ReadEof,
                  ClientLeaves
    <3> QED
      BY <3>1, <3>2 DEF Place
  <2>4. ASSUME NEW c \in Client, NEW r \in Req, SendHeader(c, r)
        PROVE  client' \in [Client -> [at : Place, req : Req \cup {None}]]
    <3>1. "payload" \in Place /\ "reply" \in Place
      BY DEF Place
    <3> QED
      BY <2>1, <2>2, <2>4, <3>1
  <2>5. client' = client =>
          client' \in [Client -> [at : Place, req : Req \cup {None}]]
    BY DEF TypeOK
  <2> QED
    BY <2>1, <2>3, <2>4, <2>5, OnlyChanges
<1>13. unsent' \subseteq Req
  BY OnlyChanges DEF TypeOK, SendHeader
<1>14. maker' \in [Req -> Client \cup {None}]
  BY OnlyChanges DEF TypeOK, SendHeader
<1> QED
  BY <1>1, <1>2, <1>3, <1>4, <1>5, <1>6, <1>7, <1>8, <1>9, <1>10, <1>11,
     <1>12, <1>13, <1>14 DEF TypeOK

-----------------------------------------------------------------------------
(* Framing.                                                                *)

(* Nothing is connected, queued or due when the controller starts.         *)
LEMMA FramingInit == Init => Framing
PROOF
<1> SUFFICES ASSUME Init PROVE Framing
  OBVIOUS
<1>1. /\ Len(tasks) = 0 /\ Len(backlog) = 0
      /\ \A c \in Client : stream[c] = <<>> /\ Len(stream[c]) = 0
  BY DEF Init
<1>2. \A c \in Client : client[c].at = "out" /\ client[c].req = None
  BY DEF Init
<1>3. Written /\ Requesting
  BY <1>1, <1>2 DEF Written, Requesting
<1>4. \A c \in Client : ~Expects(c)
  BY <1>1, <1>2 DEF Expects, At
<1>5. \A p \in Slot : conn[p] = None
  BY DEF Init
<1>6. Connections
  BY <1>1, <1>4, <1>5, ClientAssumption DEF Connections
<1>7. \A r \in Req : handler[r] = None
  BY DEF Init
<1>8. Marks
  BY <1>1, <1>7 DEF Marks, Reads
<1>9. Bodies
  BY <1>1, <1>5, <1>7 DEF Bodies
<1>10. RequestsFramed
  BY <1>1 DEF RequestsFramed, Init
<1> QED
  BY <1>3, <1>6, <1>8, <1>9, <1>10 DEF Framing

(* A client goes on to its next place.                                     *)
LEMMA GotoFacts ==
  ASSUME TypeOK, NEW c \in Client, NEW l, NEW r, Goto(c, l, r)
  PROVE  /\ client'[c].at = l /\ client'[c].req = r
         /\ \A d \in Client : d # c => client'[d] = client[d]
PROOF
<1>1. client'[c] = [at |-> l, req |-> r]
      /\ \A d \in Client : d # c => client'[d] = client[d]
  BY DEF Goto, TypeOK
<1> QED
  BY <1>1

(* The places a client goes through, in the library's order.               *)
LEMMA ClientSteps ==
  ASSUME TypeOK, Next, NEW c \in Client
  PROVE  \/ client'[c] = client[c]
         \/ /\ Connect(c) /\ At(c, "out")
            /\ client'[c].at = "idle" /\ client'[c].req = None
         \/ \E r \in Req : /\ SendHeader(c, r) /\ At(c, "idle")
                           /\ client'[c].at = (IF Payload[r] > 0 THEN "payload"
                                               ELSE "reply")
                           /\ client'[c].req = r
         \/ /\ SendPayload(c) /\ At(c, "payload")
            /\ client'[c].at = "reply" /\ client'[c].req = client[c].req
         \/ /\ ReadReply(c) /\ At(c, "reply")
            /\ \/ client'[c].at = "data" /\ client'[c].req = client[c].req
               \/ client'[c].at = "idle" /\ client'[c].req = None
         \/ /\ ReadData(c) \/ ReadEof(c)
            /\ client[c].at \in {"reply", "data"}
            /\ client'[c].at = "idle" /\ client'[c].req = None
         \/ /\ ClientLeaves(c) /\ client[c].at \notin {"out", "left"}
            /\ client'[c].at = "left" /\ client'[c].req = client[c].req
PROOF
<1>1. CASE client' = client
  BY <1>1
<1>2. ASSUME NEW d \in Client, d # c, client'[c] # client[c]
      PROVE  /\ ~Connect(d) /\ ~SendPayload(d) /\ ~ReadReply(d)
             /\ ~ReadData(d) /\ ~ReadEof(d) /\ ~ClientLeaves(d)
             /\ \A r \in Req : ~SendHeader(d, r)
  BY <1>2, GotoFacts
  DEF Connect, SendHeader, SendPayload, ReadReply, ReadData, ReadEof,
      ClientLeaves
<1>3. ASSUME Connect(c)
      PROVE  At(c, "out") /\ client'[c].at = "idle" /\ client'[c].req = None
  BY <1>3, GotoFacts DEF Connect
<1>4. ASSUME NEW r \in Req, SendHeader(c, r)
      PROVE  /\ At(c, "idle") /\ client'[c].req = r
             /\ client'[c].at = IF Payload[r] > 0 THEN "payload" ELSE "reply"
  BY <1>4, GotoFacts DEF SendHeader
<1>5. ASSUME SendPayload(c)
      PROVE  /\ At(c, "payload") /\ client'[c].at = "reply"
             /\ client'[c].req = client[c].req
  BY <1>5, GotoFacts DEF SendPayload
<1>6. ASSUME ReadReply(c)
      PROVE  /\ At(c, "reply")
             /\ \/ client'[c].at = "data" /\ client'[c].req = client[c].req
                \/ client'[c].at = "idle" /\ client'[c].req = None
  BY <1>6, GotoFacts DEF ReadReply
<1>7. ASSUME ReadData(c) \/ ReadEof(c)
      PROVE  /\ client[c].at \in {"reply", "data"}
             /\ client'[c].at = "idle" /\ client'[c].req = None
  BY <1>7, GotoFacts DEF ReadData, ReadEof, At
<1>8. ASSUME ClientLeaves(c)
      PROVE  /\ client[c].at \notin {"out", "left"}
             /\ client'[c].at = "left" /\ client'[c].req = client[c].req
  BY <1>8, GotoFacts DEF ClientLeaves
<1> QED
  BY <1>1, <1>2, <1>3, <1>4, <1>5, <1>6, <1>7, <1>8, OnlyChanges

(* A client has a request exactly while it is in one.                      *)
LEMMA RequestingStep ==
  ASSUME TypeOK, Requesting, Next
  PROVE  Requesting'
PROOF
<1> SUFFICES ASSUME NEW c \in Client
             PROVE  /\ client'[c].at \in {"payload", "reply", "data"} =>
                         client'[c].req \in Req
                    /\ client'[c].at \in {"out", "idle"} =>
                         client'[c].req = None
  BY DEF Requesting
<1> QED
  BY ClientSteps DEF Requesting, At

(* What follows what on a stream, whoever reads it.                        *)
LEMMA WrittenStep ==
  ASSUME TypeOK, Requesting, Written, Next
  PROVE  Written'
PROOF
<1>1. ASSUME NEW c \in Client, NEW i \in 1..Len(stream'[c]),
             NEW j \in 1..Len(stream'[c]), j = i + 1
      PROVE  Follows(stream'[c][i], stream'[c][j])
  <2>1. i \in Int /\ j \in Int /\ Len(stream[c]) \in Nat
    BY <1>1 DEF TypeOK
  <2>2. CASE stream'[c] = stream[c]
    BY <1>1, <2>2 DEF Written
  <2>3. ASSUME NEW u \in Unit, Sends(c, u)
        PROVE  Follows(stream'[c][i], stream'[c][j])
    <3>1. i \in 1..Len(stream[c]) /\ stream'[c][i] = stream[c][i]
      <4>1. Put(c, u)
        BY <2>3 DEF Sends
      <4>2. i \in 1..Len(stream[c])
        BY <1>1, <2>1, <4>1, SendFacts
      <4> QED
        BY <4>1, <4>2, SendFacts
    <3>2. CASE j \in 1..Len(stream[c])
      BY <1>1, <2>3, <3>1, <3>2, SendFacts DEF Sends, Written
    <3>3. CASE j = Len(stream[c]) + 1
      <4>1. stream'[c][j] = u
        BY <2>3, <3>3, SendFacts DEF Sends
      <4>2. LastSent(c, stream[c][i])
        BY <1>1, <2>1, <3>1, <3>3 DEF Written
      <4>3. \/ u[1] = "head" /\ At(c, "idle")
            \/ u[1] = "body" /\ At(c, "payload")
            \/ u[1] = "eof" /\ ~At(c, "left")
        <5>1. ASSUME NEW r \in Req, SendHeader(c, r) PROVE At(c, "idle")
          BY <5>1 DEF SendHeader
        <5>2. SendPayload(c) => At(c, "payload")
          BY DEF SendPayload
        <5>3. ClientLeaves(c) => ~At(c, "left")
          BY DEF ClientLeaves, At
        <5> QED
          BY <2>3, <5>1, <5>2, <5>3 DEF Sends
      <4> QED
        BY <3>1, <4>1, <4>2, <4>3 DEF LastSent, Follows, At
    <3> QED
      BY <1>1, <2>3, <3>2, <3>3, SendFacts DEF Sends
  <2>4. CASE Takes(c)
    <3>1. stream[c] # <<>> /\ Consume(c)
      BY <2>4 DEF Takes
    <3>2. /\ i + 1 \in 1..Len(stream[c]) /\ stream'[c][i] = stream[c][i + 1]
          /\ j + 1 \in 1..Len(stream[c]) /\ stream'[c][j] = stream[c][j + 1]
      BY <3>1, ConsumeFacts
    <3>3. j + 1 = (i + 1) + 1
      BY <1>1, <2>1
    <3> QED
      BY <3>2, <3>3 DEF Written
  <2>5. ASSUME NEW d \in Client, NEW u \in Unit, Sends(d, u), d # c
        PROVE  stream'[c] = stream[c]
    BY <2>5, SendFacts DEF Sends
  <2>6. ASSUME NEW d \in Client, Takes(d), d # c
        PROVE  stream'[c] = stream[c]
    BY <2>6, ConsumeFacts DEF Takes
  <2> QED
    BY <2>2, <2>3, <2>4, <2>5, <2>6, StreamSteps
<1>2. ASSUME NEW c \in Client, NEW i \in 1..Len(stream'[c]),
             i = Len(stream'[c])
      PROVE  LastSent(c, stream[c][i])'
  <2>1. i \in Int /\ Len(stream[c]) \in Nat
    BY <1>2 DEF TypeOK
  <2>2. ASSUME NEW u \in Unit, Sends(c, u)
        PROVE  stream'[c][i] = u
               /\ (Owes(u) <=> client'[c].at = "payload")
               /\ (u[1] = "eof" <=> client'[c].at = "left")
    <3>1. stream'[c][i] = u
      BY <1>2, <2>2, SendFacts DEF Sends
    <3>2. ASSUME NEW r \in Req, SendHeader(c, r), u = <<"head", r>>
          PROVE  /\ Owes(u) <=> client'[c].at = "payload"
                 /\ u[1] = "eof" <=> client'[c].at = "left"
      BY <3>2, GotoFacts DEF SendHeader, Owes
    <3>3. ASSUME SendPayload(c), u[1] = "body"
          PROVE  /\ Owes(u) <=> client'[c].at = "payload"
                 /\ u[1] = "eof" <=> client'[c].at = "left"
      BY <3>3, GotoFacts DEF SendPayload, Owes
    <3>4. ASSUME ClientLeaves(c), u[1] = "eof"
          PROVE  /\ Owes(u) <=> client'[c].at = "payload"
                 /\ u[1] = "eof" <=> client'[c].at = "left"
      BY <3>4, GotoFacts DEF ClientLeaves, Owes
    <3> QED
      BY <2>2, <3>1, <3>2, <3>3, <3>4 DEF Sends
  <2>3. ASSUME \A u \in Unit : ~Sends(c, u)
        PROVE  /\ client'[c].at = "payload" <=> At(c, "payload")
               /\ client'[c].at = "left" <=> At(c, "left")
    <3>1. ASSUME NEW r \in Req PROVE ~SendHeader(c, r)
      <4>1. <<"head", r>> \in Unit
        BY DEF Unit
      <4> QED
        BY <2>3, <4>1 DEF Sends, SendHeader
    <3>2. ~SendPayload(c)
      <4> SUFFICES ASSUME SendPayload(c) PROVE FALSE
        OBVIOUS
      <4>1. client[c].req \in Req
        BY DEF SendPayload, Requesting, At
      <4>2. <<"body", client[c].req>> \in Unit
        BY <4>1 DEF Unit
      <4> QED
        BY <2>3, <4>1, <4>2 DEF Sends, SendPayload
    <3>3. ~ClientLeaves(c)
      <4>1. <<"eof", None>> \in Unit
        BY DEF Unit
      <4> QED
        BY <2>3, <4>1 DEF Sends, ClientLeaves
    <3> QED
      BY <3>1, <3>2, <3>3, ClientSteps DEF At
  <2>4. ASSUME NEW k \in 1..Len(stream[c]), k = Len(stream[c]),
               stream'[c][i] = stream[c][k], \A u \in Unit : ~Sends(c, u)
        PROVE  LastSent(c, stream[c][i])'
    <3>1. LastSent(c, stream[c][k])
      BY <2>4 DEF Written
    <3> QED
      BY <2>3, <2>4, <3>1 DEF LastSent, At, Owes
  <2>5. CASE Takes(c)
    <3>1. stream[c] # <<>> /\ Consume(c)
      BY <2>5 DEF Takes
    <3>2. /\ i + 1 \in 1..Len(stream[c]) /\ stream'[c][i] = stream[c][i + 1]
          /\ i + 1 = Len(stream[c])
      BY <1>2, <2>1, <3>1, ConsumeFacts
    <3>3. ASSUME NEW u \in Unit PROVE ~Sends(c, u)
      <4> SUFFICES ASSUME Sends(c, u) PROVE FALSE
        OBVIOUS
      <4>1. Len(stream'[c]) = Len(stream[c]) + 1
        BY SendFacts DEF Sends
      <4>2. Len(stream'[c]) = Len(stream[c]) - 1
        BY <3>1, ConsumeFacts
      <4> QED
        BY <2>1, <4>1, <4>2
    <3> QED
      BY <2>4, <3>2, <3>3
  <2>6. ASSUME stream'[c] = stream[c] PROVE LastSent(c, stream[c][i])'
    <3>1. ASSUME NEW u \in Unit PROVE ~Sends(c, u)
      <4> SUFFICES ASSUME Sends(c, u) PROVE FALSE
        OBVIOUS
      <4>1. Len(stream'[c]) = Len(stream[c]) + 1
        BY SendFacts DEF Sends
      <4> QED
        BY <2>1, <2>6, <4>1
    <3> QED
      BY <1>2, <2>4, <2>6, <3>1
  <2>7. ASSUME NEW d \in Client, NEW u \in Unit, Sends(d, u), d # c
        PROVE  stream'[c] = stream[c]
    BY <2>7, SendFacts DEF Sends
  <2>8. ASSUME NEW d \in Client, Takes(d), d # c
        PROVE  stream'[c] = stream[c]
    BY <2>8, ConsumeFacts DEF Takes
  <2>9. ASSUME NEW u \in Unit, Sends(c, u)
        PROVE  LastSent(c, stream[c][i])'
    BY <2>2, <2>9 DEF LastSent, At, Owes
  <2> QED
    BY <2>5, <2>6, <2>7, <2>8, <2>9, StreamSteps
<1> QED
  BY <1>1, <1>2 DEF Written, Follows, LastSent, At, Owes

(* Whoever leaves a stream alone or only adds to it makes no payload due,  *)
(* and a payload that was due still is, unless its client has left.        *)
LEMMA ExpectsKept ==
  ASSUME TypeOK, Requesting, Next, NEW c \in Client, ~Takes(c)
  PROVE  /\ Expects(c)' => Expects(c)
         /\ Expects(c) \/ Ended(c) => (Expects(c) \/ Ended(c))'
PROOF
<1>1. Len(stream[c]) \in Nat /\ stream[c] \in Seq(Unit)
  BY DEF TypeOK
<1>2. ASSUME NEW d \in Client, NEW u \in Unit, Sends(d, u), d # c
      PROVE  stream'[c] = stream[c] /\ client'[c] = client[c]
  <2>1. stream'[c] = stream[c]
    BY <1>2, SendFacts DEF Sends
  <2>2. client'[c] = client[c]
    BY <1>2, GotoFacts DEF Sends, SendHeader, SendPayload, ClientLeaves
  <2> QED
    BY <2>1, <2>2
<1>3. ASSUME NEW u \in Unit, Sends(c, u)
      PROVE  /\ Expects(c)' => Expects(c)
             /\ Expects(c) \/ Ended(c) => (Expects(c) \/ Ended(c))'
  <2>1. Put(c, u)
    BY <1>3 DEF Sends
  <2>2. stream'[c] # <<>>
    <3>1. Len(stream'[c]) = Len(stream[c]) + 1
      BY <2>1, SendFacts
    <3> QED
      BY <1>1, <3>1
  <2>3. CASE stream[c] # <<>>
    <3>1. 1 \in 1..Len(stream[c])
      BY <1>1, <2>3, HeadTail
    <3>2. stream'[c][1] = stream[c][1]
      BY <2>1, <3>1, SendFacts
    <3> QED
      BY <2>2, <2>3, <3>2 DEF Expects, Ended
  <2>4. CASE stream[c] = <<>>
    <3>1. stream'[c][1] = u
      <4>1. Len(stream[c]) = 0
        BY <2>4
      <4> QED
        BY <2>1, <4>1, SendFacts
    <3>2. ASSUME NEW r \in Req, SendHeader(c, r) PROVE At(c, "idle")
      BY <3>2 DEF SendHeader
    <3>3. SendPayload(c) => At(c, "payload")
      BY DEF SendPayload
    <3>4. \/ u[1] = "head" /\ At(c, "idle")
          \/ u[1] = "eof"
          \/ u[1] = "body" /\ At(c, "payload")
      BY <1>3, <3>2, <3>3 DEF Sends
    <3> QED
      BY <2>2, <2>4, <3>1, <3>4 DEF Expects, Ended, At
  <2> QED
    BY <2>3, <2>4
<1>4. ASSUME stream'[c] = stream[c], \A u \in Unit : ~Sends(c, u)
      PROVE  /\ Expects(c)' => Expects(c)
             /\ Expects(c) \/ Ended(c) => (Expects(c) \/ Ended(c))'
  <2>1. ASSUME NEW r \in Req PROVE ~SendHeader(c, r)
    <3>1. <<"head", r>> \in Unit
      BY DEF Unit
    <3> QED
      BY <1>4, <3>1 DEF Sends, SendHeader
  <2>2. ~SendPayload(c)
    <3> SUFFICES ASSUME SendPayload(c) PROVE FALSE
      OBVIOUS
    <3>1. client[c].req \in Req
      BY DEF SendPayload, Requesting, At
    <3>2. <<"body", client[c].req>> \in Unit
      BY <3>1 DEF Unit
    <3> QED
      BY <1>4, <3>1, <3>2 DEF Sends, SendPayload
  <2>3. ~ClientLeaves(c)
    <3>1. <<"eof", None>> \in Unit
      BY DEF Unit
    <3> QED
      BY <1>4, <3>1 DEF Sends, ClientLeaves
  <2>4. client'[c].at = "payload" <=> At(c, "payload")
    BY <2>1, <2>2, <2>3, ClientSteps DEF At
  <2> QED
    BY <1>4, <2>4 DEF Expects, Ended, At
<1>5. ASSUME NEW d \in Client, Takes(d), d # c
      PROVE  stream'[c] = stream[c]
  BY <1>5, ConsumeFacts DEF Takes
<1> QED
  BY <1>2, <1>3, <1>4, <1>5, StreamSteps

(* After a unit has been read a payload is due exactly if the unit was the *)
(* header of one, unless the client has left.                              *)
LEMMA ExpectsTaken ==
  ASSUME TypeOK, Written, Next, NEW c \in Client, Takes(c),
         NEW u \in Unit, u = stream[c][1]
  PROVE  /\ Expects(c)' => Owes(u)
         /\ Owes(u) => (Expects(c) \/ Ended(c))'
PROOF
<1>1. stream[c] # <<>> /\ Consume(c)
  BY DEF Takes
<1>2. /\ Len(stream[c]) \in Nat /\ Len(stream'[c]) = Len(stream[c]) - 1
      /\ 1 \in 1..Len(stream[c])
      /\ stream'[c] \in Seq(Unit)
      /\ \A k \in 1..Len(stream'[c]) :
           k + 1 \in 1..Len(stream[c]) /\ stream'[c][k] = stream[c][k + 1]
  BY <1>1, ConsumeFacts
<1>3. client' = client
  BY DEF Takes, Poll, release, ReadPayload, userVars
<1>4. CASE stream'[c] = <<>>
  <2>1. Len(stream'[c]) = 0
    BY <1>4
  <2>2. /\ Len(stream[c]) \in Nat /\ Len(stream'[c]) = Len(stream[c]) - 1
        /\ 1 \in 1..Len(stream[c])
    BY <1>2
  <2>3. 1 = Len(stream[c])
    <3>1. PICK n \in Nat : n = Len(stream[c])
      BY <2>2
    <3>2. 0 = n - 1
      BY <2>1, <2>2, <3>1
    <3> QED
      BY <3>1, <3>2
  <2>4. LastSent(c, u)
    BY <2>2, <2>3 DEF Written
  <2> QED
    BY <1>3, <1>4, <2>4 DEF LastSent, Expects, At
<1>5. CASE stream'[c] # <<>>
  <2>1. 1 \in 1..Len(stream'[c]) /\ stream'[c][1] \in Unit
    BY <1>2, <1>5, HeadTail
  <2>2. 2 \in 1..Len(stream[c]) /\ stream'[c][1] = stream[c][2]
    BY <1>2, <2>1
  <2>3. Follows(u, stream'[c][1])
    BY <1>2, <2>2 DEF Written
  <2>4. stream'[c][1][1] \in {"head", "body", "eof"}
    BY <2>1 DEF Unit
  <2> QED
    BY <1>5, <2>3, <2>4 DEF Follows, Expects, Ended
<1> QED
  BY <1>4, <1>5

(* Who takes from the stream of a client has its slot.                     *)
LEMMA TakenFrom ==
  ASSUME TypeOK, NEW c \in Client, Takes(c)
  PROVE  \E p \in Slot :
           /\ conn[p] = c
           /\ Poll(p) \/ release(p)
              \/ \E r \in Req : ReadPayload(r) /\ Reads(r, p)
                                /\ handler[r].pc = "read"
PROOF
<1>1. ASSUME NEW r \in Req, ReadPayload(r)
      PROVE  /\ handler[r].pos \in Slot /\ Reads(r, handler[r].pos)
             /\ handler[r].pc = "read"
  BY <1>1, Fields DEF ReadPayload, In, Reads
<1> QED
  BY <1>1 DEF Takes

(* A connection that can be polled is nobody's: no task and no thread will *)
(* clear its flag, and no payload is due on it.                            *)
LEMMA PolledFacts ==
  ASSUME TypeOK, Marks, Bodies, NEW p \in Slot, Readable(p)
  PROVE  /\ conn[p] \in Client /\ conn[p] # None /\ stream[conn[p]] # <<>>
         /\ ~busy[p] /\ main = None /\ main # p
         /\ \A i \in 1..Len(tasks) : tasks[i].pos # p
         /\ \A r \in Req : ~Reads(r, p)
         /\ ~Expects(conn[p])
PROOF
<1>1. /\ conn[p] # None /\ ~busy[p] /\ main = None
      /\ stream[conn[p]] # <<>>
  BY DEF Readable, Polling
<1>2. main # p
  BY <1>1, NoneAssumption
<1> QED
  BY <1>1, <1>2 DEF TypeOK, Marks, Bodies

(* A client connects once, waits in one place of the backlog, and gets one *)
(* slot.                                                                   *)
LEMMA ConnectionsStep ==
  ASSUME TypeOK, Requesting, Connections, Next
  PROVE  Connections'
PROOF
<1>1. ASSUME NEW c \in Client, Takes(c) PROVE \E p \in Slot : conn[p] = c
  BY <1>1, TakenFrom
<1>2. /\ \A i \in 1..Len(backlog) : backlog[i] \in Client /\ backlog[i] # None
      /\ backlog \in Seq(Client)
  BY ClientAssumption DEF TypeOK
<1>3. \A c \in Client : client'[c].at = "out" => At(c, "out")
  BY ClientSteps DEF At
<1>4. ASSUME NEW c \in Client, At(c, "out") PROVE ~Expects(c)'
  BY <1>1, <1>4, ExpectsKept DEF Connections
<1>5. ASSUME NEW i \in 1..Len(backlog), NEW c \in Client, c = backlog[i]
      PROVE  ~Expects(c)' /\ client'[c].at # "out" /\ ~Takes(c)
  <2>1. ~Takes(c) /\ ~Expects(c) /\ ~At(c, "out")
    BY <1>1, <1>5 DEF Connections
  <2> QED
    BY <1>3, <2>1, ExpectsKept
<1>6. ASSUME NEW c \in Client, Connect(c) PROVE Connections'
  <2>1. /\ backlog' = Append(backlog, c) /\ At(c, "out")
        /\ UNCHANGED <<conn, active, stream>>
        /\ Goto(c, "idle", None)
    BY <1>6 DEF Connect, flagVars
  <2> DEFINE b == backlog'
  <2>2. b = Append(backlog, c)
    BY <2>1
  <2> HIDE DEF b
  <2>3. /\ Len(backlog) \in Nat /\ Len(b) = Len(backlog) + 1
        /\ b[Len(backlog) + 1] = c
        /\ \A k \in 1..Len(backlog) : b[k] = backlog[k]
        /\ \A k \in 1..Len(b) : k \in 1..Len(backlog) \/ k = Len(backlog) + 1
    BY <1>2, <2>2, AppendElement
  <2>4. client'[c].at = "idle"
    BY <2>1, GotoFacts
  <2>5. \A k \in 1..Len(backlog) : backlog[k] # c
    BY <2>1 DEF Connections
  <2>6. \A i, j \in 1..Len(b) : b[i] = b[j] => i = j
    BY <2>3, <2>5 DEF Connections
  <2>7. \A i \in 1..Len(b), p \in Slot : conn[p] # b[i]
    BY <2>1, <2>3 DEF Connections
  <2>8. ASSUME NEW i \in 1..Len(b)
        PROVE  \E d \in Client :
                 b[i] = d /\ client'[d].at # "out" /\ ~Expects(d)'
    <3>1. CASE i \in 1..Len(backlog)
      BY <1>2, <1>5, <2>3, <3>1
    <3>2. CASE i = Len(backlog) + 1
      BY <1>4, <2>1, <2>3, <2>4, <3>2
    <3> QED
      BY <2>3, <3>1, <3>2
  <2>9. \A i \in 1..Len(backlog') : (~At(backlog[i], "out")
                                     /\ ~Expects(backlog[i]))'
    BY <2>8 DEF At, Expects, b
  <2>10. \A d \in Client : client'[d].at = "out" =>
           ~Expects(d)' /\ \A p \in Slot : conn[p] # d
    BY <1>3, <1>4 DEF Connections
  <2>11. /\ \A p, q \in Slot : conn[p] # None /\ conn[p] = conn[q] => p = q
         /\ \A p \in Slot : conn[p] # None => active[p]
    BY DEF Connections
  <2> QED
    BY <2>1, <2>6, <2>7, <2>9, <2>10, <2>11 DEF Connections, At, b
<1>7. ASSUME NEW s \in Slot, Accept(s) PROVE Connections'
  <2> DEFINE b == backlog'
  <2>1. /\ backlog # <<>> /\ b = Tail(backlog) /\ ~active[s]
        /\ UNCHANGED <<stream, client>>
        /\ conn' = [conn EXCEPT ![s] = Head(backlog)]
        /\ active' = [active EXCEPT ![s] = TRUE]
    BY <1>7 DEF Accept, FirstFree, userVars
  <2> HIDE DEF b
  <2>2. /\ Len(b) = Len(backlog) - 1 /\ Head(backlog) = backlog[1]
        /\ 1 \in 1..Len(backlog)
        /\ \A k \in 1..Len(b) :
             k + 1 \in 1..Len(backlog) /\ b[k] = backlog[k + 1]
    BY <1>2, <2>1, HeadTail
  <2>3. PICK c \in Client : c = backlog[1] /\ c # None
    BY <1>2, <2>2
  <2>4. conn'[s] = c /\ \A p \in Slot : p # s => conn'[p] = conn[p]
    BY <2>1, <2>2, <2>3 DEF TypeOK
  <2>5. active'[s] /\ \A p \in Slot : p # s => active'[p] = active[p]
    BY <2>1 DEF TypeOK
  <2>6. \A p \in Slot : conn[p] # c
    BY <2>2, <2>3 DEF Connections
  <2>7. \A p, q \in Slot : conn'[p] # None /\ conn'[p] = conn'[q] => p = q
    BY <2>4, <2>6 DEF Connections
  <2>8. \A p \in Slot : conn'[p] # None => active'[p]
    BY <2>4, <2>5 DEF Connections
  <2>9. \A i, j \in 1..Len(b) : b[i] = b[j] => i = j
    <3> SUFFICES ASSUME NEW i \in 1..Len(b), NEW j \in 1..Len(b), b[i] = b[j]
                 PROVE  i = j
      OBVIOUS
    <3>1. i + 1 = j + 1
      BY <2>2 DEF Connections
    <3> QED
      BY <3>1
  <2>10. ASSUME NEW i \in 1..Len(b) PROVE b[i] # c
    <3>1. i + 1 # 1 /\ i + 1 \in 1..Len(backlog) /\ b[i] = backlog[i + 1]
      BY <2>2
    <3> QED
      BY <2>2, <2>3, <3>1 DEF Connections
  <2>11. \A i \in 1..Len(b), p \in Slot : conn'[p] # b[i]
    BY <2>2, <2>4, <2>10 DEF Connections
  <2>12. \A i \in 1..Len(b) : ~At(b[i], "out") /\ ~Expects(b[i])
    BY <2>2 DEF Connections
  <2>13. ~At(c, "out")
    BY <2>2, <2>3 DEF Connections
  <2>14. \A d \in Client : At(d, "out") =>
           ~Expects(d) /\ \A p \in Slot : conn'[p] # d
    BY <2>4, <2>13 DEF Connections
  <2> QED
    BY <2>1, <2>7, <2>8, <2>9, <2>11, <2>12, <2>14
    DEF Connections, At, Expects, b
<1>8. ASSUME backlog' = backlog, \A p \in Slot : conn'[p] \in {conn[p], None},
             \A p \in Slot : conn'[p] # None => active'[p] = active[p]
      PROVE  Connections'
  <2>1. \A p, q \in Slot : conn'[p] # None /\ conn'[p] = conn'[q] => p = q
    BY <1>8 DEF Connections
  <2>2. \A p \in Slot : conn'[p] # None => active'[p]
    BY <1>8 DEF Connections
  <2>3. \A i \in 1..Len(backlog), p \in Slot : conn'[p] # backlog[i]
    BY <1>2, <1>8 DEF Connections
  <2>4. ASSUME NEW i \in 1..Len(backlog)
        PROVE  \E d \in Client :
                 backlog[i] = d /\ client'[d].at # "out" /\ ~Expects(d)'
    BY <1>2, <1>5
  <2>5. \A i \in 1..Len(backlog') : (~At(backlog[i], "out")
                                     /\ ~Expects(backlog[i]))'
    BY <1>8, <2>4 DEF At, Expects
  <2>6. \A d \in Client : client'[d].at = "out" =>
          ~Expects(d)' /\ \A p \in Slot : conn'[p] # d
    BY <1>3, <1>4, <1>8, ClientAssumption DEF Connections
  <2>7. \A i, j \in 1..Len(backlog) : backlog[i] = backlog[j] => i = j
    BY DEF Connections
  <2> QED
    BY <1>8, <2>1, <2>2, <2>3, <2>5, <2>6, <2>7 DEF Connections, At
<1>9. ASSUME NEW p \in Slot, release(p)
      PROVE  /\ \A q \in Slot : conn'[q] \in {conn[q], None}
             /\ \A q \in Slot : conn'[q] # None => active'[q] = active[q]
  BY <1>9 DEF release, TypeOK
<1>10. Gone \/ shutdown => \A p \in Slot : conn'[p] = None
  BY DEF Gone, shutdown
<1> QED
  BY <1>6, <1>7, <1>8, <1>9, <1>10, OnlyChanges

(* Where a handler comes from: a thread has taken a task, or goes on with  *)
(* one in the order of handle_session_message, at the same slot.           *)
LEMMA HandlerFrom ==
  ASSUME TypeOK, Next, NEW q \in Req, handler'[q] # None
  PROVE  \/ handler'[q] = handler[q] /\ ~Gone
         \/ Take(q)
         \/ /\ handler[q] # None /\ handler'[q].pos = handler[q].pos
            /\ handler'[q].acc = handler[q].acc
            /\ handler'[q].ret = handler[q].ret
            /\ \/ /\ ReadPayload(q) /\ handler[q].pc = "read"
                  /\ handler'[q].pc = "clear"
               \/ /\ ClearBusy(q) /\ handler[q].pc = "clear"
                  /\ handler'[q].pc = "work"
               \/ /\ WriteReply(q) /\ handler[q].pc = "reply"
                  /\ handler'[q].pc = "data" /\ handler[q].ret > 0
         \/ /\ Work(q) /\ handler[q] # None /\ handler'[q].pos = handler[q].pos
            /\ handler[q].pc = "work" /\ handler'[q].pc = "reply"
PROOF
<1>1. ~Gone
  BY DEF Gone
<1>2. CASE handler' = handler
  BY <1>1, <1>2
<1>3. ASSUME NEW r \in Req, r # q,
             Take(r) \/ ReadPayload(r) \/ ReadShort(r) \/ ClearBusy(r)
             \/ Work(r) \/ WriteReply(r) \/ WriteData(r)
      PROVE  handler'[q] = handler[q]
  <2>1. Take(r) \/ Work(r) => handler'[q] = handler[q]
    BY <1>3, TakeFacts, WorkFacts
  <2>2. ASSUME ReadPayload(r) \/ ReadShort(r) \/ ClearBusy(r) \/ WriteReply(r)
               \/ WriteData(r)
        PROVE  handler'[q] = handler[q]
    <3>1. /\ handler[r] # None
          /\ Step(r, "clear") \/ Step(r, "work") \/ Step(r, "data")
             \/ Return(r)
      BY <2>2
      DEF ReadPayload, ReadShort, ClearBusy, WriteReply, WriteData, In
    <3> QED
      BY <1>3, <3>1, HandlerMoves
  <2> QED
    BY <1>3, <2>1, <2>2
<1>4. ~ReadShort(q) /\ ~WriteData(q)
  <2>1. ReadShort(q) \/ WriteData(q) => handler[q] # None /\ Return(q)
    BY DEF ReadShort, WriteData, In
  <2> QED
    BY <2>1, HandlerMoves
<1>5. ASSUME ReadPayload(q)
      PROVE  /\ handler[q] # None /\ handler'[q].pos = handler[q].pos
             /\ handler'[q].acc = handler[q].acc
             /\ handler'[q].ret = handler[q].ret
             /\ handler[q].pc = "read" /\ handler'[q].pc = "clear"
  <2>1. handler[q] # None /\ handler[q].pc = "read" /\ Step(q, "clear")
    BY <1>5 DEF ReadPayload, In
  <2> QED
    BY <2>1, HandlerMoves
<1>6. ASSUME ClearBusy(q)
      PROVE  /\ handler[q] # None /\ handler'[q].pos = handler[q].pos
             /\ handler'[q].acc = handler[q].acc
             /\ handler'[q].ret = handler[q].ret
             /\ handler[q].pc = "clear" /\ handler'[q].pc = "work"
  <2>1. handler[q] # None /\ handler[q].pc = "clear" /\ Step(q, "work")
    BY <1>6 DEF ClearBusy, In
  <2> QED
    BY <2>1, HandlerMoves
<1>7. ASSUME WriteReply(q)
      PROVE  /\ handler[q] # None /\ handler'[q].pos = handler[q].pos
             /\ handler'[q].acc = handler[q].acc
             /\ handler'[q].ret = handler[q].ret
             /\ handler[q].pc = "reply" /\ handler'[q].pc = "data"
             /\ handler[q].ret > 0
  <2>1. handler[q] # None /\ handler[q].pc = "reply"
        /\ IF handler[q].ret > 0 THEN Step(q, "data") ELSE Return(q)
    BY <1>7 DEF WriteReply, In
  <2>2. ~Return(q)
    BY <2>1, HandlerMoves
  <2>3. handler[q].ret > 0 /\ Step(q, "data")
    BY <2>1, <2>2
  <2> QED
    BY <2>1, <2>3, HandlerMoves
<1>8. ASSUME Work(q)
      PROVE  /\ handler[q] # None /\ handler'[q].pos = handler[q].pos
             /\ handler[q].pc = "work" /\ handler'[q].pc = "reply"
  BY <1>8, WorkFacts DEF In
<1> QED
  BY <1>1, <1>2, <1>3, <1>4, <1>5, <1>6, <1>7, <1>8, OnlyChanges

(* A task comes from a header that the main thread has read, or was there  *)
(* before.                                                                 *)
LEMMA TaskFrom ==
  ASSUME TypeOK, Next, NEW i \in 1..Len(tasks')
  PROVE  \/ /\ i \in 1..Len(tasks) /\ tasks'[i] = tasks[i]
            /\ \A r \in Req : ~Take(r)
            /\ ~Gone
         \/ /\ i + 1 \in 1..Len(tasks) /\ tasks'[i] = tasks[i + 1]
            /\ ~Gone
            /\ \E r \in Req : Take(r)
         \/ \E p \in Slot :
              /\ Poll(p) /\ i = Len(tasks) + 1
              /\ conn[p] \in Client /\ stream[conn[p]] # <<>>
              /\ tasks'[i].unit = stream[conn[p]][1] /\ tasks'[i].pos = p
PROOF
<1>1. ~Gone
  <2> SUFFICES ASSUME Gone PROVE FALSE
    OBVIOUS
  <2>1. tasks' = <<>>
    BY DEF Gone
  <2>2. Len(tasks') = 0
    BY <2>1
  <2> QED
    BY <2>2
<1>2. ASSUME NEW r \in Req, Take(r)
      PROVE  i + 1 \in 1..Len(tasks) /\ tasks'[i] = tasks[i + 1]
  <2>1. tasks # <<>> /\ tasks' = Tail(tasks) /\ tasks \in Seq(Task)
    BY <1>2, TakeFacts DEF TypeOK
  <2> QED
    BY <2>1, HeadTail
<1>3. ASSUME NEW p \in Slot, Poll(p)
      PROVE  \/ i \in 1..Len(tasks) /\ tasks'[i] = tasks[i]
             \/ /\ i = Len(tasks) + 1
                /\ conn[p] \in Client /\ stream[conn[p]] # <<>>
                /\ tasks'[i].unit = stream[conn[p]][1] /\ tasks'[i].pos = p
  <2>1. PICK c \in Client : c = conn[p] /\ stream[c] # <<>>
    BY <1>3 DEF Poll, Readable, TypeOK
  <2>2. Head(stream[c]) \in Unit /\ Head(stream[c]) = stream[c][1]
    BY <2>1, HeadTail DEF TypeOK
  <2>3. PICK t \in Task : /\ t = [unit |-> Head(stream[c]), pos |-> p]
                          /\ tasks' = Append(tasks, t)
    <3>1. [unit |-> Head(stream[c]), pos |-> p] \in Task
      BY <2>2 DEF Task
    <3> QED
      BY <1>3, <2>1, <3>1 DEF Poll
  <2> DEFINE b == tasks'
  <2>4. b = Append(tasks, t)
    BY <2>3
  <2> HIDE DEF b
  <2>5. /\ b[Len(tasks) + 1] = t /\ \A k \in 1..Len(tasks) : b[k] = tasks[k]
        /\ \A k \in 1..Len(b) : k \in 1..Len(tasks) \/ k = Len(tasks) + 1
    BY <2>4, AppendElement DEF TypeOK
  <2>6. t.unit = stream[c][1] /\ t.pos = p
    BY <2>2, <2>3
  <2> QED
    BY <2>1, <2>5, <2>6 DEF b
<1>4. ASSUME NEW p \in Slot, Poll(p), NEW r \in Req, Take(r) PROVE FALSE
  <2>1. main' = p /\ main = None
    BY <1>4 DEF Poll, Readable, Polling
  <2>2. main' = main
    BY <1>4 DEF Take
  <2> QED
    BY <2>1, <2>2, NoneAssumption
<1>5. ASSUME tasks' = tasks, NEW r \in Req, Take(r) PROVE FALSE
  <2>1. tasks # <<>> /\ tasks = Tail(tasks) /\ tasks \in Seq(Task)
    BY <1>5, TakeFacts DEF TypeOK
  <2>2. Len(tasks) \in Nat /\ Len(tasks) = Len(tasks) - 1
    BY <2>1, HeadTail
  <2> QED
    BY <2>2
<1> QED
  BY <1>1, <1>2, <1>3, <1>4, <1>5, OnlyChanges

(* A thread that has still to clear a flag had to before, or has just      *)
(* taken the task.                                                         *)
LEMMA ReadsFrom ==
  ASSUME TypeOK, Next, NEW r \in Req, NEW p \in Slot, Reads(r, p)'
  PROVE  /\ ~Gone
         /\ \/ Reads(r, p) /\ ~ClearBusy(r) /\ ~Take(r)
            \/ Take(r) /\ tasks[1].pos = p /\ 1 \in 1..Len(tasks)
PROOF
<1>1. /\ handler'[r] # None /\ handler'[r].pos = p
      /\ handler'[r].pc \in {"read", "clear"}
  BY DEF Reads
<1>2. ~Gone
  BY <1>1 DEF Gone
<1>3. CASE Take(r)
  BY <1>1, <1>2, <1>3, TakeFacts
<1>4. ASSUME handler'[r] = handler[r], ClearBusy(r) PROVE FALSE
  <2>1. handler[r] # None /\ handler[r].pc = "clear" /\ Step(r, "work")
    BY <1>4 DEF ClearBusy, In
  <2>2. handler'[r].pc = "work"
    BY <2>1, HandlerMoves
  <2>3. "clear" = "work"
    BY <1>4, <2>1, <2>2
  <2> QED
    BY <2>3
<1>5. ASSUME ReadPayload(r), ClearBusy(r) PROVE FALSE
  <2>1. handler[r].pc = "clear" /\ handler[r].pc = "read"
    BY <1>5 DEF ReadPayload, ClearBusy, In
  <2>2. "clear" = "read"
    BY <2>1
  <2> QED
    BY <2>2
<1> QED
  BY <1>1, <1>2, <1>3, <1>4, <1>5, HandlerFrom DEF Reads

(* The flag of a slot belongs to one request from the moment its header is *)
(* read: the main thread sets it late, but polls nothing before it has.    *)
LEMMA MarksStep ==
  ASSUME TypeOK, Framing, Next
  PROVE  Marks'
PROOF
<1> USE DEF Framing
<1> DEFINE Kept(p) == (busy[p] \/ main = p) /\ active[p]
           Queues(p) == \E i \in 1..Len(tasks) : tasks[i].pos = p
           Reading(p) == \E r \in Req : Reads(r, p)
<1>1. ASSUME NEW p \in Slot, Queues(p) \/ Reading(p), ~Gone,
             \A r \in Req : ClearBusy(r) => handler[r].pos # p
      PROVE  Kept(p)'
  <2>1. Kept(p)
    BY <1>1 DEF Marks
  <2>2. active'[p]
    <3>1. ASSUME NEW q \in Slot, release(q) PROVE active'[p]
      <4>1. q # p
        BY <1>1, <3>1, PolledFacts DEF release
      <4> QED
        BY <2>1, <3>1, <4>1 DEF release, TypeOK
    <3>2. ASSUME NEW q \in Slot, Accept(q) PROVE active'[p]
      BY <2>1, <3>2 DEF Accept, TypeOK
    <3> QED
      BY <2>1, <3>1, <3>2, OnlyChanges
  <2>3. CASE StoreBusy
    <3>1. busy'[p]
      BY <2>1, <2>3 DEF StoreBusy, Marked, TypeOK
    <3> QED
      BY <2>2, <3>1
  <2>4. CASE ~StoreBusy
    <3>1. main = p => main' = p
      <4>1. p # None
        BY NoneAssumption
      <4> QED
        BY <1>1, <2>4, <4>1, OnlyChanges DEF Poll, Readable, Polling
    <3>2. busy[p] => busy'[p]
      <4>1. ASSUME NEW q \in Slot, Accept(q) PROVE busy[p] => busy'[p]
        <5>1. q # p
          BY <2>1, <4>1 DEF Accept, FirstFree
        <5> QED
          BY <4>1, <5>1 DEF Accept, TypeOK
      <4>2. ASSUME NEW r \in Req, ClearBusy(r) PROVE busy[p] => busy'[p]
        BY <1>1, <4>2 DEF ClearBusy, TypeOK
      <4> QED
        BY <2>4, <4>1, <4>2, OnlyChanges
    <3> QED
      BY <2>1, <2>2, <3>1, <3>2
  <2> QED
    BY <2>3, <2>4
<1>2. ASSUME NEW r \in Req, ClearBusy(r)
      PROVE  handler[r].pos \in Slot /\ Reads(r, handler[r].pos)
  BY <1>2, Fields DEF ClearBusy, In, Reads
<1>3. ASSUME NEW i \in 1..Len(tasks'), NEW p \in Slot, tasks'[i].pos = p
      PROVE  Kept(p)'
  <2>1. CASE Poll(p)
    <3>1. main' = p /\ active' = active /\ active[p]
      BY <2>1 DEF Poll, Readable, flagVars, Connections
    <3> QED
      BY <3>1
  <2>2. ASSUME NEW k \in 1..Len(tasks), tasks[k].pos = p, ~Gone
        PROVE  Kept(p)'
    <3>1. \A r \in Req : ClearBusy(r) => handler[r].pos # p
      BY <1>2, <2>2 DEF Marks
    <3> QED
      BY <1>1, <2>2, <3>1
  <2> QED
    BY <1>3, <2>1, <2>2, TaskFrom
<1>4. ASSUME NEW r \in Req, NEW p \in Slot, Reads(r, p)' PROVE Kept(p)'
  <2>1. Queues(p) \/ Reading(p)
    BY <1>4, ReadsFrom
  <2>2. \A q \in Req : ClearBusy(q) => handler[q].pos # p
    <3> SUFFICES ASSUME NEW q \in Req, ClearBusy(q), handler[q].pos = p
                 PROVE  FALSE
      OBVIOUS
    <3>1. Reads(q, p)
      BY <1>2
    <3>2. CASE Reads(r, p) /\ ~ClearBusy(r)
      BY <3>1, <3>2 DEF Marks
    <3>3. CASE tasks[1].pos = p /\ 1 \in 1..Len(tasks)
      BY <3>1, <3>3 DEF Marks
    <3> QED
      BY <1>4, <3>2, <3>3, ReadsFrom
  <2> QED
    BY <1>1, <1>4, <2>1, <2>2, ReadsFrom
<1>5. ASSUME NEW i \in 1..Len(tasks'), NEW j \in 1..Len(tasks'),
             tasks'[i].pos = tasks'[j].pos
      PROVE  i = j
  <2>1. i \in Int /\ j \in Int
    BY <1>5
  <2>2. ASSUME NEW p \in Slot, Poll(p), NEW k \in 1..Len(tasks)
        PROVE  tasks[k].pos # p
    BY <2>2, PolledFacts DEF Poll
  <2>3. ASSUME NEW k \in 1..Len(tasks), NEW l \in 1..Len(tasks),
               tasks[k].pos = tasks[l].pos
        PROVE  k = l
    BY <2>3 DEF Marks
  <2>4. ASSUME i + 1 = j + 1 PROVE i = j
    BY <2>1, <2>4
  <2>5. ASSUME NEW p \in Slot, Poll(p), NEW q \in Slot, Poll(q) PROVE p = q
    BY <2>5 DEF Poll
  <2> QED
    BY <1>5, <2>2, <2>3, <2>4, <2>5, TaskFrom
<1>6. ASSUME NEW i \in 1..Len(tasks'), NEW r \in Req,
             NEW p \in Slot, tasks'[i].pos = p, Reads(r, p)'
      PROVE  FALSE
  <2>1. i \in Int /\ i + 1 # 1
    BY <1>6
  <2>2. ASSUME Reads(r, p) PROVE FALSE
    <3>1. ASSUME Poll(p) PROVE FALSE
      BY <2>2, <3>1, PolledFacts DEF Poll
    <3>2. ASSUME NEW k \in 1..Len(tasks), tasks[k].pos = p PROVE FALSE
      BY <2>2, <3>2 DEF Marks
    <3> QED
      BY <1>6, <3>1, <3>2, TaskFrom
  <2>3. ASSUME Take(r), tasks[1].pos = p, 1 \in 1..Len(tasks) PROVE FALSE
    <3>1. ASSUME NEW q \in Slot, Poll(q) PROVE FALSE
      <4>1. main' = q /\ main = None
        BY <3>1 DEF Poll, Readable, Polling
      <4>2. main' = main
        BY <2>3 DEF Take
      <4> QED
        BY <4>1, <4>2, NoneAssumption
    <3>2. i + 1 \in 1..Len(tasks) /\ tasks[i + 1].pos = p
      BY <1>6, <2>3, <3>1, TaskFrom
    <3> QED
      BY <2>1, <2>3, <3>2 DEF Marks
  <2> QED
    BY <1>6, <2>2, <2>3, ReadsFrom
<1>7. ASSUME NEW r \in Req, NEW q \in Req, NEW p \in Slot,
             Reads(r, p)', Reads(q, p)'
      PROVE  r = q
  <2>1. ASSUME Take(r), Take(q) PROVE r = q
    BY <2>1, TakeFacts
  <2>2. ASSUME tasks[1].pos = p, 1 \in 1..Len(tasks)
        PROVE  ~Reads(r, p) /\ ~Reads(q, p)
    BY <2>2 DEF Marks
  <2>3. Reads(r, p) /\ Reads(q, p) => r = q
    BY DEF Marks
  <2> QED
    BY <1>7, <2>1, <2>2, <2>3, ReadsFrom
<1>8. \A i \in 1..Len(tasks') : tasks'[i].pos \in Slot
  <2>1. TypeOK'
    BY TypeStep
  <2>2. \A t \in Task : t.pos \in Slot
    BY DEF Task
  <2>3. tasks' \in Seq(Task)
    BY <2>1 DEF TypeOK
  <2> QED
    BY <2>2, <2>3
<1>9. \A i \in 1..Len(tasks'), r \in Req : ~Reads(r, tasks[i].pos)'
  <2> SUFFICES ASSUME NEW i \in 1..Len(tasks'), NEW r \in Req,
                      Reads(r, tasks[i].pos)'
               PROVE  FALSE
    OBVIOUS
  <2>1. PICK p \in Slot : p = tasks'[i].pos
    BY <1>8
  <2>2. Reads(r, p)'
    BY <2>1 DEF Reads
  <2> QED
    BY <1>6, <2>1, <2>2
<1> QED
  BY <1>3, <1>4, <1>5, <1>7, <1>9 DEF Marks

(* What the main thread reads from a connection it polls is a header.      *)
LEMMA PolledHeader ==
  ASSUME TypeOK, Framing, NEW p \in Slot, Poll(p),
         NEW c \in Client, c = conn[p]
  PROVE  /\ stream[c] # <<>> /\ stream[c][1] \in Unit
         /\ stream[c][1][1] = "head" /\ stream[c][1][2] \in Req
         /\ Takes(c)
PROOF
<1>1. Readable(p) /\ Head(stream[c])[1] # "eof" /\ Consume(c)
  BY DEF Poll
<1>2. stream[c] # <<>> /\ ~Expects(c)
  BY <1>1, PolledFacts DEF Framing
<1>3. Head(stream[c]) = stream[c][1] /\ stream[c][1] \in Unit
  BY <1>2, HeadTail DEF TypeOK
<1>4. stream[c][1][1] \notin {"body", "eof"}
  BY <1>1, <1>2, <1>3 DEF Expects
<1>5. stream[c][1][1] = "head" /\ stream[c][1][2] \in Req
  BY <1>3, <1>4 DEF Unit
<1> QED
  BY <1>1, <1>2, <1>3, <1>5 DEF Takes

(* Only headers become tasks: no thread leaves a payload behind for the    *)
(* main thread to read.                                                    *)
LEMMA FramedStep ==
  ASSUME TypeOK, Framing, Next
  PROVE  RequestsFramed'
PROOF
<1>1. tasks' \in Seq(Task)
  BY TypeStep DEF Framing, TypeOK
<1>2. \A i \in 1..Len(tasks) : tasks[i].unit[1] = "head"
  BY DEF Framing, RequestsFramed, TypeOK
<1>3. ASSUME NEW i \in 1..Len(tasks') PROVE tasks'[i].unit[1] = "head"
  BY <1>2, <1>3, TaskFrom, PolledHeader
<1> QED
  BY <1>1, <1>3 DEF RequestsFramed

(* A payload that is due keeps its connection from being polled until the  *)
(* thread of its request has read it.                                      *)
LEMMA BodiesStep ==
  ASSUME TypeOK, Framing, Next
  PROVE  Bodies'
PROOF
<1> USE DEF Framing
<1>1. ASSUME NEW c \in Client, NEW p \in Slot, conn[p] = c,
             Takes(c), conn'[p] = c
      PROVE  \/ Poll(p) /\ \A q \in Slot : Poll(q) => q = p
             \/ \E r \in Req : ReadPayload(r) /\ Reads(r, p)
                               /\ handler[r].pc = "read"
  <2>1. PICK q \in Slot :
          /\ conn[q] = c
          /\ Poll(q) \/ release(q)
             \/ \E r \in Req : ReadPayload(r) /\ Reads(r, q)
                               /\ handler[r].pc = "read"
    BY <1>1, TakenFrom
  <2>2. q = p /\ c # None
    BY <1>1, <2>1, ClientAssumption DEF Connections
  <2>3. ~release(p)
    BY <1>1, <2>2 DEF release, TypeOK
  <2>4. ASSUME NEW a \in Slot, NEW b \in Slot, Poll(a), Poll(b) PROVE a = b
    BY <2>4 DEF Poll
  <2> QED
    BY <2>1, <2>2, <2>3, <2>4
<1>2. ASSUME NEW p \in Slot, NEW c \in Client, conn'[p] = c, conn[p] # c
      PROVE  /\ ~active[p] /\ Accept(p) /\ ~Takes(c) /\ ~Expects(c)
             /\ ~Expects(c)'
  <2>1. PICK q \in Slot : Accept(q)
    <3>1. c # None
      BY ClientAssumption
    <3>2. ASSUME NEW q \in Slot, release(q)
          PROVE  conn'[p] \in {conn[p], None}
      BY <3>2 DEF release, TypeOK
    <3>3. Gone \/ shutdown => conn'[p] = None
      BY DEF Gone, shutdown
    <3> QED
      BY <1>2, <3>1, <3>2, <3>3, OnlyChanges
  <2>2. q = p /\ c = Head(backlog) /\ ~active[p] /\ backlog # <<>>
    BY <1>2, <2>1 DEF Accept, FirstFree, TypeOK
  <2>3. c = backlog[1] /\ 1 \in 1..Len(backlog)
    BY <2>2, HeadTail DEF TypeOK
  <2>4. ~Expects(c) /\ \A s \in Slot : conn[s] # c
    BY <2>3 DEF Connections
  <2>5. ~Takes(c)
    BY <2>4, TakenFrom
  <2> QED
    BY <2>1, <2>2, <2>4, <2>5, ExpectsKept
<1>3. ASSUME NEW p \in Slot, NEW c \in Client, conn'[p] = c, Expects(c)'
      PROVE  busy'[p] \/ main' = p
  <2>1. conn[p] = c /\ c # None
    BY <1>2, <1>3, ClientAssumption
  <2>2. CASE Takes(c)
    <3>1. Poll(p) => main' = p
      BY DEF Poll
    <3>2. ASSUME NEW r \in Req, ReadPayload(r), Reads(r, p)
          PROVE  busy'[p] \/ main' = p
      BY <3>2 DEF ReadPayload, flagVars, Marks
    <3> QED
      BY <1>1, <1>3, <2>1, <2>2, <3>1, <3>2
  <2>3. CASE ~Takes(c)
    <3>1. Expects(c)
      BY <1>3, <2>3, ExpectsKept
    <3>2. busy[p] \/ main = p
      BY <2>1, <3>1 DEF Bodies
    <3>3. CASE StoreBusy
      BY <3>2, <3>3 DEF StoreBusy, Marked, TypeOK
    <3>4. CASE ~StoreBusy
      <4>1. ~Gone
        BY <1>3, ClientAssumption DEF Gone
      <4>2. main = p => main' = p
        <5>1. p # None
          BY NoneAssumption
        <5> QED
          BY <3>4, <4>1, <5>1, OnlyChanges DEF Poll, Readable, Polling
      <4>3. ASSUME NEW q \in Slot, Accept(q) PROVE busy[p] => busy'[p]
        <5>1. q # p
          BY <2>1, <4>3 DEF Accept, FirstFree, Connections
        <5> QED
          BY <4>3, <5>1 DEF Accept, TypeOK
      <4>4. ASSUME NEW r \in Req, ClearBusy(r) PROVE busy[p] => busy'[p]
        <5>1. handler[r] # None /\ handler[r].pc = "clear"
          BY <4>4 DEF ClearBusy, In
        <5>2. handler[r].pos # p
          BY <2>1, <3>1, <5>1 DEF Bodies
        <5> QED
          BY <4>4, <5>2 DEF ClearBusy, TypeOK
      <4> QED
        BY <3>2, <3>4, <4>2, <4>3, <4>4, OnlyChanges
    <3> QED
      BY <3>3, <3>4
  <2> QED
    BY <2>2, <2>3
<1>4. ASSUME NEW i \in 1..Len(tasks'), NEW c \in Client, NEW p \in Slot,
             tasks'[i].pos = p, conn'[p] = c
      PROVE  IF Payload[tasks'[i].unit[2]] > 0 THEN Expects(c)' \/ Ended(c)'
             ELSE ~Expects(c)'
  <2>1. ASSUME NEW k \in 1..Len(tasks), tasks'[i] = tasks[k]
        PROVE  IF Payload[tasks'[i].unit[2]] > 0
                 THEN Expects(c)' \/ Ended(c)' ELSE ~Expects(c)'
    <3>1. tasks[k].pos = p /\ active[p]
      BY <1>4, <2>1 DEF Marks
    <3>2. conn[p] = c
      BY <1>2, <1>4, <3>1
    <3>3. ~Takes(c)
      <4>1. ~Poll(p)
        BY <3>1, PolledFacts DEF Poll
      <4>2. \A r \in Req : ~Reads(r, p)
        BY <3>1 DEF Marks
      <4> QED
        BY <1>1, <1>4, <3>2, <4>1, <4>2
    <3>4. IF Payload[tasks[k].unit[2]] > 0 THEN Expects(c) \/ Ended(c)
          ELSE ~Expects(c)
      BY <3>1, <3>2 DEF Bodies
    <3> QED
      BY <2>1, <3>3, <3>4, ExpectsKept
  <2>2. ASSUME Poll(p), conn[p] \in Client,
               tasks'[i].unit = stream[conn[p]][1]
        PROVE  IF Payload[tasks'[i].unit[2]] > 0
                 THEN Expects(c)' \/ Ended(c)' ELSE ~Expects(c)'
    <3>1. conn[p] = c
      BY <1>4, <2>2 DEF Poll, flagVars
    <3>2. /\ stream[c][1] \in Unit /\ stream[c][1][1] = "head" /\ Takes(c)
          /\ stream[c][1][2] \in Req
      BY <2>2, <3>1, PolledHeader
    <3>3. PICK u \in Unit : u = stream[c][1]
      BY <3>2
    <3>4. /\ Expects(c)' => Owes(u)
          /\ Owes(u) => Expects(c)' \/ Ended(c)'
      BY <3>2, <3>3, ExpectsTaken
    <3>5. Owes(u) <=> Payload[tasks'[i].unit[2]] > 0
      BY <2>2, <3>1, <3>2, <3>3 DEF Owes
    <3> QED
      BY <3>4, <3>5
  <2> QED
    BY <1>4, <2>1, <2>2, TaskFrom
<1>5. ASSUME NEW r \in Req, NEW c \in Client, handler'[r] # None,
             NEW p \in Slot, p = handler'[r].pos, conn'[p] = c
      PROVE  /\ handler'[r].pc = "read" => Expects(c)' \/ Ended(c)'
             /\ handler'[r].pc = "clear" => ~Expects(c)'
  <2> SUFFICES ASSUME handler'[r].pc \in {"read", "clear"}
               PROVE  /\ handler'[r].pc = "read" => Expects(c)' \/ Ended(c)'
                      /\ handler'[r].pc = "clear" => ~Expects(c)'
    BY Zenon
  <2>1. Reads(r, p)'
    BY <1>5 DEF Reads
  <2>2. active[p] /\ conn[p] = c
    <3>1. active[p]
      BY <2>1, ReadsFrom DEF Marks
    <3> QED
      BY <1>2, <1>5, <3>1
  <2>3. CASE ReadPayload(r)
    <3>1. /\ handler[r] # None /\ handler[r].pc = "read" /\ Step(r, "clear")
          /\ conn[handler[r].pos] # None /\ stream[conn[handler[r].pos]] # <<>>
          /\ Head(stream[conn[handler[r].pos]])[1] # "eof"
          /\ Consume(conn[handler[r].pos])
      BY <2>3 DEF ReadPayload, In
    <3>2. handler'[r].pc = "clear" /\ handler'[r].pos = handler[r].pos
      BY <3>1, HandlerMoves
    <3>3. conn[handler[r].pos] = c
      BY <1>5, <2>2, <3>2
    <3>4. Takes(c)
      BY <2>3, <3>1, <3>3 DEF Takes
    <3>5. Expects(c) /\ stream[c] # <<>>
      <4>1. Expects(c) \/ Ended(c)
        BY <3>1, <3>3 DEF Bodies
      <4>2. Head(stream[c]) = stream[c][1]
        BY <3>1, <3>3, HeadTail DEF TypeOK
      <4>3. ~Ended(c)
        BY <3>1, <3>3, <4>2 DEF Ended
      <4> QED
        BY <3>1, <3>3, <4>1, <4>3
    <3>6. PICK u \in Unit : u = stream[c][1]
      BY <3>5, HeadTail DEF TypeOK
    <3>7. u[1] = "body"
      BY <3>5, <3>6 DEF Expects
    <3>8. ~Owes(u)
      BY <3>7 DEF Owes
    <3>9. ~Expects(c)'
      BY <3>4, <3>6, <3>8, ExpectsTaken
    <3> QED
      BY <3>2, <3>9
  <2>4. CASE Take(r)
    <3>1. /\ tasks[1].pos = p /\ 1 \in 1..Len(tasks) /\ tasks[1].unit[2] = r
          /\ handler'[r].pc = IF Payload[r] > 0 THEN "read" ELSE "clear"
          /\ UNCHANGED <<flagVars, wireVars, userVars>>
      BY <1>5, <2>4, TakeFacts
    <3>2. IF Payload[r] > 0 THEN Expects(c) \/ Ended(c) ELSE ~Expects(c)
      BY <2>2, <3>1 DEF Bodies
    <3>3. stream' = stream /\ client' = client
      BY <3>1 DEF wireVars, userVars
    <3>4. Expects(c)' = Expects(c) /\ Ended(c)' = Ended(c)
      BY <3>3 DEF Expects, Ended, At
    <3> QED
      BY <3>1, <3>2, <3>4
  <2>5. CASE ~ReadPayload(r) /\ ~Take(r)
    <3>1. handler'[r] = handler[r] /\ Reads(r, p)
      <4>1. Reads(r, p)
        BY <2>1, <2>5, ReadsFrom
      <4>2. handler[r].pc # "work" /\ handler[r].pc # "reply"
            /\ ~ClearBusy(r)
        BY <2>1, <2>5, <4>1, ReadsFrom DEF Reads
      <4> QED
        BY <1>5, <2>5, <4>1, <4>2, HandlerFrom
    <3>2. ~Takes(c)
      <4>1. ~Poll(p)
        BY <3>1, PolledFacts DEF Poll
      <4>2. ASSUME NEW q \in Req, ReadPayload(q), Reads(q, p) PROVE FALSE
        BY <2>5, <3>1, <4>2 DEF Marks
      <4> QED
        BY <1>1, <1>5, <2>2, <4>1, <4>2
    <3>3. /\ handler[r].pc = "read" => Expects(c) \/ Ended(c)
          /\ handler[r].pc = "clear" => ~Expects(c)
      BY <1>5, <2>2, <3>1 DEF Bodies
    <3> QED
      BY <3>1, <3>2, <3>3, ExpectsKept
  <2> QED
    BY <2>3, <2>4, <2>5
<1>6. TypeOK'
  BY TypeStep
<1>7. \A p \in Slot : (conn[p] # None /\ Expects(conn[p]) =>
                         busy[p] \/ main = p)'
  <2> SUFFICES ASSUME NEW p \in Slot, conn'[p] # None, Expects(conn[p])'
               PROVE  busy'[p] \/ main' = p
    OBVIOUS
  <2>1. PICK c \in Client : c = conn'[p]
    BY <1>6 DEF TypeOK
  <2>2. Expects(c)'
    BY <2>1 DEF Expects, At
  <2> QED
    BY <1>3, <2>1, <2>2
<1>8. \A i \in 1..Len(tasks'), c \in Client :
        (conn[tasks[i].pos] = c =>
           IF Payload[tasks[i].unit[2]] > 0 THEN Expects(c) \/ Ended(c)
           ELSE ~Expects(c))'
  <2>1. \A i \in 1..Len(tasks') : tasks'[i].pos \in Slot
    <3>1. \A t \in Task : t.pos \in Slot
      BY DEF Task
    <3>2. tasks' \in Seq(Task)
      BY <1>6 DEF TypeOK
    <3> QED
      BY <3>1, <3>2
  <2> QED
    BY <1>4, <2>1
<1>9. \A r \in Req, c \in Client :
        (handler[r] # None /\ conn[handler[r].pos] = c =>
           /\ handler[r].pc = "read" => Expects(c) \/ Ended(c)
           /\ handler[r].pc = "clear" => ~Expects(c))'
  <2>1. \A r \in Req : handler'[r] # None => handler'[r].pos \in Slot
    <3>1. \A h \in Handler : h.pos \in Slot
      BY DEF Handler
    <3>2. \A r \in Req : handler'[r] # None => handler'[r] \in Handler
      BY <1>6 DEF TypeOK
    <3> QED
      BY <3>1, <3>2
  <2> QED
    BY <1>5, <2>1
<1> QED
  BY <1>7, <1>8, <1>9 DEF Bodies

(* The invariant behind RequestsFramed is kept by every step.              *)
LEMMA FramingStep == TypeOK /\ Framing /\ [Next]_vars => Framing'
PROOF
<1> SUFFICES ASSUME TypeOK, Framing, [Next]_vars PROVE Framing'
  OBVIOUS
<1>1. CASE Next
  BY <1>1, WrittenStep, RequestingStep, ConnectionsStep, MarksStep,
     BodiesStep, FramedStep
  DEF Framing
<1>2. CASE UNCHANGED vars
  <2>1. UNCHANGED <<main, active, conn, busy, tasks, handler, backlog, stream,
                    client>>
    BY <1>2 DEF vars, flagVars, poolVars, wireVars, userVars
  <2>2. Written' /\ Requesting'
    BY <2>1 DEF Framing, Written, Requesting, Follows, LastSent, Owes, At
  <2>3. Connections'
    BY <2>1 DEF Framing, Connections, Expects, At
  <2>4. Marks'
    BY <2>1 DEF Framing, Marks, Reads
  <2>5. Bodies'
    BY <2>1 DEF Framing, Bodies, Expects, Ended, At
  <2>6. RequestsFramed'
    BY <2>1 DEF Framing, RequestsFramed
  <2> QED
    BY <2>2, <2>3, <2>4, <2>5, <2>6 DEF Framing
<1> QED
  BY <1>1, <1>2

(* Server::start, handle_session_message and the client library never      *)
(* leave the types, and the streams, flags and tasks stay in step.         *)
THEOREM FramingCorrect == Spec => []TypeOK /\ []Framing
PROOF
<1>1. Init => TypeOK /\ Framing
  BY TypeInit, FramingInit
<1>2. TypeOK /\ Framing /\ [Next]_vars => (TypeOK /\ Framing)'
  BY TypeStep, FramingStep DEF Framing
<1> QED
  BY <1>1, <1>2, PTL DEF Spec

(* The main thread never takes a payload for a request.                    *)
THEOREM RequestsCorrect == Spec => []RequestsFramed
PROOF
<1>1. Framing => RequestsFramed
  BY DEF Framing
<1> QED
  BY <1>1, FramingCorrect, PTL

-----------------------------------------------------------------------------
(* One reply per request, and the size of the object it is about.          *)

(* Nothing has been sent, queued or answered when the controller starts.   *)
LEMMA OnceInit == Init => Once /\ Accessors
PROOF
<1> SUFFICES ASSUME Init PROVE Once /\ Accessors
  OBVIOUS
<1>1. /\ Len(tasks) = 0
      /\ \A c \in Client : Len(stream[c]) = 0 /\ Len(inbox[c]) = 0
      /\ \A r \in Req : handler[r] = None
  BY DEF Init
<1>2. \A r : ~InStream(r) /\ ~Queued(r) /\ ~Answered(r)
  BY <1>1 DEF InStream, Queued, Answered
<1>3. Once
  BY <1>1, <1>2 DEF Once, Init
<1> QED
  BY <1>1, <1>3 DEF Accessors

(* A unit of a stream was there before, or its client has just written it. *)
LEMMA StreamFrom ==
  ASSUME TypeOK, Requesting, Next,
         NEW c \in Client, NEW k \in 1..Len(stream'[c])
  PROVE  \/ /\ k \in 1..Len(stream[c]) /\ stream'[c][k] = stream[c][k]
            /\ ~Takes(c)
         \/ /\ k + 1 \in 1..Len(stream[c]) /\ stream'[c][k] = stream[c][k + 1]
            /\ Takes(c)
         \/ \E u \in Unit : /\ Sends(c, u) /\ stream'[c][k] = u
                            /\ k = Len(stream[c]) + 1
PROOF
<1>1. Len(stream[c]) \in Nat
  BY DEF TypeOK
<1>2. ASSUME NEW d \in Client, NEW u \in Unit, Sends(d, u), d # c
      PROVE  stream'[c] = stream[c]
  BY <1>2, SendFacts DEF Sends
<1>3. ASSUME NEW d \in Client, Takes(d), d # c
      PROVE  stream'[c] = stream[c]
  BY <1>3, ConsumeFacts DEF Takes
<1>4. CASE Takes(c)
  BY <1>4, ConsumeFacts DEF Takes
<1>5. ASSUME NEW u \in Unit, Sends(c, u)
      PROVE  /\ ~Takes(c)
             /\ \/ k \in 1..Len(stream[c]) /\ stream'[c][k] = stream[c][k]
                \/ stream'[c][k] = u /\ k = Len(stream[c]) + 1
  <2>1. /\ Len(stream'[c]) = Len(stream[c]) + 1
        /\ \/ k \in 1..Len(stream[c]) /\ stream'[c][k] = stream[c][k]
           \/ stream'[c][k] = u /\ k = Len(stream[c]) + 1
    BY <1>5, SendFacts DEF Sends
  <2>2. Takes(c) => Len(stream'[c]) = Len(stream[c]) - 1
    BY ConsumeFacts DEF Takes
  <2> QED
    BY <1>1, <2>1, <2>2
<1>6. CASE stream'[c] = stream[c]
  <2>1. ~Takes(c)
    <3> SUFFICES ASSUME Takes(c) PROVE FALSE
      OBVIOUS
    <3>1. Len(stream'[c]) = Len(stream[c]) - 1
      BY ConsumeFacts DEF Takes
    <3> QED
      BY <1>1, <1>6, <3>1
  <2> QED
    BY <1>6, <2>1
<1> QED
  BY <1>2, <1>3, <1>4, <1>5, <1>6, StreamSteps

(* The two messages of a handler.                                          *)
ReplyOf(r) == [kind |-> "reply", req |-> r, size |-> handler[r].ret,
               from |-> handler[r].acc]
DataOf(r, x) == [kind |-> "data", req |-> r, size |-> 0, from |-> x]

(* WriteReply and WriteData write them, at their place of the handler.     *)
LEMMA Messages ==
  ASSUME TypeOK, NEW r \in Req
  PROVE  /\ WriteReply(r) => /\ ReplyOf(r) \in Item /\ handler[r] # None
                             /\ handler[r].pos \in Slot
                             /\ handler[r].pc = "reply"
                             /\ Write(handler[r].pos, ReplyOf(r))
         /\ WriteData(r) => /\ handler[r] # None /\ handler[r].pos \in Slot
                            /\ handler[r].pc = "data"
                            /\ \E x \in Req \cup {None} :
                                 /\ DataOf(r, x) \in Item
                                 /\ Write(handler[r].pos, DataOf(r, x))
PROOF
<1>1. ASSUME WriteReply(r)
      PROVE  /\ ReplyOf(r) \in Item /\ handler[r] # None
             /\ handler[r].pos \in Slot /\ handler[r].pc = "reply"
             /\ Write(handler[r].pos, ReplyOf(r))
  <2>1. handler[r] # None /\ handler[r].pc = "reply"
        /\ Write(handler[r].pos, ReplyOf(r))
    BY <1>1 DEF WriteReply, In, ReplyOf
  <2> QED
    BY <2>1, Fields DEF ReplyOf, Item
<1>2. ASSUME WriteData(r)
      PROVE  /\ handler[r] # None
             /\ handler[r].pos \in Slot /\ handler[r].pc = "data"
             /\ \E x \in Req \cup {None} :
                  DataOf(r, x) \in Item /\ Write(handler[r].pos, DataOf(r, x))
  <2>1. handler[r] # None /\ handler[r].pc = "data"
    BY <1>2 DEF WriteData, In
  <2>2. PICK x \in Req \cup {None} : Write(handler[r].pos, DataOf(r, x))
    BY <1>2, ContentsType DEF WriteData, DataOf
  <2>3. DataOf(r, x) \in Item
    BY DEF DataOf, Item
  <2> QED
    BY <2>1, <2>2, <2>3, Fields
<1> QED
  BY <1>1, <1>2

(* A message in an inbox was there before, or a handler has just written   *)
(* it to the client that has the slot.                                     *)
LEMMA InboxFrom ==
  ASSUME TypeOK, Next, NEW c \in Client, NEW k \in 1..Len(inbox'[c])
  PROVE  \/ \E l \in 1..Len(inbox[c]) : inbox'[c][k] = inbox[c][l]
         \/ \E r \in Req : /\ WriteReply(r) /\ inbox'[c][k] = ReplyOf(r)
                           /\ c = conn[handler[r].pos]
         \/ \E r \in Req, x \in Req \cup {None} :
              /\ WriteData(r) /\ inbox'[c][k] = DataOf(r, x)
              /\ c = conn[handler[r].pos]
PROOF
<1>1. CASE inbox'[c] = inbox[c]
  BY <1>1
<1>2. ASSUME NEW d \in Client, ReadReply(d) \/ ReadData(d)
      PROVE  \E l \in 1..Len(inbox[c]) : inbox'[c][k] = inbox[c][l]
  <2>1. inbox[d] # <<>> /\ inbox' = [inbox EXCEPT ![d] = Tail(@)]
    BY <1>2 DEF ReadReply, ReadData
  <2>2. CASE d = c
    <3>1. PICK q \in Seq(Item) : q = inbox[c]
      BY DEF TypeOK
    <3>2. q # <<>> /\ inbox'[c] = Tail(q)
      BY <2>1, <2>2, <3>1 DEF TypeOK
    <3>3. \A i \in 1..Len(Tail(q)) : i + 1 \in 1..Len(q)
                                     /\ Tail(q)[i] = q[i + 1]
      BY <3>2, HeadTail
    <3> QED
      BY <3>1, <3>2, <3>3
  <2>3. CASE d # c
    BY <1>1, <2>1, <2>3 DEF TypeOK
  <2> QED
    BY <2>2, <2>3
<1>3. ASSUME NEW d \in Client, ClientLeaves(d)
      PROVE  \E l \in 1..Len(inbox[c]) : inbox'[c][k] = inbox[c][l]
  <2>1. inbox' = [inbox EXCEPT ![d] = <<>>]
    BY <1>3 DEF ClientLeaves
  <2>2. d # c
    <3> SUFFICES ASSUME d = c PROVE FALSE
      OBVIOUS
    <3>1. inbox'[c] = <<>>
      BY <2>1 DEF TypeOK
    <3>2. Len(inbox'[c]) = 0
      BY <3>1
    <3> QED
      BY <3>2
  <2> QED
    BY <1>1, <2>1, <2>2 DEF TypeOK
<1>4. ASSUME NEW r \in Req, WriteReply(r)
      PROVE  \/ \E l \in 1..Len(inbox[c]) : inbox'[c][k] = inbox[c][l]
             \/ inbox'[c][k] = ReplyOf(r) /\ c = conn[handler[r].pos]
  <2>1. PICK m \in Item, p \in Slot :
          m = ReplyOf(r) /\ p = handler[r].pos /\ Write(p, m)
    BY <1>4, Messages
  <2> QED
    BY <1>1, <2>1, WriteFacts
<1>5. ASSUME NEW r \in Req, WriteData(r)
      PROVE  \/ \E l \in 1..Len(inbox[c]) : inbox'[c][k] = inbox[c][l]
             \/ \E x \in Req \cup {None} :
                  inbox'[c][k] = DataOf(r, x) /\ c = conn[handler[r].pos]
  <2>0. PICK x \in Req \cup {None} :
          DataOf(r, x) \in Item /\ Write(handler[r].pos, DataOf(r, x))
    BY <1>5, Messages
  <2>1. PICK m \in Item, p \in Slot :
          m = DataOf(r, x) /\ p = handler[r].pos /\ Write(p, m)
    BY <1>5, <2>0, Messages
  <2> QED
    BY <1>1, <2>1, WriteFacts
<1> QED
  BY <1>1, <1>2, <1>3, <1>4, <1>5, OnlyChanges

(* Where a header on the way, a task and an answer of a request come from. *)
LEMMA TracesFrom ==
  ASSUME TypeOK, Framing, Next, NEW r \in Req
  PROVE  /\ InStream(r)' =>
              \/ InStream(r)
              \/ r \in unsent /\ \E c \in Client : SendHeader(c, r)
         /\ Queued(r)' =>
              \/ Queued(r) /\ \A p \in Slot : ~Poll(p)
              \/ Queued(r) /\ \A q \in Req : ~Take(q)
              \/ \E c \in Client : /\ Takes(c) /\ 1 \in 1..Len(stream[c])
                                  /\ stream[c][1] = <<"head", r>>
         /\ Answered(r)' => \/ Answered(r)
                            \/ handler[r] # None /\ WriteReply(r)
                            \/ handler[r] # None /\ WriteData(r)
PROOF
<1>1. ASSUME InStream(r)'
      PROVE  \/ InStream(r)
             \/ r \in unsent /\ \E c \in Client : SendHeader(c, r)
  <2>0. PICK c \in Client : \E k \in 1..Len(stream'[c]) :
                               stream'[c][k] = <<"head", r>>
    BY <1>1 DEF InStream
  <2>1. PICK k \in 1..Len(stream'[c]) : stream'[c][k] = <<"head", r>>
    BY <2>0
  <2>2. ASSUME NEW l \in 1..Len(stream[c]), stream'[c][k] = stream[c][l]
        PROVE  InStream(r)
    BY <2>1, <2>2 DEF InStream
  <2>3. ASSUME NEW u \in Unit, Sends(c, u), stream'[c][k] = u
        PROVE  r \in unsent /\ SendHeader(c, r)
    <3>0. u = <<"head", r>>
      BY <2>1, <2>3
    <3>1. u[1] = "head" /\ u[2] = r
      BY <3>0
    <3>2. PICK q \in Req : SendHeader(c, q) /\ u = <<"head", q>>
      BY <2>3, <3>1 DEF Sends
    <3>3. q = r
      BY <3>1, <3>2
    <3> QED
      BY <3>2, <3>3 DEF SendHeader
  <2> QED
    BY <2>2, <2>3, StreamFrom DEF Framing
<1>2. ASSUME Queued(r)'
      PROVE  \/ Queued(r) /\ \A p \in Slot : ~Poll(p)
             \/ Queued(r) /\ \A q \in Req : ~Take(q)
             \/ \E c \in Client : /\ Takes(c) /\ 1 \in 1..Len(stream[c])
                                 /\ stream[c][1] = <<"head", r>>
  <2>1. PICK i \in 1..Len(tasks') : tasks'[i].unit[2] = r
    BY <1>2 DEF Queued
  <2>2. ASSUME NEW l \in 1..Len(tasks), tasks'[i] = tasks[l] PROVE Queued(r)
    BY <2>1, <2>2 DEF Queued
  <2>3. ASSUME NEW p \in Slot, Poll(p), tasks'[i].unit = stream[conn[p]][1]
        PROVE  \E c \in Client : /\ Takes(c) /\ 1 \in 1..Len(stream[c])
                                 /\ stream[c][1] = <<"head", r>>
    <3>1. PICK c \in Client : c = conn[p]
      BY <2>3 DEF Poll, Readable, TypeOK
    <3>2. PICK u \in Unit : u = stream[c][1] /\ u[1] = "head"
      BY <2>3, <3>1, PolledHeader
    <3>3. u = <<"head", r>>
      BY <2>1, <2>3, <3>1, <3>2 DEF Unit
    <3>4. 1 \in 1..Len(stream[c])
      BY <2>3, <3>1, PolledHeader, HeadTail DEF TypeOK
    <3> QED
      BY <2>3, <3>1, <3>2, <3>3, <3>4, PolledHeader
  <2>4. ASSUME NEW p \in Slot, Poll(p), NEW q \in Req, Take(q) PROVE FALSE
    <3>1. main' = p /\ main = None
      BY <2>4 DEF Poll, Readable, Polling
    <3>2. main' = main
      BY <2>4 DEF Take
    <3> QED
      BY <3>1, <3>2, NoneAssumption
  <2> QED
    BY <2>2, <2>3, <2>4, TaskFrom
<1>3. ASSUME Answered(r)'
      PROVE  \/ Answered(r)
             \/ handler[r] # None /\ WriteReply(r)
             \/ handler[r] # None /\ WriteData(r)
  <2>0. PICK c \in Client : \E k \in 1..Len(inbox'[c]) : inbox'[c][k].req = r
    BY <1>3 DEF Answered
  <2>1. PICK k \in 1..Len(inbox'[c]) : inbox'[c][k].req = r
    BY <2>0
  <2>2. ASSUME NEW l \in 1..Len(inbox[c]), inbox'[c][k] = inbox[c][l]
        PROVE  Answered(r)
    BY <2>1, <2>2 DEF Answered
  <2>3. ASSUME NEW q \in Req, inbox'[c][k] = ReplyOf(q) PROVE q = r
    BY <2>1, <2>3 DEF ReplyOf
  <2>4. ASSUME NEW q \in Req, NEW x, inbox'[c][k] = DataOf(q, x) PROVE q = r
    BY <2>1, <2>4 DEF DataOf
  <2> QED
    BY <2>2, <2>3, <2>4, InboxFrom, Messages
<1> QED
  BY <1>1, <1>2, <1>3

(* Every request has one header, one task and one handler, in this order,  *)
(* and is answered only by the handler.                                    *)
LEMMA OnceStep ==
  ASSUME TypeOK, Framing, Once, Next
  PROVE  Once'
PROOF
<1> DEFINE Fresh(r) == InStream(r) \/ r \in unsent
<1>1. \A r \in unsent' : r \in unsent /\ r \in Req
                         /\ \A c \in Client : ~SendHeader(c, r)
  BY OnlyChanges DEF SendHeader, TypeOK
<1>2. \A r \in unsent' : ~InStream(r)'
  BY <1>1, TracesFrom DEF Once
<1>3. \A r \in Req : Fresh(r)' => Fresh(r)
  BY <1>1, TracesFrom
<1>4. ASSUME NEW r \in Req, NEW c \in Client, Takes(c),
             1 \in 1..Len(stream[c]), stream[c][1] = <<"head", r>>
      PROVE  InStream(r) /\ ~Fresh(r)'
  <2>1. InStream(r) /\ r \notin unsent /\ r \notin unsent'
    BY <1>1, <1>4 DEF InStream, Once
  <2>2. ASSUME InStream(r)' PROVE FALSE
    <3>0. PICK d \in Client : \E k \in 1..Len(stream'[d]) :
                                stream'[d][k] = <<"head", r>>
      BY <2>2 DEF InStream
    <3>1. PICK k \in 1..Len(stream'[d]) : stream'[d][k] = <<"head", r>>
      BY <3>0
    <3>2. ASSUME NEW l \in 1..Len(stream[d]), stream[d][l] = <<"head", r>>
          PROVE  d = c /\ l = 1
      <4>1. stream[c][1] = stream[d][l] /\ stream[c][1][1] = "head"
        BY <1>4, <3>2
      <4> QED
        BY <1>4, <4>1 DEF Once
    <3>3. k + 1 # 1
      OBVIOUS
    <3>4. ASSUME NEW u \in Unit, Sends(d, u), stream'[d][k] = u PROVE FALSE
      <4>1. u = <<"head", r>>
        BY <3>1, <3>4
      <4>2. u[1] = "head" /\ u[2] = r
        BY <4>1
      <4>3. PICK q \in Req : SendHeader(d, q) /\ u = <<"head", q>>
        BY <3>4, <4>2 DEF Sends
      <4>4. q = r
        BY <4>2, <4>3
      <4> QED
        BY <2>1, <4>3, <4>4 DEF SendHeader
    <3> QED
      BY <1>4, <3>1, <3>2, <3>3, <3>4, StreamFrom DEF Framing
  <2> QED
    BY <2>1, <2>2
<1>5. \A r \in Req : Fresh(r)' => ~Queued(r)'
  BY <1>3, <1>4, TracesFrom DEF Once
<1>6. \A r \in Req : Fresh(r)' \/ Queued(r)' => Fresh(r) \/ Queued(r)
  BY <1>3, <1>4, TracesFrom
<1>7. ASSUME NEW r \in Req, Take(r) PROVE Queued(r) /\ ~Queued(r)'
  <2>1. 1 \in 1..Len(tasks) /\ tasks[1].unit[2] = r
    BY <1>7, TakeFacts
  <2>2. ASSUME NEW i \in 1..Len(tasks'), tasks'[i].unit[2] = r PROVE FALSE
    <3>1. ASSUME NEW p \in Slot, Poll(p) PROVE FALSE
      <4>1. main' = p /\ main = None
        BY <3>1 DEF Poll, Readable, Polling
      <4>2. main' = main
        BY <1>7 DEF Take
      <4> QED
        BY <4>1, <4>2, NoneAssumption
    <3>2. i + 1 \in 1..Len(tasks) /\ tasks[i + 1].unit[2] = r
      BY <1>7, <2>2, <3>1, TaskFrom
    <3>3. i + 1 # 1
      OBVIOUS
    <3> QED
      BY <2>1, <3>2, <3>3 DEF Once
  <2> QED
    BY <2>1, <2>2 DEF Queued
<1>8. ASSUME NEW r \in Req, Fresh(r)' \/ Queued(r)'
      PROVE  handler'[r] = None /\ ~Answered(r)'
  <2>1. handler[r] = None /\ ~Answered(r)
    BY <1>6, <1>8 DEF Once
  <2>2. ~Take(r)
    BY <1>3, <1>7, <1>8 DEF Once
  <2> QED
    BY <2>1, <2>2, HandlerFrom, TracesFrom
<1>9. ASSUME NEW r \in Req, handler'[r] # None, handler'[r].pc # "data"
      PROVE  ~Answered(r)'
  <2>1. CASE Take(r)
    BY <1>7, <2>1, TracesFrom DEF Once
  <2>2. ASSUME handler[r] # None, handler[r].pc # "data",
               ~WriteReply(r)
        PROVE  ~Answered(r)'
    BY <2>2, TracesFrom, Messages DEF Once
  <2>3. ASSUME WriteReply(r) PROVE FALSE
    <3>1. handler[r] # None /\ handler[r].pc = "reply"
          /\ (Step(r, "data") \/ Return(r))
      BY <2>3 DEF WriteReply, In
    <3> QED
      BY <1>9, <3>1, HandlerMoves
  <2>4. (handler[r] # None /\ handler[r].pc # "data") \/ Take(r)
    BY <1>9, HandlerFrom
  <2> QED
    BY <2>1, <2>2, <2>3, <2>4
<1>10. ASSUME NEW c \in Client, NEW d \in Client,
              NEW i \in 1..Len(stream'[c]), NEW j \in 1..Len(stream'[d]),
              stream'[c][i] = stream'[d][j], stream'[c][i][1] = "head"
       PROVE  c = d /\ i = j
  <2>1. i \in Int /\ j \in Int /\ (i + 1 = j + 1 => i = j)
    BY <1>10
  <2>2. ASSUME NEW k \in 1..Len(stream[c]), NEW l \in 1..Len(stream[d]),
               stream'[c][i] = stream[c][k], stream'[d][j] = stream[d][l]
        PROVE  c = d /\ k = l
    <3>1. stream[c][k] = stream[d][l] /\ stream[c][k][1] = "head"
      BY <1>10, <2>2
    <3> QED
      BY <3>1 DEF Once
  <2>3. ASSUME NEW a \in Client, NEW u \in Unit, Sends(a, u), u[1] = "head"
        PROVE  \E r \in unsent : u = <<"head", r>>
    <3>1. ~(u = <<"eof", None>>) /\ ~(u = <<"body", client[a].req>>)
      BY <2>3
    <3> QED
      BY <2>3, <3>1 DEF Sends, SendHeader
  <2>4. ASSUME NEW a \in Client, NEW u \in Unit, Sends(a, u), u[1] = "head",
               NEW b \in Client, NEW k \in 1..Len(stream[b]),
               stream[b][k] = u
        PROVE  FALSE
    BY <2>3, <2>4 DEF Once, InStream
  <2>5. ASSUME NEW u \in Unit, Sends(c, u), NEW v \in Unit, Sends(d, v)
        PROVE  c = d
    <3>1. /\ Len(stream[c]) \in Nat /\ Len(stream'[c]) = Len(stream[c]) + 1
          /\ c # d => stream'[c] = stream[c]
      BY <2>5, SendFacts DEF Sends
    <3> QED
      BY <3>1
  <2>6. \/ /\ i \in 1..Len(stream[c]) /\ stream'[c][i] = stream[c][i]
           /\ ~Takes(c)
        \/ /\ i + 1 \in 1..Len(stream[c]) /\ stream'[c][i] = stream[c][i + 1]
           /\ Takes(c)
        \/ \E u \in Unit : /\ Sends(c, u) /\ stream'[c][i] = u
                           /\ i = Len(stream[c]) + 1
    BY StreamFrom DEF Framing
  <2>7. \/ /\ j \in 1..Len(stream[d]) /\ stream'[d][j] = stream[d][j]
           /\ ~Takes(d)
        \/ /\ j + 1 \in 1..Len(stream[d]) /\ stream'[d][j] = stream[d][j + 1]
           /\ Takes(d)
        \/ \E u \in Unit : /\ Sends(d, u) /\ stream'[d][j] = u
                           /\ j = Len(stream[d]) + 1
    BY StreamFrom DEF Framing
  <2>8. CASE \E u \in Unit : /\ Sends(c, u) /\ stream'[c][i] = u
                             /\ i = Len(stream[c]) + 1
    BY <1>10, <2>4, <2>5, <2>7, <2>8
  <2>9. CASE \E u \in Unit : /\ Sends(d, u) /\ stream'[d][j] = u
                             /\ j = Len(stream[d]) + 1
    BY <1>10, <2>4, <2>5, <2>6, <2>9
  <2> QED
    BY <2>1, <2>2, <2>6, <2>7, <2>8, <2>9
<1>11. ASSUME NEW i \in 1..Len(tasks'), NEW j \in 1..Len(tasks'),
              tasks'[i].unit[2] = tasks'[j].unit[2]
       PROVE  i = j
  <2>1. i \in Int /\ j \in Int /\ (i + 1 = j + 1 => i = j)
    BY <1>11
  <2>2. ASSUME NEW k \in 1..Len(tasks), NEW l \in 1..Len(tasks),
               tasks[k].unit[2] = tasks[l].unit[2]
        PROVE  k = l
    BY <2>2 DEF Once
  <2>3. ASSUME NEW p \in Slot, Poll(p), NEW k \in 1..Len(tasks),
               tasks[k].unit[2] = stream[conn[p]][1][2]
        PROVE  FALSE
    <3>1. PICK c \in Client : c = conn[p]
      BY <2>3 DEF Poll, Readable, TypeOK
    <3>2. PICK u \in Unit : u = stream[c][1] /\ u[1] = "head" /\ u[2] \in Req
      BY <2>3, <3>1, PolledHeader
    <3>3. u = <<"head", u[2]>>
      BY <3>2 DEF Unit
    <3>4. 1 \in 1..Len(stream[c])
      BY <2>3, <3>1, PolledHeader, HeadTail DEF TypeOK
    <3>5. InStream(u[2]) /\ Queued(u[2])
      BY <2>3, <3>1, <3>2, <3>3, <3>4 DEF InStream, Queued
    <3> QED
      BY <3>2, <3>5 DEF Once
  <2>4. ASSUME NEW p \in Slot, Poll(p), NEW r \in Req, Take(r) PROVE FALSE
    <3>1. main' = p /\ main = None
      BY <2>4 DEF Poll, Readable, Polling
    <3>2. main' = main
      BY <2>4 DEF Take
    <3> QED
      BY <3>1, <3>2, NoneAssumption
  <2> QED
    BY <1>11, <2>1, <2>2, <2>3, <2>4, TaskFrom
<1> QED
  BY <1>2, <1>5, <1>8, <1>9, <1>10, <1>11 DEF Once

(* Cache::get leaves its const_accessor with the handler: nobody replaces  *)
(* or erases the object while the handler holds it.                        *)
LEMMA HeldKept ==
  ASSUME TypeOK, Next, NEW r \in Req, handler[r] # None, handler[r].acc # None
  PROVE  cache'[Key[r]] = cache[Key[r]]
PROOF
<1>1. ASSUME NEW q \in Req, Work(q) PROVE cache'[Key[r]] = cache[Key[r]]
  <2>1. Key[q] \in Keys /\ Key[r] \in Keys
    BY DEF Keys
  <2>2. cache' = [cache EXCEPT ![Key[q]] = Stored(q)]
    BY <1>1, WorkFacts
  <2>3. CASE Key[q] = Key[r]
    <3>1. Held(Key[q])
      BY <2>3 DEF Held, Accessor
    <3>2. Type[q] \notin {"CREATE", "PUT", "DELETE"}
      BY <1>1, <3>1 DEF Work
    <3>3. Stored(q) = cache[Key[q]]
      BY <3>2 DEF Stored
    <3> QED
      BY <2>1, <2>2, <2>3, <3>3 DEF TypeOK
  <2>4. CASE Key[q] # Key[r]
    BY <2>1, <2>2, <2>4 DEF TypeOK
  <2> QED
    BY <2>3, <2>4
<1> QED
  BY <1>1, OnlyChanges

(* What a handler has found is what the table holds until it returns.      *)
LEMMA AccessorsStep ==
  ASSUME TypeOK, Accessors, Next
  PROVE  Accessors'
PROOF
<1> SUFFICES ASSUME NEW r \in Req, handler'[r] # None
             PROVE  /\ handler'[r].acc # None =>
                         handler'[r].acc = cache'[Key[r]]
                    /\ handler'[r].pc \in {"read", "clear", "work"} =>
                         handler'[r].acc = None
                    /\ handler'[r].pc = "reply" /\ handler'[r].ret > 0 =>
                         handler'[r].acc # None /\ Type[r] = "GET"
                    /\ handler'[r].pc = "data" =>
                         handler'[r].acc # None /\ Type[r] = "GET"
                    /\ handler'[r].acc # None =>
                         handler'[r].ret = Payload[handler'[r].acc]
  BY DEF Accessors
<1>1. CASE handler'[r] = handler[r]
  BY <1>1, HeldKept DEF Accessors
<1>2. CASE Take(r)
  <2>1. /\ handler'[r].acc = None /\ handler'[r].ret = 0
        /\ handler'[r].pc # "data" /\ handler'[r].pc # "reply"
    BY <1>2, TakeFacts
  <2> QED
    BY <2>1
<1>3. ASSUME handler[r] # None, handler'[r].acc = handler[r].acc,
             \/ handler[r].pc = "read" /\ handler'[r].pc = "clear"
             \/ handler[r].pc = "clear" /\ handler'[r].pc = "work"
      PROVE  /\ handler'[r].acc = None /\ handler'[r].pc # "reply"
             /\ handler'[r].pc # "data"
  BY <1>3 DEF Accessors
<1>4. ASSUME handler[r] # None, handler'[r].acc = handler[r].acc,
             handler'[r].ret = handler[r].ret,
             handler[r].pc = "reply", handler'[r].pc = "data",
             handler[r].ret > 0
      PROVE  /\ handler'[r].acc # None /\ handler'[r].acc = cache'[Key[r]]
             /\ Type[r] = "GET" /\ handler'[r].pc \notin
                                       {"read", "clear", "work", "reply"}
             /\ handler'[r].ret = Payload[handler'[r].acc]
  BY <1>4, HeldKept DEF Accessors
<1>5. CASE Work(r)
  <2>1. /\ handler'[r].acc = Found(r) /\ handler'[r].ret = Announced(r)
        /\ handler'[r].pc = "reply"
        /\ Announced(r) > 0 => Type[r] = "GET" /\ Found(r) # None
        /\ cache' = [cache EXCEPT ![Key[r]] = Stored(r)]
    BY <1>5, WorkFacts
  <2>2. Key[r] \in Keys
    BY DEF Keys
  <2>3. Found(r) # None => Found(r) = cache'[Key[r]]
    <3>1. ASSUME Type[r] = "GET"
          PROVE  Stored(r) = cache[Key[r]] /\ Found(r) = cache[Key[r]]
      BY <3>1 DEF Stored, Found
    <3>2. Type[r] # "GET" => Found(r) = None
      BY DEF Found
    <3> QED
      BY <2>1, <2>2, <3>1, <3>2 DEF TypeOK
  <2>4. Found(r) # None => Announced(r) = Payload[Found(r)]
    <3>1. Type[r] # "GET" => Found(r) = None
      BY DEF Found
    <3>2. ASSUME Type[r] = "GET", Found(r) # None
          PROVE  Result(r) /\ Found(r) = cache[Key[r]]
      BY <3>2 DEF Found, Result
    <3> QED
      BY <3>1, <3>2 DEF Announced
  <2> QED
    BY <2>1, <2>3, <2>4
<1> QED
  BY <1>1, <1>2, <1>3, <1>4, <1>5, HandlerFrom

(* Once and Accessors hold in every state.                                 *)
LEMMA OnceCorrect == Spec => [](Once /\ Accessors)
PROOF
<1>1. TypeOK /\ Framing /\ Once /\ Accessors /\ [Next]_vars
        => (Once /\ Accessors)'
  <2> SUFFICES ASSUME TypeOK, Framing, Once, Accessors, [Next]_vars
               PROVE  Once' /\ Accessors'
    OBVIOUS
  <2>1. CASE Next
    BY <2>1, OnceStep, AccessorsStep
  <2>2. CASE UNCHANGED vars
    <3>1. UNCHANGED <<stream, unsent, tasks, handler, inbox, cache>>
      BY <2>2 DEF vars, flagVars, poolVars, wireVars, userVars
    <3>2. Once'
      BY <3>1 DEF Once, InStream, Queued, Answered
    <3>3. Accessors'
      BY <3>1 DEF Accessors
    <3> QED
      BY <3>2, <3>3
  <2> QED
    BY <2>1, <2>2
<1> QED
  BY <1>1, OnceInit, FramingCorrect, PTL DEF Spec

(* The length a handler passes to write is that of the object in the table *)
(* whose pointer it passes, whatever other requests do to the object.      *)
THEOREM SizesCorrect == Spec => []SizeMatchesData
PROOF
<1>1. TypeOK /\ Accessors => SizeMatchesData
  BY DEF TypeOK, Keys, Accessors, SizeMatchesData, In
<1> QED
  BY <1>1, OnceCorrect, FramingCorrect, PTL

-----------------------------------------------------------------------------
(* Replies reach the client whose request they answer.                     *)

(* A client whose end of file comes next has left.                         *)
LEMMA EofLeft ==
  ASSUME TypeOK, Written, NEW c \in Client, stream[c] # <<>>,
         stream[c][1][1] = "eof"
  PROVE  At(c, "left")
PROOF
<1>1. Len(stream[c]) \in Nat \ {0} /\ 1 \in 1..Len(stream[c])
  BY HeadTail DEF TypeOK
<1>2. CASE Len(stream[c]) = 1
  BY <1>1, <1>2 DEF Written, LastSent
<1>3. CASE Len(stream[c]) # 1
  <2>0. PICK n \in Nat \ {0} : n = Len(stream[c])
    BY <1>1
  <2>1. 2 \in 1..n /\ 2 = 1 + 1
    <3>1. n # 1
      BY <1>3, <2>0
    <3> QED
      BY <3>1
  <2>2. 2 \in 1..Len(stream[c])
    BY <2>0, <2>1
  <2> QED
    BY <1>1, <2>1, <2>2 DEF Written, Follows
<1> QED
  BY <1>2, <1>3

(* No connection is open once start has returned.                          *)
Closed == phase # "serving" => \A p \in Slot : conn[p] = None

(* ~Server closes every connection before the pool stops writing.          *)
LEMMA ClosedCorrect == Spec => []Closed
PROOF
<1>1. Init => Closed
  BY DEF Init, Closed
<1>2. TypeOK /\ Closed /\ [Next]_vars => Closed'
  <2> SUFFICES ASSUME TypeOK, Closed, [Next]_vars PROVE Closed'
    OBVIOUS
  <2>1. CASE UNCHANGED vars
    BY <2>1 DEF vars, flagVars, Closed
  <2>2. CASE Next
    <3>1. Gone \/ shutdown => \A p \in Slot : conn'[p] = None
      BY DEF Gone, shutdown
    <3>2. ASSUME NEW p \in Slot, Accept(p) \/ release(p)
          PROVE  phase' = "serving"
      BY <3>2 DEF Accept, release, Readable, Polling
    <3> QED
      BY <2>2, <3>1, <3>2, OnlyChanges DEF Closed
  <2> QED
    BY <2>1, <2>2
<1> QED
  BY <1>1, <1>2, FramingCorrect, PTL DEF Spec

(* Who has made a request does not change once it is made, and who has     *)
(* left does not come back.                                                *)
LEMMA MakerKept ==
  ASSUME TypeOK, Next
  PROVE  /\ \A r \in Req : r \notin unsent => maker'[r] = maker[r]
         /\ \A c \in Client : At(c, "left") => At(c, "left")'
         /\ phase' = "serving" => phase = "serving"
PROOF
<1>1. ASSUME NEW c \in Client, NEW q \in Req, SendHeader(c, q),
             NEW r \in Req, r \notin unsent
      PROVE  maker'[r] = maker[r]
  BY <1>1 DEF SendHeader, TypeOK
<1>2. \A r \in Req : r \notin unsent => maker'[r] = maker[r]
  BY <1>1, OnlyChanges
<1>3. ASSUME NEW c \in Client, At(c, "left") PROVE At(c, "left")'
  BY <1>3, ClientSteps DEF At
<1>4. phase' = "serving" => phase = "serving"
  BY OnlyChanges DEF Gone, shutdown
<1> QED
  BY <1>2, <1>3, <1>4

(* A slot changes hands only when its client has left.                     *)
LEMMA BelongsKept ==
  ASSUME TypeOK, Framing, Next, NEW r \in Req, NEW p \in Slot,
         r \notin unsent, Belongs(r, p)
  PROVE  Belongs(r, p)'
PROOF
<1>1. PICK c \in Client : c = maker[r] /\ c = maker'[r]
  BY MakerKept DEF Belongs
<1>2. CASE At(c, "left") \/ phase # "serving"
  BY <1>1, <1>2, MakerKept DEF Belongs
<1>3. CASE conn[p] = c /\ ~At(c, "left")
  <2>1. active[p]
    BY <1>3, ClientAssumption DEF Framing, Connections
  <2>2. ASSUME NEW q \in Slot, Accept(q) PROVE conn'[p] = c
    <3>1. ~active[q]
      BY <2>2 DEF Accept, FirstFree
    <3> QED
      BY <1>3, <2>1, <2>2, <3>1 DEF Accept, TypeOK
  <2>3. ASSUME NEW q \in Slot, release(q) PROVE conn'[p] = c
    <3>1. q # p
      <4> SUFFICES ASSUME q = p PROVE FALSE
        OBVIOUS
      <4>1. stream[c] # <<>> /\ Head(stream[c])[1] = "eof"
        BY <1>3, <2>3 DEF release, Readable
      <4>2. Head(stream[c]) = stream[c][1]
        BY <4>1, HeadTail DEF TypeOK
      <4> QED
        BY <1>3, <4>1, <4>2, EofLeft DEF Framing
    <3> QED
      BY <1>3, <2>3, <3>1 DEF release, TypeOK
  <2>4. Gone \/ shutdown => phase' # "serving"
    BY DEF Gone, shutdown
  <2>5. conn'[p] = c \/ phase' # "serving"
    BY <1>3, <2>2, <2>3, <2>4, OnlyChanges
  <2> QED
    BY <1>1, <2>5 DEF Belongs
<1> QED
  BY <1>1, <1>2, <1>3 DEF Belongs

(* Every header, task, handler and message stays with the client that has  *)
(* made the request.                                                       *)
LEMMA RoutedStep ==
  ASSUME TypeOK, Framing, Once, Closed, Routed, Next
  PROVE  Routed'
PROOF
<1>1. ASSUME NEW c \in Client, NEW k \in 1..Len(stream'[c]),
             stream'[c][k][1] = "head"
      PROVE  maker'[stream'[c][k][2]] = c
  <2>1. ASSUME NEW l \in 1..Len(stream[c]), stream'[c][k] = stream[c][l]
        PROVE  maker'[stream'[c][k][2]] = c
    <3>1. PICK u \in Unit : u = stream[c][l]
      BY <2>1 DEF TypeOK
    <3>2. u[1] = "head" /\ u[2] \in Req /\ u = <<"head", u[2]>>
      BY <1>1, <2>1, <3>1 DEF Unit
    <3>3. InStream(u[2])
      BY <2>1, <3>1, <3>2 DEF InStream
    <3>4. u[2] \notin unsent
      BY <3>3 DEF Once
    <3>5. maker[u[2]] = c
      BY <2>1, <3>1, <3>2 DEF Routed
    <3> QED
      BY <2>1, <3>1, <3>2, <3>4, <3>5, MakerKept
  <2>2. ASSUME NEW u \in Unit, Sends(c, u), stream'[c][k] = u
        PROVE  maker'[stream'[c][k][2]] = c
    <3>1. u[1] = "head"
      BY <1>1, <2>2
    <3>2. PICK r \in Req : SendHeader(c, r) /\ u = <<"head", r>>
      BY <2>2, <3>1 DEF Sends
    <3>3. u[2] = r
      BY <3>2
    <3>4. maker'[r] = c
      BY <3>2 DEF SendHeader, TypeOK
    <3> QED
      BY <2>2, <3>3, <3>4
  <2> QED
    BY <2>1, <2>2, StreamFrom DEF Framing
<1>2. ASSUME NEW i \in 1..Len(tasks')
      PROVE  \E r \in Req, p \in Slot :
               /\ tasks'[i].unit[2] = r /\ tasks'[i].pos = p
               /\ Belongs(r, p)'
  <2>1. ASSUME NEW l \in 1..Len(tasks), tasks'[i] = tasks[l]
        PROVE  \E r \in Req, p \in Slot :
               /\ tasks'[i].unit[2] = r /\ tasks'[i].pos = p
               /\ Belongs(r, p)'
    <3>1. PICK t \in Task : t = tasks[l]
      BY <2>1 DEF TypeOK
    <3>2. t.pos \in Slot /\ t.unit \in Unit /\ t.unit[1] = "head"
      BY <2>1, <3>1 DEF Task, Framing, RequestsFramed, TypeOK
    <3>3. t.unit[2] \in Req
      BY <3>2 DEF Unit
    <3>4. Queued(t.unit[2])
      BY <2>1, <3>1 DEF Queued
    <3>5. t.unit[2] \notin unsent /\ Belongs(t.unit[2], t.pos)
      BY <2>1, <3>1, <3>3, <3>4 DEF Once, Routed
    <3>6. PICK r \in Req, p \in Slot : r = t.unit[2] /\ p = t.pos
      BY <3>2, <3>3
    <3>7. Belongs(r, p)'
      BY <3>5, <3>6, BelongsKept
    <3> QED
      BY <2>1, <3>1, <3>6, <3>7
  <2>2. ASSUME NEW p \in Slot, Poll(p), conn[p] \in Client,
               tasks'[i].unit = stream[conn[p]][1], tasks'[i].pos = p
        PROVE  \E r \in Req, q \in Slot :
               /\ tasks'[i].unit[2] = r /\ tasks'[i].pos = q
               /\ Belongs(r, q)'
    <3>1. PICK c \in Client : c = conn[p]
      BY <2>2
    <3>2. PICK u \in Unit : /\ u = stream[c][1] /\ u[1] = "head"
                            /\ u[2] \in Req /\ stream[c] # <<>>
      BY <2>2, <3>1, PolledHeader
    <3>3. 1 \in 1..Len(stream[c])
      BY <3>2, HeadTail DEF TypeOK
    <3>4. u = <<"head", u[2]>>
      BY <3>2 DEF Unit
    <3>5. InStream(u[2])
      BY <3>2, <3>3, <3>4 DEF InStream
    <3>6. u[2] \notin unsent /\ maker[u[2]] = c
      BY <3>2, <3>3, <3>5 DEF Once, Routed
    <3>7. maker'[u[2]] = c /\ conn'[p] = c
      BY <2>2, <3>1, <3>2, <3>6, MakerKept DEF Poll, flagVars
    <3>8. PICK r \in Req : r = u[2]
      BY <3>2
    <3>9. Belongs(r, p)'
      BY <3>7, <3>8 DEF Belongs
    <3> QED
      BY <2>2, <3>1, <3>2, <3>8, <3>9
  <2> QED
    BY <2>1, <2>2, TaskFrom
<1>3. ASSUME NEW r \in Req, handler'[r] # None
      PROVE  \E p \in Slot : handler'[r].pos = p /\ Belongs(r, p)'
  <2>1. ASSUME handler[r] # None, handler'[r].pos = handler[r].pos
        PROVE  \E p \in Slot : handler'[r].pos = p /\ Belongs(r, p)'
    <3>1. PICK p \in Slot : p = handler[r].pos
      BY <2>1, Fields
    <3>2. r \notin unsent /\ Belongs(r, p)
      BY <2>1, <3>1 DEF Once, Routed
    <3>3. Belongs(r, p)'
      BY <3>2, BelongsKept
    <3> QED
      BY <2>1, <3>1, <3>3
  <2>2. CASE Take(r)
    <3>1. PICK p \in Slot : /\ p = tasks[1].pos /\ handler'[r].pos = p
                            /\ tasks[1].unit[2] = r /\ 1 \in 1..Len(tasks)
      BY <2>2, TakeFacts
    <3>2. Queued(r) /\ Belongs(r, p)
      BY <3>1 DEF Queued, Routed
    <3>3. Belongs(r, p)'
      BY <3>2, BelongsKept DEF Once
    <3> QED
      BY <3>1, <3>3
  <2> QED
    BY <1>3, <2>1, <2>2, HandlerFrom
<1>4. ASSUME NEW c \in Client, NEW k \in 1..Len(inbox'[c])
      PROVE  \E m \in Client : /\ m = maker'[inbox'[c][k].req]
                               /\ m = c \/ At(m, "left")'
  <2>1. ASSUME NEW l \in 1..Len(inbox[c]), inbox'[c][k] = inbox[c][l]
        PROVE  \E m \in Client : /\ m = maker'[inbox'[c][k].req]
                                 /\ m = c \/ At(m, "left")'
    <3>1. PICK x \in Item : x = inbox[c][l]
      BY <2>1 DEF TypeOK
    <3>2. x.req \in Req
      BY <3>1 DEF Item
    <3>3. Answered(x.req)
      BY <2>1, <3>1 DEF Answered
    <3>4. x.req \notin unsent
      BY <3>2, <3>3 DEF Once
    <3>5. PICK m \in Client : m = maker[x.req] /\ (m = c \/ At(m, "left"))
      BY <2>1, <3>1 DEF Routed
    <3>6. maker'[x.req] = m /\ (m = c \/ At(m, "left")')
      BY <3>2, <3>4, <3>5, MakerKept
    <3> QED
      BY <2>1, <3>1, <3>6
  <2>2. ASSUME NEW r \in Req, inbox'[c][k].req = r, handler[r] # None,
               c = conn[handler[r].pos]
        PROVE  \E m \in Client : /\ m = maker'[inbox'[c][k].req]
                                 /\ m = c \/ At(m, "left")'
    <3>1. PICK p \in Slot : p = handler[r].pos
      BY <2>2, Fields
    <3>2. phase = "serving"
      BY <2>2, <3>1, ClientAssumption DEF Closed
    <3>3. r \notin unsent /\ Belongs(r, p)
      BY <2>2, <3>1 DEF Once, Routed
    <3>4. PICK m \in Client : m = maker[r] /\ (m = c \/ At(m, "left"))
      BY <2>2, <3>1, <3>2, <3>3 DEF Belongs
    <3>5. maker'[r] = m /\ (m = c \/ At(m, "left")')
      BY <3>3, <3>4, MakerKept
    <3> QED
      BY <2>2, <3>5
  <2>3. ASSUME NEW r \in Req, inbox'[c][k] = ReplyOf(r)
        PROVE  inbox'[c][k].req = r
    BY <2>3 DEF ReplyOf
  <2>4. ASSUME NEW r \in Req, NEW x, inbox'[c][k] = DataOf(r, x)
        PROVE  inbox'[c][k].req = r
    BY <2>4 DEF DataOf
  <2>5. ASSUME NEW r \in Req, WriteReply(r) \/ WriteData(r)
        PROVE  handler[r] # None
    BY <2>5, Messages
  <2>6. CASE \E l \in 1..Len(inbox[c]) : inbox'[c][k] = inbox[c][l]
    BY <2>1, <2>6
  <2>7. CASE \E r \in Req : /\ WriteReply(r) /\ inbox'[c][k] = ReplyOf(r)
                            /\ c = conn[handler[r].pos]
    BY <2>2, <2>3, <2>5, <2>7
  <2>8. CASE \E r \in Req, x \in Req \cup {None} :
               /\ WriteData(r) /\ inbox'[c][k] = DataOf(r, x)
               /\ c = conn[handler[r].pos]
    BY <2>2, <2>4, <2>5, <2>8
  <2> QED
    BY <2>6, <2>7, <2>8, InboxFrom
<1>5. \A i \in 1..Len(tasks') : Belongs(tasks[i].unit[2], tasks[i].pos)'
  BY <1>2 DEF Belongs, At
<1>6. \A r \in Req : handler'[r] # None => Belongs(r, handler[r].pos)'
  BY <1>3 DEF Belongs, At
<1>7. \A c \in Client : \A k \in 1..Len(inbox'[c]) :
        LET m == maker'[inbox'[c][k].req] IN
        m \in Client /\ (m = c \/ client'[m].at = "left")
  <2> SUFFICES ASSUME NEW c \in Client, NEW k \in 1..Len(inbox'[c])
               PROVE  LET m == maker'[inbox'[c][k].req] IN
                      m \in Client /\ (m = c \/ client'[m].at = "left")
    OBVIOUS
  <2>1. PICK m \in Client : /\ m = maker'[inbox'[c][k].req]
                            /\ m = c \/ At(m, "left")'
    BY <1>4
  <2> QED
    BY <2>1 DEF At
<1> QED
  BY <1>1, <1>5, <1>6, <1>7 DEF Routed, At

(* Answers of the pool reach the client that has made the request, or      *)
(* that client has left: a slot is given away only then.                   *)
THEOREM RoutedCorrect == Spec => []RepliesRouted
PROOF
<1>1. Init => Routed
  <2> SUFFICES ASSUME Init PROVE Routed
    OBVIOUS
  <2>1. /\ Len(tasks) = 0
        /\ \A c \in Client : Len(stream[c]) = 0 /\ Len(inbox[c]) = 0
        /\ \A r \in Req : handler[r] = None
    BY DEF Init
  <2> QED
    BY <2>1 DEF Routed
<1>2. TypeOK /\ Framing /\ Once /\ Closed /\ Routed /\ [Next]_vars => Routed'
  <2> SUFFICES ASSUME TypeOK, Framing, Once, Closed, Routed, UNCHANGED vars
               PROVE  Routed'
    BY RoutedStep
  <2>1. UNCHANGED <<stream, tasks, handler, inbox, maker, conn, client, phase>>
    BY DEF vars, flagVars, poolVars, wireVars, userVars
  <2> QED
    BY <2>1 DEF Routed, Belongs, At
<1>3. TypeOK /\ Routed => RepliesRouted
  <2> SUFFICES ASSUME TypeOK, Routed PROVE RepliesRouted
    OBVIOUS
  <2>1. \A c \in Client : DOMAIN inbox[c] = 1..Len(inbox[c])
    BY DEF TypeOK
  <2> QED
    BY <2>1 DEF Routed, RepliesRouted
<1> QED
  BY <1>1, <1>2, <1>3, FramingCorrect, OnceCorrect, ClosedCorrect, PTL
  DEF Spec

=============================================================================
