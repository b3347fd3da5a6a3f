---------------------------- MODULE SessionExec ----------------------------
(***************************************************************************)
(* The session executor: the process that runs the functions of one        *)
(* session.  Its main thread takes one request from the control plane and  *)
(* then reads requests from the client over the data plane; a pool of      *)
(* max_functions threads runs them and writes the replies to the client.   *)
(*                                                                         *)
(*   src/runtime/lib/{session,function}.cpp, bin/session_cli.cpp and       *)
(*   include/praas/{session,function,buffer,output}.hpp                    *)
(*                                                                         *)
(* A connection is a stream of units of half a request each, so that a     *)
(* read can start in the middle of a request; a payload is zero or more    *)
(* units, and no payload looks like a request.  A step is one system call, *)
(* one critical section of the buffer queue, or one operation of the pool. *)
(***************************************************************************)
EXTENDS Integers, Sequences, FiniteSets

CONSTANTS
  Inv,            \* invocations, each with its own function_id
  Known,          \* those whose function the library has
  Bytes,          \* the size of the payload of each
  MaxFunctions,   \* the values of --max-functions to consider
  ElemSize,       \* size of the buffers made at the start (6 MB)
  MaxSends,       \* bound: Channel::send calls of one invocation
  None            \* no value

HalfRequest == 20

(* Units of n bytes; a long payload is shortened to MaxUnits of them.      *)
MaxUnits == 3
UnitsOf(n) == IF n > MaxUnits * HalfRequest THEN MaxUnits
              ELSE (n + HalfRequest - 1) \div HalfRequest
Units(i) == UnitsOf(Bytes[i])

ASSUME ExecAssumption ==
  /\ Known \subseteq Inv /\ IsFiniteSet(Inv)
  /\ Bytes \in [Inv -> Nat]
  /\ MaxFunctions \subseteq Nat \ {0} /\ IsFiniteSet(MaxFunctions)
  /\ ElemSize \in Nat \ {0}
  /\ MaxSends \in Nat
  /\ None \notin Inv

Thread == UNION {1..m : m \in MaxFunctions}

VARIABLES
  max_functions,  \* the size of the pool
  phase,          \* where Session::start is
  rx,             \* in receive: the request whose payload is awaited, or None
  cpIn,           \* what the control plane wrote before it closed
  dpIn,           \* the data plane, not read yet
  dp,             \* the client's side: none, open, closed, reset
  owing,          \* the client has written this request without its payload
  unsent,         \* invocations the client has not requested
  _buffers,       \* BufferQueue: [val, size]; val 0 is nullptr
  mem,            \* whose payload the memory at an address holds
  tasks,          \* the queue of _pool
  thread,         \* the invocation each thread of _pool runs, or None
  wire,           \* the last item written to the data plane
  replies         \* kinds of the items written for each invocation

mainVars == <<max_functions, phase, rx>>
clientVars == <<owing, unsent>>
poolVars == <<tasks, thread>>
outVars == <<wire, replies>>
vars == <<mainVars, cpIn, dpIn, dp, clientVars, _buffers, mem, poolVars,
          outVars>>

(* Addresses: one per initial buffer, and one per buffer that a nullptr    *)
(* may be replaced by.                                                     *)
Addr == 1..(2 * Cardinality(Thread) + Cardinality(Inv))

Null == [val |-> 0, size |-> 0]
Buffer == {Null} \cup [val : Addr, size : Nat \ {0}]
Receipt == [inv : Inv, buf : Buffer]
Task == [inv : Inv, got : Int, buf : Buffer]
Running == [inv : Inv, got : Int, buf : Buffer, sends : 0..MaxSends,
            pc : {"start", "run", "data", "return"}]
Unit == {"head", "rest", "body"} \X (Inv \cup {None})
Kind == {"empty", "header", "data", "end", "error"}
Item == [kind : Kind, inv : Inv \cup {None}]

ASSUME NoneAssumption == None \notin Receipt /\ None \notin Running

(* What is written for a request; None has an empty function name.         *)
Request(i) == << <<"head", i>>, <<"rest", i>> >>
Payload(i) == [k \in 1..Units(i) |-> <<"body", i>>]
Message(i) == Request(i) \o Payload(i)

(* Worker::process_session writes all that is queued, or an empty request. *)
(* Bound: two are queued.                                                  *)
QueuedFor(i, j) == IF i = None THEN Request(None)
                   ELSE IF j = None THEN Message(i)
                   ELSE Message(i) \o Message(j)

-----------------------------------------------------------------------------
(* Session::Session fills the queue of buffers.                            *)
Init ==
  /\ max_functions \in MaxFunctions
  /\ phase = "starting" /\ rx = None
  /\ \E i, j \in Inv \cup {None} :
       /\ i = j => i = None
       /\ cpIn = QueuedFor(i, j)
       /\ unsent = Inv \ {i, j}
  /\ dpIn = <<>> /\ dp = "none" /\ owing = None
  /\ _buffers = [k \in 1..(2 * max_functions) |->
                   [val |-> k, size |-> ElemSize]]
  /\ mem = [a \in Addr |-> None]
  /\ tasks = <<>> /\ thread = [t \in Thread |-> None]
  /\ wire = None /\ replies = [i \in Inv |-> <<>>]

-----------------------------------------------------------------------------
(* The client: it sends requests, each followed by its payload, and leaves *)
(* when it likes, in the middle of one too.                                *)

ClientRequest(i) ==
  /\ dp = "open" /\ owing = None
  /\ i \in unsent
  /\ dpIn' = dpIn \o Request(i)
  /\ owing' = IF Units(i) > 0 THEN i ELSE None
  /\ unsent' = unsent \ {i}
  /\ UNCHANGED <<mainVars, cpIn, dp, _buffers, mem, poolVars, outVars>>

ClientPayload ==
  /\ dp = "open" /\ owing # None
  /\ dpIn' = dpIn \o Payload(owing)
  /\ owing' = None
  /\ UNCHANGED <<mainVars, cpIn, dp, unsent, _buffers, mem, poolVars, outVars>>

(* It closes the connection, and requests nothing more; a reset loses what *)
(* was not read.                                                           *)
ClientLeaves ==
  /\ dp = "open"
  /\ \/ dp' = "closed" /\ UNCHANGED dpIn
     \/ dp' = "reset" /\ dpIn' = <<>>
  /\ unsent' = {} /\ owing' = None
  /\ UNCHANGED <<mainVars, cpIn, _buffers, mem, poolVars, outVars>>

-----------------------------------------------------------------------------
(* output::Channel: one send() per item; it fails, and is only logged, when *)
(* the client has left.                                                    *)
send(k, i) ==
  IF dp = "open"
    THEN /\ wire' = [kind |-> k, inv |-> i]
         /\ replies' = IF i = None THEN replies
                       ELSE [replies EXCEPT ![i] = Append(@, k)]
    ELSE UNCHANGED outVars

-----------------------------------------------------------------------------
(* Session::start up to the first receive.                                 *)

(* Memory opened, control plane connected, client paired.                  *)
Start ==
  /\ phase = "starting"
  /\ phase' = "first" /\ dp' = "open"
  /\ UNCHANGED <<max_functions, rx, cpIn, dpIn, clientVars, _buffers, mem,
                 poolVars, outVars>>

(* No shared memory or no control plane: start returns.                    *)
StartFails ==
  /\ phase = "starting"
  /\ phase' = "ended"
  /\ UNCHANGED <<max_functions, rx, cpIn, dpIn, dp, clientVars, _buffers, mem,
                 poolVars, outVars>>

(* The process is gone with its threads and its memory.                    *)
Exit ==
  /\ phase' = "dead"
  /\ rx' = None /\ tasks' = <<>> /\ thread' = [t \in Thread |-> None]
  /\ _buffers' = <<>> /\ mem' = [a \in Addr |-> None]
  /\ cpIn' = <<>> /\ dpIn' = <<>>
  /\ dp' = IF dp = "none" THEN dp ELSE "closed"
  /\ unsent' = {} /\ owing' = None
  /\ UNCHANGED <<max_functions, outVars>>

(* The configuration, a library or a function cannot be loaded.            *)
LoadFails == phase = "starting" /\ Exit

(* A function crashes, or SIGTERM: the handler exits at once.              *)
Crash == phase \notin {"starting", "ended", "dead"} /\ Exit

-----------------------------------------------------------------------------
(* buffer::BufferQueue.                                                    *)

(* The addresses in use, to find one that operator new may return.         *)
Live ==
  {_buffers[k].val : k \in DOMAIN _buffers}
    \cup {tasks[k].buf.val : k \in DOMAIN tasks}
    \cup {thread[t].buf.val : t \in {u \in Thread : thread[u] # None}}
Fresh == CHOOSE a \in Addr : a \notin Live

(* retrieve_buffer takes the first buffer, and replaces it by one of the   *)
(* size asked for when that exceeds the NUMBER of buffers in the queue.    *)
(* And: a replaced nullptr stays a nullptr.                                *)
Retrieved_unallocated(size) ==
  IF _buffers = <<>> THEN Null
  ELSE IF Len(_buffers) < size
    THEN [val |-> Head(_buffers).val, size |-> size]
    ELSE Head(_buffers)
Retrieved(size) ==
  LET b == Head(_buffers) IN
  IF _buffers = <<>> THEN Null
  ELSE IF Len(_buffers) < size
    THEN [val |-> IF b.val = 0 THEN Fresh ELSE b.val, size |-> size]
    ELSE b

(* The queue after retrieve_buffer; and the pop forgotten.                 *)
Popped_not == _buffers
Popped == IF _buffers = <<>> THEN _buffers ELSE Tail(_buffers)

-----------------------------------------------------------------------------
(* Session::receive, from the control plane first and then in a loop from  *)
(* the client.                                                             *)

Receiving == phase \in {"first", "loop"} /\ rx = None
Stream == IF phase = "first" THEN cpIn ELSE dpIn
Consume(n) ==
  IF phase = "first"
    THEN cpIn' = SubSeq(cpIn, n + 1, Len(cpIn)) /\ UNCHANGED dpIn
    ELSE dpIn' = SubSeq(dpIn, n + 1, Len(dpIn)) /\ UNCHANGED cpIn

(* End of file: the loop ends; the result of the first receive is ignored. *)
(* And: the loop goes on.                                                  *)
AfterEof_goesOn == "loop"
AfterEof == IF phase = "first" THEN "loop" ELSE "waiting"

ReadEof ==
  /\ Receiving
  /\ Stream = <<>> /\ (phase = "first" \/ dp = "closed")
  /\ phase' = AfterEof
  /\ UNCHANGED <<max_functions, rx, cpIn, dpIn, dp, clientVars, _buffers, mem,
                 poolVars, outVars>>

(* read() reports the reset once; the loop goes on, to an end of file.     *)
ReadError ==
  /\ Receiving /\ phase = "loop" /\ dp = "reset"
  /\ dp' = "closed"
  /\ UNCHANGED <<mainVars, cpIn, dpIn, clientVars, _buffers, mem, poolVars,
                 outVars>>

(* RecvMessageBuffer::parse: the read has the length of a request, and     *)
(* starts where one starts.                                                *)
Parses(n) == \E i \in Inv \cup {None} : SubSeq(Stream, 1, n) = Request(i)

(* A read of at most the length of a request that parses as none.          *)
ReadUnknown(n) ==
  /\ Receiving
  /\ n <= Len(Stream)
  /\ ~Parses(n)
  /\ Consume(n)
  /\ send("error", None)
  /\ phase' = "loop"
  /\ UNCHANGED <<max_functions, rx, dp, clientVars, _buffers, mem, poolVars>>

ReadRequest(i) ==
  /\ Receiving
  /\ Len(Stream) >= 2 /\ SubSeq(Stream, 1, 2) = Request(i)
  /\ Consume(2)

(* An empty function name: nothing to invoke.                              *)
ReceiveEmpty ==
  /\ ReadRequest(None)
  /\ phase' = "loop"
  /\ UNCHANGED <<max_functions, rx, dp, clientVars, _buffers, mem, poolVars,
                 outVars>>

(* What payload() says is coming.  The control plane stores the low 16 bits *)
(* of the size in a field of 32 bits that is zero otherwise; a client the  *)
(* size itself.  And: the 16 bits are read with their sign.                *)
Announced_signed(i) ==
  LET n == Bytes[i] % 65536 IN
  IF phase # "first" THEN Bytes[i] ELSE IF n < 32768 THEN n ELSE n - 65536
Announced(i) == IF phase = "first" THEN Bytes[i] % 65536 ELSE Bytes[i]

(* No payload: the task gets a default-constructed buffer.                 *)
ReceiveBare(i) ==
  /\ ReadRequest(i)
  /\ Announced(i) <= 0
  /\ tasks' = Append(tasks, [inv |-> i, got |-> 0, buf |-> Null])
  /\ phase' = "loop"
  /\ UNCHANGED <<max_functions, rx, dp, clientVars, _buffers, mem, thread,
                 outVars>>

(* A buffer is taken from the queue for the payload.                       *)
ReceiveHeader(i) ==
  /\ ReadRequest(i)
  /\ Announced(i) > 0
  /\ Retrieved(Announced(i)).size > 0
  /\ _buffers' = Popped
  /\ rx' = [inv |-> i, buf |-> Retrieved(Announced(i))]
  /\ UNCHANGED <<max_functions, phase, dp, clientVars, mem, poolVars, outVars>>

(* OUT_OF_MEMORY; the payload stays in the stream.                         *)
ReceiveRefused(i) ==
  /\ ReadRequest(i)
  /\ Announced(i) > 0
  /\ Retrieved(Announced(i)).size = 0
  /\ _buffers' = Popped
  /\ send("error", i)
  /\ phase' = "loop"
  /\ UNCHANGED <<max_functions, rx, dp, clientVars, mem, poolVars>>

(* read_n returns with the payload whole, or cut short by the end of the   *)
(* stream, or with -1; whatever it returns, the function is invoked.       *)
PayloadRead(n) ==
  \/ n = UnitsOf(Announced(rx.inv)) /\ n <= Len(Stream)
  \/ /\ phase = "loop" /\ n < UnitsOf(Announced(rx.inv))
     /\ \/ dp = "closed" /\ n = Len(dpIn)
        \/ dp = "reset" /\ n # 0

(* Where the payload goes besides its buffer: receive reads as much as was *)
(* announced, and past the end of a smaller buffer into whatever is there. *)
Spill == IF Announced(rx.inv) <= rx.buf.size THEN {rx.buf.val} ELSE Addr

ReceivePayload(n) ==
  /\ rx # None
  /\ PayloadRead(n)
  /\ IF n <= Len(Stream) /\ n > 0 THEN Consume(n) ELSE UNCHANGED <<cpIn, dpIn>>
  /\ dp' = IF dp = "reset" /\ phase = "loop" THEN "closed" ELSE dp
  /\ \E a \in Spill : LET x == IF n <= Len(Stream) THEN Head(Stream)[2]
                                 ELSE rx.inv IN
       mem' = IF n > 0 THEN [mem EXCEPT ![rx.buf.val] = x, ![a] = x] ELSE mem
  /\ tasks' = Append(tasks, [inv |-> rx.inv, got |-> n, buf |-> rx.buf])
  /\ rx' = None /\ phase' = "loop"
  /\ UNCHANGED <<max_functions, clientVars, _buffers, thread, outVars>>

(* _pool.wait_for_tasks: nothing queued and nothing running.               *)
TasksDone == tasks = <<>> /\ \A t \in Thread : thread[t] = None

(* start returns, and main: memory is unmapped, the buffers are deleted,   *)
(* the process ends.                                                       *)
Finish ==
  /\ phase = "waiting"
  /\ TasksDone
  /\ phase' = "ended"
  /\ _buffers' = <<>> /\ mem' = [a \in Addr |-> None]
  /\ UNCHANGED <<max_functions, rx, cpIn, dpIn, dp, clientVars, poolVars,
                 outVars>>

-----------------------------------------------------------------------------
(* A thread of the pool: FunctionWorker::invoke.                           *)

At(t, l) == thread[t] # None /\ thread[t].pc = l
Goto(t, l) == thread' = [thread EXCEPT ![t].pc = l]

TakeTask(t) ==
  /\ t <= max_functions
  /\ thread[t] = None /\ tasks # <<>>
  /\ thread' = [thread EXCEPT ![t] =
                  [inv |-> Head(tasks).inv, got |-> Head(tasks).got,
                   buf |-> Head(tasks).buf, sends |-> 0, pc |-> "start"]]
  /\ tasks' = Tail(tasks)
  /\ UNCHANGED <<mainVars, cpIn, dpIn, dp, clientVars, _buffers, mem, outVars>>

get_function(i) == i \in Known

FindFunction(t) ==
  /\ At(t, "start")
  /\ get_function(thread[t].inv)
  /\ Goto(t, "run")
  /\ UNCHANGED <<mainVars, cpIn, dpIn, dp, clientVars, _buffers, mem, tasks,
                 outVars>>

(* After UNKNOWN_FUNCTION _invoke returns; and: goes on.                   *)
AfterError_goesOn == "run"
AfterError == "return"

(* UNKNOWN_FUNCTION is sent to the client; and: it is only logged.         *)
Refused_logged(t) == UNCHANGED outVars
Refused(t) == send("error", thread[t].inv)

UnknownFunction(t) ==
  /\ At(t, "start")
  /\ ~get_function(thread[t].inv)
  /\ Refused(t)
  /\ Goto(t, AfterError)
  /\ UNCHANGED <<mainVars, cpIn, dpIn, dp, clientVars, _buffers, mem, tasks>>

(* The function calls Channel::send: a header, and by a second system call *)
(* the payload, unless it is empty or the header could not be sent.        *)
SendHeader(t) ==
  /\ At(t, "run")
  /\ thread[t].sends < MaxSends
  /\ \E k \in {"empty", "header"} :
       /\ send(k, thread[t].inv)
       /\ thread' = [thread EXCEPT
                       ![t].sends = @ + 1,
                       ![t].pc = IF k = "header" /\ dp = "open" THEN "data"
                                 ELSE "run"]
  /\ UNCHANGED <<mainVars, cpIn, dpIn, dp, clientVars, _buffers, mem, tasks>>

SendData(t) ==
  /\ At(t, "data")
  /\ send("data", thread[t].inv)
  /\ Goto(t, "run")
  /\ UNCHANGED <<mainVars, cpIn, dpIn, dp, clientVars, _buffers, mem, tasks>>

(* The function returns.                                                   *)
mark_end(t) ==
  /\ At(t, "run")
  /\ send("end", thread[t].inv)
  /\ Goto(t, "return")
  /\ UNCHANGED <<mainVars, cpIn, dpIn, dp, clientVars, _buffers, mem, tasks>>

(* return_buffer, of a nullptr too (what the memory of a free buffer holds *)
(* is not kept).  And: not after an unknown function.                      *)
Returned_ifKnown(t) ==
  IF get_function(thread[t].inv) THEN Append(_buffers, thread[t].buf)
  ELSE _buffers
Returned(t) == Append(_buffers, thread[t].buf)

return_buffer(t) ==
  /\ At(t, "return")
  /\ _buffers' = Returned(t)
  /\ mem' = IF thread[t].buf.val = 0 THEN mem
            ELSE [mem EXCEPT ![thread[t].buf.val] = None]
  /\ thread' = [thread EXCEPT ![t] = None]
  /\ UNCHANGED <<mainVars, cpIn, dpIn, dp, clientVars, tasks, outVars>>

-----------------------------------------------------------------------------
Main ==
  \/ ReadEof \/ ReadError \/ ReceiveEmpty \/ Finish
  \/ \E n \in 1..2 : ReadUnknown(n)
  \/ \E i \in Inv : ReceiveBare(i) \/ ReceiveHeader(i) \/ ReceiveRefused(i)
  \/ \E n \in -1..(IF rx = None THEN -2 ELSE Units(rx.inv)) : ReceivePayload(n)

Worker(t) ==
  \/ TakeTask(t) \/ FindFunction(t) \/ UnknownFunction(t) \/ SendHeader(t)
  \/ SendData(t) \/ mark_end(t) \/ return_buffer(t)

Client == (\E i \in Inv : ClientRequest(i)) \/ ClientPayload \/ ClientLeaves

Next ==
  \/ Start \/ StartFails \/ LoadFails \/ Crash \/ Main \/ Client
  \/ \E t \in Thread : Worker(t)

Spec == Init /\ [][Next]_vars

(* The scheduler runs every thread and functions return; nothing is        *)
(* assumed of the client.                                                  *)
FairSpec == Spec /\ WF_vars(Main) /\ \A t \in Thread : WF_vars(Worker(t))

-----------------------------------------------------------------------------
(* Properties.                                                             *)

(* Every variable has its type; in particular a buffer has a size exactly  *)
(* when it has memory.                                                     *)
TypeOK ==
  /\ max_functions \in MaxFunctions
  /\ phase \in {"starting", "first", "loop", "waiting", "ended", "dead"}
  /\ rx \in Receipt \cup {None}
  /\ cpIn \in Seq(Unit) /\ dpIn \in Seq(Unit)
  /\ dp \in {"none", "open", "closed", "reset"}
  /\ owing \in Inv \cup {None} /\ unsent \subseteq Inv
  /\ _buffers \in Seq(Buffer)
  /\ mem \in [Addr -> Inv \cup {None}]
  /\ tasks \in Seq(Task)
  /\ thread \in [Thread -> Running \cup {None}]
  /\ wire \in Item \cup {None} /\ replies \in [Inv -> Seq(Kind)]

Busy(t) == thread[t] # None

(* retrieve_buffer compares a size with the number of buffers.  A size that *)
(* gets a buffer at least as large whatever the queue holds: one byte, or  *)
(* more than there can ever be buffers.                                    *)
SafeSize(n) == n <= 1 \/ n > 2 * Cardinality(Thread) + Cardinality(Inv)

(* A function finds in its buffer the payload of its own request, from the *)
(* read until it has returned, while other requests are read and other     *)
(* functions return their buffers.  The code keeps this for payloads that  *)
(* are SafeSize; others can be read past the end of their buffer.          *)
InputIntact ==
  /\ \A k \in DOMAIN tasks :
       tasks[k].got > 0 => mem[tasks[k].buf.val] = tasks[k].inv
  /\ \A t \in Thread :
       Busy(t) /\ thread[t].got > 0 => mem[thread[t].buf.val] = thread[t].inv

(* A function is given all of its payload, of up to the 65535 bytes that   *)
(* the control plane announces correctly, unless the client has left.      *)
InputWhole ==
  dp = "open" =>
    /\ \A k \in DOMAIN tasks : tasks[k].got = Units(tasks[k].inv)
    /\ \A t \in Thread : Busy(t) => thread[t].got = Units(thread[t].inv)

(* Where the memory at an address is: in the queue, with receive, with a   *)
(* task or with a thread.                                                  *)
Places(a) ==
  Cardinality({k \in DOMAIN _buffers : _buffers[k].val = a})
    + (IF rx # None THEN IF rx.buf.val = a THEN 1 ELSE 0 ELSE 0)
    + Cardinality({k \in DOMAIN tasks : tasks[k].buf.val = a})
    + Cardinality({t \in Thread : Busy(t) /\ thread[t].buf.val = a})

(* The buffers of the session circulate: whatever is refused, cut short or *)
(* unknown, each of them is in one place and comes back.                   *)
BuffersConserved ==
  phase \notin {"ended", "dead"} =>
    \A a \in 1..(2 * max_functions) : Places(a) = 1

Final(k) == k \in {"end", "error"}

(* An invocation gets one final answer, and nothing after it, although     *)
(* receive, the pool and the functions all answer.                         *)
AnsweredOnce ==
  \A i \in Inv : \A k \in 1..(Len(replies[i]) - 1) : ~Final(replies[i][k])

(* A reply that announces a payload is followed by that payload ("upcoming *)
(* return data, payload size describe data size", messages.hpp:22).        *)
RepliesFramed ==
  [][wire # None =>
       (wire.kind = "header" =>
          wire' \in {wire, [kind |-> "data", inv |-> wire.inv]})]_vars

Accepted(i) == \/ \E k \in DOMAIN tasks : tasks[k].inv = i
               \/ \E t \in Thread : Busy(t) /\ thread[t].inv = i
Answered(i) == \E k \in DOMAIN replies[i] : Final(replies[i][k])

(* Every invocation that was accepted is answered, unless the client has   *)
(* left or the session crashed.                                            *)
AcceptedAnswered ==
  \A i \in Inv : Accepted(i) ~> (Answered(i) \/ dp # "open")

(* Once the client has left the session ends, whatever it was doing; this  *)
(* is what makes the subprocess swap it out.                               *)
SessionEnds ==
  dp \in {"closed", "reset"} ~> phase \in {"ended", "dead"}
=============================================================================
