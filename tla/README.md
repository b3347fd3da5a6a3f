# PraaS: specifications of the control plane and the runtime

PraaS (processes as a service) runs user functions inside long-lived *sessions*.
A session has a shared memory that survives it: when the session ends its memory
is swapped out to S3, and a later request swaps it in again. Sessions live in
*subprocesses* of a fixed capacity, and a control plane decides which session
lives where. This directory specifies that machinery in TLA+, checks it with TLC
on small instances and proves its safety with TLAPS for all instances. Source
paths below are relative to the repository.

## The system

| Component | State | Operations | Talks to | Modelled in |
|---|---|---|---|---|
| HTTP front end (`system/control-plane/http.cpp`) | none of its own | `/add_process`, `/add_session`, `/invoke` on one thread | calls the worker | ControlPlane |
| Workers (`worker.cpp`) | Redis keys `PROCESS_`, `SESSION_`, sets `SESSIONS_ALIVE_`, `SESSIONS_SWAPPED_` | `process_allocation`, `process_client`, `process_process`, `process_session`, `handle_message`, closures | Redis, resources, sockets of the subprocesses | ControlPlane |
| Resources (`resources.cpp`) | tables of processes and sessions, slot counters, one mutex | add, get, remove | shared by all threads | ControlPlane |
| Server (`server.cpp`) | epoll set, pool queue | accept, poll, re-arm | pool threads | ControlPlane |
| Backend (`backend.cpp`) | connection to the local worker | `allocate_process` | local worker or serving | Launch; its effect in ControlPlane |
| Process runtime (`runtime/lib/process.cpp`) | vector of session forks, one mutex | `start`, `allocate_session`, `session_deleted`, `shutdown`, SIGCHLD handler | control plane, kernel, S3 | ProcessRuntime |
| Shared memory and forks (`runtime/lib/session.cpp`) | a POSIX shared memory object and a child per session | create, open, move, unlink, vfork | kernel | ProcessRuntime |
| Swapper (`runtime/lib/swapper.cpp`) | S3 client | swap, swap_in | S3 | ProcessRuntime |
| Session executor (`session.cpp`, `function.cpp`) | buffers, thread pool, two sockets | receive loop, invoke, wait | control plane, client | SessionExec |
| Buffers, output channel (`buffer.hpp`, `output.hpp`) | queue of buffers; a socket | retrieve, return; send | function threads | SessionExec |
| Wire formats (`common/messages.*`, `runtime/lib/messages.cpp`) | byte layouts | fill, parse | both sides | partly (what they carry) |
| Local memory controller (`runtime/local-memory`, client `praas/global_memory.hpp`) | connections with busy flags, pool, table of objects | accept, poll, CREATE, GET, PUT, DELETE | functions | LocalMemory |
| Local worker, serving (`system/local-worker`, `system/praas-serving`) | slots, threads | start a subprocess, shut down | backend, subprocesses | Launch |
| Command lines, options, examples | | argument parsing | | not modelled: pure I/O |

What is hard in it:

* three kinds of thread change one session's record: the HTTP thread places it,
  pool threads request it, hand it its invocations and close it. Only part of
  that happens under `_sessions_mutex`; Redis is updated one key at a time and
  always outside it;
* the slot counter is a plain integer, incremented without the mutex and decremented
  with it: an update can be lost;
* a session's id, its `Session` object and its Redis keys are reused by every
  life of the session;
* a subprocess exists for the control plane before it has connected;
* a subprocess learns of a child's end by a signal, handles it on a detached
  thread, and reports it after releasing its mutex;
* memory changes hands between a child, a vector of movable owners, and S3, and
  each of the calls in between can fail;
* in a session, the receiving thread and the function threads share the buffers and
  the socket to the client, and requests are framed by nothing but their length;
* in the memory controller the main thread and the pool share connections by a flag
  that one sets after it has handed the work to the other, and slots are used again
  while handlers still hold their number;
* a launcher serves one connection at a time, and its signal handler walks the same
  table that its main thread is filling.

What makes it correct: a session exists at most once; the slots of a process are
counted; a session that ran before comes back with the memory it left and a new one
starts empty; a session that is asked for is started unless there is no room for it;
a function gets the payload of its own invocation and one final answer leaves for it; an
ended session is eventually on record as swapped; memory and children are released. Not
all of that holds of this code, see the violations below. Nothing at all is promised of
the invocations that `process_session` hands over: it pops them whatever the writes
return (`worker.cpp:290`), also when the connection is that of an earlier life.
`PROJECT.json` lists the hazards one by one.

## Modules

* `ControlPlane.tla` — the control plane, with the subprocesses as its
  environment. One step is one Redis call, one critical section, or one access to
  shared tables outside the mutex. Variables keep the names of the fields
  (`allocated_sessions`, `swap_in`, `allocations`, ...). The locals of
  `process_client` are the record `http`, those of a pool thread
  `worker[w]`; their `pc` names the place between two steps.
  `process_process` holds the mutex over its loop, so it has a lock step, one step
  per session requested, and an unlock step. A socket that is not open loses what
  is written to it (`WriteRequest`). The increment and the decrement of the slot counter
  are each a load and a store, two steps; the store writes the value loaded, whatever the
  counter is by then. A subprocess may refuse any request. Requests that are
  refused with 400 before anything changed are stuttering steps.
  `lives`, `sent` and `lost` are history variables; `lost` has the processes
  for which a store has overwritten the store of another thread.
* `ProcessRuntime.tla` — one subprocess from the inside, with the kernel, S3 and
  the control plane as its environment. `allocate_session` and the first half of
  `session_deleted` are critical sections of one mutex and hence single steps;
  the messages are written after it. The content of a shared memory object is the
  number of the session's last write. `Faults` says which calls may fail.
* `SessionExec.tla` — the process that runs the functions of one session, with the
  client and the queued invocations of the control plane as its environment. `phase`
  is where `Session::start` is; `rx` is the local state of `receive` between the
  request and its payload; `tasks` and `thread` are the pool. A step is one system
  call, one critical section of the buffer queue or one operation of the pool, so a
  reply is two steps. A payload longer than the buffer it is read into overruns it
  (`Spill`). `wire` and `replies` record what the client is sent.
* `LocalMemory.tla` — the memory controller with its clients. `main` is the slot whose
  flag the main thread is about to set, `handler[r]` the thread that works on request
  `r`. A step is one system call, one access to a flag, or one operation of the table;
  the accessor that a GET holds keeps writers of its object out until its data are sent.
  What those data are is `Contents`: the buffer that the table points to was deleted by
  the handler that stored it. `maker` is the history of who sent a request.
* `Launch.tla` — how a subprocess comes to life: backends, and a launcher that is the
  local worker or the serving (`kind`). The main thread is at `pc`; the signal handler
  is at slot `handler.i`, on the main thread, which then stands still, or on another.
* `SessionPlacement.tla` — abstract: what the control plane promises about sessions.
  Every session is nowhere, on its way to one process (anew the first time, resumed
  later), or running there; a process that is asked for it starts it or refuses it.
* `SessionStore.tla` — abstract: what a subprocess promises. A session is away, running
  or ended; it begins with the memory it left, changes it only while it runs, and is
  put away with it.
* `MCControlPlane.tla`, `MCProcessRuntime.tla`, `MCSessionExec.tla`,
  `MCLocalMemory.tla`, `MCLaunch.tla` — the constants of the instances.
* `ControlPlaneProofs.tla`, `SingleInstanceProofs.tla`, `PlacementProofs.tla`,
  `RefinementProofs.tla` — the theorems about `ControlPlane`, each module resting on the
  one before it.
* `ProcessRuntimeProofs.tla`, `SessionExecProofs.tla`, `LocalMemoryProofs.tla`,
  `LaunchProofs.tla` — the theorems about the module they are named for.

Operators whose name is that of another with a suffix (`HasRoom_offByOne` before
`HasRoom`) are mistakes the code could make; no specification uses them. They
serve to see that a property notices (`mutants` in `PROJECT.json`).

### Refinements

`ControlPlane` implements `SessionPlacement` (`ImplementsPlacement`). The mapping takes
the places of a session from what processes run and from the requests on their
connections, with the swap flag they carry; `begun` is the sessions requested so far.
Redis, the tables, the counter and all threads are invisible, so that a closure which is
still being recorded while the session is placed again must be a stutter. A process
without room refuses, so `SessionPlacement` has no capacities: what the control plane
gets right about them is SlotsExact, and what it gets wrong the run capacity.

`ProcessRuntime` implements `SessionStore` (`ImplementsStore`). A session is running
while it has a living child, ended while it has a zombie, away otherwise; its memory is
the shared memory object while it is here and the object in S3 while it is away. Hence
signals, messages and failed starts are stutters; the critical section of
`session_deleted`, which swaps the memory out and waits for the child, is PutAway.

### Abstractions

Ids are model values. The process id a client sends is a global id that exists;
the id of a subprocess is fresh. A session's configuration (memory size, maximum
of functions) is left out except for the sign of the size, which is how a swap-in
is requested: `swap_in` stands for that sign, which takes the client's size to be
positive. The code reads it from the request unchecked (`http.cpp:60`) and negates it
to ask for a swap-in (`worker.cpp:90`), so that a client which sends a size of zero or
below decides the flag itself; no property here speaks of such sizes. `get_free_process` takes *some* free process where the code takes the
first in hash order. Messages have one fixed size and are written by one call, so
they arrive whole. HTTP requests are served one at a time: the Crow server is run
without `multithreaded()`. `lives` (and `MaxLives`) only bound the run: a
request for a session that has had its lives is not sent.

In `ProcessRuntime`, the control plane is what `ControlPlane` lets a subprocess
see: it asks for a session that it does not believe to be placed (`Ask`), believes
it swapped out once it reads the closure (`Hear`), and ignores refusals.
`MaxAsks` bounds its requests. `MaxRequested` larger
than `MaxSessions` is a control plane whose counter has lost an update.
`swap` stores a session under its id, and `swap_in` asks for the id with a
leading slash (`session.cpp:103,132`); `SlashKept` says whether the S3 client keeps
that slash. All runs have it `FALSE`: with `TRUE` no swap-in can succeed.
While a process is being destroyed its detached threads may still use it; the
model ends them with the process. A child runs or has ended: nothing in the repository
stops and continues one.

In `SessionExec` a stream is a sequence of units of half a request, which is enough for
a read to start in the middle of one; no payload looks like a request. A read may
return less than was asked for. The memory of a buffer is an address and the
invocation whose payload it holds; the replacement of a buffer keeps its address,
that of a null buffer takes a free one. A read past the end of a buffer may end up
in any block of memory (`Spill`). A client that has left reads
and asks nothing more. User functions send at most `MaxSends`
replies and return, or crash the session. A payload is at most `MaxUnits` units, a longer
one being shortened to that; its size in bytes keeps its width, because the control plane
stores 16 bits of it (`messages.cpp:155`) and the session reads 32.

In `LocalMemory` a header is one unit and read whole; a payload may be read short
(`ShortReads`). The model's clients send any request of the protocol, although the
library's `put` and `erase` do not yet send theirs. `MaxSilent` connections may hold a
slot without ever speaking. The bytes that a GET sends are those of deleted memory: the
payload that was stored, that of any other request, or none of them. A write to a
client that has left is lost, or raises SIGPIPE, which the program takes for a crash.
The main thread reads where there is something; the code can also block on a stale event
of epoll, which only removes behaviours. Connections to peers are never made by the code.

In `Launch`, `MaxAsked` and `MaxBackends` bound what control planes ask and how many
there are, and there is one SIGINT. A read can be cut short or interrupted. The answer
is one write on a connection on which nothing was written before, which raises no
SIGPIPE. That several `Process` objects of a local worker overwrite one static
`_instance` (`process.hpp:50`) is outside of it.

## What is checked

Passing runs:

| Run | Instance | Checks | Shows |
|---|---|---|---|
| placement | 2 sessions, 2 subprocesses of 2 slots that may refuse and may leave, 2 lives, 2 threads | TypeOK, SingleInstance, SlotsExact, SwapFlagTruthful, RunningListedAlive, ImplementsPlacement | closures race with swap-ins into the same and into new processes, and the slot counter loses updates; a session is still never in two places, nor asked for with the wrong flag, nor off the record, and the counters that have lost nothing are exact |
| live | 2 sessions, an invocation, 1 subprocess of 2 slots, fair threads | ClosureRecorded | every reported closure reaches Redis |
| sessions | 3 sessions requested where 2 fit, 3 requests, 2 writes each, any start may fail | TypeOK, RunningIsOwned, CloseMeansGone, MemoryFaithful, WithinCapacity, RefusedOnlyOverbooked, ImplementsStore | the runtime protects itself from an overbooking control plane and refuses nobody else, in later lives neither; a closure frees place and child before the control plane hears of it; a failed start does not harm the sessions that run |
| exec | 4 invocations of 0, 1, 65535 and 1 bytes, one function known, 1 thread and 2 buffers, fair | TypeOK, InputIntact, BuffersConserved, AnsweredOnce, InputWhole, AcceptedAnswered, SessionEnds | refusals, null buffers, split reads and a stream out of step cost answers, but never mix up payloads, cut one, lose a buffer or answer twice; what was accepted is answered, and a session whose client leaves ends after its functions |
| memory | 2 clients, 3 requests (CREATE, GET, PUT) for one object, 2 slots of which one may be taken, 2 threads, short reads, fair | TypeOK, RequestsFramed, RepliesRouted, SizeMatchesData, TaskEnds | the late mark never lets a payload be taken for a request; a reply that reaches the wrong client, when its slot was used again, is one whose asker has left; the size announced is that of the object in the table; no request holds a thread or an object for good |
| launch | 3 control planes, 3 processes, 2 slots, local worker and serving, fair | TypeOK, StartedHasSlot, AnswersTruthful, NoneLeftBehind, FirstAnswered | the table stays right under a signal handler that interrupts anywhere; a process that the handler missed makes the exit a crash, never a clean one |

Runs that find a violation, each a place where the code does not do what a line of
it says (`findings` in `PROJECT.json` quotes the line):

| Run | Violates | What happens |
|---|---|---|
| capacity | CapacityRespected | the unlocked `++` of the slot counter and a `--` overwrite each other; the next placement asks a process of two slots for a third session |
| stale_flag | AllocatedMeansRequested | a session swapped in into a new process keeps `allocated` from its first life and is never requested |
| cleanup | EndedIsCleaned | of two sessions the one in front in the vector ends; the other is moved over its entry, and the shared memory of the first is never unlinked |
| framing | RepliesFramed | a function thread or `receive` writes between the header and the payload of another reply |
| stuck | Served | the pool works off a request before its connection is marked busy; the mark stays, and the client's next request is never read |
| data | GetReturnsStored | an object is created and read; the handler that stored it has deleted its buffer, and the bytes sent are not those stored |

A `doc_code_divergence` goes with TypeOK of `ControlPlane`: what Redis holds of a swapped
session is its id, not the `<session-id>;<swapped-memory-size>` of `worker.cpp:325`.

Two findings have no run of their own. Of two children that end together one may never be
waited for, swapped out or reported (`process.cpp:30`); it violates EndedIsCleaned too,
but the counterexample that TLC finds is the leak. And `retrieve_buffer` compares
the size asked for with the number of buffers (`buffer.hpp:62`), so a payload can be
read into a smaller buffer: InputIntact is violated after 32 steps by one thread and six
payloads of 1, 2, 0, 0, 1 and 3 bytes, an instance of 16 million states. What does hold
is InputIntact for payloads of `SafeSize`, of one byte at most or of more bytes than
there can ever be buffers in the queue; this is what `exec` checks and IntactCorrect proves.

The models contain more behaviours that no property forbids, or that are outside of the
constants of the runs, and that are worth knowing:

* a session is placed into a process of another global process and is filed there when
  it ends, where it is not looked for (`resources.cpp:19`);
* a second session that is placed into a process which has not connected yet has its
  request written to a closed socket (`worker.cpp:134`), which also violates
  AllocatedMeansRequested; a session that closes before `process_client` has executed its
  last `sadd` stays in both Redis sets;
* MemoryFaithful is violated by a failed PutObject (`Faults` with "put"), whose result
  `session_deleted` ignores; an entry of `_sessions` whose fork failed is never removed;
* what the control plane has queued beyond the first invocation is never read from `cpIn`
  (`session.cpp:290`); after a refusal for want of buffers the payload is read as requests,
  and requests behind it can go unanswered; a connection that breaks within a payload has
  the function invoked with a short count or with -1; InputWhole is violated by a payload
  of 65536 bytes or more from the control plane; RepliesFramed is violated by one function
  thread too, once `receive` reports an error;
* a request to the memory controller whose payload was cut short leaves its connection busy
  for good, a client after the last slot ends the controller (`connections.hpp:90`), and a
  failed CREATE replaces the object all the same (`cache.cpp:11`);
* all requests to a launcher but the first of a connection are lost
  (`local-worker/server.cpp:109`), a silent connection holds everybody up, slots are never
  freed, the serving answers 0 whatever becomes of the process, and a signal between the
  creation of a process and of its thread is a crash.

Bounds. Two sessions are enough to have one placed while the other closes, to
share a process, to exchange places and to lose an update of its counter; two lives to reach
every stale record of the first; two processes to swap in elsewhere; two threads to
interleave two handlers and the HTTP thread. Overbooking two slots takes a third session
(`capacity`, `sessions`). `placement` has one global process: bookings under another one are
covered by the proofs only (RecordCorrect). `live` has one life per session, which
has all steps of a closure. Two writes distinguish older from newer memory. A
session of one thread has two buffers, so three payloads make it refuse, and a fourth
invocation puts a null buffer among them; functions overlap in `framing` and in the
proofs. In `memory` three requests let a GET meet a CREATE
and a PUT of its object while one client leaves and a slot is used again; a DELETE would
only repeat the PUT with no object behind it. Two slots and three processes exhaust a
launcher; three backends leave one waiting behind another. Symmetry over ids is used in
safety runs only. Deadlock is not checked: when the clients have used up their
requests, or the control plane was terminated, the system rests.

Fairness. The liveness runs assume that the operating system runs every thread
(weak fairness of each thread's steps), that epoll reports armed descriptors with
data, and that a pending signal is delivered. Nothing is assumed of clients,
of subprocesses (for the control plane) or of children (for the runtime). In
`ProcessRuntime` the control plane is assumed to read its connection; in `SessionExec`
functions are assumed to return. In `LocalMemory` a client that has begun a request goes
on with it, and in `Launch` only the main thread and the signal handler are fair.

## What is proved

Every safety property that a passing run checks, and both refinements, are theorems:
they hold for all sets of sessions, processes, clients and threads, all capacities,
payloads and bounds. The assumptions on the constants are the named `ASSUME`s of the
modules (sizes are positive, `None` is not a value, what the code counts is finite);
a theorem that needs more says so in its own hypotheses, without which the code breaks
the promise:

| Theorem | States | Hypothesis, and what happens without it |
|---|---|---|
| `ControlPlaneProofs!TypeCorrect` | TypeOK | |
| `ControlPlaneProofs!SlotsCorrect` | SlotsExact | |
| `SingleInstanceProofs!CustodyCorrect`, `SingleInstanceCorrect` | SingleInstance | |
| `PlacementProofs!CapacityCorrect` | what CapacityRespected says, for the processes not in `lost` | of the others it is false: the run capacity |
| `PlacementProofs!SwapFlagCorrect`, `RecordCorrect` | SwapFlagTruthful, RunningListedAlive | |
| `RefinementProofs!PlacementRefined` | ImplementsPlacement | |
| `ProcessRuntimeProofs!RuntimeCorrect` | TypeOK | |
| `…!OwnedCorrect`, `ClosuresCorrect`, `WithinCorrect`, `BooksCorrect` | RunningIsOwned, CloseMeansGone, WithinCapacity, RefusedOnlyOverbooked | |
| `…!MemoryCorrect` | MemoryFaithful | "put" not in `Faults`: the result of PutObject is ignored |
| `…!StoreRefined` | ImplementsStore | `Swapping`, and "put" not in `Faults` |
| `SessionExecProofs!ExecCorrect` | TypeOK | |
| `…!AnsweredCorrect`, `ConservedCorrect` | AnsweredOnce, BuffersConserved | |
| `…!IntactCorrect` | InputIntact | sizes are `SafeSize`, also the 16 bits of them that the control plane announces: others can overrun a buffer (`buffer.hpp:62`) |
| `…!WholeCorrect` | InputWhole | payloads below 65536 bytes: the control plane stores 16 bits of the size |
| `LocalMemoryProofs!FramingCorrect` | TypeOK | |
| `…!RequestsCorrect`, `SizesCorrect`, `RoutedCorrect` | RequestsFramed, SizeMatchesData, RepliesRouted | |
| `LaunchProofs!LaunchCorrect` | TypeOK | |
| `…!SlotsCorrect`, `AnswersCorrect`, `NoneLeftCorrect` | StartedHasSlot, AnswersTruthful, NoneLeftBehind | |

Only TypeOK of `ControlPlane` is inductive by itself.
The arguments:

**ControlPlane.** TypeOK rests on the types of the locals: `HttpState` and `WorkerState`
say for each `pc` which locals are set. SlotsExact counts the slot that the HTTP thread
holds between `get_free_process` and `add_session` (`Held`). It needs that a thread
which is about to store has found a slot below the maximum, or the session that it will
erase (*StoresSlot*); the store then either finds the counter as it was loaded, or puts
the process into `lost`.

*Custody* (SingleInstance). Nothing locks a session for the length of its placement or of
its closure, so the proof is about who may touch it: it is in the hands of at most one
*owner* (listed as swapped in Redis, with the HTTP thread between `srem` and the vector, in
the vector of one process, with the pool thread that has erased it and not yet listed it
as swapped), and its present *life* is carried by at most one request, running session,
closure message, task or thread (`OneOwner`, `OneLife`), in a process whose vector lists it
(`LifeIsListed`). The last part is what joins the two: to hand out a session the HTTP thread must
own it, and what it owns is in no vector, so it has no life. `NoneTwice`, `Wires` and
`UnusedIsEmpty` make sequences behave as sets and tie a message to its sender.

*Flags* (SwapFlagTruthful) relates the number of placements and requests of a session to
the flag its owner has: the HTTP thread's from Redis, that of the entry in the table.
*Records* (RunningListedAlive) is about `alive`, which a closure leaves last: a session may be
placed again while a thread is still about to strike its previous life off. The invariant
names the sets that nobody is about to strike it off (`Unstruck`), and that
`process_client` refuses a session that is still listed (`CheckedNotAlive`).
CapacityCorrect follows from Custody and SlotsExact by counting: what a process runs or
was asked for is in its vector, once.

*PlacementRefined.* Initial states map to initial states. A write of a request is an
abstract request (Custody: it is nowhere; Flags: new the first time, resumed later), its
reading is a start or a refusal, the end of a session a stop; all other
steps leave `PlacesOf` and `begun` alone.

**ProcessRuntime.** *Vector*: one entry per session and per child, whose memory exists and
whose child is that session's. *Protocol*: a session is asked for, entered or being reported
closed, in one of them only, and in none when the control plane does not believe it
placed; without it a second request could meet the entry of the first. *Alive*: a child that
exists has an entry, and only a zombie has a signal or a handler, at most one; hence the early
return of `session_deleted` for an unknown child never happens (`DeletedIsKnown`) and is no
action of the model. *Saved*: the last write is in shared memory while there is a child, in S3
otherwise, and nowhere if there was none. RefusedOnlyOverbooked follows from Vector and
Protocol by counting: the entries and the session at the head of the inbox are different
sessions, all of which the control plane has placed. StoreRefined maps each critical section to one step of
`SessionStore` with Vector, Alive and Saved.

**SessionExec.** An invocation is in one place: unread (*Requests*: each header is
written once), with `receive`, queued, running (*Taken*), and has had no final answer until its thread
is about to return the buffer; hence AnsweredOnce. A buffer is in one place: no
memory is in two (*Apart*) and none of the first ones in none (*Present*); counted, that is
BuffersConserved. Apart needs that `operator new` has an address left, *Room*: every
address allocated since the start belongs to a request that was read, by counting. TypeOK needs it too.
InputIntact (*Intact*) needs besides that no read overruns its buffer (*Fits*), for which
the buffers in the queue, the tasks and the threads are counted: each request read adds one
at most (*Counted*), so a size above that many is one that `retrieve_buffer` replaces any
buffer for. It also needs that what `receive` reads is the payload it waits for
(*Expected*): a request that owes a payload is followed by it in the stream, or is the last
that was written. A stream out of step after a refusal does not break this, because no
payload parses as a request. *Phases* places the threads within `Session::start`.

**LocalMemory.** *Framing*: what follows what on a stream; a slot has one connection; the busy
flag of a slot belongs to one task or reading thread, where the flag counts as set while
the main thread is about to set it (`main = p`); while a payload is due its connection
is not polled. The late mark is harmless because the main thread polls nothing in between.
*Once* and *Accessors*: a request leaves one header, task, handler and reply, and
what a handler found stays in the table while it holds the accessor. *Routed*: the
client behind the slot of a task or handler is the one that asked, or that one has left;
slots are given away only by those who leave.

**Launch.** *Books*: a waiting request asks for a process nobody has touched, each once; where
the main thread stands tells what it has done (`Progress`); slots, threads and processes
correspond one to one (`Table`); and after an answer 1 no slot is ever free (`Exhausted`),
which is why that answer stays true.

The inductive invariants were checked with TLC on the instances of the runs before they
were proved. Changing the model as a mutant does makes the proofs fail where the
mistake is (for instance `Returned_ifKnown` in the lemma that a buffer comes back).

Only model-checked: liveness (ClosureRecorded, AcceptedAnswered, SessionEnds, TaskEnds,
FirstAnswered), because fairness and ENABLED are out of the prover's reach; and the
six violations, which are counterexamples. No operator of the
models is recursive, so no proof needs an induction over data.

## Plan

Done: all components that keep state; every safety property that a passing run checks and
both refinements proved. What is left for the proofs is what a subprocess still
guarantees when a store fails, and which payloads that are not `SafeSize` are read whole.

Not modelled and not planned: option parsing, logging, TLS and JSON, the hole
puncher, the AWS backend (a stub), the disk swapper (unused), connections of the memory
controller to its peers (declared, never made), races on library containers
(`Workers::get`), whose outcomes are not states of the program, and what a signal handler
may not do in C++ (`process.cpp:30`, `local-worker/cli.cpp:19`). The two sides of the
wire formats are modelled by what they carry: the offsets that
are in use agree (the getters of `SessionRequest` in `common/messages.cpp`, which
disagree with its `fill`, have no caller).
