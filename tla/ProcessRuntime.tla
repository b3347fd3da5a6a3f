--------------------------- MODULE ProcessRuntime ---------------------------
(***************************************************************************)
(* One PraaS subprocess: it forks a child per session, owns the session's  *)
(* shared memory, learns of a child's end by SIGCHLD, swaps the memory out *)
(* to S3 and reports the closure to the control plane.                     *)
(*                                                                         *)
(*   src/runtime/lib/{process,session,swapper}.cpp and their headers       *)
(*                                                                         *)
(* allocate_session and the first half of session_deleted are critical     *)
(* sections of _sessions_mutex, hence one step each; the messages are      *)
(* written after the mutex is released, hence steps of their own.  The     *)
(* kernel (signals, processes, shared memory), S3 and the control plane    *)
(* are the environment.                                                    *)
(***************************************************************************)
EXTENDS Integers, Sequences, FiniteSets, SequencesExt

CONSTANTS
  Sid,           \* session identifiers
  ChildPid,      \* identifiers the kernel has for children
  MaxSessions,   \* _max_sessions
  MaxRequested,  \* sessions the control plane believes fit
  Swapping,      \* was the process started with swapping enabled?
  SlashKept,     \* does the S3 client keep the leading slash of a key?
  Faults,        \* what may go wrong in the environment, see Fault
  MaxWrites,     \* bound: writes of one session to its memory
  MaxAsks,       \* bound: requests of the control plane, all together
  None           \* no value

Fault == {"shm_open", "ftruncate", "get", "vfork", "put"}

ASSUME SizesAssumption ==
  MaxSessions \in Nat \ {0} /\ MaxRequested \in Nat /\ MaxWrites \in Nat
  /\ MaxAsks \in Nat
ASSUME FlagsAssumption == Swapping \in BOOLEAN /\ SlashKept \in BOOLEAN
                           /\ Faults \subseteq Fault
ASSUME NoneAssumption == None \notin Sid \cup ChildPid \cup Nat

VARIABLES
  _sessions,   \* the vector of SessionFork objects
  main,        \* Process::start: the reply it still has to write, or None
  deleters,    \* threads at the head of session_deleted, by child
  notifiers,   \* threads past the mutex of session_deleted, by session
  ending,      \* _ending, and the connection is shut down
  exited,      \* main has returned or exit has been called
  inbox,       \* requests of the control plane, not read yet
  outbox,      \* messages to the control plane, not read yet
  shm,         \* kernel: content of the shared memory object, or None
  child,       \* kernel: state and session of a child process
  sigchld,     \* kernel: the child of the pending SIGCHLD, or None
  s3,          \* S3: the object stored for a session, or None
  view,        \* control plane: what it believes about a session
  lives,       \* control plane: how often it requested a session
  written      \* history: the last content a session gave its memory

exitVars   == <<ending, exited>>
procVars   == <<_sessions, main, deleters, notifiers, exitVars>>
wireVars   == <<inbox, outbox>>
kernelVars == <<child, sigchld>>
cpVars     == <<view, lives>>
vars == <<procVars, wireVars, shm, kernelVars, s3, cpVars, written>>

NoChild == [state |-> "none", sid |-> None]
Child   == {NoChild} \cup [state : {"running", "zombie"}, sid : Sid]

(* A SessionFork: child_pid is None (-1) until vfork succeeds, memory says *)
(* whether it owns a shared memory object.                                 *)
SessionFork == [sid : Sid, child_pid : ChildPid \cup {None}, memory : BOOLEAN]

Reply   == [kind : {"success", "failure"}, sid : Sid]
Message == [kind : {"success", "failure", "close"}, sid : Sid]
Request == [sid : Sid, swap : BOOLEAN]

Init ==
  /\ _sessions = <<>> /\ main = None /\ ending = FALSE /\ exited = FALSE
  /\ deleters = [c \in ChildPid |-> 0] /\ notifiers = {}
  /\ inbox = <<>> /\ outbox = <<>>
  /\ shm = [s \in Sid |-> None]
  /\ child = [c \in ChildPid |-> NoChild] /\ sigchld = None
  /\ s3 = [s \in Sid |-> None]
  /\ view = [s \in Sid |-> "new"] /\ lives = [s \in Sid |-> 0]
  /\ written = [s \in Sid |-> 0]

-----------------------------------------------------------------------------
(* The control plane: it requests a session it does not believe to run,    *)
(* anew or by swapping in, while it believes there is room.                *)

Ask(s) ==
  /\ view[s] # "placed"
  /\ Cardinality({r \in Sid : view[r] = "placed"}) < MaxRequested
  /\ FoldFunction(+, 0, lives) < MaxAsks
  /\ inbox' = Append(inbox, [sid |-> s, swap |-> view[s] = "swapped"])
  /\ view' = [view EXCEPT ![s] = "placed"]
  /\ lives' = [lives EXCEPT ![s] = @ + 1]
  /\ UNCHANGED <<procVars, outbox, shm, kernelVars, s3, written>>

(* It reads a message: a closure means swapped out, the rest is logged.    *)
Hear ==
  /\ outbox # <<>>
  /\ outbox' = Tail(outbox)
  /\ view' = IF Head(outbox).kind = "close"
               THEN [view EXCEPT ![Head(outbox).sid] = "swapped"]
               ELSE view
  /\ UNCHANGED <<procVars, inbox, shm, kernelVars, s3, lives, written>>

-----------------------------------------------------------------------------
(* Process::start and Process::allocate_session.                           *)

Reading == main = None /\ ~ending /\ inbox # <<>>

(* The capacity test, and the same test off by one either way.             *)
HasRoom_offByOne == Len(_sessions) <= MaxSessions
HasRoom_early == Len(_sessions) + 1 < MaxSessions
HasRoom == Len(_sessions) < MaxSessions

Conflicts(s) == \E i \in DOMAIN _sessions : _sessions[i].sid = s

(* NO_MORE_CAPACITY or SESSION_CONFLICT.                                   *)
RefuseSession ==
  /\ Reading
  /\ ~(HasRoom /\ ~Conflicts(Head(inbox).sid))
  /\ inbox' = Tail(inbox)
  /\ main' = [kind |-> "failure", sid |-> Head(inbox).sid]
  /\ UNCHANGED <<_sessions, deleters, notifiers, exitVars, outbox, shm,
                 kernelVars, s3, cpVars, written>>

(* What a new object of shared memory holds: zeros, or what an object of   *)
(* that name holds already (O_CREAT without O_TRUNC, ftruncate to its old  *)
(* size).                                                                  *)
Created(s) == IF shm[s] = None THEN 0 ELSE shm[s]

(* SharedMemory::create for a request: on a swap-in the object of S3 is    *)
(* written over it.  And with the swap-in forgotten.                       *)
Loaded_forgotten(r) == Created(r.sid)
Loaded(r) == IF r.swap THEN s3[r.sid] ELSE Created(r.sid)

(* S3Swapper::swap_in can succeed: there is a client, and an object under  *)
(* its key.  swap stores under the session id, swap_in asks for the id     *)
(* with the slash that shm_open needs in front.                            *)
CanLoad(r) == r.swap => Swapping /\ ~SlashKept /\ s3[r.sid] # None

Accepts(r) == Reading /\ r = Head(inbox) /\ HasRoom /\ ~Conflicts(r.sid)

(* An entry of _sessions, and one whose child_pid is the 0 that vfork      *)
(* returns in the child.                                                   *)
Entry_zero(s, c, m) == [sid |-> s, child_pid |-> 0, memory |-> m]
Entry(s, c, m) == [sid |-> s, child_pid |-> c, memory |-> m]

(* The session is entered, its memory made and loaded, its child started.  *)
StartSession(r, c) ==
  /\ Accepts(r)
  /\ CanLoad(r)
  /\ child[c].state = "none"
  /\ shm' = [shm EXCEPT ![r.sid] = Loaded(r)]
  /\ child' = [child EXCEPT ![c] = [state |-> "running", sid |-> r.sid]]
  /\ _sessions' = Append(_sessions, Entry(r.sid, c, TRUE))
  /\ inbox' = Tail(inbox)
  /\ main' = [kind |-> "success", sid |-> r.sid]
  /\ UNCHANGED <<deleters, notifiers, exitVars, outbox, sigchld, s3, cpVars,
                 written>>

(* SharedMemory::create fails: shm_open leaves nothing, ftruncate and mmap *)
(* leave the object behind, a failed swap-in unlinks it.                   *)
CreateFails(r) ==
  \/ /\ "shm_open" \in Faults
     /\ UNCHANGED shm
  \/ /\ "ftruncate" \in Faults
     /\ shm' = [shm EXCEPT ![r.sid] = Created(r.sid)]
  \/ /\ r.swap /\ (CanLoad(r) => "get" \in Faults)
     /\ shm' = [shm EXCEPT ![r.sid] = None]

(* The entry made before fork stays, without child or memory.              *)
StartFails(r) ==
  /\ Accepts(r)
  /\ CreateFails(r)
  /\ _sessions' = Append(_sessions, Entry(r.sid, None, FALSE))
  /\ inbox' = Tail(inbox)
  /\ main' = [kind |-> "failure", sid |-> r.sid]
  /\ UNCHANGED <<deleters, notifiers, exitVars, outbox, kernelVars, s3, cpVars,
                 written>>

(* vfork returns -1, which is neither 0 nor looked at: success.            *)
ForkFails(r) ==
  /\ "vfork" \in Faults
  /\ Accepts(r)
  /\ CanLoad(r)
  /\ shm' = [shm EXCEPT ![r.sid] = Loaded(r)]
  /\ _sessions' = Append(_sessions, Entry(r.sid, None, TRUE))
  /\ inbox' = Tail(inbox)
  /\ main' = [kind |-> "success", sid |-> r.sid]
  /\ UNCHANGED <<deleters, notifiers, exitVars, outbox, kernelVars, s3, cpVars,
                 written>>

(* A write to the control plane; nothing arrives on a closed connection.   *)
Write(m) == outbox' = IF ending THEN outbox ELSE Append(outbox, m)

(* The status message, after the mutex is released.                        *)
WriteStatus ==
  /\ main # None
  /\ Write(main)
  /\ main' = None
  /\ UNCHANGED <<_sessions, deleters, notifiers, exitVars, inbox, shm,
                 kernelVars, s3, cpVars, written>>

(* Process::shutdown, on SIGINT: the connection is shut down and the loop  *)
(* of start will end; SessionFork::shutdown leaves the children alone.     *)
shutdown ==
  /\ ~ending
  /\ ending' = TRUE
  /\ UNCHANGED <<_sessions, main, deleters, notifiers, exited, wireVars, shm,
                 kernelVars, s3, cpVars, written>>

(* The process is gone with its threads; init waits for its children.      *)
Gone ==
  /\ exited' = TRUE
  /\ _sessions' = <<>> /\ main' = None
  /\ deleters' = [c \in ChildPid |-> 0] /\ notifiers' = {}
  /\ sigchld' = None
  /\ child' = [c \in ChildPid |-> IF child[c].state = "zombie" THEN NoChild
                                  ELSE child[c]]
  /\ UNCHANGED <<ending, wireVars, s3, cpVars, written>>

(* start and main return: the destructor of every SharedMemory unlinks it, *)
(* without a swap.                                                         *)
Leave ==
  /\ ending /\ ~exited /\ main = None
  /\ shm' = [s \in Sid |->
              IF \E i \in DOMAIN _sessions :
                   _sessions[i].sid = s /\ _sessions[i].memory
                THEN None ELSE shm[s]]
  /\ Gone

(* A write to the closed connection raised SIGPIPE, whose handler exits    *)
(* without unlinking anything.                                             *)
SigPipe ==
  /\ ending /\ ~exited
  /\ main # None \/ notifiers # {}
  /\ UNCHANGED shm
  /\ Gone

-----------------------------------------------------------------------------
(* The children and the kernel.                                            *)

(* A child writes its memory; the mapping of an object that was unlinked   *)
(* under it is nobody's any more.                                          *)
ChildWrite(c) ==
  LET s == child[c].sid IN
  /\ child[c].state = "running"
  /\ written[s] < MaxWrites
  /\ written' = [written EXCEPT ![s] = @ + 1]
  /\ shm' = IF shm[s] = None THEN shm
            ELSE [shm EXCEPT ![s] = written[s] + 1]
  /\ UNCHANGED <<procVars, wireVars, kernelVars, s3, cpVars>>

(* A standard signal is not queued: a second one is lost while the first   *)
(* is pending.                                                             *)
Raise(c) == sigchld' = IF sigchld = None THEN c ELSE sigchld

ChildExit(c) ==
  /\ child[c].state = "running"
  /\ IF exited
       THEN child' = [child EXCEPT ![c] = NoChild] /\ UNCHANGED sigchld
       ELSE child' = [child EXCEPT ![c].state = "zombie"] /\ Raise(c)
  /\ UNCHANGED <<procVars, wireVars, shm, s3, cpVars, written>>

(* session_shutdown_handler: a detached thread for the child of the signal.*)
session_shutdown_handler ==
  /\ sigchld # None
  /\ sigchld' = None
  /\ deleters' = [deleters EXCEPT ![sigchld] = @ + 1]
  /\ UNCHANGED <<_sessions, main, notifiers, exitVars, wireVars, shm, child,
                 s3, cpVars, written>>

-----------------------------------------------------------------------------
(* Process::session_deleted.                                               *)

IndexOf(c) == SelectInSeq(_sessions, LAMBDA e : e.child_pid = c)

(* S3Swapper::swap, whose result is ignored.  And: an object that exists   *)
(* is not replaced.                                                        *)
SwapOut_once(s) == IF s3[s] = None THEN s3' = [s3 EXCEPT ![s] = shm[s]]
                   ELSE UNCHANGED s3
SwapOut(s) == \/ Swapping /\ s3' = [s3 EXCEPT ![s] = shm[s]]
              \/ (Swapping => "put" \in Faults) /\ UNCHANGED s3

(* vector::erase of position i: the entries behind it are moved over it,   *)
(* SharedMemory's move assignment forgets what it overwrites, and the last *)
(* one is destroyed: it owns its memory only if nothing was moved.  And: a *)
(* move that does not reset its source.                                    *)
ShmWithout_unreset(i) == [shm EXCEPT ![Last(_sessions).sid] = None]
ShmWithout(i) == IF i = Len(_sessions)
                   THEN [shm EXCEPT ![_sessions[i].sid] = None]
                   ELSE shm

(* waitpid(pid, WNOHANG); and left out.                                    *)
Waited_not(c) == child
Waited(c) == IF child[c].state = "zombie" THEN [child EXCEPT ![c] = NoChild]
             ELSE child

(* The critical section: swap out, erase, waitpid(WNOHANG).  The early     *)
(* return for a child that is not found has no step: it always is          *)
(* (ProcessRuntimeProofs!DeletedIsKnown).                                  *)
session_deleted(c) ==
  LET i == IndexOf(c)
      s == _sessions[i].sid IN
  /\ deleters[c] > 0
  /\ i > 0
  /\ SwapOut(s)
  /\ shm' = ShmWithout(i)
  /\ _sessions' = RemoveAt(_sessions, i)
  /\ child' = Waited(c)
  /\ deleters' = [deleters EXCEPT ![c] = @ - 1]
  /\ notifiers' = notifiers \cup {s}
  /\ UNCHANGED <<main, exitVars, wireVars, sigchld, cpVars, written>>

(* The closure message, after the mutex is released.                       *)
WriteClose(s) ==
  /\ s \in notifiers
  /\ notifiers' = notifiers \ {s}
  /\ Write([kind |-> "close", sid |-> s])
  /\ UNCHANGED <<_sessions, main, deleters, exitVars, inbox, shm, kernelVars,
                 s3, cpVars, written>>

-----------------------------------------------------------------------------
MainStep ==
  \/ RefuseSession \/ WriteStatus \/ Leave
  \/ \E r \in Request :
       \/ \E c \in ChildPid : StartSession(r, c)
       \/ StartFails(r) \/ ForkFails(r)

Next ==
  \/ \E s \in Sid : Ask(s) \/ WriteClose(s)
  \/ Hear \/ MainStep \/ shutdown \/ SigPipe \/ session_shutdown_handler
  \/ \E c \in ChildPid :
       ChildWrite(c) \/ ChildExit(c) \/ session_deleted(c)

Spec == Init /\ [][Next]_vars

(* The kernel delivers a pending signal and runs every thread; nothing     *)
(* makes a session end or the control plane ask.                           *)
Fairness ==
  /\ WF_vars(session_shutdown_handler) /\ WF_vars(Hear)
  /\ WF_vars(MainStep)
  /\ \A c \in ChildPid : WF_vars(session_deleted(c))
  /\ \A s \in Sid : WF_vars(WriteClose(s))

FairSpec == Spec /\ Fairness

-----------------------------------------------------------------------------
(* Properties.                                                             *)

(* Every variable has its type.                                            *)
TypeOK ==
  /\ _sessions \in Seq(SessionFork)
  /\ main \in Reply \cup {None}
  /\ deleters \in [ChildPid -> Nat]
  /\ notifiers \subseteq Sid
  /\ ending \in BOOLEAN /\ exited \in BOOLEAN
  /\ inbox \in Seq(Request) /\ outbox \in Seq(Message)
  /\ shm \in [Sid -> Nat \cup {None}]
  /\ child \in [ChildPid -> Child]
  /\ sigchld \in ChildPid \cup {None}
  /\ s3 \in [Sid -> Nat \cup {None}]
  /\ view \in [Sid -> {"new", "placed", "swapped"}]
  /\ lives \in [Sid -> Nat]
  /\ written \in [Sid -> Nat]

Running(c, s) == child[c] = [state |-> "running", sid |-> s]

(* A running child can rely on its shared memory and on being known: the   *)
(* end of another session, or of an earlier life of its own, never unlinks *)
(* or forgets it.                                                          *)
RunningIsOwned ==
  \A c \in ChildPid, s \in Sid :
    Running(c, s) /\ ~exited
      => /\ shm[s] # None
         /\ \E i \in DOMAIN _sessions :
              _sessions[i] = [sid |-> s, child_pid |-> c, memory |-> TRUE]

(* The control plane hears of a closure only when the child is gone, so a  *)
(* session it swaps in again never runs twice.                             *)
CloseMeansGone ==
  \A s \in Sid :
    (\/ s \in notifiers
     \/ \E i \in DOMAIN outbox : outbox[i] = [kind |-> "close", sid |-> s])
    => ~ \E c \in ChildPid : child[c].sid = s

(* The process never holds more sessions than it may, whatever the control *)
(* plane believes.                                                         *)
WithinCapacity ==
  Cardinality({c \in ChildPid : child[c].state = "running"}) <= MaxSessions

(* A session finds in its memory what it last left there, across closures  *)
(* and swap-ins.                                                           *)
MemoryFaithful ==
  \A c \in ChildPid, s \in Sid :
    Running(c, s) /\ ~exited => shm[s] = written[s]

(* A session is refused only where the control plane has placed more than  *)
(* fit (process.cpp:149-156): it hears of a closure only when the place    *)
(* and the name of the session are free again, so what it asks for within  *)
(* its books is let in, in every life of the session.                      *)
RefusedOnlyOverbooked ==
  Reading /\ ~(HasRoom /\ ~Conflicts(Head(inbox).sid)) =>
    Cardinality({s \in Sid : view[s] = "placed"}) > MaxSessions

(* A session that has ended is cleaned up after (process.cpp:28 and        *)
(* 228-240): its memory is unlinked, its child waited for and the control  *)
(* plane notified.                                                         *)
EndedIsCleaned ==
  \A c \in ChildPid, s \in Sid :
    (child[c] = [state |-> "zombie", sid |-> s] /\ IndexOf(c) > 0)
      ~> \/ ending
         \/ shm[s] = None /\ child[c].sid # s /\ view[s] = "swapped"

-----------------------------------------------------------------------------
(* The subprocess implements SessionStore.  A session is away unless it    *)
(* has a child; its memory is the shared memory while it has one, and else *)
(* the object in S3, zeros when there is none.                             *)

HasChild(s, st) == \E c \in ChildPid : child[c] = [state |-> st, sid |-> s]

StateOf(s) == IF exited THEN "away"
              ELSE IF HasChild(s, "running") THEN "running"
              ELSE IF HasChild(s, "zombie") THEN "ended"
              ELSE "away"

MemoryOf(s) == IF StateOf(s) # "away" THEN shm[s]
               ELSE IF s3[s] = None THEN 0 ELSE s3[s]

Store == INSTANCE SessionStore WITH
  state <- [s \in Sid |-> StateOf(s)],
  memory <- [s \in Sid |-> MemoryOf(s)],
  up <- ~exited

(* Swapping out and in, the coalescing of signals, failed starts and the   *)
(* window between a closure and its message are invisible: every step of   *)
(* the subprocess is a step of SessionStore or changes nothing there.      *)
ImplementsStore == Store!Spec
=============================================================================
