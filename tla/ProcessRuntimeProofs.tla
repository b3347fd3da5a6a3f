------------------------ MODULE ProcessRuntimeProofs ------------------------
(***************************************************************************)
(* What ProcessRuntime guarantees for every number of sessions, children   *)
(* and requests.                                                           *)
(***************************************************************************)
EXTENDS ProcessRuntime, SequenceTheorems, FiniteSetTheorems, TLAPS

(* Where a session is: asked for, in _sessions, or closing.                *)
Asked(s) == \E k \in 1..Len(inbox) : inbox[k].sid = s
Entered(s) == \E i \in 1..Len(_sessions) : _sessions[i].sid = s
CloseSent(s) == \E k \in 1..Len(outbox) :
                  outbox[k].kind = "close" /\ outbox[k].sid = s
Closing(s) == s \in notifiers \/ CloseSent(s)

(* The vector of sessions, and the children and the memory behind it:      *)
(* nothing is left once the process has exited, a session and a child have *)
(* one entry, an entry that owns memory has it, and the child of an entry  *)
(* is a child of its session.                                              *)
Ended == exited => /\ ending /\ Len(_sessions) = 0 /\ main = None
                   /\ notifiers = {} /\ sigchld = None
                   /\ \A c \in ChildPid : deleters[c] = 0
Fits == Len(_sessions) <= MaxSessions
OneEntry == \A i, j \in 1..Len(_sessions) :
              _sessions[i].sid = _sessions[j].sid => i = j
OneChild == \A i, j \in 1..Len(_sessions) :
              _sessions[i].child_pid = _sessions[j].child_pid
              /\ _sessions[i].child_pid # None => i = j
Holding == \A i \in 1..Len(_sessions) :
             _sessions[i].memory => shm[_sessions[i].sid] # None
Owning == \A i \in 1..Len(_sessions), c \in ChildPid :
            _sessions[i].child_pid = c =>
              /\ child[c].state # "none" /\ child[c].sid = _sessions[i].sid
              /\ _sessions[i].memory
Vector == Ended /\ Fits /\ OneEntry /\ OneChild /\ Holding /\ Owning

(* A session that the control plane has placed is in one place at most:    *)
(* asked for, entered, about to be reported closed or reported closed; one *)
(* that it has not placed is in none.                                      *)
InOnePlace ==
  \A s \in Sid :
    /\ view[s] # "placed" => ~Asked(s) /\ ~Entered(s) /\ ~Closing(s)
    /\ Asked(s) => ~Entered(s) /\ ~Closing(s)
    /\ Entered(s) => ~Closing(s)
    /\ s \in notifiers => ~CloseSent(s)
AskedOnce == \A k, l \in 1..Len(inbox) :
               inbox[k].sid = inbox[l].sid => k = l
ClosedOnce == \A k, l \in 1..Len(outbox) :
                outbox[k].kind = "close" /\ outbox[l].kind = "close"
                /\ outbox[k].sid = outbox[l].sid => k = l
Protocol == InOnePlace /\ AskedOnce /\ ClosedOnce

(* Every child is known, and is given up only when it has ended.           *)
Alive ==
  /\ \A c \in ChildPid : child[c].state # "none" /\ ~exited =>
       \E i \in 1..Len(_sessions) :
         _sessions[i] = [sid |-> child[c].sid, child_pid |-> c,
                         memory |-> TRUE]
  /\ \A c \in ChildPid : sigchld = c \/ deleters[c] > 0 =>
       child[c].state = "zombie"
  /\ \A c \in ChildPid : deleters[c] <= 1 /\ (sigchld = c => deleters[c] = 0)

(* What is kept of a session's memory, and where.                          *)
Fresh(s) == view[s] = "new"
            \/ \E k \in 1..Len(inbox) : inbox[k].sid = s /\ ~inbox[k].swap
FreshEmpty == \A s \in Sid : Fresh(s) =>
                shm[s] = None /\ s3[s] = None /\ written[s] = 0
Mapped == \A c \in ChildPid, s \in Sid :
            child[c].sid = s => shm[s] = written[s]
Stored == \A s \in Sid : Swapping /\ (\A c \in ChildPid : child[c].sid # s) =>
            \/ s3[s] = written[s]
            \/ s3[s] = None /\ written[s] = 0
Older == \A s \in Sid : s3[s] # None => s3[s] <= written[s]
Saved == ~exited => FreshEmpty /\ Mapped /\ Stored /\ Older

(* The books of the control plane.                                         *)
Placed == {s \in Sid : view[s] = "placed"}

-----------------------------------------------------------------------------
(* Sequences.                                                              *)

(* The first element of a queue and what is left without it: reading a     *)
(* message from the connection.                                            *)
LEMMA HeadTail ==
  ASSUME NEW S, NEW q \in Seq(S), q # <<>>, NEW b, b = Tail(q)
  PROVE  /\ Head(q) \in S /\ Head(q) = q[1] /\ b \in Seq(S)
         /\ 1 \in 1..Len(q)
         /\ \A k \in 1..Len(b) : k + 1 \in 1..Len(q) /\ k # 0
                                 /\ k + 1 # 1 /\ b[k] = q[k + 1]
         /\ \A k, l \in 1..Len(b) : k + 1 = l + 1 => k = l
PROOF
<1>1. /\ Head(q) \in S /\ Head(q) = q[1] /\ b \in Seq(S)
      /\ Len(q) \in Nat \ {0} /\ Len(b) = Len(q) - 1
  OBVIOUS
<1>2. \A k \in 1..Len(b) : b[k] = q[k + 1]
  OBVIOUS
<1>3. PICK n \in Nat \ {0} : n = Len(q) /\ n - 1 = Len(b)
  BY <1>1
<1>4. /\ 1 \in 1..n
      /\ \A k \in 1..(n - 1) : k + 1 \in 1..n /\ k # 0 /\ k + 1 # 1
      /\ \A k, l \in 1..(n - 1) : k + 1 = l + 1 => k = l
  OBVIOUS
<1> QED
  BY <1>1, <1>2, <1>3, <1>4

(* A sequence with one more element at its end: writing a message, and     *)
(* entering a session.                                                     *)
LEMMA AppendElement ==
  ASSUME NEW S, NEW q \in Seq(S), NEW e \in S, NEW b, b = Append(q, e)
  PROVE  /\ b \in Seq(S) /\ Len(q) \in Nat /\ Len(b) = Len(q) + 1
         /\ Len(b) \in 1..Len(b) /\ b[Len(b)] = e
         /\ \A k \in 1..Len(q) : k \in 1..Len(b) /\ b[k] = q[k]
                                 /\ k # Len(b)
         /\ \A k \in 1..Len(b) : k \in 1..Len(q) \/ k = Len(b)
PROOF
<1>1. b \in Seq(S) /\ Len(q) \in Nat /\ Len(b) = Len(q) + 1
  OBVIOUS
<1>2. b[Len(q) + 1] = e /\ \A k \in 1..Len(q) : b[k] = q[k]
  OBVIOUS
<1>3. PICK n \in Nat : n = Len(q) /\ n + 1 = Len(b)
  BY <1>1
<1>4. /\ n + 1 \in 1..(n + 1)
      /\ \A k \in 1..n : k \in 1..(n + 1) /\ k # n + 1
      /\ \A k \in 1..(n + 1) : k \in 1..n \/ k = n + 1
  OBVIOUS
<1> QED
  BY <1>1, <1>2, <1>3, <1>4

(* Where an element goes, and comes from, when the one at i is erased.     *)
Before(i, k) == IF k < i THEN k ELSE k + 1
After(i, j) == IF j < i THEN j ELSE j - 1

(* vector::erase: every element but the erased one is kept, once.          *)
LEMMA Erased ==
  ASSUME NEW S, NEW q \in Seq(S), NEW i \in 1..Len(q),
         NEW b, b = RemoveAt(q, i)
  PROVE  /\ b \in Seq(S) /\ Len(b) = Len(q) - 1 /\ Len(q) \in Nat
         /\ \A k \in 1..Len(b) : /\ Before(i, k) \in 1..Len(q)
                                 /\ Before(i, k) # i
                                 /\ b[k] = q[Before(i, k)]
         /\ \A k, l \in 1..Len(b) : Before(i, k) = Before(i, l) => k = l
         /\ \A j \in 1..Len(q) : j # i =>
              After(i, j) \in 1..Len(b) /\ b[After(i, j)] = q[j]
PROOF
<1> DEFINE u == SubSeq(q, 1, i - 1)
           v == SubSeq(q, i + 1, Len(q))
<1>1. PICK n \in Nat : n = Len(q)
  OBVIOUS
<1>2. i \in Int /\ i - 1 \in Int /\ i + 1 \in Int /\ 1 <= i /\ i <= n
  BY <1>1
<1>3. \A k \in 1..n : q[k] \in S
  BY <1>1
<1>4. \A k \in 1..(i - 1) : q[k] \in S
  BY <1>2, <1>3
<1>5. \A k \in (i + 1)..n : q[k] \in S
  BY <1>2, <1>3
<1>6. /\ u \in Seq(S) /\ Len(u) = IF 1 <= i - 1 THEN i - 1 - 1 + 1 ELSE 0
      /\ \A k \in 1..(i - 1 - 1 + 1) : u[k] = q[1 + k - 1]
  BY <1>2, <1>4, SubSeqProperties
<1>7. /\ v \in Seq(S)
      /\ Len(v) = IF i + 1 <= n THEN n - (i + 1) + 1 ELSE 0
      /\ \A k \in 1..(n - (i + 1) + 1) : v[k] = q[i + 1 + k - 1]
  BY <1>1, <1>2, <1>5, SubSeqProperties
<1>8. b = u \o v
  BY DEF RemoveAt
<1> HIDE DEF u, v
<1>9. Len(u) = i - 1 /\ Len(v) = n - i
  BY <1>2, <1>6, <1>7
<1>10. /\ b \in Seq(S) /\ Len(b) = Len(u) + Len(v)
       /\ \A k \in 1..(Len(u) + Len(v)) :
            b[k] = IF k <= Len(u) THEN u[k] ELSE v[k - Len(u)]
  <2>1. u \in Seq(S) /\ v \in Seq(S)
    BY <1>6, <1>7
  <2>2. /\ u \o v \in Seq(S) /\ Len(u \o v) = Len(u) + Len(v)
        /\ \A k \in 1..(Len(u) + Len(v)) :
             (u \o v)[k] = IF k <= Len(u) THEN u[k] ELSE v[k - Len(u)]
    BY <2>1, ConcatProperties
  <2> QED
    BY <2>2, <1>8
<1>11. Len(b) = n - 1
  BY <1>2, <1>9, <1>10
<1>12. \A k \in 1..(n - 1) : Before(i, k) \in 1..n /\ Before(i, k) # i
  BY <1>2 DEF Before
<1>13. \A k \in 1..(n - 1) : b[k] = q[Before(i, k)]
  <2> TAKE k \in 1..(n - 1)
  <2>1. b[k] = IF k <= i - 1 THEN u[k] ELSE v[k - (i - 1)]
    BY <1>9, <1>10, <1>11
  <2>2. CASE k < i
    <3>1. k <= i - 1 /\ k \in 1..(i - 1 - 1 + 1) /\ 1 + k - 1 = k
      BY <1>2, <2>2
    <3> QED
      BY <2>1, <2>2, <3>1, <1>6 DEF Before
  <2>3. CASE ~(k < i)
    <3>1. /\ ~(k <= i - 1) /\ k - (i - 1) \in 1..(n - (i + 1) + 1)
          /\ i + 1 + (k - (i - 1)) - 1 = k + 1
      BY <1>2, <2>3
    <3> QED
      BY <2>1, <2>3, <3>1, <1>7 DEF Before
  <2> QED
    BY <2>2, <2>3
<1>14. \A k, l \in 1..(n - 1) : Before(i, k) = Before(i, l) => k = l
  BY <1>2 DEF Before
<1>15. \A j \in 1..n : j # i => /\ After(i, j) \in 1..(n - 1)
                                /\ Before(i, After(i, j)) = j
  BY <1>2 DEF Before, After
<1> QED
  BY <1>1, <1>10, <1>11, <1>12, <1>13, <1>14, <1>15

(* Where an element that is left comes from.                               *)
LEMMA ErasedFrom ==
  ASSUME NEW S, NEW q \in Seq(S), NEW i \in 1..Len(q),
         NEW b, b = RemoveAt(q, i), NEW k \in 1..Len(b)
  PROVE  /\ Before(i, k) \in 1..Len(q) /\ Before(i, k) # i
         /\ b[k] = q[Before(i, k)]
PROOF
<1>1. Before(i, k) \in 1..Len(q)
  BY Erased
<1>2. Before(i, k) # i
  BY Erased
<1>3. b[k] = q[Before(i, k)]
  BY Erased
<1> QED
  BY <1>1, <1>2, <1>3

-----------------------------------------------------------------------------
(* The steps.                                                              *)

(* A request is taken and its session entered, whether or not it gets a    *)
(* memory and a child.                                                     *)
Begun(r, e) ==
  /\ inbox # <<>> /\ r = Head(inbox) /\ inbox' = Tail(inbox)
  /\ main = None /\ ~ending /\ Len(_sessions) < MaxSessions
  /\ ~Entered(r.sid) /\ e.sid = r.sid
  /\ _sessions' = Append(_sessions, e)
  /\ main' \in Reply /\ main'.sid = r.sid
  /\ shm' \in [Sid -> Nat \cup {None}]
  /\ \A t \in Sid \ {r.sid} : shm'[t] = shm[t]
  /\ e.memory => CanLoad(r) /\ shm'[r.sid] = Loaded(r)
  /\ \/ e.child_pid = None /\ child' = child
     \/ \E c \in ChildPid :
          /\ child[c].state = "none" /\ e = Entry(r.sid, c, TRUE)
          /\ child' = [child EXCEPT ![c] = [state |-> "running",
                                            sid |-> r.sid]]
  /\ UNCHANGED <<deleters, notifiers, ending, exited, outbox, sigchld, s3,
                 view, lives, written>>

(* Starts(r) is any of the three ways to enter the session of a request.   *)
Starts(r) == \/ \E c \in ChildPid : StartSession(r, c)
             \/ StartFails(r)
             \/ ForkFails(r)

Departs == Leave \/ SigPipe

(* What is loaded into new memory is a content, and there is one.          *)
LEMMA LoadedIsContent ==
  ASSUME TypeOK, NEW r \in Request, CanLoad(r)
  PROVE  Loaded(r) \in Nat
PROOF
<1>1. r.sid \in Sid /\ r.swap \in BOOLEAN
  BY DEF Request
<1>2. CASE r.swap
  BY <1>1, <1>2 DEF Loaded, CanLoad, TypeOK
<1>3. CASE ~r.swap
  BY <1>1, <1>3 DEF Loaded, Created, TypeOK
<1> QED
  BY <1>2, <1>3

(* Every way to enter a session enters it, with its request.               *)
LEMMA StartFacts ==
  ASSUME TypeOK, NEW r \in Request, Starts(r)
  PROVE  \E e \in SessionFork : Begun(r, e)
PROOF
<1>1. r.sid \in Sid /\ r.swap \in BOOLEAN /\ None \notin ChildPid
  BY NoneAssumption DEF Request
<1>2. shm \in [Sid -> Nat \cup {None}] /\ Len(_sessions) \in Nat
  BY DEF TypeOK
<1>3. ASSUME Accepts(r)
      PROVE  /\ inbox # <<>> /\ r = Head(inbox) /\ main = None /\ ~ending
             /\ Len(_sessions) < MaxSessions /\ ~Entered(r.sid)
  <2>1. DOMAIN _sessions = 1..Len(_sessions)
    BY DEF TypeOK
  <2> QED
    BY <1>3, <2>1 DEF Accepts, Reading, HasRoom, Conflicts, Entered
<1>4. CASE \E c \in ChildPid : StartSession(r, c)
  <2>1. PICK c \in ChildPid : StartSession(r, c)
    BY <1>4
  <2> DEFINE e == Entry(r.sid, c, TRUE)
  <2>2. e \in SessionFork /\ e.sid = r.sid
    BY <1>1 DEF Entry, SessionFork
  <2>3. Loaded(r) \in Nat
    BY <2>1, LoadedIsContent DEF StartSession
  <2>4. /\ shm' \in [Sid -> Nat \cup {None}]
        /\ \A t \in Sid \ {r.sid} : shm'[t] = shm[t]
        /\ shm'[r.sid] = Loaded(r)
    BY <1>1, <1>2, <2>1, <2>3 DEF StartSession
  <2>5. main' \in Reply /\ main'.sid = r.sid
    BY <1>1, <2>1 DEF StartSession, Reply
  <2>6. /\ inbox # <<>> /\ r = Head(inbox) /\ main = None /\ ~ending
        /\ Len(_sessions) < MaxSessions /\ ~Entered(r.sid)
    BY <1>3, <2>1 DEF StartSession
  <2>7. Begun(r, e)
    BY <2>1, <2>2, <2>4, <2>5, <2>6
    DEF StartSession, Begun, exitVars, cpVars
  <2> QED
    BY <2>2, <2>7
<1>5. CASE StartFails(r)
  <2> DEFINE e == Entry(r.sid, None, FALSE)
  <2>2. e \in SessionFork /\ e.sid = r.sid /\ ~e.memory /\ e.child_pid = None
    BY <1>1 DEF Entry, SessionFork
  <2>3. Created(r.sid) \in Nat
    BY <1>1, <1>2 DEF Created
  <2>4. /\ shm' \in [Sid -> Nat \cup {None}]
        /\ \A t \in Sid \ {r.sid} : shm'[t] = shm[t]
    BY <1>1, <1>2, <1>5, <2>3 DEF StartFails, CreateFails
  <2>5. main' \in Reply /\ main'.sid = r.sid
    BY <1>1, <1>5 DEF StartFails, Reply
  <2>6. /\ inbox # <<>> /\ r = Head(inbox) /\ main = None /\ ~ending
        /\ Len(_sessions) < MaxSessions /\ ~Entered(r.sid)
    BY <1>3, <1>5 DEF StartFails
  <2>7. Begun(r, e)
    BY <1>5, <2>2, <2>4, <2>5, <2>6
    DEF StartFails, Begun, exitVars, cpVars, kernelVars
  <2> QED
    BY <2>2, <2>7
<1>6. CASE ForkFails(r)
  <2> DEFINE e == Entry(r.sid, None, TRUE)
  <2>2. e \in SessionFork /\ e.sid = r.sid /\ e.child_pid = None
    BY <1>1 DEF Entry, SessionFork
  <2>3. Loaded(r) \in Nat
    BY <1>6, LoadedIsContent DEF ForkFails
  <2>4. /\ shm' \in [Sid -> Nat \cup {None}]
        /\ \A t \in Sid \ {r.sid} : shm'[t] = shm[t]
        /\ shm'[r.sid] = Loaded(r)
    BY <1>1, <1>2, <1>6, <2>3 DEF ForkFails
  <2>5. main' \in Reply /\ main'.sid = r.sid
    BY <1>1, <1>6 DEF ForkFails, Reply
  <2>6. /\ inbox # <<>> /\ r = Head(inbox) /\ main = None /\ ~ending
        /\ Len(_sessions) < MaxSessions /\ ~Entered(r.sid)
    BY <1>3, <1>6 DEF ForkFails
  <2>7. Begun(r, e)
    BY <1>6, <2>2, <2>4, <2>5, <2>6
    DEF ForkFails, Begun, exitVars, cpVars, kernelVars
  <2> QED
    BY <2>2, <2>7
<1> QED
  BY <1>4, <1>5, <1>6 DEF Starts

(* Which steps change what.                                                *)
LEMMA OnlyChanges ==
  ASSUME Next
  PROVE  /\ \/ _sessions' = _sessions
            \/ \E r \in Request : Starts(r)
            \/ Departs
            \/ \E c \in ChildPid : session_deleted(c)
         /\ \/ main' = main
            \/ RefuseSession
            \/ \E r \in Request : Starts(r)
            \/ WriteStatus
            \/ Departs
         /\ \/ deleters' = deleters
            \/ Departs
            \/ session_shutdown_handler
            \/ \E c \in ChildPid : session_deleted(c)
         /\ \/ notifiers' = notifiers
            \/ Departs
            \/ \E c \in ChildPid : session_deleted(c)
            \/ \E s \in Sid : WriteClose(s)
         /\ ending' = ending \/ shutdown
         /\ exited' = exited \/ Departs
         /\ \/ inbox' = inbox
            \/ \E s \in Sid : Ask(s)
            \/ RefuseSession
            \/ \E r \in Request : Starts(r)
         /\ \/ outbox' = outbox
            \/ Hear
            \/ WriteStatus
            \/ \E s \in Sid : WriteClose(s)
         /\ \/ shm' = shm
            \/ \E r \in Request : Starts(r)
            \/ Leave
            \/ \E c \in ChildPid : ChildWrite(c) \/ session_deleted(c)
         /\ \/ child' = child
            \/ \E r \in Request : Starts(r)
            \/ Departs
            \/ \E c \in ChildPid : ChildExit(c) \/ session_deleted(c)
         /\ \/ sigchld' = sigchld
            \/ Departs
            \/ \E c \in ChildPid : ChildExit(c)
            \/ session_shutdown_handler
         /\ s3' = s3 \/ \E c \in ChildPid : session_deleted(c)
         /\ view' = view \/ Hear \/ \E s \in Sid : Ask(s)
         /\ lives' = lives \/ \E s \in Sid : Ask(s)
         /\ written' = written \/ \E c \in ChildPid : ChildWrite(c)
PROOF
<1> USE DEF procVars, exitVars, wireVars, kernelVars, cpVars
<1>1. CASE \E s \in Sid : Ask(s)
  BY <1>1 DEF Ask
<1>2. CASE \E s \in Sid : WriteClose(s)
  BY <1>2 DEF WriteClose
<1>3. CASE Hear
  BY <1>3 DEF Hear
<1>4. CASE RefuseSession
  BY <1>4 DEF RefuseSession
<1>5. CASE WriteStatus
  BY <1>5 DEF WriteStatus
<1>6. CASE Leave \/ SigPipe
  BY <1>6 DEF Leave, SigPipe, Gone, Departs
<1>7. CASE \E r \in Request : Starts(r)
  BY <1>7 DEF Starts, StartSession, StartFails, ForkFails
<1>8. CASE shutdown
  BY <1>8 DEF shutdown
<1>9. CASE session_shutdown_handler
  BY <1>9 DEF session_shutdown_handler
<1>10. CASE \E c \in ChildPid : ChildWrite(c)
  BY <1>10 DEF ChildWrite
<1>11. CASE \E c \in ChildPid : ChildExit(c)
  BY <1>11 DEF ChildExit
<1>12. CASE \E c \in ChildPid : session_deleted(c)
  BY <1>12 DEF session_deleted
<1> QED
  BY <1>1, <1>2, <1>3, <1>4, <1>5, <1>6, <1>7, <1>8, <1>9, <1>10, <1>11,
     <1>12 DEF Next, MainStep, Starts

(* The loop of session_deleted finds the entry of the child, which is the  *)
(* only one.                                                               *)
LEMMA IndexFacts ==
  ASSUME TypeOK, Vector, NEW c \in ChildPid
  PROVE  /\ IndexOf(c) = 0 => \A i \in 1..Len(_sessions) :
                                _sessions[i].child_pid # c
         /\ IndexOf(c) # 0 => /\ IndexOf(c) \in 1..Len(_sessions)
                              /\ _sessions[IndexOf(c)].child_pid = c
PROOF
<1> DEFINE I == {i \in 1..Len(_sessions) : _sessions[i].child_pid = c}
<1>1. IndexOf(c) = IF I # {} THEN Min(I) ELSE 0
  BY DEF IndexOf, SelectInSeq
<1>2. ASSUME NEW i \in I PROVE Min(I) = i
  <2>1. i \in 1..Len(_sessions) /\ _sessions[i].child_pid = c /\ c # None
    BY NoneAssumption
  <2>2. \A j \in I : j = i
    BY <2>1 DEF Vector, OneChild
  <2>3. i <= i
    BY <2>1
  <2> HIDE DEF I
  <2> QED
    BY <2>2, <2>3 DEF Min
<1>3. CASE I = {}
  BY <1>1, <1>3
<1>4. CASE I # {}
  <2>1. PICK i \in I : TRUE
    BY <1>4
  <2>2. IndexOf(c) = i
    BY <1>1, <1>2, <1>4, <2>1
  <2>3. i \in 1..Len(_sessions) /\ _sessions[i].child_pid = c
    BY <2>1
  <2>4. i # 0
    BY <2>3
  <2> QED
    BY <2>2, <2>3, <2>4
<1> QED
  BY <1>3, <1>4

(* The critical section of session_deleted, for the entry at i.            *)
Deleted(c, i) ==
  /\ deleters[c] > 0 /\ ~exited
  /\ i \in 1..Len(_sessions) /\ _sessions[i].child_pid = c
  /\ _sessions[i].sid \in Sid /\ _sessions[i].sid = child[c].sid
  /\ _sessions[i].memory /\ shm[_sessions[i].sid] \in Nat
  /\ child[c].state # "none"
  /\ SwapOut(_sessions[i].sid)
  /\ shm' = ShmWithout(i)
  /\ _sessions' = RemoveAt(_sessions, i)
  /\ child' = Waited(c)
  /\ deleters' = [deleters EXCEPT ![c] = @ - 1]
  /\ notifiers' = notifiers \cup {_sessions[i].sid}
  /\ UNCHANGED <<main, ending, exited, inbox, outbox, sigchld, view, lives,
                 written>>

(* session_deleted erases the entry of the child, whose session it is.     *)
LEMMA DeletedFacts ==
  ASSUME TypeOK, Vector, NEW c \in ChildPid, session_deleted(c)
  PROVE  \E i \in 1..Len(_sessions) : Deleted(c, i)
PROOF
<1>1. PICK i : i = IndexOf(c)
  OBVIOUS
<1>2. i \in 1..Len(_sessions) /\ _sessions[i].child_pid = c
  <2>1. i > 0
    BY <1>1 DEF session_deleted
  <2>2. i # 0
    BY <2>1
  <2> QED
    BY <1>1, <2>2, IndexFacts
<1>3. /\ deleters[c] > 0
      /\ SwapOut(_sessions[i].sid)
      /\ shm' = ShmWithout(i)
      /\ _sessions' = RemoveAt(_sessions, i)
      /\ child' = Waited(c)
      /\ deleters' = [deleters EXCEPT ![c] = @ - 1]
      /\ notifiers' = notifiers \cup {_sessions[i].sid}
      /\ UNCHANGED <<main, ending, exited, inbox, outbox, sigchld, view,
                     lives, written>>
  BY <1>1 DEF session_deleted, exitVars, wireVars, cpVars
<1>4. _sessions[i] \in SessionFork
  BY <1>2 DEF TypeOK
<1>5. _sessions[i].sid \in Sid
  BY <1>4 DEF SessionFork
<1>6. /\ child[c].state # "none" /\ child[c].sid = _sessions[i].sid
      /\ _sessions[i].memory
  BY <1>2 DEF Vector, Owning
<1>7. shm[_sessions[i].sid] # None
  BY <1>2, <1>6 DEF Vector, Holding
<1>8. shm[_sessions[i].sid] \in Nat
  BY <1>5, <1>7 DEF TypeOK
<1>9. ~exited
  <2>1. exited => deleters[c] = 0
    BY DEF Vector, Ended
  <2>2. deleters[c] # 0
    BY <1>3
  <2> QED
    BY <2>1, <2>2
<1> QED
  BY <1>2, <1>3, <1>5, <1>6, <1>8, <1>9 DEF Deleted

-----------------------------------------------------------------------------
(* TypeOK and Vector.                                                      *)

(* The process starts without sessions, children or messages.              *)
LEMMA TypeInit == Init => TypeOK /\ Vector /\ Protocol
PROOF
<1> SUFFICES ASSUME Init PROVE TypeOK /\ Vector /\ Protocol
  OBVIOUS
<1>1. /\ _sessions \in Seq(SessionFork) /\ inbox \in Seq(Request)
      /\ outbox \in Seq(Message)
  BY DEF Init
<1>2. child \in [ChildPid -> Child]
  BY DEF Init, Child
<1>3. TypeOK
  BY <1>1, <1>2 DEF Init, TypeOK
<1>4. Len(_sessions) = 0 /\ Len(inbox) = 0 /\ Len(outbox) = 0
  BY DEF Init
<1>5. Len(_sessions) <= MaxSessions /\ 1..0 = {}
  BY <1>4, SizesAssumption
<1>6. Vector
  BY <1>4, <1>5
  DEF Vector, Ended, Fits, OneEntry, OneChild, Holding, Owning, Init
<1>7. \A s \in Sid : ~Asked(s) /\ ~Entered(s) /\ ~Closing(s)
  BY <1>4, <1>5 DEF Init, Asked, Entered, Closing, CloseSent
<1>8. Protocol
  <2>1. InOnePlace
    BY <1>7 DEF InOnePlace, Init
  <2>2. AskedOnce /\ ClosedOnce
    BY <1>4, <1>5 DEF AskedOnce, ClosedOnce
  <2> QED
    BY <2>1, <2>2 DEF Protocol
<1> QED
  BY <1>3, <1>6, <1>8

(* A request of the control plane, for a session it does not believe to    *)
(* run.                                                                    *)
LEMMA AskFacts ==
  ASSUME NEW s \in Sid, Ask(s)
  PROVE  /\ view[s] # "placed"
         /\ Cardinality(Placed) < MaxRequested
         /\ inbox' = Append(inbox, [sid |-> s, swap |-> view[s] = "swapped"])
         /\ view' = [view EXCEPT ![s] = "placed"]
         /\ lives' = [lives EXCEPT ![s] = @ + 1]
         /\ UNCHANGED <<_sessions, main, deleters, notifiers, ending, exited,
                        outbox, shm, child, sigchld, s3, written>>
PROOF
  BY Zenon DEF Ask, Placed, procVars, exitVars, kernelVars

(* The state and the session of a child after a step.                      *)
LEMMA ChildTyped ==
  ASSUME TypeOK, NEW c \in ChildPid
  PROVE  /\ child[c] \in Child /\ child[c].state \in {"none", "running",
                                                      "zombie"}
         /\ child[c].state = "none" => child[c] = NoChild
                                       /\ child[c].sid = None
         /\ child[c].state # "none" => child[c].sid \in Sid
         /\ child[c].sid \in Sid => child[c].state # "none"
         /\ [child[c] EXCEPT !.state = "zombie"].sid = child[c].sid
         /\ [child[c] EXCEPT !.state = "zombie"].state = "zombie"
         /\ child[c].state # "none" =>
              child[c] = [state |-> child[c].state, sid |-> child[c].sid]
         /\ child[c].state = "running" =>
              [child[c] EXCEPT !.state = "zombie"] =
                [state |-> "zombie", sid |-> child[c].sid]
PROOF
<1>1. child[c] \in Child
  BY DEF TypeOK
<1>2. CASE child[c] = NoChild
  BY <1>1, <1>2, NoneAssumption DEF NoChild
<1>3. CASE child[c] \in [state : {"running", "zombie"}, sid : Sid]
  BY <1>1, <1>3, NoneAssumption
<1> QED
  BY <1>1, <1>2, <1>3 DEF Child

(* Only a zombie is waited for, and only a running child exits.            *)
LEMMA TypeStep == TypeOK /\ Vector /\ [Next]_vars => TypeOK'
PROOF
<1> SUFFICES ASSUME TypeOK, Vector, [Next]_vars PROVE TypeOK'
  OBVIOUS
<1>1. CASE UNCHANGED vars
  BY <1>1 DEF vars, procVars, exitVars, wireVars, kernelVars, cpVars, TypeOK
<1>2. CASE Next
  <2>a. \A r \in Request : Starts(r) => \E e \in SessionFork : Begun(r, e)
    BY StartFacts
  <2>b. \A c \in ChildPid : session_deleted(c) =>
          \E i \in 1..Len(_sessions) : Deleted(c, i)
    BY DeletedFacts
  <2>1. _sessions' \in Seq(SessionFork)
    <3>1. CASE \E r \in Request : Starts(r)
      <4>1. PICK r \in Request, e \in SessionFork : Begun(r, e)
        BY <3>1, <2>a
      <4>2. _sessions' = Append(_sessions, e)
        BY <4>1 DEF Begun
      <4> QED
        BY <4>2 DEF TypeOK
    <3>2. CASE Departs
      <4>1. _sessions' = <<>>
        BY <3>2 DEF Departs, Leave, SigPipe, Gone
      <4> QED
        BY <4>1
    <3>3. CASE \E c \in ChildPid : session_deleted(c)
      <4>1. PICK c \in ChildPid, i \in 1..Len(_sessions) : Deleted(c, i)
        BY <3>3, <2>b
      <4>2. /\ _sessions' = RemoveAt(_sessions, i)
            /\ _sessions \in Seq(SessionFork)
        BY <4>1 DEF Deleted, TypeOK
      <4> QED
        BY <4>2, Erased
    <3> QED
      BY <1>2, <3>1, <3>2, <3>3, OnlyChanges DEF TypeOK
  <2>2. main' \in Reply \cup {None}
    <3>1. CASE \E r \in Request : Starts(r)
      BY <3>1, <2>a DEF Begun
    <3>2. CASE RefuseSession
      <4>1. Head(inbox) \in Request
        BY <3>2, HeadTail DEF RefuseSession, Reading, TypeOK
      <4> QED
        BY <3>2, <4>1 DEF RefuseSession, Reply, Request
    <3>3. CASE Departs \/ WriteStatus
      BY <3>3 DEF Departs, Leave, SigPipe, Gone, WriteStatus
    <3> QED
      BY <1>2, <3>1, <3>2, <3>3, OnlyChanges DEF TypeOK
  <2>3. deleters' \in [ChildPid -> Nat]
    <3>1. CASE Departs
      BY <3>1 DEF Departs, Leave, SigPipe, Gone
    <3>2. CASE session_shutdown_handler
      BY <3>2 DEF session_shutdown_handler, TypeOK
    <3>3. CASE \E c \in ChildPid : session_deleted(c)
      <4>1. PICK c \in ChildPid : /\ deleters[c] > 0
                                 /\ deleters' = [deleters EXCEPT ![c] = @ - 1]
        BY <3>3 DEF session_deleted
      <4> QED
        BY <4>1 DEF TypeOK
    <3> QED
      BY <1>2, <3>1, <3>2, <3>3, OnlyChanges DEF TypeOK
  <2>4. notifiers' \subseteq Sid
    <3>1. CASE Departs \/ \E s \in Sid : WriteClose(s)
      BY <3>1 DEF Departs, Leave, SigPipe, Gone, WriteClose, TypeOK
    <3>2. CASE \E c \in ChildPid : session_deleted(c)
      BY <3>2, <2>b DEF Deleted, TypeOK
    <3> QED
      BY <1>2, <3>1, <3>2, OnlyChanges DEF TypeOK
  <2>5. ending' \in BOOLEAN /\ exited' \in BOOLEAN
    BY <1>2, OnlyChanges
    DEF TypeOK, shutdown, Departs, Leave, SigPipe, Gone
  <2>6. inbox' \in Seq(Request)
    <3>1. CASE \E s \in Sid : Ask(s)
      <4>1. PICK s \in Sid : Ask(s)
        BY <3>1
      <4>2. [sid |-> s, swap |-> view[s] = "swapped"] \in Request
        BY DEF Request
      <4>3. inbox' = Append(inbox, [sid |-> s, swap |-> view[s] = "swapped"])
        BY <4>1, AskFacts
      <4> QED
        BY <4>2, <4>3 DEF TypeOK
    <3>2. CASE RefuseSession
      BY <3>2, HeadTail DEF RefuseSession, Reading, TypeOK
    <3>3. CASE \E r \in Request : Starts(r)
      BY <3>3, <2>a, HeadTail DEF Begun, TypeOK
    <3> QED
      BY <1>2, <3>1, <3>2, <3>3, OnlyChanges DEF TypeOK
  <2>7. outbox' \in Seq(Message)
    <3>1. CASE Hear
      BY <3>1, HeadTail DEF Hear, TypeOK
    <3>2. CASE WriteStatus
      <4>1. main \in Message
        BY <3>2 DEF WriteStatus, TypeOK, Reply, Message
      <4> QED
        BY <3>2, <4>1, AppendElement DEF WriteStatus, Write, TypeOK
    <3>3. CASE \E s \in Sid : WriteClose(s)
      <4>1. PICK s \in Sid : WriteClose(s)
        BY <3>3
      <4>2. [kind |-> "close", sid |-> s] \in Message
        BY DEF Message
      <4> QED
        BY <4>1, <4>2, AppendElement DEF WriteClose, Write, TypeOK
    <3> QED
      BY <1>2, <3>1, <3>2, <3>3, OnlyChanges DEF TypeOK
  <2>8. shm' \in [Sid -> Nat \cup {None}]
    <3>1. CASE \E r \in Request : Starts(r)
      BY <3>1, <2>a DEF Begun
    <3>2. CASE Leave
      BY <3>2 DEF Leave, TypeOK
    <3>3. CASE \E c \in ChildPid : ChildWrite(c)
      <4>1. PICK c \in ChildPid : ChildWrite(c)
        BY <3>3
      <4>2. child[c].sid \in Sid
        BY <4>1, ChildTyped DEF ChildWrite
      <4>3. written[child[c].sid] + 1 \in Nat
        BY <4>2 DEF TypeOK
      <4> QED
        BY <4>1, <4>2, <4>3 DEF ChildWrite, TypeOK
    <3>4. CASE \E c \in ChildPid : session_deleted(c)
      <4>1. PICK c \in ChildPid, i \in 1..Len(_sessions) : Deleted(c, i)
        BY <3>4, <2>b
      <4> QED
        BY <4>1 DEF Deleted, ShmWithout, TypeOK
    <3> QED
      BY <1>2, <3>1, <3>2, <3>3, <3>4, OnlyChanges DEF TypeOK
  <2>9. child' \in [ChildPid -> Child]
    <3>1. CASE \E r \in Request : Starts(r)
      <4>1. PICK r \in Request, e \in SessionFork : Begun(r, e)
        BY <3>1, <2>a
      <4>2. [state |-> "running", sid |-> r.sid] \in Child
        BY DEF Request, Child
      <4> QED
        BY <4>1, <4>2 DEF Begun, TypeOK
    <3>2. CASE Departs
      BY <3>2 DEF Departs, Leave, SigPipe, Gone, TypeOK, Child
    <3>3. CASE \E c \in ChildPid : ChildExit(c)
      <4>1. PICK c \in ChildPid : ChildExit(c)
        BY <3>3
      <4>2. /\ child[c].sid \in Sid
            /\ [child[c] EXCEPT !.state = "zombie"] =
                 [state |-> "zombie", sid |-> child[c].sid]
        BY <4>1, ChildTyped DEF ChildExit
      <4>3. [child[c] EXCEPT !.state = "zombie"] \in Child /\ NoChild \in Child
        BY <4>2 DEF Child
      <4> QED
        BY <4>1, <4>3 DEF ChildExit, TypeOK
    <3>4. CASE \E c \in ChildPid : session_deleted(c)
      <4>1. PICK c \in ChildPid, i \in 1..Len(_sessions) : Deleted(c, i)
        BY <3>4, <2>b
      <4>2. NoChild \in Child /\ child \in [ChildPid -> Child]
        BY DEF Child, TypeOK
      <4>3. child' = child \/ child' = [child EXCEPT ![c] = NoChild]
        BY <4>1 DEF Deleted, Waited
      <4> QED
        BY <4>2, <4>3
    <3> QED
      BY <1>2, <3>1, <3>2, <3>3, <3>4, OnlyChanges DEF TypeOK
  <2>10. sigchld' \in ChildPid \cup {None}
    BY <1>2, OnlyChanges DEF TypeOK, Departs, Leave, SigPipe, Gone, ChildExit,
       Raise, session_shutdown_handler
  <2>11. s3' \in [Sid -> Nat \cup {None}]
    <3>1. CASE \E c \in ChildPid : session_deleted(c)
      BY <3>1, <2>b DEF Deleted, SwapOut, TypeOK
    <3> QED
      BY <1>2, <3>1, OnlyChanges DEF TypeOK
  <2>12. view' \in [Sid -> {"new", "placed", "swapped"}]
    <3>1. CASE Hear
      BY <3>1 DEF Hear, TypeOK
    <3>2. CASE \E s \in Sid : Ask(s)
      BY <3>2, AskFacts DEF TypeOK
    <3> QED
      BY <1>2, <3>1, <3>2, OnlyChanges DEF TypeOK
  <2>13. lives' \in [Sid -> Nat]
    <3>1. CASE \E s \in Sid : Ask(s)
      <4>1. PICK s \in Sid : lives' = [lives EXCEPT ![s] = @ + 1]
        BY <3>1, AskFacts
      <4> QED
        BY <4>1 DEF TypeOK
    <3> QED
      BY <1>2, <3>1, OnlyChanges DEF TypeOK
  <2>14. written' \in [Sid -> Nat]
    <3>1. CASE \E c \in ChildPid : ChildWrite(c)
      <4>1. PICK s \in Sid : written' = [written EXCEPT ![s] = @ + 1]
        BY <3>1, ChildTyped DEF ChildWrite
      <4> QED
        BY <4>1 DEF TypeOK
    <3> QED
      BY <1>2, <3>1, OnlyChanges DEF TypeOK
  <2> QED
    BY <2>1, <2>2, <2>3, <2>4, <2>5, <2>6, <2>7, <2>8, <2>9, <2>10, <2>11,
       <2>12, <2>13, <2>14 DEF TypeOK
<1> QED
  BY <1>1, <1>2

(* The entries are SessionFork objects.                                    *)
LEMMA EntryTyped ==
  ASSUME TypeOK, NEW i \in 1..Len(_sessions)
  PROVE  /\ _sessions[i] \in SessionFork /\ _sessions[i].sid \in Sid
         /\ _sessions[i].child_pid \in ChildPid \cup {None}
         /\ _sessions[i].memory \in BOOLEAN
PROOF
<1>1. _sessions[i] \in SessionFork
  BY DEF TypeOK
<1> QED
  BY <1>1 DEF SessionFork

(* A new session gets an entry, a name, a child and memory of its own.     *)
LEMMA VectorBegun ==
  ASSUME TypeOK, TypeOK', Vector, NEW r \in Request, NEW e \in SessionFork,
         Begun(r, e)
  PROVE  Vector'
PROOF
<1>1. PICK q \in Seq(SessionFork) : q = _sessions
  BY DEF TypeOK
<1> DEFINE b == _sessions'
<1>2. b = Append(q, e)
  BY <1>1 DEF Begun
<1> HIDE DEF b
<1>3. /\ b \in Seq(SessionFork) /\ Len(q) \in Nat /\ Len(b) = Len(q) + 1
      /\ Len(b) \in 1..Len(b) /\ b[Len(b)] = e
      /\ \A k \in 1..Len(q) : k \in 1..Len(b) /\ b[k] = q[k] /\ k # Len(b)
      /\ \A k \in 1..Len(b) : k \in 1..Len(q) \/ k = Len(b)
  BY <1>2, AppendElement
<1>4. \A k \in 1..Len(b) : \/ k \in 1..Len(q) /\ b[k] = q[k]
                           \/ k = Len(b) /\ b[k] = e
  BY <1>3
<1>5. \A k \in 1..Len(q) : q[k].sid # r.sid /\ q[k].sid \in Sid
  BY <1>1, EntryTyped DEF Begun, Entered
<1>6. e.sid = r.sid /\ r.sid \in Sid
  BY DEF Begun, Request
<1>7. Ended'
  BY DEF Begun, Vector, Ended
<1>8. Fits'
  <2>1. PICK n \in Nat : n = Len(q)
    BY <1>3
  <2>2. n + 1 <= MaxSessions
    BY <1>1, <2>1, SizesAssumption DEF Begun
  <2> QED
    BY <1>3, <2>1, <2>2 DEF Fits, b
<1>9. OneEntry'
  <2>1. ASSUME NEW i \in 1..Len(b), NEW j \in 1..Len(b), b[i].sid = b[j].sid
        PROVE  i = j
    BY <1>1, <1>4, <1>5, <1>6, <2>1 DEF Vector, OneEntry
  <2> QED
    BY <2>1 DEF OneEntry, b
<1>10. \A k \in 1..Len(q) : q[k].child_pid = e.child_pid => e.child_pid = None
  BY <1>1 DEF Begun, Entry, Vector, Owning
<1>11. OneChild'
  <2>1. ASSUME NEW i \in 1..Len(b), NEW j \in 1..Len(b),
               b[i].child_pid = b[j].child_pid, b[i].child_pid # None
        PROVE  i = j
    BY <1>1, <1>4, <1>10, <2>1 DEF Vector, OneChild
  <2> QED
    BY <2>1 DEF OneChild, b
<1>12. Holding'
  <2>1. e.memory => shm'[e.sid] # None
    <3> SUFFICES ASSUME e.memory PROVE shm'[r.sid] # None
      BY <1>6
    <3>1. CanLoad(r) /\ shm'[r.sid] = Loaded(r)
      BY DEF Begun
    <3> QED
      BY <3>1, LoadedIsContent, NoneAssumption
  <2>2. \A k \in 1..Len(q) : shm'[q[k].sid] = shm[q[k].sid]
    BY <1>5 DEF Begun
  <2>3. ASSUME NEW i \in 1..Len(b), b[i].memory PROVE shm'[b[i].sid] # None
    BY <1>1, <1>4, <2>1, <2>2, <2>3 DEF Vector, Holding
  <2> QED
    BY <2>3 DEF Holding, b
<1>13. Owning'
  <2>1. ASSUME NEW i \in 1..Len(b), NEW c \in ChildPid, b[i].child_pid = c
        PROVE  /\ child'[c].state # "none" /\ child'[c].sid = b[i].sid
               /\ b[i].memory
    <3>1. CASE i \in 1..Len(q) /\ b[i] = q[i]
      <4>1. /\ child[c].state # "none" /\ child[c].sid = q[i].sid
            /\ q[i].memory
        BY <1>1, <2>1, <3>1 DEF Vector, Owning
      <4>2. child'[c] = child[c]
        BY <4>1 DEF Begun, TypeOK
      <4> QED
        BY <3>1, <4>1, <4>2
    <3>2. CASE b[i] = e
      <4>1. c # None
        BY NoneAssumption
      <4>2. PICK d \in ChildPid :
              /\ e = Entry(r.sid, d, TRUE)
              /\ child' = [child EXCEPT ![d] = [state |-> "running",
                                                sid |-> r.sid]]
        BY <2>1, <3>2, <4>1 DEF Begun
      <4>3. c = d /\ e.sid = r.sid /\ e.memory
        BY <2>1, <3>2, <4>2 DEF Entry
      <4>4. child'[c] = [state |-> "running", sid |-> r.sid]
        BY <4>2, <4>3 DEF TypeOK
      <4> QED
        BY <3>2, <4>3, <4>4
    <3> QED
      BY <1>4, <3>1, <3>2
  <2> QED
    BY <2>1 DEF Owning, b
<1> QED
  BY <1>7, <1>8, <1>9, <1>11, <1>12, <1>13 DEF Vector

(* The end of a session leaves the entries, names, children and memory of  *)
(* the others alone.                                                       *)
LEMMA VectorDeleted ==
  ASSUME TypeOK, TypeOK', Vector, NEW c \in ChildPid,
         NEW i \in 1..Len(_sessions), Deleted(c, i)
  PROVE  Vector'
PROOF
<1>1. PICK q \in Seq(SessionFork) : q = _sessions
  BY DEF TypeOK
<1> DEFINE b == _sessions'
<1>2. b = RemoveAt(q, i) /\ i \in 1..Len(q)
  BY <1>1 DEF Deleted
<1> HIDE DEF b
<1>3. /\ b \in Seq(SessionFork) /\ Len(b) = Len(q) - 1 /\ Len(q) \in Nat
      /\ \A k \in 1..Len(b) : /\ Before(i, k) \in 1..Len(q)
                              /\ Before(i, k) # i
                              /\ b[k] = q[Before(i, k)]
      /\ \A k, l \in 1..Len(b) : Before(i, k) = Before(i, l) => k = l
  <2>1. /\ b \in Seq(SessionFork) /\ Len(b) = Len(q) - 1 /\ Len(q) \in Nat
    BY <1>2, Erased
  <2>2. \A k \in 1..Len(b) : /\ Before(i, k) \in 1..Len(q)
                             /\ Before(i, k) # i
                             /\ b[k] = q[Before(i, k)]
    BY <1>2, ErasedFrom
  <2>3. \A k, l \in 1..Len(b) : Before(i, k) = Before(i, l) => k = l
    BY <1>2, Erased
  <2> QED
    BY <2>1, <2>2, <2>3
<1>4. \A k \in 1..Len(q) : q[k].sid \in Sid
  BY <1>1, EntryTyped
<1>7. Ended'
  BY DEF Deleted, Vector, Ended
<1>8. Fits'
  <2>1. PICK n \in Nat : n = Len(q)
    BY <1>3
  <2>2. n - 1 <= MaxSessions
    BY <1>1, <2>1, SizesAssumption DEF Vector, Fits
  <2> QED
    BY <1>3, <2>1, <2>2 DEF Fits, b
<1>9. OneEntry'
  <2>1. ASSUME NEW k \in 1..Len(b), NEW l \in 1..Len(b), b[k].sid = b[l].sid
        PROVE  k = l
    <3>1. Before(i, k) = Before(i, l)
      BY <1>1, <1>3, <2>1 DEF Vector, OneEntry
    <3> QED
      BY <1>3, <3>1
  <2> QED
    BY <2>1 DEF OneEntry, b
<1>11. OneChild'
  <2>1. ASSUME NEW k \in 1..Len(b), NEW l \in 1..Len(b),
               b[k].child_pid = b[l].child_pid, b[k].child_pid # None
        PROVE  k = l
    <3>1. Before(i, k) = Before(i, l)
      BY <1>1, <1>3, <2>1 DEF Vector, OneChild
    <3> QED
      BY <1>3, <3>1
  <2> QED
    BY <2>1 DEF OneChild, b
<1>12. Holding'
  <2>1. \A k \in 1..Len(q) : k # i => shm'[q[k].sid] = shm[q[k].sid]
    <3>1. \A k \in 1..Len(q) : k # i => q[k].sid # q[i].sid
      BY <1>1, <1>2 DEF Vector, OneEntry
    <3>2. shm' = shm \/ shm' = [shm EXCEPT ![q[i].sid] = None]
      BY <1>1 DEF Deleted, ShmWithout
    <3> QED
      BY <1>4, <3>1, <3>2 DEF TypeOK
  <2>3. ASSUME NEW k \in 1..Len(b), b[k].memory PROVE shm'[b[k].sid] # None
    <3>1. q[Before(i, k)].memory => shm[q[Before(i, k)].sid] # None
      BY <1>1, <1>3 DEF Vector, Holding
    <3> QED
      BY <1>3, <2>1, <2>3, <3>1
  <2> QED
    BY <2>3 DEF Holding, b
<1>13. Owning'
  <2>1. ASSUME NEW k \in 1..Len(b), NEW d \in ChildPid, b[k].child_pid = d
        PROVE  /\ child'[d].state # "none" /\ child'[d].sid = b[k].sid
               /\ b[k].memory
    <3> DEFINE j == Before(i, k)
    <3>1. j \in 1..Len(q) /\ j # i /\ b[k] = q[j]
      BY <1>3
    <3> HIDE DEF j
    <3>2. /\ child[d].state # "none" /\ child[d].sid = q[j].sid
          /\ q[j].memory
      BY <1>1, <2>1, <3>1 DEF Vector, Owning
    <3>3. d # c
      <4>1. q[i].child_pid = c /\ c # None
        BY <1>1, NoneAssumption DEF Deleted
      <4> QED
        BY <1>1, <1>2, <2>1, <3>1, <4>1 DEF Vector, OneChild
    <3>4. child'[d] = child[d]
      BY <3>3 DEF Deleted, Waited, TypeOK
    <3> QED
      BY <3>1, <3>2, <3>4
  <2> QED
    BY <2>1 DEF Owning, b
<1> QED
  BY <1>7, <1>8, <1>9, <1>11, <1>12, <1>13 DEF Vector

(* When the process is gone, so are its vector, its threads and its        *)
(* pending signal.                                                         *)
LEMMA VectorDeparts ==
  ASSUME Departs
  PROVE  Vector' /\ Len(_sessions)' = 0 /\ notifiers' = {}
PROOF
<1>1. /\ ending' /\ exited' /\ _sessions' = <<>> /\ main' = None
      /\ notifiers' = {} /\ sigchld' = None
      /\ deleters' = [c \in ChildPid |-> 0]
  BY DEF Departs, Leave, SigPipe, Gone
<1>2. Len(_sessions') = 0 /\ 0 <= MaxSessions /\ 1..0 = {}
  BY <1>1, SizesAssumption
<1>3. Ended' /\ Fits'
  BY <1>1, <1>2 DEF Ended, Fits
<1>4. OneEntry' /\ OneChild' /\ Holding' /\ Owning'
  BY <1>2 DEF OneEntry, OneChild, Holding, Owning
<1> QED
  BY <1>1, <1>2, <1>3, <1>4 DEF Vector

(* A child that writes keeps the memory it has, or has none to write.      *)
LEMMA WriteFacts ==
  ASSUME TypeOK, NEW c \in ChildPid, ChildWrite(c)
  PROVE  /\ child[c].sid \in Sid /\ child[c].state = "running"
         /\ \A t \in Sid : shm'[t] = None <=> shm[t] = None
         /\ \A t \in Sid \ {child[c].sid} :
              shm'[t] = shm[t] /\ written'[t] = written[t]
         /\ written'[child[c].sid] = written[child[c].sid] + 1
         /\ shm[child[c].sid] # None =>
              shm'[child[c].sid] = written[child[c].sid] + 1
         /\ UNCHANGED <<_sessions, main, deleters, notifiers, ending, exited,
                        inbox, outbox, child, sigchld, s3, view, lives>>
PROOF
<1>1. PICK s : s = child[c].sid
  OBVIOUS
<1>2. s \in Sid /\ child[c].state = "running"
  BY <1>1, ChildTyped DEF ChildWrite
<1>3. written[s] + 1 \in Nat /\ written[s] + 1 # None
  BY <1>2, NoneAssumption DEF TypeOK
<1>4. /\ written' = [written EXCEPT ![s] = written[s] + 1]
      /\ shm' = IF shm[s] = None THEN shm
                ELSE [shm EXCEPT ![s] = written[s] + 1]
      /\ UNCHANGED <<_sessions, main, deleters, notifiers, ending, exited,
                     inbox, outbox, child, sigchld, s3, view, lives>>
  BY <1>1 DEF ChildWrite, procVars, exitVars, wireVars, kernelVars, cpVars
<1>5. /\ \A t \in Sid \ {s} : shm'[t] = shm[t] /\ written'[t] = written[t]
      /\ written'[s] = written[s] + 1
      /\ shm[s] # None => shm'[s] = written[s] + 1
      /\ shm[s] = None => shm'[s] = None
  BY <1>2, <1>4 DEF TypeOK
<1> QED
  BY <1>1, <1>2, <1>3, <1>4, <1>5

(* A child that exits stays a zombie of its session while the process can  *)
(* wait for it.                                                            *)
LEMMA ExitFacts ==
  ASSUME TypeOK, NEW c \in ChildPid, ChildExit(c)
  PROVE  /\ child[c].sid \in Sid /\ child[c].state = "running"
         /\ \A d \in ChildPid \ {c} : child'[d] = child[d]
         /\ ~exited => child'[c] = [state |-> "zombie", sid |-> child[c].sid]
                       /\ Raise(c)
         /\ exited => child'[c] = NoChild /\ sigchld' = sigchld
         /\ UNCHANGED <<_sessions, main, deleters, notifiers, ending, exited,
                        inbox, outbox, shm, s3, view, lives, written>>
PROOF
<1>1. child[c].sid \in Sid /\ child[c].state = "running"
  BY ChildTyped DEF ChildExit
<1>2. UNCHANGED <<_sessions, main, deleters, notifiers, ending, exited,
                  inbox, outbox, shm, s3, view, lives, written>>
  BY DEF ChildExit, procVars, exitVars, wireVars, cpVars
<1>3. CASE exited
  BY <1>1, <1>2, <1>3 DEF ChildExit, TypeOK
<1>4. CASE ~exited
  <2>1. child' = [child EXCEPT ![c] = [child[c] EXCEPT !.state = "zombie"]]
    BY <1>4 DEF ChildExit
  <2>2. [child[c] EXCEPT !.state = "zombie"] =
          [state |-> "zombie", sid |-> child[c].sid]
    BY <1>1, ChildTyped
  <2>3. Raise(c)
    BY <1>4 DEF ChildExit
  <2> QED
    BY <1>1, <1>2, <1>4, <2>1, <2>2, <2>3 DEF TypeOK
<1> QED
  BY <1>3, <1>4

(* The vector of sessions stays consistent, whatever fails.                *)
LEMMA VectorStep ==
  TypeOK /\ TypeOK' /\ Vector /\ [Next]_vars => Vector'
PROOF
<1> SUFFICES ASSUME TypeOK, TypeOK', Vector, [Next]_vars PROVE Vector'
  OBVIOUS
<1> USE DEF Vector, Ended, Fits, OneEntry, OneChild, Holding, Owning
<1>1. CASE UNCHANGED vars
  BY <1>1 DEF vars, procVars, exitVars, wireVars, kernelVars, cpVars
<1>2. CASE Next
  <2>1. CASE \E r \in Request : Starts(r)
    BY <2>1, StartFacts, VectorBegun
  <2>2. CASE Departs
    BY <2>2, VectorDeparts
  <2>3. CASE \E c \in ChildPid : session_deleted(c)
    BY <2>3, DeletedFacts, VectorDeleted
  <2>4. CASE ~(\E r \in Request : Starts(r)) /\ ~Departs
             /\ ~(\E c \in ChildPid : session_deleted(c))
    <3>1. _sessions' = _sessions /\ exited' = exited
      BY <1>2, <2>4, OnlyChanges
    <3>2. Ended'
      <4> SUFFICES ASSUME exited PROVE Ended'
        BY <3>1
      <4>1. ending' /\ main' = main
        BY <1>2, <2>4, OnlyChanges DEF shutdown, RefuseSession, Reading,
           WriteStatus
      <4>2. deleters' = deleters /\ notifiers' = notifiers
        BY <1>2, <2>4, OnlyChanges DEF session_shutdown_handler, WriteClose
      <4>3. sigchld' = sigchld
        BY <1>2, <2>4, OnlyChanges
        DEF ChildExit, session_shutdown_handler
      <4> QED
        BY <3>1, <4>1, <4>2, <4>3
    <3>3. Fits' /\ OneEntry' /\ OneChild'
      BY <3>1
    <3>4. \A t \in Sid : shm'[t] = None <=> shm[t] = None
      <4>1. CASE \E c \in ChildPid : ChildWrite(c)
        BY <4>1, WriteFacts
      <4> QED
        BY <1>2, <2>4, <4>1, OnlyChanges DEF Departs
    <3>5. Holding'
      <4>1. \A i \in 1..Len(_sessions) : _sessions[i].sid \in Sid
        BY EntryTyped
      <4> QED
        BY <3>1, <3>4, <4>1
    <3>6. Owning'
      <4>1. CASE \E c \in ChildPid : ChildExit(c)
        <5>1. PICK c \in ChildPid : ChildExit(c)
          BY <4>1
        <5>2. CASE exited
          <6>1. 1..Len(_sessions) = {}
            BY <5>2
          <6> QED
            BY <3>1, <6>1
        <5>3. CASE ~exited
          <6>1. \A d \in ChildPid : child[d].state # "none" =>
                  child'[d].state # "none" /\ child'[d].sid = child[d].sid
            <7> TAKE d \in ChildPid
            <7>1. CASE d = c
              <8>1. child'[c] = [state |-> "zombie", sid |-> child[c].sid]
                BY <5>1, <5>3, ExitFacts
              <8> QED
                BY <7>1, <8>1
            <7>2. CASE d # c
              <8>1. \A x \in ChildPid \ {c} : child'[x] = child[x]
                BY <5>1, ExitFacts
              <8> QED
                BY <7>2, <8>1
            <7> QED
              BY <7>1, <7>2
          <6> QED
            BY <3>1, <6>1
        <5> QED
          BY <5>2, <5>3
      <4>2. CASE child' = child
        BY <3>1, <4>2
      <4> QED
        BY <1>2, <2>4, <4>1, <4>2, OnlyChanges
    <3> QED
      BY <3>2, <3>3, <3>5, <3>6
  <2> QED
    BY <2>1, <2>2, <2>3, <2>4
<1> QED
  BY <1>1, <1>2

-----------------------------------------------------------------------------
(* Protocol.                                                               *)

(* A request is read: it was the only one for its session.                 *)
LEMMA InboxTaken ==
  ASSUME TypeOK, AskedOnce, inbox # <<>>, inbox' = Tail(inbox)
  PROVE  /\ Head(inbox) \in Request /\ Asked(Head(inbox).sid)
         /\ ~Head(inbox).swap => Fresh(Head(inbox).sid)
         /\ \A k \in 1..Len(inbox)' : \E l \in 1..Len(inbox) :
              inbox'[k] = inbox[l] /\ inbox[l].sid # Head(inbox).sid
         /\ AskedOnce'
PROOF
<1>1. PICK q \in Seq(Request) : q = inbox
  BY DEF TypeOK
<1> DEFINE b == inbox'
<1>2. b = Tail(q)
  BY <1>1
<1> HIDE DEF b
<1>3. /\ Head(q) \in Request /\ Head(q) = q[1] /\ 1 \in 1..Len(q)
      /\ \A k \in 1..Len(b) : k + 1 \in 1..Len(q) /\ k # 0
                              /\ k + 1 # 1 /\ b[k] = q[k + 1]
      /\ \A k, l \in 1..Len(b) : k + 1 = l + 1 => k = l
  BY <1>1, <1>2, HeadTail
<1>4. \A k, l \in 1..Len(q) : q[k].sid = q[l].sid => k = l
  BY <1>1 DEF AskedOnce
<1>5. \A k \in 1..Len(b) : k + 1 \in 1..Len(q) /\ b[k] = q[k + 1]
                           /\ q[k + 1].sid # Head(q).sid
  BY <1>3, <1>4
<1>6. \A k, l \in 1..Len(b) : b[k].sid = b[l].sid => k = l
  BY <1>3, <1>4
<1> QED
  BY <1>1, <1>3, <1>5, <1>6 DEF Asked, Fresh, AskedOnce, b

(* What is still to be read after that.                                    *)
LEMMA InboxTakenFrom ==
  ASSUME TypeOK, AskedOnce, inbox # <<>>, inbox' = Tail(inbox), NEW t
  PROVE  Asked(t)' => Asked(t) /\ t # Head(inbox).sid
PROOF
<1>1. \A k \in 1..Len(inbox)' : \E l \in 1..Len(inbox) :
        inbox'[k] = inbox[l] /\ inbox[l].sid # Head(inbox).sid
  BY InboxTaken
<1> QED
  BY <1>1 DEF Asked

(* A request is sent: the first for its session.                           *)
LEMMA InboxSent ==
  ASSUME TypeOK, AskedOnce, NEW s \in Sid, ~Asked(s), NEW sw \in BOOLEAN,
         inbox' = Append(inbox, [sid |-> s, swap |-> sw])
  PROVE  /\ AskedOnce'
         /\ \A t : Asked(t)' => Asked(t) \/ t = s
         /\ \A k \in 1..Len(inbox)' :
              \/ k \in 1..Len(inbox) /\ inbox'[k] = inbox[k]
              \/ inbox'[k].sid = s /\ inbox'[k].swap = sw
PROOF
<1>1. PICK q \in Seq(Request) : q = inbox
  BY DEF TypeOK
<1> DEFINE b == inbox'
           e == [sid |-> s, swap |-> sw]
<1>2. b = Append(q, e) /\ e \in Request /\ e.sid = s /\ e.swap = sw
  BY <1>1 DEF Request
<1> HIDE DEF b, e
<1>3. \A k \in 1..Len(b) : \/ k \in 1..Len(q) /\ b[k] = q[k]
                           \/ k = Len(b) /\ b[k] = e
  BY <1>2, AppendElement
<1>4. \A k \in 1..Len(q) : q[k].sid # s
  BY <1>1 DEF Asked
<1>5. \A k, l \in 1..Len(b) : b[k].sid = b[l].sid => k = l
  BY <1>1, <1>2, <1>3, <1>4 DEF AskedOnce
<1>6. AskedOnce'
  BY <1>5 DEF AskedOnce, b
<1>7. \A k \in 1..Len(inbox)' :
        \/ k \in 1..Len(inbox) /\ inbox'[k] = inbox[k]
        \/ inbox'[k].sid = s /\ inbox'[k].swap = sw
  BY <1>1, <1>2, <1>3 DEF b
<1>8. \A t : Asked(t)' => Asked(t) \/ t = s
  BY <1>7 DEF Asked
<1> QED
  BY <1>6, <1>7, <1>8

(* A message is read: a closure was the only one of its session.           *)
LEMMA OutboxTaken ==
  ASSUME TypeOK, ClosedOnce, outbox # <<>>, outbox' = Tail(outbox)
  PROVE  /\ ClosedOnce' /\ Head(outbox) \in Message
         /\ \A t : CloseSent(t)' => CloseSent(t)
         /\ Head(outbox).kind = "close" =>
              CloseSent(Head(outbox).sid)
              /\ \A t : CloseSent(t)' => t # Head(outbox).sid
PROOF
<1>1. PICK q \in Seq(Message) : q = outbox
  BY DEF TypeOK
<1> DEFINE b == outbox'
<1>2. b = Tail(q)
  BY <1>1
<1> HIDE DEF b
<1>3. /\ Head(q) \in Message /\ Head(q) = q[1] /\ 1 \in 1..Len(q)
      /\ \A k \in 1..Len(b) : k + 1 \in 1..Len(q) /\ k # 0
                              /\ k + 1 # 1 /\ b[k] = q[k + 1]
      /\ \A k, l \in 1..Len(b) : k + 1 = l + 1 => k = l
  BY <1>1, <1>2, HeadTail
<1>4. \A k, l \in 1..Len(q) :
        q[k].kind = "close" /\ q[l].kind = "close" /\ q[k].sid = q[l].sid
          => k = l
  BY <1>1 DEF ClosedOnce
<1>5. \A k \in 1..Len(b) :
        b[k].kind = "close" /\ Head(q).kind = "close"
          => b[k].sid # Head(q).sid
  BY <1>3, <1>4
<1>6. \A k, l \in 1..Len(b) :
        b[k].kind = "close" /\ b[l].kind = "close" /\ b[k].sid = b[l].sid
          => k = l
  BY <1>3, <1>4
<1>7. \A t : CloseSent(t)' => CloseSent(t)
  BY <1>1, <1>3 DEF CloseSent, b
<1>8. Head(q).kind = "close" => CloseSent(Head(q).sid)
  BY <1>1, <1>3 DEF CloseSent
<1>9. Head(q).kind = "close" => \A t : CloseSent(t)' => t # Head(q).sid
  BY <1>5 DEF CloseSent, b
<1>10. ClosedOnce'
  BY <1>6 DEF ClosedOnce, b
<1> QED
  BY <1>1, <1>3, <1>7, <1>8, <1>9, <1>10

(* A message is written: a closure is the first of its session.            *)
LEMMA OutboxSent ==
  ASSUME TypeOK, ClosedOnce, NEW m \in Message, Write(m),
         m.kind = "close" => ~CloseSent(m.sid)
  PROVE  /\ ClosedOnce'
         /\ \A t : CloseSent(t)' => CloseSent(t)
                                    \/ (m.kind = "close" /\ t = m.sid)
PROOF
<1>1. CASE outbox' = outbox
  BY <1>1 DEF ClosedOnce, CloseSent
<1>2. CASE outbox' = Append(outbox, m)
  <2>1. PICK q \in Seq(Message) : q = outbox
    BY DEF TypeOK
  <2> DEFINE b == outbox'
  <2>2. b = Append(q, m)
    BY <1>2, <2>1
  <2> HIDE DEF b
  <2>3. \A k \in 1..Len(b) : \/ k \in 1..Len(q) /\ b[k] = q[k]
                             \/ k = Len(b) /\ b[k] = m
    BY <2>2, AppendElement
  <2>4. \A k \in 1..Len(q) : q[k].kind = "close" /\ m.kind = "close"
                               => q[k].sid # m.sid
    BY <2>1 DEF CloseSent
  <2>5. \A k, l \in 1..Len(b) :
          b[k].kind = "close" /\ b[l].kind = "close" /\ b[k].sid = b[l].sid
            => k = l
    BY <2>1, <2>3, <2>4 DEF ClosedOnce
  <2>6. ClosedOnce'
    BY <2>5 DEF ClosedOnce, b
  <2>7. \A t : CloseSent(t)' => CloseSent(t)
                                \/ (m.kind = "close" /\ t = m.sid)
    BY <2>1, <2>3 DEF CloseSent, b
  <2> QED
    BY <2>6, <2>7
<1> QED
  BY <1>1, <1>2 DEF Write

(* Which sessions are entered after a start and after an end.              *)
LEMMA EnteredBegun ==
  ASSUME TypeOK, NEW r \in Request, NEW e \in SessionFork, Begun(r, e)
  PROVE  \A t : Entered(t)' <=> Entered(t) \/ t = r.sid
PROOF
<1>1. PICK q \in Seq(SessionFork) : q = _sessions
  BY DEF TypeOK
<1> DEFINE b == _sessions'
<1>2. b = Append(q, e) /\ e.sid = r.sid
  BY <1>1 DEF Begun
<1> HIDE DEF b
<1>3. /\ \A k \in 1..Len(b) : \/ k \in 1..Len(q) /\ b[k] = q[k]
                              \/ k = Len(b) /\ b[k] = e
      /\ \A k \in 1..Len(q) : k \in 1..Len(b) /\ b[k] = q[k]
      /\ Len(b) \in 1..Len(b) /\ b[Len(b)] = e
  BY <1>2, AppendElement
<1> QED
  BY <1>1, <1>2, <1>3 DEF Entered, b

(* session_deleted takes one session out and keeps the entries of the rest. *)
LEMMA EnteredDeleted ==
  ASSUME TypeOK, Vector, NEW c \in ChildPid, NEW i \in 1..Len(_sessions),
         Deleted(c, i)
  PROVE  /\ Entered(_sessions[i].sid)
         /\ \A t : Entered(t)' <=> Entered(t) /\ t # _sessions[i].sid
         /\ \A j \in 1..Len(_sessions) : j # i =>
              \E k \in 1..Len(_sessions)' : _sessions'[k] = _sessions[j]
PROOF
<1>1. PICK q \in Seq(SessionFork) : q = _sessions
  BY DEF TypeOK
<1> DEFINE b == _sessions'
<1>2. b = RemoveAt(q, i) /\ i \in 1..Len(q)
  BY <1>1 DEF Deleted
<1> HIDE DEF b
<1>3. \A k \in 1..Len(b) : Before(i, k) \in 1..Len(q) /\ Before(i, k) # i
                           /\ b[k] = q[Before(i, k)]
  BY <1>2, ErasedFrom
<1>4. \A j \in 1..Len(q) : j # i =>
        After(i, j) \in 1..Len(b) /\ b[After(i, j)] = q[j]
  BY <1>2, Erased
<1>5. \A j \in 1..Len(q) : q[j].sid = q[i].sid => j = i
  BY <1>1, <1>2 DEF Vector, OneEntry
<1>6. ASSUME NEW t PROVE Entered(t)' <=> Entered(t) /\ t # q[i].sid
  <2>1. Entered(t)' <=> \E k \in 1..Len(b) : b[k].sid = t
    BY DEF Entered, b
  <2>2. Entered(t) <=> \E j \in 1..Len(q) : q[j].sid = t
    BY <1>1 DEF Entered
  <2>3. ASSUME NEW k \in 1..Len(b), b[k].sid = t
        PROVE  Entered(t) /\ t # q[i].sid
    BY <1>3, <1>5, <2>2, <2>3
  <2>4. ASSUME NEW j \in 1..Len(q), q[j].sid = t, t # q[i].sid
        PROVE  Entered(t)'
    BY <1>4, <2>1, <2>4
  <2> QED
    BY <2>1, <2>2, <2>3, <2>4
<1>7. Entered(q[i].sid)
  BY <1>1, <1>2 DEF Entered
<1> QED
  BY <1>1, <1>4, <1>6, <1>7 DEF b

(* After a step, a session is in at most one place still.                  *)
LEMMA ProtocolStep ==
  TypeOK /\ TypeOK' /\ Vector /\ Protocol /\ [Next]_vars => Protocol'
PROOF
<1> SUFFICES ASSUME TypeOK, TypeOK', Vector, Protocol, [Next]_vars
             PROVE  Protocol'
  OBVIOUS
<1>a. InOnePlace /\ AskedOnce /\ ClosedOnce
  BY DEF Protocol
<1>b. ASSUME outbox' = outbox
      PROVE  ClosedOnce' /\ \A t : CloseSent(t)' <=> CloseSent(t)
  BY <1>a, <1>b DEF ClosedOnce, CloseSent
<1>c. ASSUME inbox' = inbox
      PROVE  AskedOnce' /\ \A t : Asked(t)' <=> Asked(t)
  BY <1>a, <1>c DEF AskedOnce, Asked
<1>d. ASSUME _sessions' = _sessions
      PROVE  \A t : Entered(t)' <=> Entered(t)
  BY <1>d DEF Entered
<1>1. CASE UNCHANGED vars
  BY <1>1, <1>a, <1>b, <1>c, <1>d DEF vars, procVars, exitVars, wireVars,
     kernelVars, cpVars, Protocol, InOnePlace, Closing
<1>2. CASE Next
  <2>1. CASE \E s \in Sid : Ask(s)
    <3>1. PICK s \in Sid : Ask(s)
      BY <2>1
    <3>2. /\ view[s] # "placed" /\ view' = [view EXCEPT ![s] = "placed"]
          /\ inbox' = Append(inbox,
                             [sid |-> s, swap |-> view[s] = "swapped"])
          /\ UNCHANGED <<_sessions, notifiers, outbox>>
      BY <3>1, AskFacts
    <3>3. ~Asked(s) /\ ~Entered(s) /\ ~Closing(s)
      BY <1>a, <3>2 DEF InOnePlace
    <3>4. AskedOnce' /\ \A t : Asked(t)' => Asked(t) \/ t = s
      BY <1>a, <3>2, <3>3, InboxSent
    <3>5. \A t \in Sid : view'[t] # "placed" => view[t] # "placed" /\ t # s
      BY <3>2 DEF TypeOK
    <3> QED
      BY <1>a, <1>b, <1>d, <3>2, <3>3, <3>4, <3>5
      DEF Protocol, InOnePlace, Closing
  <2>2. CASE Hear
    <3>1. /\ outbox # <<>> /\ outbox' = Tail(outbox)
          /\ UNCHANGED <<_sessions, notifiers, inbox>>
      BY <2>2 DEF Hear, procVars
    <3>2. /\ ClosedOnce' /\ Head(outbox) \in Message
          /\ \A t : CloseSent(t)' => CloseSent(t)
          /\ Head(outbox).kind = "close" =>
               CloseSent(Head(outbox).sid)
               /\ \A t : CloseSent(t)' => t # Head(outbox).sid
      BY <1>a, <3>1, OutboxTaken
    <3>3. CASE Head(outbox).kind = "close"
      <4>1. PICK s \in Sid : s = Head(outbox).sid
        BY <3>2 DEF Message
      <4>2. CloseSent(s) /\ (\A t : CloseSent(t)' => t # s)
        BY <3>2, <3>3, <4>1
      <4>3. view' = [view EXCEPT ![s] = "swapped"]
        BY <2>2, <3>3, <4>1 DEF Hear
      <4>4. \A t \in Sid : view'[t] # "placed" => view[t] # "placed" \/ t = s
        BY <4>3 DEF TypeOK
      <4>5. ~Asked(s) /\ ~Entered(s) /\ s \notin notifiers
        BY <1>a, <4>2 DEF InOnePlace, Closing
      <4> QED
        BY <1>a, <1>c, <1>d, <3>1, <3>2, <4>2, <4>4, <4>5
        DEF Protocol, InOnePlace, Closing
    <3>4. CASE Head(outbox).kind # "close"
      <4>1. view' = view
        BY <2>2, <3>4 DEF Hear
      <4> QED
        BY <1>a, <1>c, <1>d, <3>1, <3>2, <4>1
        DEF Protocol, InOnePlace, Closing
    <3> QED
      BY <3>3, <3>4
  <2>3. CASE RefuseSession
    <3>1. /\ inbox # <<>> /\ inbox' = Tail(inbox)
          /\ UNCHANGED <<_sessions, notifiers, outbox, view>>
      BY <2>3 DEF RefuseSession, Reading, cpVars
    <3>2. AskedOnce' /\ \A t : Asked(t)' => Asked(t)
      BY <1>a, <3>1, InboxTaken, InboxTakenFrom
    <3> QED
      BY <1>a, <1>b, <1>d, <3>1, <3>2 DEF Protocol, InOnePlace, Closing
  <2>4. CASE \E r \in Request : Starts(r)
    <3>1. PICK r \in Request, e \in SessionFork : Begun(r, e)
      BY <2>4, StartFacts
    <3>2. /\ inbox # <<>> /\ r = Head(inbox) /\ inbox' = Tail(inbox)
          /\ UNCHANGED <<notifiers, outbox, view>>
      BY <3>1 DEF Begun
    <3>3. /\ AskedOnce' /\ Asked(r.sid)
          /\ \A t : Asked(t)' => Asked(t) /\ t # r.sid
      BY <1>a, <3>2, InboxTaken, InboxTakenFrom
    <3>4. \A t : Entered(t)' <=> Entered(t) \/ t = r.sid
      BY <3>1, EnteredBegun
    <3>5. r.sid \in Sid
      BY DEF Request
    <3> QED
      BY <1>a, <1>b, <3>2, <3>3, <3>4, <3>5 DEF Protocol, InOnePlace, Closing
  <2>5. CASE WriteStatus
    <3>1. /\ main # None /\ Write(main)
          /\ UNCHANGED <<_sessions, notifiers, inbox, view>>
      BY <2>5 DEF WriteStatus, cpVars
    <3>2. main \in Message /\ main.kind # "close"
      BY <3>1 DEF TypeOK, Reply, Message
    <3>3. ClosedOnce' /\ \A t : CloseSent(t)' => CloseSent(t)
      BY <1>a, <3>1, <3>2, OutboxSent
    <3> QED
      BY <1>a, <1>c, <1>d, <3>1, <3>3 DEF Protocol, InOnePlace, Closing
  <2>6. CASE Departs
    <3>1. UNCHANGED <<inbox, outbox, view>> /\ notifiers' = {}
      BY <2>6 DEF Departs, Leave, SigPipe, Gone, wireVars, cpVars
    <3>2. \A t : ~Entered(t)'
      <4>1. Len(_sessions)' = 0 /\ 1..0 = {}
        BY <2>6, VectorDeparts
      <4> QED
        BY <4>1 DEF Entered
    <3> QED
      BY <1>a, <1>b, <1>c, <3>1, <3>2 DEF Protocol, InOnePlace, Closing
  <2>7. CASE \E c \in ChildPid : session_deleted(c)
    <3>1. PICK c \in ChildPid, i \in 1..Len(_sessions) : Deleted(c, i)
      BY <2>7, DeletedFacts
    <3>2. PICK s \in Sid : s = _sessions[i].sid
      BY <3>1 DEF Deleted
    <3>3. /\ notifiers' = notifiers \cup {s}
          /\ UNCHANGED <<inbox, outbox, view>>
      BY <3>1, <3>2 DEF Deleted
    <3>4. Entered(s) /\ \A t : Entered(t)' <=> Entered(t) /\ t # s
      BY <3>1, <3>2, EnteredDeleted
    <3> QED
      BY <1>a, <1>b, <1>c, <3>3, <3>4 DEF Protocol, InOnePlace, Closing
  <2>8. CASE \E s \in Sid : WriteClose(s)
    <3>1. PICK s \in Sid : WriteClose(s)
      BY <2>8
    <3> DEFINE m == [kind |-> "close", sid |-> s]
    <3>2. /\ s \in notifiers /\ notifiers' = notifiers \ {s} /\ Write(m)
          /\ UNCHANGED <<_sessions, inbox, view>>
      BY <3>1 DEF WriteClose, cpVars
    <3>3. m \in Message /\ m.kind = "close" /\ m.sid = s
      BY DEF Message
    <3> HIDE DEF m
    <3>4. ~CloseSent(s)
      BY <1>a, <3>2 DEF InOnePlace
    <3>5. ClosedOnce' /\ \A t : CloseSent(t)' => CloseSent(t) \/ t = s
      BY <1>a, <3>2, <3>3, <3>4, OutboxSent
    <3> QED
      BY <1>a, <1>c, <1>d, <3>2, <3>5 DEF Protocol, InOnePlace, Closing
  <2>9. CASE UNCHANGED <<_sessions, notifiers, inbox, outbox, view>>
    BY <1>a, <1>b, <1>c, <1>d, <2>9 DEF Protocol, InOnePlace, Closing
  <2> QED
    BY <1>2, <2>1, <2>2, <2>3, <2>4, <2>5, <2>6, <2>7, <2>8, <2>9,
       OnlyChanges
<1> QED
  BY <1>1, <1>2

(* Every variable keeps its type; a session and a child have one entry in  *)
(* _sessions, whose memory exists and whose child is a child of that       *)
(* session, through every order of starts, ends, coalesced and spurious    *)
(* signals, failed starts and shutdowns; and a session is never asked for, *)
(* entered or reported closed twice at a time (Process::allocate_session   *)
(* and Process::session_deleted).                                          *)
THEOREM RuntimeCorrect == Spec => []TypeOK /\ []Vector /\ []Protocol
PROOF
<1> DEFINE I == TypeOK /\ Vector /\ Protocol
<1>1. Init => I
  BY TypeInit
<1>2. I /\ [Next]_vars => I'
  BY TypeStep, VectorStep, ProtocolStep
<1>3. Spec => []I
  BY <1>1, <1>2, PTL DEF Spec
<1> QED
  BY <1>3, PTL

-----------------------------------------------------------------------------
(* Children are known until they have ended.                               *)

(* The process starts without children.                                    *)
LEMMA AliveInit == Init => Alive
PROOF
<1> SUFFICES ASSUME Init PROVE Alive
  OBVIOUS
<1>1. /\ \A c \in ChildPid : child[c].state = "none" /\ deleters[c] = 0
      /\ sigchld = None /\ None \notin ChildPid
  BY NoneAssumption DEF Init, NoChild
<1> QED
  BY <1>1 DEF Alive

(* A signal is raised only by the exit of a child, and its thread gives up *)
(* that child alone.                                                       *)
LEMMA AliveStep ==
  TypeOK /\ TypeOK' /\ Vector /\ Vector' /\ Alive /\ [Next]_vars
           => Alive'
PROOF
<1> SUFFICES ASSUME TypeOK, TypeOK', Vector, Vector', Alive, [Next]_vars
             PROVE  Alive'
  OBVIOUS
<1> DEFINE Known(c) == \E i \in 1..Len(_sessions) :
             _sessions[i] = [sid |-> child[c].sid, child_pid |-> c,
                             memory |-> TRUE]
<1>a. /\ \A c \in ChildPid : child[c].state # "none" /\ ~exited => Known(c)
      /\ \A c \in ChildPid : sigchld = c \/ deleters[c] > 0 =>
           child[c].state = "zombie"
      /\ \A c \in ChildPid : deleters[c] <= 1
                             /\ (sigchld = c => deleters[c] = 0)
  BY DEF Alive
<1>b. \A c \in ChildPid : deleters[c] \in Nat /\ c # None
  BY NoneAssumption DEF TypeOK
<1>1. CASE UNCHANGED vars
  BY <1>1, <1>a DEF vars, procVars, exitVars, wireVars, kernelVars, cpVars,
     Alive
<1>2. CASE Next
  <2>1. CASE \E r \in Request : Starts(r)
    <3>1. PICK r \in Request, e \in SessionFork : Begun(r, e)
      BY <2>1, StartFacts
    <3>2. UNCHANGED <<deleters, sigchld, exited>>
      BY <3>1 DEF Begun
    <3>3. PICK q \in Seq(SessionFork) : q = _sessions
      BY DEF TypeOK
    <3> DEFINE b == _sessions'
    <3>4. b = Append(q, e)
      BY <3>1, <3>3 DEF Begun
    <3> HIDE DEF b
    <3>5. /\ \A k \in 1..Len(q) : k \in 1..Len(b) /\ b[k] = q[k]
          /\ Len(b) \in 1..Len(b) /\ b[Len(b)] = e
      BY <3>4, AppendElement
    <3>6. ASSUME NEW c \in ChildPid, child'[c].state # "none"
          PROVE  \E i \in 1..Len(b) :
                   b[i] = [sid |-> child'[c].sid, child_pid |-> c,
                           memory |-> TRUE]
      <4>1. CASE child'[c] = child[c]
        <5>1. ~exited
          BY <3>1 DEF Begun, Vector, Ended
        <5> QED
          BY <1>a, <3>3, <3>5, <3>6, <4>1, <5>1
      <4>2. CASE child'[c] # child[c]
        <5>1. PICK d \in ChildPid :
                /\ e = Entry(r.sid, d, TRUE)
                /\ child' = [child EXCEPT ![d] = [state |-> "running",
                                                  sid |-> r.sid]]
          BY <3>1, <4>2 DEF Begun
        <5>2. c = d /\ child'[c] = [state |-> "running", sid |-> r.sid]
          BY <4>2, <5>1 DEF TypeOK
        <5>3. child'[c].sid = r.sid
          BY <5>2
        <5> QED
          BY <3>5, <5>1, <5>2, <5>3 DEF Entry
      <4> QED
        BY <4>1, <4>2
    <3>7. ASSUME NEW c \in ChildPid, child[c].state # "none"
          PROVE  child'[c] = child[c]
      BY <3>1, <3>7 DEF Begun, TypeOK
    <3>8. \A c \in ChildPid : sigchld' = c \/ deleters'[c] > 0 =>
            child'[c].state = "zombie"
      BY <1>a, <3>2, <3>7
    <3> QED
      BY <1>a, <3>2, <3>6, <3>8 DEF Alive, b
  <2>2. CASE Departs
    <3>1. /\ exited' /\ sigchld' = None
          /\ deleters' = [c \in ChildPid |-> 0]
      BY <2>2 DEF Departs, Leave, SigPipe, Gone
    <3> QED
      BY <1>b, <3>1 DEF Alive
  <2>3. CASE \E c \in ChildPid : session_deleted(c)
    <3>1. PICK c \in ChildPid, i \in 1..Len(_sessions) : Deleted(c, i)
      BY <2>3, DeletedFacts
    <3>2. /\ deleters[c] > 0 /\ ~exited /\ _sessions[i].child_pid = c
          /\ deleters' = [deleters EXCEPT ![c] = @ - 1]
          /\ UNCHANGED <<sigchld, exited>>
      BY <3>1 DEF Deleted
    <3>3. child[c].state = "zombie" /\ deleters[c] = 1 /\ sigchld # c
      BY <1>a, <1>b, <3>2
    <3>4. child' = [child EXCEPT ![c] = NoChild]
      BY <3>1, <3>3 DEF Deleted, Waited
    <3>5. /\ child'[c].state = "none" /\ deleters'[c] = 0
          /\ \A d \in ChildPid \ {c} : child'[d] = child[d]
                                       /\ deleters'[d] = deleters[d]
      BY <3>2, <3>3, <3>4 DEF TypeOK, NoChild
    <3>6. ASSUME NEW d \in ChildPid, child'[d].state # "none"
          PROVE  \E k \in 1..Len(_sessions') :
                   _sessions'[k] = [sid |-> child'[d].sid, child_pid |-> d,
                                    memory |-> TRUE]
      <4>1. d # c
        BY <3>5, <3>6
      <4>2. child'[d] = child[d]
        BY <3>5, <4>1
      <4>3. PICK j \in 1..Len(_sessions) :
              _sessions[j] = [sid |-> child[d].sid, child_pid |-> d,
                              memory |-> TRUE]
        BY <1>a, <3>2, <3>6, <4>2
      <4>4. j # i
        BY <3>2, <4>1, <4>3
      <4>5. \E k \in 1..Len(_sessions)' : _sessions'[k] = _sessions[j]
        BY <3>1, <4>4, EnteredDeleted
      <4> QED
        BY <4>2, <4>3, <4>5
    <3>7. \A d \in ChildPid : sigchld' = d \/ deleters'[d] > 0 =>
            child'[d].state = "zombie"
      <4> TAKE d \in ChildPid
      <4>1. CASE d = c
        BY <3>2, <3>3, <3>5, <4>1
      <4>2. CASE d # c
        BY <1>a, <3>2, <3>5, <4>2
      <4> QED
        BY <4>1, <4>2
    <3>8. \A d \in ChildPid : deleters'[d] <= 1
                              /\ (sigchld' = d => deleters'[d] = 0)
      <4> TAKE d \in ChildPid
      <4>1. CASE d = c
        BY <3>2, <3>3, <3>5, <4>1
      <4>2. CASE d # c
        BY <1>a, <3>2, <3>5, <4>2
      <4> QED
        BY <4>1, <4>2
    <3> QED
      BY <3>6, <3>7, <3>8 DEF Alive
  <2>4. CASE \E c \in ChildPid : ChildExit(c)
    <3>1. PICK c \in ChildPid : ChildExit(c)
      BY <2>4
    <3>2. /\ child[c].state = "running"
          /\ \A d \in ChildPid \ {c} : child'[d] = child[d]
          /\ UNCHANGED <<_sessions, deleters, exited>>
      BY <3>1, ExitFacts
    <3>3. deleters[c] = 0 /\ sigchld # c
      BY <1>a, <1>b, <3>2
    <3>4. CASE exited
      <4>1. sigchld' = sigchld /\ sigchld = None /\ exited'
            /\ \A d \in ChildPid : deleters'[d] = 0
        BY <3>1, <3>2, <3>4, ExitFacts DEF Vector, Ended
      <4> QED
        BY <1>b, <4>1 DEF Alive
    <3>5. CASE ~exited
      <4>1. /\ child'[c] = [state |-> "zombie", sid |-> child[c].sid]
            /\ Raise(c)
        BY <3>1, <3>5, ExitFacts
      <4>2. child'[c].state = "zombie" /\ child'[c].sid = child[c].sid
        BY <4>1
      <4>3. sigchld' = sigchld \/ sigchld' = c
        BY <4>1 DEF Raise
      <4>4. ASSUME NEW d \in ChildPid, child'[d].state # "none"
            PROVE  \E i \in 1..Len(_sessions') :
                     _sessions'[i] = [sid |-> child'[d].sid,
                                      child_pid |-> d, memory |-> TRUE]
        <5>1. child[d].state # "none" /\ child'[d].sid = child[d].sid
          BY <3>2, <4>2, <4>4
        <5> QED
          BY <1>a, <3>2, <3>5, <5>1
      <4>5. \A d \in ChildPid : sigchld' = d \/ deleters'[d] > 0 =>
              child'[d].state = "zombie"
        <5> TAKE d \in ChildPid
        <5>1. CASE d = c
          BY <4>2, <5>1
        <5>2. CASE d # c
          BY <1>a, <3>2, <4>3, <5>2
        <5> QED
          BY <5>1, <5>2
      <4>6. \A d \in ChildPid : deleters'[d] <= 1
                                /\ (sigchld' = d => deleters'[d] = 0)
        BY <1>a, <3>2, <3>3, <4>3
      <4> QED
        BY <4>4, <4>5, <4>6 DEF Alive
    <3> QED
      BY <3>4, <3>5
  <2>5. CASE session_shutdown_handler
    <3>1. PICK c \in ChildPid : c = sigchld
      BY <2>5 DEF session_shutdown_handler, TypeOK
    <3>2. /\ sigchld' = None
          /\ deleters' = [deleters EXCEPT ![c] = @ + 1]
          /\ UNCHANGED <<_sessions, child, exited>>
      BY <2>5, <3>1 DEF session_shutdown_handler, exitVars
    <3>3. child[c].state = "zombie" /\ deleters[c] = 0
      BY <1>a, <3>1
    <3>4. deleters'[c] = 1
          /\ \A d \in ChildPid \ {c} : deleters'[d] = deleters[d]
      BY <3>2, <3>3 DEF TypeOK
    <3>5. \A d \in ChildPid : sigchld' = d \/ deleters'[d] > 0 =>
            child'[d].state = "zombie"
      BY <1>a, <1>b, <3>2, <3>3, <3>4
    <3>6. \A d \in ChildPid : deleters'[d] <= 1
                              /\ (sigchld' = d => deleters'[d] = 0)
      BY <1>a, <1>b, <3>2, <3>3, <3>4
    <3> QED
      BY <1>a, <3>2, <3>5, <3>6 DEF Alive
  <2>6. CASE UNCHANGED <<_sessions, child, exited, sigchld, deleters>>
    BY <1>a, <2>6 DEF Alive
  <2> QED
    BY <1>2, <2>1, <2>2, <2>3, <2>4, <2>5, <2>6, OnlyChanges
<1> QED
  BY <1>1, <1>2

(* Every child is known to the process until it has ended and was waited   *)
(* for, however its signal is delayed or coalesced.                        *)
LEMMA AliveCorrect ==
  Spec => []Alive
PROOF
<1>1. Init => Alive
  BY AliveInit
<1>2. TypeOK /\ TypeOK' /\ Vector /\ Vector' /\ Alive /\ [Next]_vars
        => Alive'
  BY AliveStep
<1> QED
  BY <1>1, <1>2, RuntimeCorrect, PTL DEF Spec

(* session_deleted finds the child it is called for: its early return, for *)
(* a pid that is in no entry, never happens.                               *)
LEMMA DeletedIsKnown ==
  Spec => [](\A c \in ChildPid : deleters[c] > 0 =>
               \E i \in 1..Len(_sessions) : _sessions[i].child_pid = c)
PROOF
<1>1. TypeOK /\ Vector /\ Alive =>
        \A c \in ChildPid : deleters[c] > 0 =>
          \E i \in 1..Len(_sessions) : _sessions[i].child_pid = c
  <2> SUFFICES ASSUME TypeOK, Vector, Alive, NEW c \in ChildPid,
                      deleters[c] > 0
               PROVE  \E i \in 1..Len(_sessions) : _sessions[i].child_pid = c
    OBVIOUS
  <2>1. ~exited
    BY DEF Vector, Ended
  <2>2. child[c].state # "none"
    BY DEF Alive
  <2>3. PICK i \in 1..Len(_sessions) :
          _sessions[i] = [sid |-> child[c].sid, child_pid |-> c,
                          memory |-> TRUE]
    BY <2>1, <2>2 DEF Alive
  <2>4. _sessions[i].child_pid = c
    BY <2>3
  <2> QED
    BY <2>4
<1> QED
  BY <1>1, RuntimeCorrect, AliveCorrect, PTL

(* A running child is in _sessions and has its shared memory: the end of   *)
(* another session, or of an earlier life of its own, never unlinks or     *)
(* forgets it (Process::session_deleted, the moves of vector::erase).       *)
THEOREM OwnedCorrect ==
  Spec => []RunningIsOwned
PROOF
<1>1. TypeOK /\ Vector /\ Alive => RunningIsOwned
  <2> SUFFICES ASSUME TypeOK, Vector, Alive, NEW c \in ChildPid,
                      NEW s \in Sid, Running(c, s), ~exited
               PROVE  /\ shm[s] # None
                      /\ \E i \in DOMAIN _sessions :
                           _sessions[i] = [sid |-> s, child_pid |-> c,
                                           memory |-> TRUE]
    BY DEF RunningIsOwned
  <2>1. child[c].state = "running" /\ child[c].sid = s
    BY DEF Running
  <2>2. PICK i \in 1..Len(_sessions) :
          _sessions[i] = [sid |-> s, child_pid |-> c, memory |-> TRUE]
    BY <2>1 DEF Alive
  <2>3. _sessions[i].memory /\ _sessions[i].sid = s
    BY <2>2
  <2>4. shm[s] # None
    BY <2>3 DEF Vector, Holding
  <2>5. DOMAIN _sessions = 1..Len(_sessions)
    BY DEF TypeOK
  <2> QED
    BY <2>2, <2>4, <2>5
<1> QED
  BY <1>1, RuntimeCorrect, AliveCorrect, PTL

-----------------------------------------------------------------------------
(* What a closure says, and how many children there are.                   *)

(* A set whose members have different places among n has at most n.        *)
LEMMA CountBound ==
  ASSUME NEW R, NEW n \in Nat, NEW f \in [R -> 1..n],
         \A x, y \in R : f[x] = f[y] => x = y
  PROVE  IsFiniteSet(R) /\ Cardinality(R) <= n
PROOF
<1>1. f \in Injection(R, 1..n)
  BY DEF Injection, IsInjective
<1>2. IsFiniteSet(1..n) /\ Cardinality(1..n) = n
  BY FS_Interval
<1> QED
  BY <1>1, <1>2, FS_Injection

(* A closure on its way to the control plane.                              *)
LEMMA ClosureIs ==
  ASSUME TypeOK
  PROVE  CloseMeansGone <=>
           \A s \in Sid : Closing(s) => \A c \in ChildPid : child[c].sid # s
PROOF
<1>1. ASSUME NEW s \in Sid
      PROVE  (\E i \in DOMAIN outbox :
                outbox[i] = [kind |-> "close", sid |-> s]) <=> CloseSent(s)
  <2>1. DOMAIN outbox = 1..Len(outbox)
        /\ \A i \in 1..Len(outbox) : outbox[i] \in Message
    BY DEF TypeOK
  <2>2. \A m \in Message : m.kind = "close" /\ m.sid = s
                             <=> m = [kind |-> "close", sid |-> s]
    BY DEF Message
  <2> QED
    BY <2>1, <2>2 DEF CloseSent
<1> QED
  BY <1>1 DEF CloseMeansGone, Closing

(* While the process lives, a session with a child is entered, and hence   *)
(* not closing.                                                            *)
LEMMA ClosedIsGone ==
  TypeOK /\ Vector /\ Protocol /\ Alive /\ ~exited => CloseMeansGone
PROOF
<1> SUFFICES ASSUME TypeOK, Vector, Protocol, Alive, ~exited,
                    NEW s \in Sid, Closing(s), NEW c \in ChildPid,
                    child[c].sid = s
             PROVE  FALSE
  BY ClosureIs
<1>1. child[c].state # "none"
  BY ChildTyped
<1>2. PICK i \in 1..Len(_sessions) :
        _sessions[i] = [sid |-> s, child_pid |-> c, memory |-> TRUE]
  BY <1>1 DEF Alive
<1>3. _sessions[i].sid = s
  BY <1>2
<1> QED
  BY <1>3 DEF Entered, Protocol, InOnePlace

(* Once the process has exited, children only end and messages are only    *)
(* read.                                                                   *)
LEMMA AfterExit ==
  ASSUME TypeOK, TypeOK', Vector, Protocol, Next, exited'
  PROVE  /\ \A c \in ChildPid : child'[c] = NoChild \/ child'[c] = child[c]
         /\ \A t : CloseSent(t)' => CloseSent(t)
         /\ exited \/ Departs
PROOF
<1>1. CASE Departs
  <2>1. /\ outbox' = outbox
        /\ child' = [c \in ChildPid |->
                       IF child[c].state = "zombie" THEN NoChild
                       ELSE child[c]]
    BY <1>1 DEF Departs, Leave, SigPipe, Gone, wireVars
  <2> QED
    BY <1>1, <2>1 DEF CloseSent
<1>2. CASE ~Departs
  <2>1. exited
    BY <1>2, OnlyChanges
  <2>2. /\ ending /\ main = None /\ notifiers = {}
        /\ \A c \in ChildPid : deleters[c] = 0
    BY <2>1 DEF Vector, Ended
  <2>3. \A r \in Request : ~Starts(r)
    BY <2>2, StartFacts DEF Begun
  <2>4. \A c \in ChildPid : ~session_deleted(c)
    BY <2>1, DeletedFacts DEF Deleted
  <2>5. \A c \in ChildPid : child'[c] = NoChild \/ child'[c] = child[c]
    <3>1. CASE \E d \in ChildPid : ChildExit(d)
      <4>1. PICK d \in ChildPid : ChildExit(d)
        BY <3>1
      <4>2. child'[d] = NoChild
            /\ \A c \in ChildPid \ {d} : child'[c] = child[c]
        BY <2>1, <4>1, ExitFacts
      <4> QED
        BY <4>2
    <3> QED
      BY <1>2, <2>3, <2>4, <3>1, OnlyChanges
  <2>6. \A t : CloseSent(t)' => CloseSent(t)
    <3>1. CASE Hear
      <4>1. outbox # <<>> /\ outbox' = Tail(outbox)
        BY <3>1 DEF Hear
      <4> QED
        BY <4>1, OutboxTaken DEF Protocol
    <3>2. CASE outbox' = outbox
      BY <3>2 DEF CloseSent
    <3> QED
      BY <2>2, <3>1, <3>2, OnlyChanges DEF WriteStatus, WriteClose
  <2> QED
    BY <2>1, <2>5, <2>6
<1> QED
  BY <1>1, <1>2

(* A closure that the control plane hears of, or is about to hear of, is   *)
(* that of a session without a child, running or zombie: a session that is *)
(* swapped in again never runs twice (Process::session_deleted waits for   *)
(* the child before it notifies).  Also after the process has exited.      *)
THEOREM ClosuresCorrect ==
  Spec => []CloseMeansGone
PROOF
<1> DEFINE I == TypeOK /\ Vector /\ Protocol /\ Alive
<1>1. Spec => []I
  BY RuntimeCorrect, AliveCorrect, PTL
<1>2. Init => CloseMeansGone
  <2> SUFFICES ASSUME Init PROVE CloseMeansGone
    OBVIOUS
  <2>1. ~exited /\ TypeOK /\ Vector /\ Protocol /\ Alive
    BY TypeInit, AliveInit DEF Init
  <2> QED
    BY <2>1, ClosedIsGone
<1>3. I /\ I' /\ CloseMeansGone /\ [Next]_vars => CloseMeansGone'
  <2> SUFFICES ASSUME TypeOK, TypeOK', Vector, Vector', Protocol, Protocol',
                      Alive', CloseMeansGone, [Next]_vars
               PROVE  CloseMeansGone'
    OBVIOUS
  <2>1. CASE ~exited'
    <3>1. (TypeOK /\ Vector /\ Protocol /\ Alive /\ ~exited
             => CloseMeansGone)'
      BY ClosedIsGone, PTL
    <3> QED
      BY <2>1, <3>1
  <2>2. CASE exited' /\ Next
    <3>1. /\ \A c \in ChildPid : child'[c] = NoChild \/ child'[c] = child[c]
          /\ \A t : CloseSent(t)' => CloseSent(t)
      BY <2>2, AfterExit
    <3>2. notifiers' = {}
      BY <2>2 DEF Vector, Ended
    <3>3. \A s \in Sid : Closing(s) => \A c \in ChildPid : child[c].sid # s
      BY ClosureIs
    <3>4. ASSUME NEW s \in Sid, Closing(s)', NEW c \in ChildPid
          PROVE  child'[c].sid # s
      <4>1. CloseSent(s)
        BY <3>1, <3>2, <3>4 DEF Closing
      <4>2. child[c].sid # s
        BY <3>3, <4>1 DEF Closing
      <4>3. NoChild.sid # s
        BY NoneAssumption DEF NoChild
      <4> QED
        BY <3>1, <4>2, <4>3
    <3>5. (TypeOK => (CloseMeansGone <=>
             \A s \in Sid : Closing(s) =>
               \A c \in ChildPid : child[c].sid # s))'
      BY ClosureIs, PTL
    <3> QED
      BY <3>4, <3>5
  <2>3. CASE UNCHANGED vars
    BY <2>3 DEF vars, procVars, exitVars, wireVars, kernelVars, cpVars,
       CloseMeansGone
  <2> QED
    BY <2>1, <2>2, <2>3
<1> QED
  BY <1>1, <1>2, <1>3, PTL DEF Spec

RunningChildren == {c \in ChildPid : child[c].state = "running"}

(* While the process lives, each running child has an entry of its own.    *)
LEMMA RunningFit ==
  TypeOK /\ Vector /\ Alive /\ ~exited
    => IsFiniteSet(RunningChildren)
       /\ Cardinality(RunningChildren) <= MaxSessions
PROOF
<1> SUFFICES ASSUME TypeOK, Vector, Alive, ~exited
             PROVE  IsFiniteSet(RunningChildren)
                    /\ Cardinality(RunningChildren) <= MaxSessions
  OBVIOUS
<1> DEFINE f == [c \in RunningChildren |->
                   CHOOSE i \in 1..Len(_sessions) :
                     _sessions[i].child_pid = c]
<1>1. PICK n \in Nat : n = Len(_sessions)
  BY DEF TypeOK
<1>2. \A c \in RunningChildren :
        f[c] \in 1..n /\ _sessions[f[c]].child_pid = c
  <2> TAKE c \in RunningChildren
  <2>1. PICK i \in 1..Len(_sessions) :
          _sessions[i] = [sid |-> child[c].sid, child_pid |-> c,
                          memory |-> TRUE]
    BY DEF RunningChildren, Alive
  <2>2. _sessions[i].child_pid = c
    BY <2>1
  <2> QED
    BY <1>1, <2>2
<1>3. f \in [RunningChildren -> 1..n]
  BY <1>2
<1>4. \A x, y \in RunningChildren : f[x] = f[y] => x = y
  BY <1>2
<1> HIDE DEF f
<1>5. IsFiniteSet(RunningChildren) /\ Cardinality(RunningChildren) <= n
  BY <1>3, <1>4, CountBound
<1>6. Cardinality(RunningChildren) \in Nat
  BY <1>5, FS_CardinalityType
<1>7. n <= MaxSessions
  BY <1>1 DEF Vector, Fits
<1> QED
  BY <1>5, <1>6, <1>7, SizesAssumption

(* The process never has more running children than _max_sessions: the     *)
(* test of allocate_session counts entries, and no entry is given up       *)
(* before its child has ended.  Also after the process has exited.         *)
THEOREM WithinCorrect ==
  Spec => []WithinCapacity
PROOF
<1> DEFINE I == TypeOK /\ Vector /\ Protocol /\ Alive
           C == IsFiniteSet(RunningChildren)
                /\ Cardinality(RunningChildren) <= MaxSessions
<1>1. Spec => []I
  BY RuntimeCorrect, AliveCorrect, PTL
<1>2. Init => C
  <2> SUFFICES ASSUME Init PROVE C
    OBVIOUS
  <2>1. ~exited /\ TypeOK /\ Vector /\ Alive
    BY TypeInit, AliveInit DEF Init
  <2> QED
    BY <2>1, RunningFit
<1>3. I /\ I' /\ C /\ [Next]_vars => C'
  <2> SUFFICES ASSUME TypeOK, TypeOK', Vector, Vector', Protocol, Alive', C,
                      [Next]_vars
               PROVE  C'
    OBVIOUS
  <2>1. CASE ~exited'
    <3>1. (TypeOK /\ Vector /\ Alive /\ ~exited => C)'
      BY RunningFit, PTL
    <3> QED
      BY <2>1, <3>1
  <2>2. CASE exited' /\ Next
    <3>1. \A c \in ChildPid : child'[c] = NoChild \/ child'[c] = child[c]
      BY <2>2, AfterExit
    <3>2. RunningChildren' \in SUBSET RunningChildren
      BY <3>1 DEF RunningChildren, NoChild
    <3>3. /\ IsFiniteSet(RunningChildren')
          /\ Cardinality(RunningChildren') <= Cardinality(RunningChildren)
      BY <3>2, FS_Subset
    <3>4. /\ Cardinality(RunningChildren') \in Nat
          /\ Cardinality(RunningChildren) \in Nat
      BY <3>3, FS_CardinalityType
    <3>5. Cardinality(RunningChildren') <= MaxSessions
      BY <3>3, <3>4, SizesAssumption
    <3> QED
      BY <3>3, <3>5
  <2>3. CASE UNCHANGED vars
    <3>1. RunningChildren' = RunningChildren
      BY <2>3 DEF vars, kernelVars, RunningChildren
    <3> QED
      BY <3>1
  <2> QED
    BY <2>1, <2>2, <2>3
<1>4. C => WithinCapacity
  BY DEF WithinCapacity, RunningChildren
<1> QED
  BY <1>1, <1>2, <1>3, <1>4, PTL DEF Spec

-----------------------------------------------------------------------------
(* The memory of a session, unless a swap fails.                           *)

(* A session that is not entered has no child.                             *)
LEMMA ChildlessIfOut ==
  ASSUME TypeOK, Alive, ~exited, NEW s \in Sid, ~Entered(s),
         NEW c \in ChildPid
  PROVE  child[c].sid # s
PROOF
<1> SUFFICES ASSUME child[c].sid = s PROVE FALSE
  OBVIOUS
<1>1. child[c].state # "none"
  BY ChildTyped
<1>2. PICK i \in 1..Len(_sessions) :
        _sessions[i] = [sid |-> s, child_pid |-> c, memory |-> TRUE]
  BY <1>1 DEF Alive
<1>3. _sessions[i].sid = s
  BY <1>2
<1> QED
  BY <1>3 DEF Entered

(* A session has one child at a time.                                      *)
LEMMA OneChildEach ==
  ASSUME TypeOK, Vector, Alive, ~exited, NEW s \in Sid, NEW c \in ChildPid,
         NEW d \in ChildPid, child[c].sid = s, child[d].sid = s
  PROVE  c = d
PROOF
<1>1. child[c].state # "none" /\ child[d].state # "none"
  BY ChildTyped
<1>2. PICK i \in 1..Len(_sessions) :
        _sessions[i] = [sid |-> s, child_pid |-> c, memory |-> TRUE]
  BY <1>1 DEF Alive
<1>3. PICK j \in 1..Len(_sessions) :
        _sessions[j] = [sid |-> s, child_pid |-> d, memory |-> TRUE]
  BY <1>1 DEF Alive
<1>4. _sessions[i].sid = _sessions[j].sid
  BY <1>2, <1>3
<1>5. i = j
  BY <1>4 DEF Vector, OneEntry
<1>6. _sessions[i].child_pid = c /\ _sessions[j].child_pid = d
  BY <1>2, <1>3
<1> QED
  BY <1>5, <1>6

(* A session that was never started is not entered.                        *)
LEMMA FreshIsOut ==
  ASSUME Protocol, NEW s \in Sid, Fresh(s)
  PROVE  ~Entered(s)
PROOF
<1>1. CASE view[s] = "new"
  BY <1>1 DEF Protocol, InOnePlace
<1>2. CASE Asked(s)
  BY <1>2 DEF Protocol, InOnePlace
<1> QED
  BY <1>1, <1>2 DEF Fresh, Asked

(* No step makes a session fresh, and starting it ends that.               *)
LEMMA FreshStep ==
  ASSUME TypeOK, TypeOK', Vector, Protocol, Next, NEW t \in Sid, Fresh(t)'
  PROVE  Fresh(t) /\ \A r \in Request, e \in SessionFork :
                       Begun(r, e) => t # r.sid
PROOF
<1> DEFINE Kept == \A k \in 1..Len(inbox)' : \E l \in 1..Len(inbox) :
                     inbox'[k] = inbox[l]
<1>1. ASSUME Kept, view'[t] = "new" => view[t] = "new" PROVE Fresh(t)
  BY <1>1 DEF Fresh
<1>2. ASSUME inbox' = inbox PROVE Kept
  BY <1>2
<1>3. ASSUME inbox # <<>>, inbox' = Tail(inbox) PROVE Kept
  BY <1>3, InboxTaken DEF Protocol
<1>4. CASE \E s \in Sid : Ask(s)
  <2>1. PICK s \in Sid : Ask(s)
    BY <1>4
  <2>2. PICK sw \in BOOLEAN : sw = (view[s] = "swapped")
    OBVIOUS
  <2>3. /\ view[s] # "placed" /\ view' = [view EXCEPT ![s] = "placed"]
        /\ inbox' = Append(inbox, [sid |-> s, swap |-> sw])
        /\ _sessions' = _sessions
    BY <2>1, <2>2, AskFacts
  <2>4. ~Asked(s) /\ AskedOnce
    BY <2>3 DEF Protocol, InOnePlace
  <2>5. \A k \in 1..Len(inbox)' :
          \/ k \in 1..Len(inbox) /\ inbox'[k] = inbox[k]
          \/ inbox'[k].sid = s /\ inbox'[k].swap = sw
    BY <2>3, <2>4, InboxSent
  <2>6. ~sw => view[s] = "new"
    BY <2>2, <2>3 DEF TypeOK
  <2>7. view'[t] = "new" => view[t] = "new"
    BY <2>3 DEF TypeOK
  <2>8. Fresh(t)
    BY <2>5, <2>6, <2>7 DEF Fresh
  <2>9. \A r \in Request, e \in SessionFork : ~Begun(r, e)
    <3>1. ASSUME NEW r \in Request, NEW e \in SessionFork, Begun(r, e)
          PROVE  FALSE
      <4>1. \A x : Entered(x)' <=> Entered(x) \/ x = r.sid
        BY <3>1, EnteredBegun
      <4>2. Entered(r.sid)
        BY <2>3, <4>1 DEF Entered
      <4> QED
        BY <3>1, <4>2 DEF Begun
    <3> QED
      BY <3>1
  <2> QED
    BY <2>8, <2>9
<1>5. CASE ~(\E s \in Sid : Ask(s))
  <2>1. inbox' = inbox \/ RefuseSession \/ \E r \in Request : Starts(r)
    BY <1>5, OnlyChanges
  <2>2. Kept
    <3>1. CASE RefuseSession
      BY <1>3, <3>1 DEF RefuseSession, Reading
    <3>2. CASE \E r \in Request : Starts(r)
      <4>1. PICK r \in Request, e \in SessionFork : Begun(r, e)
        BY <3>2, StartFacts
      <4> QED
        BY <1>3, <4>1 DEF Begun
    <3> QED
      BY <1>2, <2>1, <3>1, <3>2
  <2>3. view'[t] = "new" => view[t] = "new"
    <3>1. CASE Hear
      BY <3>1 DEF Hear, TypeOK
    <3>2. CASE view' = view
      BY <3>2
    <3> QED
      BY <1>5, <3>1, <3>2, OnlyChanges
  <2>4. Fresh(t)
    BY <1>1, <2>2, <2>3
  <2>5. ASSUME NEW r \in Request, NEW e \in SessionFork, Begun(r, e)
        PROVE  t # r.sid
    <3>1. /\ inbox # <<>> /\ r = Head(inbox) /\ inbox' = Tail(inbox)
          /\ view' = view
      BY <2>5 DEF Begun
    <3>2. Asked(r.sid) /\ r.sid \in Sid
      BY <3>1, InboxTaken DEF Protocol, Request
    <3>3. view[r.sid] = "placed"
      BY <3>2 DEF Protocol, InOnePlace
    <3>4. Asked(t)' => t # r.sid
      BY <3>1, InboxTakenFrom DEF Protocol
    <3>5. view'[t] = "new" \/ Asked(t)'
      BY DEF Fresh, Asked
    <3> QED
      BY <3>1, <3>3, <3>4, <3>5
  <2> QED
    BY <2>4, <2>5
<1> QED
  BY <1>4, <1>5

(* A new process has no memory of any session.                             *)
LEMMA SavedInit == Init => Saved
PROOF
<1> SUFFICES ASSUME Init PROVE Saved
  OBVIOUS
<1>1. \A s \in Sid : shm[s] = None /\ s3[s] = None /\ written[s] = 0
  BY DEF Init
<1>2. \A c \in ChildPid : child[c].sid \notin Sid
  BY NoneAssumption DEF Init, NoChild
<1> QED
  BY <1>1, <1>2 DEF Saved, FreshEmpty, Mapped, Stored, Older

(* A new session finds zeros, and one that is swapped in what it left.     *)
LEMMA SavedBegun ==
  ASSUME TypeOK, TypeOK', Vector, Protocol, Alive, ~exited, Saved, Next,
         NEW r \in Request, NEW e \in SessionFork, Begun(r, e)
  PROVE  FreshEmpty' /\ Mapped' /\ Stored' /\ Older'
PROOF
<1>1. PICK s \in Sid : s = r.sid
  BY DEF Request
<1>2. /\ inbox # <<>> /\ r = Head(inbox) /\ inbox' = Tail(inbox)
      /\ ~Entered(s) /\ UNCHANGED <<s3, written>>
      /\ \A t \in Sid \ {s} : shm'[t] = shm[t]
      /\ e.memory => CanLoad(r) /\ shm'[s] = Loaded(r)
      /\ \/ child' = child
         \/ \E c \in ChildPid :
              /\ child[c].state = "none" /\ e = Entry(s, c, TRUE)
              /\ child' = [child EXCEPT ![c] = [state |-> "running",
                                                sid |-> s]]
  BY <1>1 DEF Begun
<1>3. FreshEmpty /\ Mapped /\ Stored /\ Older
  BY DEF Saved
<1>4. \A c \in ChildPid : child[c].sid # s
  BY <1>2, ChildlessIfOut
<1>5. ASSUME CanLoad(r) PROVE Loaded(r) = written[s]
  <2>1. CASE r.swap
    <3>1. Swapping /\ s3[s] # None
      BY <1>1, <1>5, <2>1 DEF CanLoad
    <3>2. s3[s] = written[s]
      BY <1>3, <1>4, <3>1 DEF Stored
    <3> QED
      BY <1>1, <2>1, <3>2 DEF Loaded
  <2>2. CASE ~r.swap
    <3>1. Fresh(s)
      BY <1>1, <1>2, <2>2, InboxTaken DEF Protocol
    <3>2. shm[s] = None /\ written[s] = 0
      BY <1>3, <3>1 DEF FreshEmpty
    <3> QED
      BY <1>1, <2>2, <3>2 DEF Loaded, Created
  <2> QED
    BY <2>1, <2>2
<1>6. FreshEmpty'
  <2>1. ASSUME NEW t \in Sid, Fresh(t)' PROVE Fresh(t) /\ t # s
    BY <1>1, <2>1, FreshStep
  <2>2. ASSUME NEW t \in Sid, Fresh(t)'
        PROVE  shm'[t] = None /\ s3'[t] = None /\ written'[t] = 0
    BY <1>2, <1>3, <2>1, <2>2 DEF FreshEmpty
  <2> QED
    BY <2>2 DEF FreshEmpty
<1>7. Mapped'
  <2>1. ASSUME NEW c \in ChildPid, NEW t \in Sid, child'[c].sid = t
        PROVE  shm'[t] = written'[t]
    <3>1. CASE child'[c] = child[c]
      <4>1. t # s /\ child[c].sid = t
        BY <1>4, <2>1, <3>1
      <4> QED
        BY <1>2, <1>3, <4>1 DEF Mapped
    <3>2. CASE child'[c] # child[c]
      <4>1. PICK d \in ChildPid :
              /\ e = Entry(s, d, TRUE)
              /\ child' = [child EXCEPT ![d] = [state |-> "running",
                                                sid |-> s]]
        BY <1>2, <3>2
      <4>2. c = d /\ e.memory
        BY <3>2, <4>1 DEF TypeOK, Entry
      <4>3. child'[c] = [state |-> "running", sid |-> s]
        BY <4>1, <4>2 DEF TypeOK
      <4>4. t = s
        BY <2>1, <4>3
      <4> QED
        BY <1>2, <1>5, <4>2, <4>4
    <3> QED
      BY <3>1, <3>2
  <2> QED
    BY <2>1 DEF Mapped
<1>8. \A c \in ChildPid : child[c].sid \in Sid => child'[c] = child[c]
  BY <1>2, ChildTyped DEF TypeOK
<1>9. Stored'
  <2>1. ASSUME NEW t \in Sid, \A c \in ChildPid : child'[c].sid # t
        PROVE  \A c \in ChildPid : child[c].sid # t
    BY <1>8, <2>1
  <2> QED
    BY <1>2, <1>3, <2>1 DEF Stored
<1>10. Older'
  BY <1>2, <1>3 DEF Older
<1> QED
  BY <1>6, <1>7, <1>9, <1>10

(* session_deleted stores what the session left.                           *)
LEMMA SavedDeleted ==
  ASSUME "put" \notin Faults, TypeOK, TypeOK', Vector, Protocol, Alive,
         ~exited, Saved, Next, NEW c \in ChildPid,
         NEW i \in 1..Len(_sessions), Deleted(c, i)
  PROVE  FreshEmpty' /\ Mapped' /\ Stored' /\ Older'
PROOF
<1>1. PICK s \in Sid : s = _sessions[i].sid
  BY DEF Deleted
<1>2. /\ deleters[c] > 0 /\ child[c].sid = s /\ written' = written
      /\ SwapOut(s) /\ shm' = ShmWithout(i) /\ child' = Waited(c)
  BY <1>1 DEF Deleted
<1>3. FreshEmpty /\ Mapped /\ Stored /\ Older
  BY DEF Saved
<1>4. child[c].state = "zombie"
  BY <1>2 DEF Alive
<1>5. /\ child'[c] = NoChild
      /\ \A d \in ChildPid \ {c} : child'[d] = child[d]
  BY <1>2, <1>4 DEF Waited, TypeOK
<1>6. \A t \in Sid \ {s} : shm'[t] = shm[t]
  BY <1>1, <1>2 DEF ShmWithout, TypeOK
<1>7. IF Swapping THEN s3' = [s3 EXCEPT ![s] = shm[s]] ELSE s3' = s3
  BY <1>2 DEF SwapOut
<1>8. shm[s] = written[s]
  BY <1>2, <1>3 DEF Mapped
<1>9. /\ \A t \in Sid \ {s} : s3'[t] = s3[t]
      /\ Swapping => s3'[s] = written[s]
      /\ ~Swapping => s3'[s] = s3[s]
  BY <1>7, <1>8 DEF TypeOK
<1>10. Entered(s)
  BY <1>1, EnteredDeleted
<1>11. FreshEmpty'
  <2>1. ASSUME NEW t \in Sid, Fresh(t)'
        PROVE  shm'[t] = None /\ s3'[t] = None /\ written'[t] = 0
    <3>1. Fresh(t)
      BY <2>1, FreshStep
    <3>2. t # s
      BY <1>10, <3>1, FreshIsOut
    <3> QED
      BY <1>2, <1>3, <1>6, <1>9, <3>1, <3>2 DEF FreshEmpty
  <2> QED
    BY <2>1 DEF FreshEmpty
<1>12. Mapped'
  <2>1. ASSUME NEW d \in ChildPid, NEW t \in Sid, child'[d].sid = t
        PROVE  shm'[t] = written'[t]
    <3>1. d # c
      BY <1>5, <2>1, NoneAssumption DEF NoChild
    <3>2. child[d].sid = t
      BY <1>5, <2>1, <3>1
    <3>3. t # s
      BY <1>2, <3>1, <3>2, OneChildEach
    <3> QED
      BY <1>2, <1>3, <1>6, <3>2, <3>3 DEF Mapped
  <2> QED
    BY <2>1 DEF Mapped
<1>13. Stored'
  <2>1. ASSUME NEW t \in Sid, Swapping, \A d \in ChildPid : child'[d].sid # t
        PROVE  \/ s3'[t] = written'[t]
               \/ s3'[t] = None /\ written'[t] = 0
    <3>1. CASE t = s
      BY <1>2, <1>9, <2>1, <3>1
    <3>2. CASE t # s
      <4>1. \A d \in ChildPid : child[d].sid # t
        BY <1>2, <1>5, <2>1, <3>2
      <4> QED
        BY <1>2, <1>3, <1>9, <2>1, <3>2, <4>1 DEF Stored
    <3> QED
      BY <3>1, <3>2
  <2> QED
    BY <2>1 DEF Stored
<1>14. Older'
  <2>1. ASSUME NEW t \in Sid, s3'[t] # None PROVE s3'[t] <= written'[t]
    <3>1. CASE t = s /\ Swapping
      <4>1. written[s] \in Nat
        BY DEF TypeOK
      <4> QED
        BY <1>2, <1>9, <3>1, <4>1
    <3>2. CASE ~(t = s /\ Swapping)
      <4>1. s3'[t] = s3[t]
        BY <1>9, <3>2
      <4> QED
        BY <1>2, <1>3, <2>1, <4>1 DEF Older
    <3> QED
      BY <3>1, <3>2
  <2> QED
    BY <2>1 DEF Older
<1> QED
  BY <1>11, <1>12, <1>13, <1>14

(* A child's write reaches the memory that will be stored.                 *)
LEMMA SavedWritten ==
  ASSUME TypeOK, TypeOK', Vector, Protocol, Alive, ~exited, Saved, Next,
         NEW c \in ChildPid, ChildWrite(c)
  PROVE  FreshEmpty' /\ Mapped' /\ Stored' /\ Older'
PROOF
<1>1. PICK s \in Sid : s = child[c].sid
  BY WriteFacts
<1>2. /\ \A t \in Sid \ {s} : shm'[t] = shm[t] /\ written'[t] = written[t]
      /\ written'[s] = written[s] + 1
      /\ shm[s] # None => shm'[s] = written[s] + 1
      /\ UNCHANGED <<child, s3>>
  BY <1>1, WriteFacts
<1>3. FreshEmpty /\ Mapped /\ Stored /\ Older
  BY DEF Saved
<1>4. written[s] \in Nat /\ shm[s] = written[s] /\ shm[s] # None
  <2>1. written[s] \in Nat
    BY DEF TypeOK
  <2>2. written[s] # None
    BY <2>1, NoneAssumption
  <2>3. shm[s] = written[s]
    BY <1>1, <1>3 DEF Mapped
  <2> QED
    BY <2>1, <2>2, <2>3
<1>5. Entered(s)
  BY <1>1, ChildlessIfOut
<1>6. FreshEmpty'
  <2>1. ASSUME NEW t \in Sid, Fresh(t)'
        PROVE  shm'[t] = None /\ s3'[t] = None /\ written'[t] = 0
    <3>1. Fresh(t)
      BY <2>1, FreshStep
    <3>2. t # s
      BY <1>5, <3>1, FreshIsOut
    <3> QED
      BY <1>2, <1>3, <3>1, <3>2 DEF FreshEmpty
  <2> QED
    BY <2>1 DEF FreshEmpty
<1>7. Mapped'
  BY <1>2, <1>3, <1>4 DEF Mapped
<1>8. Stored'
  BY <1>1, <1>2, <1>3 DEF Stored
<1>9. Older'
  <2>1. ASSUME NEW t \in Sid, s3'[t] # None PROVE s3'[t] <= written'[t]
    <3>1. s3[t] # None /\ s3'[t] = s3[t] /\ s3[t] <= written[t]
      BY <1>2, <1>3, <2>1 DEF Older
    <3>2. s3[t] \in Nat
      BY <3>1 DEF TypeOK
    <3>3. CASE t = s
      BY <1>2, <1>4, <3>1, <3>2, <3>3
    <3>4. CASE t # s
      BY <1>2, <3>1, <3>4
    <3> QED
      BY <3>3, <3>4
  <2> QED
    BY <2>1 DEF Older
<1> QED
  BY <1>6, <1>7, <1>8, <1>9

(* What a session left is in its memory while it has a child, and in S3    *)
(* after that.                                                             *)
LEMMA SavedStep ==
  ASSUME "put" \notin Faults
  PROVE  TypeOK /\ TypeOK' /\ Vector /\ Protocol /\ Alive /\ Saved
           /\ [Next]_vars => Saved'
PROOF
<1> SUFFICES ASSUME TypeOK, TypeOK', Vector, Protocol, Alive, Saved,
                    [Next]_vars, ~exited'
             PROVE  FreshEmpty' /\ Mapped' /\ Stored' /\ Older'
  BY DEF Saved
<1>1. CASE UNCHANGED vars
  BY <1>1 DEF vars, procVars, exitVars, wireVars, kernelVars, cpVars, Saved,
     FreshEmpty, Fresh, Mapped, Stored, Older
<1>2. CASE Next
  <2>a. ~Departs
    BY DEF Departs, Leave, SigPipe, Gone
  <2>b. ~exited
    BY <1>2, <2>a, OnlyChanges
  <2>c. FreshEmpty /\ Mapped /\ Stored /\ Older
    BY <2>b DEF Saved
  <2>1. CASE \E r \in Request : Starts(r)
    <3>1. PICK r \in Request, e \in SessionFork : Begun(r, e)
      BY <2>1, StartFacts
    <3> QED
      BY <1>2, <2>b, <3>1, SavedBegun
  <2>2. CASE \E c \in ChildPid : session_deleted(c)
    <3>1. PICK c \in ChildPid, i \in 1..Len(_sessions) : Deleted(c, i)
      BY <2>2, DeletedFacts
    <3> QED
      BY <1>2, <2>b, <3>1, SavedDeleted
  <2>3. CASE \E c \in ChildPid : ChildWrite(c)
    BY <1>2, <2>3, <2>b, SavedWritten
  <2>4. CASE UNCHANGED <<shm, s3, written>>
             /\ \A c \in ChildPid : child'[c].sid = child[c].sid
    <3>1. \A t \in Sid : Fresh(t)' => Fresh(t)
      BY <1>2, FreshStep
    <3>2. FreshEmpty'
      BY <2>c, <2>4, <3>1 DEF FreshEmpty
    <3>3. Mapped' /\ Stored' /\ Older'
      BY <2>c, <2>4 DEF Mapped, Stored, Older
    <3> QED
      BY <3>2, <3>3
  <2>5. CASE \E c \in ChildPid : ChildExit(c)
    <3>1. PICK c \in ChildPid : ChildExit(c)
      BY <2>5
    <3>2. /\ UNCHANGED <<shm, s3, written>>
          /\ child'[c] = [state |-> "zombie", sid |-> child[c].sid]
          /\ \A d \in ChildPid \ {c} : child'[d] = child[d]
      BY <2>b, <3>1, ExitFacts
    <3>3. child'[c].sid = child[c].sid
      BY <3>2
    <3> QED
      BY <2>4, <3>2, <3>3
  <2> QED
    BY <1>2, <2>a, <2>1, <2>2, <2>3, <2>4, <2>5, OnlyChanges DEF Departs
<1> QED
  BY <1>1, <1>2

(* What a session left is never lost while the process lives.              *)
LEMMA SavedCorrect ==
  ASSUME "put" \notin Faults
  PROVE  Spec => []Saved
PROOF
<1>1. Init => Saved
  BY SavedInit
<1>2. TypeOK /\ TypeOK' /\ Vector /\ Protocol /\ Alive /\ Saved
        /\ [Next]_vars => Saved'
  BY SavedStep
<1> QED
  BY <1>1, <1>2, RuntimeCorrect, AliveCorrect, PTL DEF Spec

(* A running session finds in its memory what it last left there, across   *)
(* closures and swap-ins (SharedMemory::create, S3Swapper::swap_in and     *)
(* ::swap), as long as SIGCHLD means that a child has ended and S3 takes   *)
(* what it is given.                                                       *)
THEOREM MemoryCorrect ==
  ASSUME "put" \notin Faults
  PROVE  Spec => []MemoryFaithful
PROOF
<1>1. Saved => MemoryFaithful
  <2> SUFFICES ASSUME Saved, NEW c \in ChildPid, NEW s \in Sid,
                      Running(c, s), ~exited
               PROVE  shm[s] = written[s]
    BY DEF MemoryFaithful
  <2>1. child[c].sid = s
    BY DEF Running
  <2> QED
    BY <2>1 DEF Saved, Mapped
<1> QED
  BY <1>1, SavedCorrect, PTL

-----------------------------------------------------------------------------
(* What the control plane asks for within its books.                       *)

(* It has placed finitely many sessions.                                   *)
LEMMA PlacedFinite == Spec => []IsFiniteSet(Placed)
PROOF
<1>1. Init => IsFiniteSet(Placed)
  <2>1. Init => Placed = {}
    BY DEF Init, Placed
  <2> QED
    BY <2>1, FS_EmptySet
<1>2. TypeOK /\ IsFiniteSet(Placed) /\ [Next]_vars => IsFiniteSet(Placed)'
  <2> SUFFICES ASSUME TypeOK, IsFiniteSet(Placed), [Next]_vars
               PROVE  IsFiniteSet(Placed')
    OBVIOUS
  <2>1. ASSUME NEW s \in Sid, Ask(s) PROVE Placed' \subseteq Placed \cup {s}
    BY <2>1 DEF Ask, Placed, TypeOK
  <2>2. CASE Hear
    <3>1. \/ view' = view
          \/ view' = [view EXCEPT ![Head(outbox).sid] = "swapped"]
      BY <2>2 DEF Hear
    <3>2. Placed' \subseteq Placed
      BY <3>1 DEF Placed, TypeOK
    <3> QED
      BY <3>2, FS_Subset
  <2>3. CASE view' = view
    BY <2>3 DEF Placed
  <2>4. CASE \E s \in Sid : Ask(s)
    <3>1. PICK s \in Sid : Placed' \subseteq Placed \cup {s}
      BY <2>1, <2>4
    <3>2. IsFiniteSet(Placed \cup {s})
      BY FS_AddElement
    <3> QED
      BY <3>1, <3>2, FS_Subset
  <2>5. UNCHANGED vars => view' = view
    BY DEF vars, cpVars
  <2> QED
    BY <2>2, <2>3, <2>4, <2>5, OnlyChanges
<1> QED
  BY <1>1, <1>2, RuntimeCorrect, PTL DEF Spec

(* Each entry of _sessions is that of another placed session, none that of *)
(* the one asked for.                                                      *)
LEMMA RoomIsFree ==
  ASSUME TypeOK, Vector, Protocol, IsFiniteSet(Placed), NEW s \in Sid,
         Asked(s)
  PROVE  ~Conflicts(s) /\ Cardinality(Placed) > Len(_sessions)
PROOF
<1>1. ~Entered(s) /\ view[s] = "placed"
  BY DEF Protocol, InOnePlace
<1>2. DOMAIN _sessions = 1..Len(_sessions)
  BY DEF TypeOK
<1>3. ~Conflicts(s)
  BY <1>1, <1>2 DEF Conflicts, Entered
<1>4. PICK n \in Nat : n = Len(_sessions)
  BY DEF TypeOK
<1> DEFINE P == Placed \ {s}
           f == [i \in 1..n |-> _sessions[i].sid]
<1>5. \A i \in 1..n : _sessions[i].sid \in P
  <2> TAKE i \in 1..n
  <2>1. _sessions[i].sid \in Sid
    BY <1>4, EntryTyped
  <2>2. Entered(_sessions[i].sid)
    BY <1>4 DEF Entered
  <2>3. view[_sessions[i].sid] = "placed"
    BY <2>1, <2>2 DEF Protocol, InOnePlace
  <2> QED
    BY <1>1, <2>1, <2>2, <2>3 DEF Placed
<1>6. \A i, j \in 1..n : f[i] = f[j] => i = j
  BY <1>4 DEF Vector, OneEntry
<1>7. f \in Injection(1..n, P)
  BY <1>5, <1>6 DEF Injection, IsInjective
<1>8. Cardinality(Placed) \in Nat
  BY FS_CardinalityType
<1>9. IsFiniteSet(P) /\ Cardinality(P) = Cardinality(Placed) - 1
  BY <1>1, FS_RemoveElement DEF Placed
<1> HIDE DEF f, P
<1>10. Cardinality(1..n) <= Cardinality(P)
  BY <1>7, <1>9, FS_Injection
<1>11. Cardinality(1..n) = n
  BY FS_Interval
<1>12. n < Cardinality(Placed)
  BY <1>8, <1>9, <1>10, <1>11
<1> QED
  BY <1>3, <1>4, <1>12

(* What the control plane asks for within its books is never refused: it   *)
(* hears of a closure only after the entry and the name are free again, so *)
(* the request that follows finds them (Process::allocate_session and      *)
(* session_deleted), whatever fails in between.                            *)
THEOREM BooksCorrect == Spec => []RefusedOnlyOverbooked
PROOF
<1>1. TypeOK /\ Vector /\ Protocol /\ IsFiniteSet(Placed)
        => RefusedOnlyOverbooked
  <2> SUFFICES ASSUME TypeOK, Vector, Protocol, IsFiniteSet(Placed),
                      Reading, ~(HasRoom /\ ~Conflicts(Head(inbox).sid))
               PROVE  Cardinality(Placed) > MaxSessions
    BY DEF RefusedOnlyOverbooked, Placed
  <2>1. /\ Head(inbox) \in Request /\ Head(inbox) = inbox[1]
        /\ 1 \in 1..Len(inbox)
    BY HeadTail DEF TypeOK, Reading
  <2>2. PICK s \in Sid : s = Head(inbox).sid /\ Asked(s)
    BY <2>1 DEF Asked, Request
  <2>3. ~Conflicts(s) /\ Cardinality(Placed) > Len(_sessions)
    BY <2>2, RoomIsFree
  <2>4. ~HasRoom /\ Len(_sessions) \in Nat /\ Cardinality(Placed) \in Nat
    BY <2>2, <2>3, FS_CardinalityType DEF TypeOK
  <2> QED
    BY <2>3, <2>4, SizesAssumption DEF HasRoom
<1> QED
  BY <1>1, RuntimeCorrect, PlacedFinite, PTL

-----------------------------------------------------------------------------
(* The subprocess implements SessionStore.                                 *)

(* The abstract state.                                                     *)
States == [s \in Sid |-> StateOf(s)]
Memories == [s \in Sid |-> MemoryOf(s)]

(* SessionStore counts as the subprocess does.                             *)
LEMMA SameCardinality ==
  ASSUME NEW S
  PROVE  Store!Cardinality(S) = Cardinality(S)
PROOF BY DEF Store!Cardinality, Cardinality

(* A session is where its one child is, and away when it has none.         *)
WhereIs ==
  \A s \in Sid :
    /\ exited => StateOf(s) = "away"
    /\ (\A c \in ChildPid : child[c].sid # s) => StateOf(s) = "away"
    /\ ~exited => \A c \in ChildPid : child[c].sid = s =>
         /\ child[c].state = "running" => StateOf(s) = "running"
         /\ child[c].state = "zombie" => StateOf(s) = "ended"
         /\ child[c].state \in {"running", "zombie"}

(* So it is in every state the process reaches.                            *)
LEMMA WhereItIs == TypeOK /\ Vector /\ Alive => WhereIs
PROOF
<1> SUFFICES ASSUME TypeOK, Vector, Alive, NEW s \in Sid
             PROVE  /\ exited => StateOf(s) = "away"
                    /\ (\A c \in ChildPid : child[c].sid # s)
                         => StateOf(s) = "away"
                    /\ ~exited => \A c \in ChildPid : child[c].sid = s =>
                         /\ child[c].state = "running"
                              => StateOf(s) = "running"
                         /\ child[c].state = "zombie" => StateOf(s) = "ended"
                         /\ child[c].state \in {"running", "zombie"}
  BY DEF WhereIs
<1>1. exited => StateOf(s) = "away"
  BY DEF StateOf
<1>2. ASSUME \A c \in ChildPid : child[c].sid # s
      PROVE  StateOf(s) = "away"
  <2>1. ASSUME NEW st PROVE ~HasChild(s, st)
    <3>1. ASSUME NEW c \in ChildPid, child[c] = [state |-> st, sid |-> s]
          PROVE  child[c].sid = s
      BY <3>1
    <3> QED
      BY <1>2, <3>1 DEF HasChild
  <2> QED
    BY <2>1 DEF StateOf
<1>3. ASSUME ~exited, NEW c \in ChildPid, child[c].sid = s
      PROVE  /\ child[c].state = "running" => StateOf(s) = "running"
             /\ child[c].state = "zombie" => StateOf(s) = "ended"
             /\ child[c].state \in {"running", "zombie"}
  <2>1. /\ child[c].state \in {"running", "zombie"}
        /\ child[c] = [state |-> child[c].state, sid |-> s]
    BY <1>3, ChildTyped
  <2>2. ASSUME NEW d \in ChildPid, NEW st,
               child[d] = [state |-> st, sid |-> s]
        PROVE  child[c].state = st
    <3>1. child[d].sid = s /\ child[d].state = st
      BY <2>2
    <3>2. c = d
      BY <1>3, <3>1, OneChildEach
    <3> QED
      BY <3>1, <3>2
  <2>3. HasChild(s, child[c].state)
    BY <2>1, Zenon DEF HasChild
  <2>4. \A st : HasChild(s, st) => child[c].state = st
    BY <2>2, Zenon DEF HasChild
  <2>5. child[c].state = "running" => StateOf(s) = "running"
    BY <1>3, <2>3 DEF StateOf
  <2>6. child[c].state = "zombie" => StateOf(s) = "ended"
    <3> SUFFICES ASSUME child[c].state = "zombie" PROVE StateOf(s) = "ended"
      OBVIOUS
    <3>1. ~HasChild(s, "running")
      <4>1. "zombie" # "running"
        OBVIOUS
      <4> QED
        BY <2>4, <4>1
    <3> QED
      BY <1>3, <2>3, <3>1 DEF StateOf
  <2> QED
    BY <2>1, <2>5, <2>6
<1> QED
  BY <1>1, <1>2, <1>3

(* While the process lives, the memory of a session is what it last wrote. *)
MemoryIs ==
  \A s \in Sid :
    /\ ~exited => MemoryOf(s) = written[s]
    /\ exited => MemoryOf(s) = IF s3[s] = None THEN 0 ELSE s3[s]

(* So it is with swapping, in every state the process reaches.             *)
LEMMA MemoryItIs ==
  Swapping /\ TypeOK /\ Vector /\ Alive /\ Saved => MemoryIs
PROOF
<1> SUFFICES ASSUME Swapping, TypeOK, Vector, Alive, Saved, NEW s \in Sid
             PROVE  /\ ~exited => MemoryOf(s) = written[s]
                    /\ exited => MemoryOf(s) = IF s3[s] = None THEN 0
                                               ELSE s3[s]
  BY DEF MemoryIs
<1>1. WhereIs
  BY WhereItIs
<1>2. exited => MemoryOf(s) = IF s3[s] = None THEN 0 ELSE s3[s]
  BY <1>1 DEF WhereIs, MemoryOf
<1>3. ASSUME ~exited PROVE MemoryOf(s) = written[s]
  <2>1. CASE \A c \in ChildPid : child[c].sid # s
    <3>1. StateOf(s) = "away"
      BY <1>1, <2>1 DEF WhereIs
    <3>2. s3[s] = written[s] \/ (s3[s] = None /\ written[s] = 0)
      BY <1>3, <2>1 DEF Saved, Stored
    <3>3. written[s] # None
      <4>1. written[s] \in Nat
        BY DEF TypeOK
      <4> QED
        BY <4>1, NoneAssumption
    <3> QED
      BY <3>1, <3>2, <3>3 DEF MemoryOf
  <2>2. CASE \E c \in ChildPid : child[c].sid = s
    <3>1. PICK c \in ChildPid : child[c].sid = s
      BY <2>2
    <3>2. StateOf(s) \in {"running", "ended"}
      BY <1>1, <1>3, <3>1 DEF WhereIs
    <3>3. shm[s] = written[s]
      BY <1>3, <3>1 DEF Saved, Mapped
    <3> QED
      BY <3>2, <3>3 DEF MemoryOf
  <2> QED
    BY <2>1, <2>2
<1> QED
  BY <1>2, <1>3

(* A session whose child does not change stays where it is.                *)
LEMMA StaysPut ==
  ASSUME NEW t \in Sid, exited' = exited,
         \A c \in ChildPid : \/ child'[c] = child[c]
                             \/ child[c].sid # t /\ child'[c].sid # t
  PROVE  StateOf(t)' = StateOf(t)
PROOF
<1>1. ASSUME NEW st PROVE HasChild(t, st)' <=> HasChild(t, st)
  <2>1. ASSUME NEW c \in ChildPid
        PROVE  child'[c] = [state |-> st, sid |-> t]
                 <=> child[c] = [state |-> st, sid |-> t]
    <3>1. ASSUME NEW x, x = [state |-> st, sid |-> t] PROVE x.sid = t
      BY <3>1
    <3> QED
      BY <3>1
  <2> QED
    BY <2>1, Zenon DEF HasChild
<1> QED
  BY <1>1 DEF StateOf

(* The steps of SessionStore, on the abstract state.                       *)
LEMMA AbstractMove ==
  ASSUME NEW s \in Sid, NEW x, ~exited, ~exited',
         \A t \in Sid \ {s} : StateOf(t)' = StateOf(t),
         StateOf(s)' = x,
         \A t \in Sid : MemoryOf(t)' = MemoryOf(t),
         \/ /\ StateOf(s) = "away" /\ x = "running"
            /\ Cardinality({r \in Sid : StateOf(r) # "away"}) < MaxSessions
         \/ StateOf(s) = "running" /\ x = "ended"
         \/ StateOf(s) = "ended" /\ x = "away"
  PROVE  Store!Next
PROOF
<1>1. States' = [States EXCEPT ![s] = x]
  BY DEF States
<1>2. Memories' = Memories
  BY DEF Memories
<1>3. States[s] = StateOf(s)
  BY DEF States
<1>4. {r \in Sid : States[r] # "away"} = {r \in Sid : StateOf(r) # "away"}
  BY DEF States
<1>5. (~exited)' = ~exited
  OBVIOUS
<1>6. CASE StateOf(s) = "away" /\ x = "running"
  <2>1. Cardinality({r \in Sid : States[r] # "away"}) < MaxSessions
    <3>1. Cardinality({r \in Sid : StateOf(r) # "away"}) < MaxSessions
      BY <1>6
    <3> QED
      BY <1>4, <3>1
  <2>2. Store!Cardinality({r \in Sid : States[r] # "away"}) < MaxSessions
    BY <2>1, SameCardinality
  <2>3. Store!Begin(s)
    BY <1>1, <1>2, <1>3, <1>5, <1>6, <2>2
    DEF Store!Begin, States, Memories
  <2> QED
    BY <2>3 DEF Store!Next
<1>7. CASE StateOf(s) = "running" /\ x = "ended"
  <2>1. Store!End(s)
    BY <1>1, <1>2, <1>3, <1>5, <1>7 DEF Store!End, States, Memories
  <2> QED
    BY <2>1 DEF Store!Next
<1>8. CASE StateOf(s) = "ended" /\ x = "away"
  <2>1. Store!PutAway(s)
    BY <1>1, <1>2, <1>3, <1>5, <1>8 DEF Store!PutAway, States, Memories
  <2> QED
    BY <2>1 DEF Store!Next
<1> QED
  BY <1>6, <1>7, <1>8

(* There is room in SessionStore when there is room in _sessions.          *)
LEMMA RoomAbstract ==
  ASSUME TypeOK, Vector, Alive, ~exited, Len(_sessions) < MaxSessions
  PROVE  Cardinality({r \in Sid : StateOf(r) # "away"}) < MaxSessions
PROOF
<1> DEFINE R == {r \in Sid : StateOf(r) # "away"}
           f == [r \in R |-> CHOOSE i \in 1..Len(_sessions) :
                               _sessions[i].sid = r]
<1>1. PICK n \in Nat : n = Len(_sessions)
  BY DEF TypeOK
<1>2. \A r \in R : Entered(r)
  <2> TAKE r \in R
  <2>1. \E c \in ChildPid : child[c].sid = r
    BY WhereItIs DEF WhereIs
  <2> QED
    BY <2>1, ChildlessIfOut
<1>3. \A r \in R : f[r] \in 1..n /\ _sessions[f[r]].sid = r
  BY <1>1, <1>2 DEF Entered
<1>4. f \in [R -> 1..n]
  BY <1>3
<1>5. \A x, y \in R : f[x] = f[y] => x = y
  BY <1>3
<1> HIDE DEF f, R
<1>6. IsFiniteSet(R) /\ Cardinality(R) <= n
  BY <1>4, <1>5, CountBound
<1>7. Cardinality(R) \in Nat
  BY <1>6, FS_CardinalityType
<1>8. Cardinality(R) < MaxSessions
  BY <1>1, <1>6, <1>7, SizesAssumption
<1> QED
  BY <1>8 DEF R

(* Swapping out and in, the coalescing of signals, failed starts and the   *)
(* window between a closure and its message are invisible: seen from its   *)
(* sessions, every step of the subprocess is a step of SessionStore or     *)
(* changes nothing there.  A session is begun with the memory it left, and *)
(* what is away survives the process.  This needs swapping, a SIGCHLD that *)
(* means a child has ended, and an S3 that takes what it is given.         *)
THEOREM StoreRefined ==
  ASSUME Swapping, "put" \notin Faults
  PROVE  Spec => ImplementsStore
PROOF
<1> DEFINE I == TypeOK /\ Vector /\ Protocol /\ Alive /\ Saved
<1>1. Spec => []I
  BY RuntimeCorrect, AliveCorrect, SavedCorrect, PTL
<1>2. Init => Store!Init
  <2> SUFFICES ASSUME Init PROVE Store!Init
    OBVIOUS
  <2>1. TypeOK /\ Vector /\ Alive /\ Saved
    BY TypeInit, AliveInit, SavedInit
  <2>2. \A s \in Sid : StateOf(s) = "away"
    <3>1. \A c \in ChildPid : child[c].sid \notin Sid
      BY NoneAssumption DEF Init, NoChild
    <3> QED
      BY <2>1, <3>1, WhereItIs DEF WhereIs
  <2>3. \A s \in Sid : MemoryOf(s) = 0
    BY <2>1, MemoryItIs DEF MemoryIs, Init
  <2>4. ~exited
    BY DEF Init
  <2> QED
    BY <2>2, <2>3, <2>4 DEF Store!Init
<1>3. I /\ I' /\ [Next]_vars => [Store!Next]_(Store!vars)
  <2> SUFFICES ASSUME TypeOK, Vector, Protocol, Alive, Saved, TypeOK',
                      Vector', Alive', Saved', [Next]_vars
               PROVE  [Store!Next]_(Store!vars)
    OBVIOUS
  <2>a. WhereIs /\ MemoryIs
    BY WhereItIs, MemoryItIs
  <2>b. WhereIs' /\ MemoryIs'
    <3>1. (TypeOK /\ Vector /\ Alive => WhereIs)'
      BY WhereItIs, PTL
    <3>2. (Swapping /\ TypeOK /\ Vector /\ Alive /\ Saved => MemoryIs)'
      BY MemoryItIs, PTL
    <3>3. Swapping'
      OBVIOUS
    <3> QED
      BY <3>1, <3>2, <3>3
  <2>c. ASSUME exited' = exited, \A t \in Sid : StateOf(t)' = StateOf(t),
               \A t \in Sid : MemoryOf(t)' = MemoryOf(t)
        PROVE  UNCHANGED Store!vars
    <3>1. States' = States /\ Memories' = Memories
      BY <2>c DEF States, Memories
    <3> QED
      BY <2>c, <3>1 DEF Store!vars, States, Memories
  <2>d. ASSUME ~exited, ~exited', written' = written
        PROVE  \A t \in Sid : MemoryOf(t)' = MemoryOf(t)
    BY <2>a, <2>b, <2>d DEF MemoryIs
  <2>1. CASE UNCHANGED vars
    <3>1. UNCHANGED <<exited, child, shm, s3>>
      BY <2>1 DEF vars, procVars, exitVars, kernelVars
    <3>2. \A t \in Sid : StateOf(t)' = StateOf(t)
      BY <3>1, StaysPut
    <3>3. \A t \in Sid : MemoryOf(t)' = MemoryOf(t)
      BY <3>1, <3>2 DEF MemoryOf
    <3> QED
      BY <2>c, <3>1, <3>2, <3>3
  <2>2. CASE Next /\ Departs
    <3>1. ~exited /\ exited' /\ UNCHANGED <<s3, written>>
      BY <2>2 DEF Departs, Leave, SigPipe, Gone
    <3>2. \A t \in Sid : StateOf(t)' = "away"
      BY <2>b, <3>1 DEF WhereIs
    <3>3. ASSUME NEW t \in Sid
          PROVE  /\ MemoryOf(t)' <= MemoryOf(t)
                 /\ StateOf(t) = "away" => MemoryOf(t)' = MemoryOf(t)
      <4>1. MemoryOf(t) = written[t] /\ written[t] \in Nat
        BY <2>a, <3>1 DEF MemoryIs, TypeOK
      <4>2. MemoryOf(t)' = IF s3[t] = None THEN 0 ELSE s3[t]
        BY <2>b, <3>1 DEF MemoryIs
      <4>3. s3[t] # None => s3[t] <= written[t]
        BY <3>1 DEF Saved, Older
      <4>4. MemoryOf(t)' <= MemoryOf(t)
        BY <4>1, <4>2, <4>3
      <4>5. ASSUME StateOf(t) = "away" PROVE MemoryOf(t)' = MemoryOf(t)
        BY <3>1, <4>1, <4>2, <4>5 DEF MemoryOf
      <4> QED
        BY <4>4, <4>5
    <3>4. States' = [s \in Sid |-> "away"]
      BY <3>2 DEF States
    <3>5. \A t \in Sid : /\ Memories'[t] <= Memories[t]
                         /\ States[t] = "away" => Memories'[t] = Memories[t]
      BY <3>3 DEF States, Memories
    <3>6. DOMAIN Memories' = Sid
      BY DEF Memories
    <3>7. Store!Exit
      BY <3>1, <3>4, <3>5, <3>6 DEF Store!Exit, States, Memories
    <3> QED
      BY <3>7 DEF Store!Next
  <2>3. CASE Next /\ ~Departs /\ exited
    <3>1. exited' = exited
      BY <2>3, OnlyChanges
    <3>2. \A t \in Sid : StateOf(t)' = StateOf(t)
      BY <2>3, <2>a, <2>b, <3>1 DEF WhereIs
    <3>3. s3' = s3
      BY <2>3, DeletedFacts, OnlyChanges DEF Deleted
    <3>4. \A t \in Sid : MemoryOf(t)' = MemoryOf(t)
      BY <2>3, <2>a, <2>b, <3>1, <3>3 DEF MemoryIs
    <3> QED
      BY <2>c, <3>1, <3>2, <3>4
  <2>4. CASE Next /\ ~Departs /\ ~exited
    <3>a. ~exited' /\ exited' = exited
      BY <2>4, OnlyChanges
    <3>1. CASE \E r \in Request : Starts(r)
      <4>1. PICK r \in Request, e \in SessionFork : Begun(r, e)
        BY <3>1, StartFacts
      <4>2. PICK s \in Sid : s = r.sid
        BY DEF Request
      <4>3. /\ ~Entered(s) /\ written' = written
            /\ Len(_sessions) < MaxSessions
        BY <4>1, <4>2 DEF Begun
      <4>4. \A t \in Sid : MemoryOf(t)' = MemoryOf(t)
        BY <2>4, <2>d, <3>a, <4>3
      <4>5. CASE child' = child
        BY <2>c, <3>a, <4>4, <4>5, StaysPut
      <4>6. CASE child' # child
        <5>1. PICK c \in ChildPid :
                /\ child[c].state = "none"
                /\ child' = [child EXCEPT ![c] = [state |-> "running",
                                                  sid |-> s]]
          BY <4>1, <4>2, <4>6 DEF Begun
        <5>2. child[c].sid = None
          BY <5>1, ChildTyped
        <5>3. /\ child'[c] = [state |-> "running", sid |-> s]
              /\ \A d \in ChildPid \ {c} : child'[d] = child[d]
          BY <5>1 DEF TypeOK
        <5>4. child'[c].sid = s /\ child'[c].state = "running"
          BY <5>3
        <5>5. StateOf(s)' = "running"
          BY <2>b, <3>a, <5>4 DEF WhereIs
        <5>6. StateOf(s) = "away"
          BY <2>4, <2>a, <4>3, ChildlessIfOut DEF WhereIs
        <5>7. \A t \in Sid \ {s} : StateOf(t)' = StateOf(t)
          <6> TAKE t \in Sid \ {s}
          <6>1. child[c].sid # t /\ child'[c].sid # t
            BY <5>2, <5>4, NoneAssumption
          <6> QED
            BY <3>a, <5>3, <6>1, StaysPut
        <5>8. Cardinality({r1 \in Sid : StateOf(r1) # "away"}) < MaxSessions
          BY <2>4, <4>3, RoomAbstract
        <5> QED
          BY <2>4, <3>a, <4>4, <5>5, <5>6, <5>7, <5>8, AbstractMove
      <4> QED
        BY <4>5, <4>6
    <3>2. CASE \E c \in ChildPid : session_deleted(c)
      <4>1. PICK c \in ChildPid, i \in 1..Len(_sessions) : Deleted(c, i)
        BY <3>2, DeletedFacts
      <4>2. PICK s \in Sid : s = _sessions[i].sid
        BY <4>1 DEF Deleted
      <4>3. /\ deleters[c] > 0 /\ child[c].sid = s /\ written' = written
            /\ child' = Waited(c)
        BY <4>1, <4>2 DEF Deleted
      <4>4. child[c].state = "zombie"
        BY <4>3 DEF Alive
      <4>5. /\ child'[c] = NoChild
            /\ \A d \in ChildPid \ {c} : child'[d] = child[d]
        BY <4>3, <4>4 DEF Waited, TypeOK
      <4>6. child'[c].sid = None
        BY <4>5 DEF NoChild
      <4>7. StateOf(s) = "ended"
        BY <2>4, <2>a, <4>3, <4>4 DEF WhereIs
      <4>8. \A d \in ChildPid : child'[d].sid # s
        <5> TAKE d \in ChildPid
        <5>1. CASE d = c
          BY <4>6, <5>1, NoneAssumption
        <5>2. CASE d # c
          BY <2>4, <4>3, <4>5, <5>2, OneChildEach
        <5> QED
          BY <5>1, <5>2
      <4>9. StateOf(s)' = "away"
        BY <2>b, <4>8 DEF WhereIs
      <4>10. \A t \in Sid \ {s} : StateOf(t)' = StateOf(t)
        <5> TAKE t \in Sid \ {s}
        <5>1. child[c].sid # t /\ child'[c].sid # t
          BY <4>3, <4>6, NoneAssumption
        <5> QED
          BY <3>a, <4>5, <5>1, StaysPut
      <4>11. \A t \in Sid : MemoryOf(t)' = MemoryOf(t)
        BY <2>4, <2>d, <3>a, <4>3
      <4> QED
        BY <2>4, <3>a, <4>7, <4>9, <4>10, <4>11, AbstractMove
    <3>3. CASE \E c \in ChildPid : ChildExit(c)
      <4>1. PICK c \in ChildPid : ChildExit(c)
        BY <3>3
      <4>2. PICK s \in Sid : s = child[c].sid
        BY <4>1, ExitFacts
      <4>3. /\ child[c].state = "running" /\ written' = written
            /\ child'[c] = [state |-> "zombie", sid |-> s]
            /\ \A d \in ChildPid \ {c} : child'[d] = child[d]
        BY <2>4, <4>1, <4>2, ExitFacts
      <4>4. child'[c].sid = s /\ child'[c].state = "zombie"
        BY <4>3
      <4>5. StateOf(s) = "running"
        BY <2>4, <2>a, <4>2, <4>3 DEF WhereIs
      <4>6. StateOf(s)' = "ended"
        BY <2>b, <3>a, <4>4 DEF WhereIs
      <4>7. \A t \in Sid \ {s} : StateOf(t)' = StateOf(t)
        BY <3>a, <4>2, <4>3, <4>4, StaysPut
      <4>8. \A t \in Sid : MemoryOf(t)' = MemoryOf(t)
        BY <2>4, <2>d, <3>a, <4>3
      <4> QED
        BY <2>4, <3>a, <4>5, <4>6, <4>7, <4>8, AbstractMove
    <3>4. CASE \E c \in ChildPid : ChildWrite(c)
      <4>1. PICK c \in ChildPid : ChildWrite(c)
        BY <3>4
      <4>2. PICK s \in Sid : s = child[c].sid
        BY <4>1, WriteFacts
      <4>3. /\ child[c].state = "running" /\ child' = child
            /\ written'[s] = written[s] + 1
            /\ \A t \in Sid \ {s} : written'[t] = written[t]
        BY <4>1, <4>2, WriteFacts
      <4>4. StateOf(s) = "running"
        BY <2>4, <2>a, <4>2, <4>3 DEF WhereIs
      <4>5. \A t \in Sid : StateOf(t)' = StateOf(t)
        BY <3>a, <4>3, StaysPut
      <4>6. /\ MemoryOf(s)' = MemoryOf(s) + 1
            /\ \A t \in Sid \ {s} : MemoryOf(t)' = MemoryOf(t)
        BY <2>4, <2>a, <2>b, <3>a, <4>3 DEF MemoryIs
      <4>7. States' = States /\ States[s] = "running"
        BY <4>4, <4>5 DEF States
      <4>8. Memories' = [Memories EXCEPT ![s] = @ + 1]
        BY <4>6 DEF Memories
      <4>9. Store!Work(s)
        BY <2>4, <3>a, <4>7, <4>8 DEF Store!Work, States, Memories
      <4> QED
        BY <4>9 DEF Store!Next
    <3>5. CASE child' = child /\ written' = written
      BY <2>4, <2>c, <2>d, <3>a, <3>5, StaysPut
    <3> QED
      BY <2>4, <3>1, <3>2, <3>3, <3>4, <3>5, OnlyChanges
  <2> QED
    BY <2>1, <2>2, <2>3, <2>4
<1> QED
  BY <1>1, <1>2, <1>3, PTL DEF Spec, ImplementsStore, Store!Spec
=============================================================================
