------------------------ MODULE SingleInstanceProofs ------------------------
(***************************************************************************)
(* A session of ControlPlane exists once, for every number of sessions,    *)
(* processes, clients and pool threads, and whether or not the unlocked    *)
(* counter tears.  The argument is one of custody: at every moment one     *)
(* party at most has a session in its hands, and one message, process or   *)
(* thread at most carries its present life.                                *)
(***************************************************************************)
EXTENDS ControlPlaneProofs

-----------------------------------------------------------------------------
(* Sequences in which an element of a set occurs, and occurs once.         *)

SomeIn(q, E) == \E i \in DOMAIN q : q[i] \in E
OnceIn(q, E) == \A i, j \in DOMAIN q : q[i] \in E /\ q[j] \in E => i = j

(* Removing the first occurrence of an element that is there closes the    *)
(* gap and keeps the order of the others.                                  *)
LEMMA RemoveFirstAt ==
  ASSUME NEW S, NEW q \in Seq(S), NEW e, Contains(q, e)
  PROVE  \E k \in 1 .. Len(q) :
           /\ q[k] = e
           /\ RemoveFirst(q, e) \in Seq(S)
           /\ Len(RemoveFirst(q, e)) = Len(q) - 1
           /\ \A i \in 1 .. Len(q) - 1 :
                RemoveFirst(q, e)[i] = IF i < k THEN q[i] ELSE q[i + 1]
PROOF
<1> DEFINE I == {i \in 1 .. Len(q) : q[i] = e}
<1>1. Len(q) \in Nat
  OBVIOUS
<1>2. Min(I) \in I
  <2>1. I # {} /\ I \in SUBSET Nat
    BY <1>1 DEF Contains
  <2> QED
    BY <2>1, MinOfNaturals
<1>3. RemoveFirst(q, e) = RemoveAt(q, Min(I))
  BY DEF RemoveFirst, SelectInSeq, Contains
<1>4. PICK k \in 1 .. Len(q) : q[k] = e /\ RemoveFirst(q, e) = RemoveAt(q, k)
  BY <1>2, <1>3
<1> HIDE DEF I
<1> DEFINE a == SubSeq(q, 1, k - 1)
           b == SubSeq(q, k + 1, Len(q))
           r == RemoveFirst(q, e)
<1>5. k \in Int /\ Len(q) \in Int /\ 1 <= k /\ k <= Len(q)
  BY <1>1
<1>6. r \in Seq(S) /\ Len(r) = Len(q) - 1
  BY RemoveFirstShrinks
<1>7. a \in Seq(S) /\ Len(a) = k - 1
      /\ \A i \in 1 .. k - 1 : a[i] = q[i]
  BY <1>5
<1>8. b \in Seq(S) /\ Len(b) = Len(q) - k
      /\ \A i \in 1 .. Len(q) - k : b[i] = q[k + i]
  BY <1>5
<1>9. r = a \o b
  BY <1>4 DEF RemoveAt
<1> HIDE DEF a, b, r
<1>10. ASSUME NEW i \in 1 .. Len(q) - 1
       PROVE  r[i] = IF i < k THEN q[i] ELSE q[i + 1]
  <2>1. CASE i < k
    BY <1>5, <1>7, <1>8, <1>9, <2>1
  <2>2. CASE ~(i < k)
    <3>1. i - (k - 1) \in 1 .. Len(q) - k /\ k + (i - (k - 1)) = i + 1
      BY <1>5, <2>2
    <3>2. r[i] = b[i - (k - 1)]
      BY <1>5, <1>7, <1>8, <1>9, <2>2
    <3> QED
      BY <1>8, <2>2, <3>1, <3>2
  <2> QED
    BY <2>1, <2>2
<1> QED
  BY <1>4, <1>6, <1>10 DEF r

(* What Tail leaves: of an element that occurs once, nothing after it was  *)
(* taken from the front.                                                   *)
LEMMA TailOnce ==
  ASSUME NEW S, NEW q \in Seq(S), q # <<>>, NEW E
  PROVE  /\ Tail(q) \in Seq(S)
         /\ Head(q) \in S
         /\ Head(q) \in E => SomeIn(q, E)
         /\ SomeIn(Tail(q), E) => SomeIn(q, E)
         /\ OnceIn(q, E) => OnceIn(Tail(q), E)
         /\ OnceIn(q, E) /\ Head(q) \in E => ~SomeIn(Tail(q), E)
PROOF
<1>1. /\ Len(q) \in Nat /\ Len(q) >= 1 /\ DOMAIN q = 1 .. Len(q)
      /\ DOMAIN Tail(q) = 1 .. Len(q) - 1
      /\ Head(q) = q[1]
      /\ \A i \in 1 .. Len(q) - 1 : Tail(q)[i] = q[i + 1]
  OBVIOUS
<1>2. Tail(q) \in Seq(S) /\ Head(q) \in S
  OBVIOUS
<1>3. \A i \in DOMAIN Tail(q) : i + 1 \in DOMAIN q /\ i + 1 # 1
                                /\ Tail(q)[i] = q[i + 1]
  BY <1>1
<1>4. 1 \in DOMAIN q
  BY <1>1
<1>5. \A i, j \in DOMAIN Tail(q) : i + 1 = j + 1 => i = j
  BY <1>1
<1> QED
  BY <1>1, <1>2, <1>3, <1>4, <1>5 DEF SomeIn, OnceIn

(* What Append adds.                                                       *)
LEMMA AppendOnce ==
  ASSUME NEW S, NEW q \in Seq(S), NEW e \in S, NEW E
  PROVE  /\ Append(q, e) \in Seq(S)
         /\ SomeIn(Append(q, e), E) <=> SomeIn(q, E) \/ e \in E
         /\ OnceIn(q, E) /\ (e \in E => ~SomeIn(q, E))
              => OnceIn(Append(q, e), E)
PROOF
<1> DEFINE n == Len(q) + 1
<1>1. /\ Append(q, e) \in Seq(S)
      /\ DOMAIN Append(q, e) = (DOMAIN q) \cup {n}
      /\ n \notin DOMAIN q
      /\ Append(q, e)[n] = e
      /\ \A i \in DOMAIN q : Append(q, e)[i] = q[i]
  OBVIOUS
<1> HIDE DEF n
<1> QED
  BY <1>1 DEF SomeIn, OnceIn

(* The same for one element.                                               *)
LEMMA AppendElement ==
  ASSUME NEW S, NEW q \in Seq(S), NEW e \in S, NEW r, r = Append(q, e), NEW x
  PROVE  /\ SomeIn(r, {x}) <=> SomeIn(q, {x}) \/ e = x
         /\ OnceIn(q, {x}) /\ (e = x => ~SomeIn(q, {x})) => OnceIn(r, {x})
PROOF
<1>1. /\ SomeIn(Append(q, e), {x}) <=> SomeIn(q, {x}) \/ e \in {x}
      /\ OnceIn(q, {x}) /\ (e \in {x} => ~SomeIn(q, {x}))
           => OnceIn(Append(q, e), {x})
  BY AppendOnce, Zenon
<1> QED
  BY <1>1, Zenon

(* What RemoveFirst removes: the element, where it occurs once, and no     *)
(* other (std::vector::erase in Resources::remove_session).                *)
LEMMA RemoveFirstOnce ==
  ASSUME NEW S, NEW q \in Seq(S), NEW e, NEW x
  PROVE  /\ SomeIn(RemoveFirst(q, e), {x}) => SomeIn(q, {x})
         /\ OnceIn(q, {x}) => OnceIn(RemoveFirst(q, e), {x})
         /\ OnceIn(q, {e}) => ~SomeIn(RemoveFirst(q, e), {e})
         /\ x # e /\ SomeIn(q, {x}) => SomeIn(RemoveFirst(q, e), {x})
PROOF
<1>1. CASE ~Contains(q, e)
  <2>1. RemoveFirst(q, e) = q
    BY <1>1, RemoveFirstAbsent
  <2>2. ~SomeIn(q, {e})
    BY <1>1 DEF SomeIn, Contains
  <2> QED
    BY <2>1, <2>2
<1>2. CASE Contains(q, e)
  <2> DEFINE r == RemoveFirst(q, e)
             n == Len(q)
  <2>1. PICK k \in 1 .. n :
           /\ q[k] = e /\ r \in Seq(S) /\ Len(r) = n - 1
           /\ \A i \in 1 .. n - 1 : r[i] = IF i < k THEN q[i] ELSE q[i + 1]
    <3>1. Contains(q, e) /\ q \in Seq(S)
      BY <1>2
    <3> QED
      BY ONLY <3>1, RemoveFirstAt
  <2>2. n \in Nat /\ k \in Nat /\ 1 <= k /\ k <= n
        /\ DOMAIN q = 1 .. n /\ DOMAIN r = 1 .. n - 1
    BY <2>1
  <2> HIDE DEF r
  <2>3. ASSUME NEW i \in DOMAIN r
        PROVE  \E j \in DOMAIN q : /\ j # k /\ r[i] = q[j]
                                   /\ j = IF i < k THEN i ELSE i + 1
    BY <2>1, <2>2
  <2>4. ASSUME NEW j \in DOMAIN q, j # k
        PROVE  \E i \in DOMAIN r : r[i] = q[j]
    <3>1. CASE j < k
      BY <2>1, <2>2, <2>4, <3>1
    <3>2. CASE j > k
      <4>1. j - 1 \in 1 .. n - 1 /\ ~(j - 1 < k) /\ j - 1 + 1 = j
        BY <2>2, <3>2
      <4> QED
        BY <2>1, <2>2, <4>1
    <3> QED
      BY <2>2, <2>4, <3>1, <3>2
  <2>5. SomeIn(r, {x}) => SomeIn(q, {x})
    BY <2>3 DEF SomeIn
  <2>6. ASSUME OnceIn(q, {x}) PROVE OnceIn(r, {x})
    <3> SUFFICES ASSUME NEW i \in DOMAIN r, NEW j \in DOMAIN r,
                        r[i] = x, r[j] = x
                 PROVE  i = j
      BY DEF OnceIn
    <3>1. PICK a \in DOMAIN q : a # k /\ q[a] = x
                               /\ a = IF i < k THEN i ELSE i + 1
      BY <2>3
    <3>2. PICK b \in DOMAIN q : b # k /\ q[b] = x
                               /\ b = IF j < k THEN j ELSE j + 1
      BY <2>3
    <3>3. a = b
      BY <2>6, <3>1, <3>2 DEF OnceIn
    <3> QED
      BY <2>2, <3>1, <3>2, <3>3
  <2>7. OnceIn(q, {e}) => ~SomeIn(r, {e})
    BY <2>1, <2>2, <2>3 DEF SomeIn, OnceIn
  <2>8. x # e /\ SomeIn(q, {x}) => SomeIn(r, {x})
    BY <2>1, <2>4 DEF SomeIn
  <2> QED
    BY <2>5, <2>6, <2>7, <2>8 DEF r
<1> QED
  BY <1>1, <1>2


-----------------------------------------------------------------------------
(* Who has session s in its hands: Redis lists it as swapped out for the   *)
(* global process a; the HTTP thread is placing it; it is in the vector of *)
(* process a; the pool thread a has removed it and will list it as swapped *)
(* out.                                                                    *)
Owner(k, a, s) ==
  \/ k = "swapped" /\ a \in Gid /\ s \in swapped[a]
  \/ k = "http" /\ a = None /\ http.sid = s
       /\ http.pc \in {"free", "store", "add", "new"}
  \/ k = "vector" /\ a \in Pid /\ SomeIn(sessions[a], {s})
  \/ k = "swap" /\ a \in Worker
       /\ worker[a].pc = "swap" /\ worker[a].task.sid = s

OneOwner == \A s \in Sid : \A k, a, l, b :
              Owner(k, a, s) /\ Owner(l, b, s) => k = l /\ a = b

OwnedIsKnown ==
  /\ \A s \in Sid : \A k, a : Owner(k, a, s) => s \in known
  /\ http.pc # "idle" => http.sid \in known

(* What carries the present life of s in process p: a request on its way,  *)
(* the running session, the message that reports its end, the task made of *)
(* it, or the pool thread w that serves the task.                          *)
Requests(s) == [sid : {s}, swap : BOOLEAN]
CloseOf(p, s) == [kind |-> "close", pid |-> p, sid |-> s]

Life(k, w, p, s) ==
  \/ k = "request" /\ w = None /\ SomeIn(toProc[p], Requests(s))
  \/ k = "running" /\ w = None /\ s \in running[p]
  \/ k = "closed" /\ w = None /\ SomeIn(fromProc[p], {CloseOf(p, s)})
  \/ k = "task" /\ w = None /\ SomeIn(tasks, {CloseOf(p, s)})
  \/ k = "worker" /\ w \in Worker /\ worker[w].task = CloseOf(p, s)
       /\ worker[w].pc \in {"run", "erase"}

OneLife == \A s \in Sid : \A p, q \in Pid : \A k, w, l, v :
             Life(k, w, p, s) /\ Life(l, v, q, s) => k = l /\ w = v /\ p = q

(* A session is alive only in a process that lists it, and has been asked  *)
(* for.                                                                    *)
LifeIsListed ==
  \A s \in Sid : \A p \in Pid : \A k, w :
    Life(k, w, p, s) => SomeIn(sessions[p], {s}) /\ allocated[s]

(* Nothing is listed, requested or reported twice.                         *)
NoneTwice ==
  \A s \in Sid : \A p \in Pid :
    /\ OnceIn(sessions[p], {s})
    /\ OnceIn(toProc[p], Requests(s))
    /\ OnceIn(fromProc[p], {CloseOf(p, s)})
    /\ OnceIn(tasks, {CloseOf(p, s)})

(* Messages name their sender, only they report closures, and only         *)
(* closures are handled as such.                                           *)
Wires ==
  /\ \A p \in Pid : \A i \in DOMAIN fromProc[p] :
       fromProc[p][i].kind = "close" => fromProc[p][i].pid = p
  /\ \A i \in DOMAIN backlog : backlog[i].kind # "close"
  /\ \A w \in Worker : worker[w].pc \in {"erase", "swap", "unalive"} =>
                         worker[w].task.kind = "close"

UnusedIsEmpty ==
  /\ \A p \in Pid \ processes : sessions[p] = <<>>
  /\ http.pc \in {"store", "add"} => http.proc \in processes

Custody == /\ OneOwner /\ OwnedIsKnown /\ OneLife /\ LifeIsListed
           /\ NoneTwice /\ Wires /\ UnusedIsEmpty

-----------------------------------------------------------------------------
(* One owner.                                                              *)

(* Steps in which nobody takes a session.                                  *)
LEMMA OwnerFrame ==
  ASSUME OneOwner, OwnedIsKnown, known \subseteq known',
         \A s \in Sid : \A k, a : Owner(k, a, s)' => Owner(k, a, s),
         http'.pc # "idle" => http'.sid \in known'
  PROVE  OneOwner' /\ OwnedIsKnown'
PROOF BY DEF OneOwner, OwnedIsKnown

(* Steps that hand session r over to the owner (l, b).                     *)
LEMMA OwnerMoves ==
  ASSUME OneOwner, OwnedIsKnown, known \subseteq known',
         NEW r \in Sid, NEW l, NEW b, r \in known',
         \A k, a : Owner(k, a, r)' => k = l /\ a = b,
         \A s \in Sid : s # r => \A k, a : Owner(k, a, s)' => Owner(k, a, s),
         http'.pc # "idle" => http'.sid \in known'
  PROVE  OneOwner' /\ OwnedIsKnown'
PROOF BY DEF OneOwner, OwnedIsKnown

(* The handing over of sessions: process_client takes a session from Redis *)
(* or makes one, and puts it into the vector of a process; the pool thread *)
(* that handles its closure takes it from there and gives it back.         *)
LEMMA OwnerStep ==
  ASSUME TypeOK, Custody, [Next]_vars
  PROVE  OneOwner' /\ OwnedIsKnown'
PROOF
<1> USE DEF redisVars, processVars, sessionVars, poolVars, queueVars,
            wireVars, envVars, historyVars
<1>a. /\ OneOwner /\ OwnedIsKnown /\ LifeIsListed /\ NoneTwice /\ Wires
      /\ http.pc # "idle" => http.sid \in known
  BY DEF Custody, OwnedIsKnown
<1>b. /\ http \in HttpState /\ worker \in [Worker -> WorkerState]
      /\ sessions \in [Pid -> Seq(Sid)] /\ swapped \in [Gid -> SUBSET Sid]
  BY DEF TypeOK
<1>c. http.pc # "idle" => http.sid \in Sid /\ http.gid \in Gid
  BY <1>b, HttpLocals
<1>d. ASSUME UNCHANGED <<swapped, sessions, worker, http, known>>
      PROVE  OneOwner' /\ OwnedIsKnown'
  <2>1. \A s \in Sid : \A k, a : Owner(k, a, s)' => Owner(k, a, s)
    BY <1>d DEF Owner
  <2> QED
    BY <1>a, <1>d, <2>1, OwnerFrame
<1>1. CASE UNCHANGED vars
  BY <1>1, <1>d DEF vars
<1>2. CASE Client
  <2>1. CASE \E g \in Gid : process_allocation(g)
    BY <1>d, <2>1 DEF process_allocation
  <2>2. ASSUME NEW g \in Gid, NEW s \in Sid, NEW f, NewSession(g, s, f)
        PROVE  OneOwner' /\ OwnedIsKnown'
    <3>1. /\ s \notin known /\ known' = known \cup {s}
          /\ UNCHANGED <<swapped, sessions, worker>>
          /\ http'.pc = "free" /\ http'.sid = s /\ http.pc = "idle"
      BY <2>2 DEF NewSession, IdleHttp
    <3>2. \A k, a : ~Owner(k, a, s)
      BY <1>a, <3>1 DEF OwnedIsKnown
    <3>3. \A k, a : Owner(k, a, s)' => k = "http" /\ a = None
      BY <3>1, <3>2 DEF Owner
    <3>4. \A r \in Sid : r # s =>
            \A k, a : Owner(k, a, r)' => Owner(k, a, r)
      BY <3>1 DEF Owner
    <3> QED
      BY <1>a, <3>1, <3>3, <3>4, OwnerMoves
  <2>3. ASSUME NEW g \in Gid, NEW s \in Sid, NEW f, CheckAlive(g, s, f)
        PROVE  OneOwner' /\ OwnedIsKnown'
    <3>1. /\ UNCHANGED <<known, swapped, sessions, worker>>
          /\ http'.pc = "srem" /\ http'.sid = s /\ s \in known
      BY <2>3 DEF CheckAlive, IdleHttp
    <3>2. \A r \in Sid : \A k, a : Owner(k, a, r)' => Owner(k, a, r)
      BY <3>1 DEF Owner
    <3> QED
      BY <1>a, <3>1, <3>2, OwnerFrame
  <2> QED
    BY <1>2, <2>1, <2>2, <2>3 DEF Client
<1>3. CASE HttpStep
  <2>1. http'.pc # "idle" => http'.sid \in known /\ http'.sid = http.sid
    BY <1>3, <1>a, HttpMoves
  <2>2. CASE TakeSwapped
    <3>1. http.pc = "srem" /\ http'.pc = "free" /\ http'.sid = http.sid
      BY <1>3, <2>2, HttpMoves DEF TakeSwapped
    <3>2. PICK s \in Sid, g \in Gid : s = http.sid /\ g = http.gid
      BY <1>c, <3>1
    <3>3. /\ s \in swapped[g] /\ swapped' = [swapped EXCEPT ![g] = @ \ {s}]
          /\ UNCHANGED <<known, sessions, worker>>
      BY <2>2, <3>2 DEF TakeSwapped
    <3>4. \A k, a : Owner(k, a, s) => k = "swapped" /\ a = g
      <4>1. Owner("swapped", g, s)
        BY <3>3 DEF Owner
      <4> QED
        BY <1>a, <4>1 DEF OneOwner
    <3>5. \A h \in Gid : swapped'[h] = IF h = g THEN swapped[h] \ {s}
                                       ELSE swapped[h]
      BY <1>b, <3>3
    <3>6. \A k, a : Owner(k, a, s)' => k = "http" /\ a = None
      BY <3>1, <3>3, <3>4, <3>5 DEF Owner
    <3>7. \A r \in Sid : r # s =>
            \A k, a : Owner(k, a, r)' => Owner(k, a, r)
      BY <3>1, <3>2, <3>3, <3>5 DEF Owner
    <3> QED
      BY <1>a, <2>1, <3>1, <3>2, <3>3, <3>6, <3>7, OwnerMoves
  <2>3. CASE \/ UnknownSession \/ MarkAlive \/ StoreCount \/ NoFreeProcess
             \/ \E p \in Pid : GetFreeProcess(p)
    <3>1. UNCHANGED <<known, swapped, sessions, worker>> /\ ~TakeSwapped
      BY <2>3 DEF UnknownSession, MarkAlive, StoreCount, NoFreeProcess,
        GetFreeProcess, TakeSwapped
    <3>2. /\ http'.pc \in {"free", "store", "add", "new"} =>
               http.pc \in {"free", "store", "add", "new"}
          /\ http'.pc # "idle" => http'.sid = http.sid
      BY <1>3, <3>1, HttpMoves
    <3>3. \A r \in Sid : \A k, a : Owner(k, a, r)' => Owner(k, a, r)
      BY <3>1, <3>2 DEF Owner
    <3> QED
      BY <1>a, <2>1, <3>1, <3>3, OwnerFrame
  <2>4. ASSUME NEW p \in Pid, NEW s \in Sid, s = http.sid,
               http.pc \in {"add", "new"}, http'.pc = "alive",
               UNCHANGED <<known, swapped, worker>>,
               \A q \in Pid : q # p => sessions'[q] = sessions[q],
               \A r \in Sid : r # s =>
                 (SomeIn(sessions'[p], {r}) => SomeIn(sessions[p], {r}))
        PROVE  OneOwner' /\ OwnedIsKnown'
    <3>1. \A k, a : Owner(k, a, s) => k = "http" /\ a = None
      <4>1. Owner("http", None, s)
        BY <2>4 DEF Owner
      <4> QED
        BY <1>a, <4>1 DEF OneOwner
    <3>2. \A k, a : Owner(k, a, s)' => k = "vector" /\ a = p
      BY <2>4, <3>1 DEF Owner
    <3>3. \A r \in Sid : r # s =>
            \A k, a : Owner(k, a, r)' => Owner(k, a, r)
      BY <2>4 DEF Owner
    <3> QED
      BY <1>a, <2>1, <2>4, <3>2, <3>3, OwnerMoves
  <2>5. CASE AddToExisting
    <3>1. /\ http.pc = "add" /\ http'.pc = "alive"
          /\ sessions' = [sessions EXCEPT ![http.proc] = Append(@, http.sid)]
          /\ UNCHANGED <<known, swapped, worker>>
      BY <1>3, <2>5, HttpMoves DEF AddToExisting
    <3>2. http.proc \in Pid /\ http.sid \in Sid
      BY <1>b, <3>1, HttpLocals
    <3>3. PICK p \in Pid, s \in Sid : p = http.proc /\ s = http.sid
      BY <3>2
    <3>4. /\ sessions'[p] = Append(sessions[p], s)
          /\ \A q \in Pid : q # p => sessions'[q] = sessions[q]
      BY <1>b, <3>1, <3>3
    <3>5. \A r \in Sid : r # s =>
            (SomeIn(sessions'[p], {r}) => SomeIn(sessions[p], {r}))
      BY <1>b, <3>4, AppendOnce
    <3> QED
      BY <2>4, <3>1, <3>3, <3>4, <3>5
  <2>6. ASSUME NEW p \in Pid, AddToNew(p)
        PROVE  OneOwner' /\ OwnedIsKnown'
    <3>1. /\ http.pc = "new" /\ http'.pc = "alive"
          /\ sessions' = [sessions EXCEPT ![p] = <<http.sid>>]
          /\ UNCHANGED <<known, swapped, worker>>
      BY <1>3, <2>6, HttpMoves DEF AddToNew
    <3>2. PICK s \in Sid : s = http.sid
      BY <1>c, <3>1
    <3>3. /\ sessions'[p] = <<s>>
          /\ \A q \in Pid : q # p => sessions'[q] = sessions[q]
      BY <1>b, <3>1, <3>2
    <3>4. \A r \in Sid : r # s => ~SomeIn(sessions'[p], {r})
      BY <3>3 DEF SomeIn
    <3> QED
      BY <2>4, <3>1, <3>2, <3>3, <3>4
  <2> QED
    BY <1>3, <2>2, <2>3, <2>5, <2>6 DEF HttpStep
<1>4. CASE MainStep
  BY <1>4, <1>d DEF MainStep, Accept, Poll
<1>5. ASSUME NEW w \in Worker, WorkerStep(w)
      PROVE  OneOwner' /\ OwnedIsKnown'
  <2>1. \A v \in Worker : v # w => worker'[v] = worker[v]
    BY <1>5, WorkerMoves
  <2>2. ASSUME UNCHANGED <<known, swapped, sessions, http>>,
               worker'[w].pc # "swap"
        PROVE  OneOwner' /\ OwnedIsKnown'
    <3>1. \A r \in Sid : \A k, a : Owner(k, a, r)' => Owner(k, a, r)
      BY <2>1, <2>2 DEF Owner
    <3> QED
      BY <1>a, <2>2, <3>1, OwnerFrame
  <2>3. CASE SendPending(w)
    BY <1>d, <2>3 DEF SendPending
  <2>4. CASE \/ TakeTask(w) \/ StoreConnection(w) \/ LockSessions(w)
             \/ AddEpoll(w) \/ process_session(w) \/ RemoveAlive(w)
             \/ LogStatus(w)
    <3>1. worker'[w].pc # "swap"
      BY <1>5, <2>4, WorkerMoves
    <3>2. UNCHANGED <<known, swapped, sessions, http>>
      BY <2>4 DEF TakeTask, StoreConnection, LockSessions, AddEpoll,
        process_session, RemoveAlive, LogStatus
    <3> QED
      BY <2>2, <3>1, <3>2
  <2>5. ASSUME NEW p \in Pid, NEW s \in Sid, worker[w].task = CloseOf(p, s),
               worker[w].pc \in {"run", "erase"},
               worker'[w].pc = "swap", worker'[w].task = worker[w].task,
               UNCHANGED <<known, swapped, http>>,
               sessions' = [sessions EXCEPT ![p] = RemoveFirst(@, s)]
        PROVE  OneOwner' /\ OwnedIsKnown'
    <3>1. SomeIn(sessions[p], {s})
      <4>1. Life("worker", w, p, s)
        BY <2>5 DEF Life
      <4> QED
        BY <1>a, <4>1 DEF LifeIsListed
    <3>2. \A k, a : Owner(k, a, s) => k = "vector" /\ a = p
      <4>1. Owner("vector", p, s)
        BY <3>1 DEF Owner
      <4> QED
        BY <1>a, <4>1 DEF OneOwner
    <3>3. /\ sessions'[p] = RemoveFirst(sessions[p], s)
          /\ \A q \in Pid : q # p => sessions'[q] = sessions[q]
          /\ sessions[p] \in Seq(Sid)
      BY <1>b, <2>5
    <3>4. /\ ~SomeIn(sessions'[p], {s})
          /\ \A r \in Sid : SomeIn(sessions'[p], {r})
                              => SomeIn(sessions[p], {r})
      <4>1. OnceIn(sessions[p], {s})
        BY <1>a DEF NoneTwice
      <4> QED
        BY <3>3, <4>1, RemoveFirstOnce
    <3>5. worker[w].task.sid = s /\ worker'[w].task.sid = s
      BY <2>5 DEF CloseOf
    <3>6. \A k, a : Owner(k, a, s)' => k = "swap" /\ a = w
      <4> SUFFICES ASSUME NEW k, NEW a, Owner(k, a, s)', ~(k = "swap" /\ a = w)
                   PROVE  FALSE
        OBVIOUS
      <4>1. ~(k = "vector" /\ a = p)
        BY <3>4 DEF Owner
      <4>2. Owner(k, a, s)
        BY <2>1, <2>5, <3>3, <4>1 DEF Owner
      <4> QED
        BY <3>2, <4>1, <4>2
    <3>7. \A r \in Sid : r # s =>
            \A k, a : Owner(k, a, r)' => Owner(k, a, r)
      BY <2>1, <2>5, <3>3, <3>4, <3>5 DEF Owner
    <3>8. s \in known
      BY <1>a, <3>1 DEF OwnedIsKnown, Owner
    <3> QED
      BY <1>a, <2>5, <3>6, <3>7, <3>8, OwnerMoves
  <2>6. CASE remove_session(w)
    <3>1. /\ worker[w].pc = "run" /\ worker[w].task.kind = "close"
          /\ worker'[w].task = worker[w].task
      BY <1>5, <2>6, WorkerMoves
    <3>2. worker[w].task \in StatusTask
      BY <1>b, <3>1, WorkerLocals, TaskFields
    <3>3. PICK p \in Pid, s \in Sid :
            p = worker[w].task.pid /\ s = worker[w].task.sid
      BY <3>2 DEF StatusTask
    <3>4. worker[w].task = CloseOf(p, s)
      BY <3>1, <3>2, <3>3 DEF CloseOf, StatusTask
    <3>5. CASE Contains(sessions[p], s)
      <4>1. worker'[w].pc # "swap"
        BY <1>5, <2>6, <3>3, <3>5, WorkerMoves
      <4>2. UNCHANGED <<known, swapped, sessions, http>>
        BY <2>6, <3>3, <3>5 DEF remove_session
      <4> QED
        BY <2>2, <4>1, <4>2
    <3>6. CASE ~Contains(sessions[p], s)
      <4>1. worker'[w].pc = "swap"
        BY <1>5, <2>6, <3>3, <3>6, WorkerMoves
      <4>2. UNCHANGED <<known, swapped, http, sessions>>
        BY <2>6, <3>3, <3>6 DEF remove_session
      <4>3. sessions' = [sessions EXCEPT ![p] = RemoveFirst(@, s)]
        BY <3>3, <3>6, <4>2, RemoveFirstAbsent DEF TypeOK
      <4> QED
        BY <2>5, <3>1, <3>4, <4>1, <4>2, <4>3
    <3> QED
      BY <3>5, <3>6
  <2>7. CASE EraseSession(w)
    <3>1. /\ worker[w].pc = "erase" /\ worker'[w].pc = "swap"
          /\ worker'[w].task = worker[w].task
      BY <1>5, <2>7, WorkerMoves
    <3>2. worker[w].task \in StatusTask /\ worker[w].task.kind = "close"
      BY <1>a, <1>b, <3>1, WorkerLocals DEF Wires
    <3>3. PICK p \in Pid, s \in Sid :
            p = worker[w].task.pid /\ s = worker[w].task.sid
      BY <3>2 DEF StatusTask
    <3>4. worker[w].task = CloseOf(p, s)
      BY <3>2, <3>3 DEF CloseOf, StatusTask
    <3>5. /\ UNCHANGED <<known, swapped, http>>
          /\ sessions' = [sessions EXCEPT ![p] = RemoveFirst(@, s)]
      BY <2>7, <3>3 DEF EraseSession
    <3> QED
      BY <2>5, <3>1, <3>4, <3>5
  <2>8. CASE AddSwapped(w)
    <3>1. /\ worker[w].pc = "swap" /\ worker'[w].pc = "unalive"
          /\ worker'[w].task = worker[w].task
      BY <1>5, <2>8, WorkerMoves
    <3>2. worker[w].task.sid \in Sid
      BY <1>b, <3>1, WorkerLocals DEF StatusTask
    <3>3. PICK s \in Sid : s = worker[w].task.sid
      BY <3>2
    <3>4. PICK g : /\ swapped' = [swapped EXCEPT ![g] = @ \cup {s}]
                   /\ UNCHANGED <<known, sessions, http>>
      BY <2>8, <3>3 DEF AddSwapped, SwappedEntry
    <3>5. \A h \in Gid : swapped'[h] = IF h = g THEN swapped[h] \cup {s}
                                       ELSE swapped[h]
      BY <1>b, <3>4
    <3>6. \A k, a : Owner(k, a, s) => k = "swap" /\ a = w
      <4>1. Owner("swap", w, s)
        BY <3>1, <3>3 DEF Owner
      <4> QED
        BY <1>a, <4>1 DEF OneOwner
    <3>7. \A k, a : Owner(k, a, s)' => k = "swapped" /\ a = g
      BY <2>1, <3>1, <3>4, <3>5, <3>6 DEF Owner
    <3>8. \A r \in Sid : r # s =>
            \A k, a : Owner(k, a, r)' => Owner(k, a, r)
      BY <2>1, <3>1, <3>4, <3>5 DEF Owner
    <3>9. s \in known
      BY <1>a, <3>1, <3>3 DEF OwnedIsKnown, Owner
    <3> QED
      BY <1>a, <3>4, <3>7, <3>8, <3>9, OwnerMoves
  <2> QED
    BY <1>5, <2>3, <2>4, <2>6, <2>7, <2>8 DEF WorkerStep
<1>6. CASE \E p \in Pid : Subprocess(p)
  BY <1>6, <1>d DEF Subprocess, ProcConnect, ProcAllocate, ProcRefuse,
    ProcessExit, SessionConnect, SessionEnd
<1>7. CASE \E w \in Worker : handle_process_closure(w)
  BY <1>7, <1>d DEF handle_process_closure
<1> QED
  BY <1>1, <1>2, <1>3, <1>4, <1>5, <1>6, <1>7 DEF Next, Serve

-----------------------------------------------------------------------------
(* One life.                                                               *)

(* Two carriers of a session's life are the same.                          *)
LEMMA LifeUnique ==
  ASSUME OneLife, NEW s \in Sid, NEW p1 \in Pid, NEW p2 \in Pid,
         NEW k1, NEW w1, NEW k2, NEW w2,
         Life(k1, w1, p1, s), Life(k2, w2, p2, s)
  PROVE  k1 = k2 /\ w1 = w2 /\ p1 = p2
PROOF BY DEF OneLife

(* Steps that begin no life and end no listing that a life needs.          *)
LEMMA LifeFrame ==
  ASSUME OneLife, LifeIsListed,
         \A s \in Sid : allocated[s] => allocated'[s],
         \A s \in Sid : \A p \in Pid : \A k, w :
           Life(k, w, p, s)' => Life(k, w, p, s) /\ SomeIn(sessions'[p], {s})
  PROVE  OneLife' /\ LifeIsListed'
PROOF
<1>1. OneLife'
  <2> SUFFICES ASSUME NEW s \in Sid, NEW p1 \in Pid, NEW p2 \in Pid,
                      NEW k1, NEW w1, NEW k2, NEW w2,
                      Life(k1, w1, p1, s)', Life(k2, w2, p2, s)'
               PROVE  k1 = k2 /\ w1 = w2 /\ p1 = p2
    BY DEF OneLife
  <2>1. Life(k1, w1, p1, s) /\ Life(k2, w2, p2, s)
    BY Zenon
  <2> QED
    BY <2>1, Zenon DEF OneLife
<1>2. LifeIsListed'
  BY DEF LifeIsListed, SomeIn
<1> QED
  BY <1>1, <1>2

(* Steps after which one party at most carries the life of session r.      *)
LEMMA LifeMoves ==
  ASSUME OneLife, LifeIsListed,
         \A s \in Sid : allocated[s] => allocated'[s],
         NEW r \in Sid, allocated'[r],
         \A p1, p2 \in Pid : \A k1, w1, k2, w2 :
           Life(k1, w1, p1, r)' /\ Life(k2, w2, p2, r)' =>
             k1 = k2 /\ w1 = w2 /\ p1 = p2,
         \A p \in Pid : \A k, w :
           Life(k, w, p, r)' => SomeIn(sessions'[p], {r}),
         \A s \in Sid : s # r => \A p \in Pid : \A k, w :
           Life(k, w, p, s)' => Life(k, w, p, s) /\ SomeIn(sessions'[p], {s})
  PROVE  OneLife' /\ LifeIsListed'
PROOF
<1>1. OneLife'
  <2> SUFFICES ASSUME NEW s \in Sid, NEW p1 \in Pid, NEW p2 \in Pid,
                      NEW k1, NEW w1, NEW k2, NEW w2,
                      Life(k1, w1, p1, s)', Life(k2, w2, p2, s)'
               PROVE  k1 = k2 /\ w1 = w2 /\ p1 = p2
    BY DEF OneLife
  <2>1. CASE s = r
    <3>1. Life(k1, w1, p1, r)' /\ Life(k2, w2, p2, r)'
      BY <2>1
    <3> QED
      BY <3>1
  <2>2. CASE s # r
    <3>1. Life(k1, w1, p1, s)
      BY <2>2, Zenon
    <3>2. Life(k2, w2, p2, s)
      BY <2>2, Zenon
    <3> QED
      BY <3>1, <3>2, LifeUnique
  <2> QED
    BY <2>1, <2>2
<1>2. LifeIsListed'
  BY DEF LifeIsListed, SomeIn
<1> QED
  BY <1>1, <1>2

(* A request for a session without a life is written to its process, or    *)
(* lost.                                                                   *)
LEMMA LifeBegins ==
  ASSUME TypeOK, OneLife, LifeIsListed, NoneTwice,
         NEW p \in Pid, NEW s \in Sid, NEW swap \in BOOLEAN, NEW l,
         WriteRequest(p, s, swap, l),
         \A q \in Pid : \A k, w : ~Life(k, w, q, s),
         UNCHANGED <<running, fromProc, tasks, worker>>,
         allocated' = [allocated EXCEPT ![s] = TRUE],
         SomeIn(sessions'[p], {s}),
         \A r \in Sid : \A q \in Pid :
           SomeIn(sessions[q], {r}) => SomeIn(sessions'[q], {r})
  PROVE  /\ OneLife' /\ LifeIsListed'
         /\ \A r \in Sid : \A q \in Pid : OnceIn(toProc'[q], Requests(r))
PROOF
<1>a. /\ toProc \in [Pid -> Seq(Request)] /\ allocated \in [Sid -> BOOLEAN]
      /\ fill(s, swap) \in Request
  BY DEF TypeOK, fill, Request
<1>b. \A r \in Sid : fill(s, swap) \in Requests(r) <=> r = s
  BY DEF fill, Requests
<1>c. allocated'[s] /\ \A r \in Sid : allocated[r] => allocated'[r]
  BY <1>a
<1>d. \A r \in Sid : \A q \in Pid : \A k, w :
        Life(k, w, q, r) => SomeIn(sessions'[q], {r})
  BY DEF LifeIsListed
<1>e. \A r \in Sid : \A q \in Pid : OnceIn(toProc[q], Requests(r))
  BY DEF NoneTwice
<1>1. CASE connection[p]
  <2>1. toProc' = [toProc EXCEPT ![p] = Append(@, fill(s, swap))]
    BY <1>1 DEF WriteRequest
  <2>2. /\ toProc'[p] = Append(toProc[p], fill(s, swap))
        /\ \A q \in Pid : q # p => toProc'[q] = toProc[q]
        /\ toProc[p] \in Seq(Request)
    BY <1>a, <2>1
  <2>3. ~SomeIn(toProc[p], Requests(s))
    BY DEF Life
  <2>4. \A r \in Sid :
          /\ SomeIn(toProc'[p], Requests(r)) <=>
               SomeIn(toProc[p], Requests(r)) \/ r = s
          /\ OnceIn(toProc'[p], Requests(r))
    BY <1>a, <1>b, <1>e, <2>2, <2>3, AppendOnce
  <2>5. ASSUME NEW q \in Pid, NEW k, NEW w, Life(k, w, q, s)'
        PROVE  k = "request" /\ w = None /\ q = p
    <3>1. ~Life(k, w, q, s)
      OBVIOUS
    <3> QED
      BY <2>2, <2>4, <2>5, <3>1 DEF Life
  <2>6. ASSUME NEW r \in Sid, r # s, NEW q \in Pid, NEW k, NEW w,
               Life(k, w, q, r)'
        PROVE  Life(k, w, q, r)
    <3>1. SomeIn(toProc'[q], Requests(r)) => SomeIn(toProc[q], Requests(r))
      BY <2>2, <2>4, <2>6
    <3> QED
      BY <2>6, <3>1 DEF Life
  <2>7. \A p1, p2 \in Pid : \A k1, w1, k2, w2 :
          Life(k1, w1, p1, s)' /\ Life(k2, w2, p2, s)' =>
            k1 = k2 /\ w1 = w2 /\ p1 = p2
    BY <2>5
  <2>8. \A q \in Pid : \A k, w :
          Life(k, w, q, s)' => SomeIn(sessions'[q], {s})
    BY <2>5
  <2>9. OneLife' /\ LifeIsListed'
    BY <1>c, <1>d, <2>6, <2>7, <2>8, LifeMoves
  <2> QED
    BY <1>e, <2>2, <2>4, <2>9
<1>2. CASE ~connection[p]
  <2>1. toProc' = toProc
    BY <1>2 DEF WriteRequest
  <2>2. \A r \in Sid : \A q \in Pid : \A k, w :
          Life(k, w, q, r)' => Life(k, w, q, r)
    BY <2>1 DEF Life
  <2>3. OneLife' /\ LifeIsListed'
    BY <1>c, <1>d, <2>2, LifeFrame
  <2> QED
    BY <1>e, <2>1, <2>3
<1> QED
  BY <1>1, <1>2

(* The steps of the HTTP thread: it writes a request only for a session    *)
(* that is its own, and so has no life.                                    *)
LEMMA LifeHttp ==
  ASSUME TypeOK, Custody, HttpStep
  PROVE  OneLife' /\ LifeIsListed' /\ NoneTwice'
PROOF
<1> USE DEF redisVars, processVars, sessionVars, poolVars, queueVars,
            wireVars, envVars, historyVars
<1>a. OneOwner /\ OneLife /\ LifeIsListed /\ NoneTwice /\ UnusedIsEmpty
  BY DEF Custody
<1>b. http \in HttpState /\ sessions \in [Pid -> Seq(Sid)]
  BY DEF TypeOK
<1>c. ASSUME http.pc \in {"add", "new"}
      PROVE  /\ http.sid \in Sid
             /\ \A p \in Pid : ~SomeIn(sessions[p], {http.sid})
             /\ \A p \in Pid : \A k, w : ~Life(k, w, p, http.sid)
  <2>1. http.sid \in Sid
    BY <1>b, <1>c, HttpLocals
  <2>2. Owner("http", None, http.sid)
    BY <1>c DEF Owner
  <2>3. \A p \in Pid : ~SomeIn(sessions[p], {http.sid})
    <3> SUFFICES ASSUME NEW p \in Pid, SomeIn(sessions[p], {http.sid})
                 PROVE  FALSE
      OBVIOUS
    <3>1. Owner("vector", p, http.sid)
      BY DEF Owner
    <3>2. "vector" = "http"
      BY <1>a, <2>1, <2>2, <3>1 DEF OneOwner
    <3> QED
      BY <3>2
  <2> QED
    BY <1>a, <2>1, <2>3 DEF LifeIsListed
<1>1. CASE \/ TakeSwapped \/ UnknownSession \/ MarkAlive \/ StoreCount
           \/ NoFreeProcess \/ \E p \in Pid : GetFreeProcess(p)
  <2>1. UNCHANGED <<toProc, fromProc, running, tasks, worker, sessions,
                    allocated>>
    BY <1>1 DEF TakeSwapped, UnknownSession, MarkAlive, StoreCount,
      NoFreeProcess, GetFreeProcess
  <2>2. \A s \in Sid : \A p \in Pid : \A k, w :
          Life(k, w, p, s)' => Life(k, w, p, s)
    BY <2>1 DEF Life
  <2>3. OneLife' /\ LifeIsListed'
    BY <1>a, <2>1, <2>2, LifeFrame DEF LifeIsListed
  <2> QED
    BY <1>a, <2>1, <2>3 DEF NoneTwice
<1>2. CASE AddToExisting
  <2>1. /\ http.pc = "add"
        /\ sessions' = [sessions EXCEPT ![http.proc] = Append(@, http.sid)]
        /\ WriteRequest(http.proc, http.sid, http.swap, lives[http.sid] + 1)
        /\ allocated' = [allocated EXCEPT ![http.sid] = TRUE]
        /\ UNCHANGED <<running, fromProc, tasks, worker>>
    BY <1>2 DEF AddToExisting
  <2>2. http.proc \in Pid /\ http.sid \in Sid /\ http.swap \in BOOLEAN
    BY <1>b, <2>1, HttpLocals
  <2>3. PICK p \in Pid, s \in Sid : p = http.proc /\ s = http.sid
    BY <2>2
  <2>4. /\ sessions'[p] = Append(sessions[p], s)
        /\ \A q \in Pid : q # p => sessions'[q] = sessions[q]
        /\ sessions[p] \in Seq(Sid)
    BY <1>b, <2>1, <2>3
  <2>5. /\ ~SomeIn(sessions[p], {s})
        /\ \A q \in Pid : \A k, w : ~Life(k, w, q, s)
    BY <1>c, <2>1, <2>3
  <2>6. \A r \in Sid : OnceIn(sessions[p], {r})
    BY <1>a DEF NoneTwice
  <2>7. /\ SomeIn(sessions'[p], {s})
        /\ \A r \in Sid :
             /\ SomeIn(sessions[p], {r}) => SomeIn(sessions'[p], {r})
             /\ OnceIn(sessions'[p], {r})
    BY <2>4, <2>5, <2>6, AppendElement
  <2>8. \A r \in Sid : \A q \in Pid :
           SomeIn(sessions[q], {r}) => SomeIn(sessions'[q], {r})
    BY <2>4, <2>7
  <2>9. /\ OneLife' /\ LifeIsListed'
        /\ \A r \in Sid : \A q \in Pid : OnceIn(toProc'[q], Requests(r))
    BY <1>a, <2>1, <2>2, <2>3, <2>5, <2>7, <2>8, LifeBegins
  <2> QED
    BY <1>a, <2>1, <2>4, <2>7, <2>9 DEF NoneTwice
<1>3. ASSUME NEW p \in Pid, AddToNew(p)
      PROVE  OneLife' /\ LifeIsListed' /\ NoneTwice'
  <2>1. /\ http.pc = "new" /\ p \notin processes
        /\ sessions' = [sessions EXCEPT ![p] = <<http.sid>>]
        /\ UNCHANGED <<toProc, running, fromProc, tasks, worker, allocated>>
    BY <1>3 DEF AddToNew
  <2>2. PICK s \in Sid : s = http.sid
    BY <1>c, <2>1
  <2>3. /\ sessions'[p] = <<s>>
        /\ \A q \in Pid : q # p => sessions'[q] = sessions[q]
    BY <1>b, <2>1, <2>2
  <2>4. \A r \in Sid : OnceIn(sessions'[p], {r})
    BY <2>3 DEF OnceIn
  <2>5. \A r \in Sid : ~SomeIn(sessions[p], {r})
    BY <1>a, <2>1 DEF UnusedIsEmpty, SomeIn
  <2>6. \A r \in Sid : \A q \in Pid : \A k, w :
          Life(k, w, q, r)' => Life(k, w, q, r)
    BY <2>1 DEF Life
  <2>7. \A r \in Sid : \A q \in Pid : \A k, w :
          Life(k, w, q, r) => SomeIn(sessions'[q], {r})
    BY <1>a, <2>3, <2>5 DEF LifeIsListed
  <2>8. OneLife' /\ LifeIsListed'
    BY <1>a, <2>1, <2>6, <2>7, LifeFrame
  <2> QED
    BY <1>a, <2>1, <2>3, <2>4, <2>8 DEF NoneTwice
<1> QED
  BY <1>1, <1>2, <1>3 DEF HttpStep

(* The epoll loop: a connection that is accepted carries no closure, and a *)
(* closure that is read from a process is a task from then on.             *)
LEMMA LifeMain ==
  ASSUME TypeOK, Custody, MainStep
  PROVE  OneLife' /\ LifeIsListed' /\ NoneTwice'
PROOF
<1> USE DEF redisVars, processVars, sessionVars, poolVars, queueVars,
            wireVars, envVars, historyVars
<1>a. OneLife /\ LifeIsListed /\ NoneTwice /\ Wires
  BY DEF Custody
<1>b. /\ tasks \in Seq(Task) /\ backlog \in Seq(Task)
      /\ fromProc \in [Pid -> Seq(Task)]
  BY DEF TypeOK
<1>c. \A s \in Sid : \A p \in Pid : \A k, w :
        Life(k, w, p, s) => SomeIn(sessions[p], {s})
  BY <1>a DEF LifeIsListed
<1>d. \A s \in Sid : \A p \in Pid :
        OnceIn(tasks, {CloseOf(p, s)}) /\ OnceIn(fromProc[p], {CloseOf(p, s)})
  BY <1>a DEF NoneTwice
<1>1. CASE Accept
  <2>1. /\ backlog # <<>> /\ tasks' = Append(tasks, Head(backlog))
        /\ UNCHANGED <<toProc, fromProc, running, worker, sessions,
                       allocated>>
    BY <1>1 DEF Accept
  <2>2. Head(backlog) \in Task /\ Head(backlog).kind # "close"
    BY <1>a, <1>b, <2>1 DEF Wires
  <2>3. PICK m \in Task : m = Head(backlog)
    BY <2>2
  <2>4. \A p \in Pid, s \in Sid : m # CloseOf(p, s)
    BY <2>2, <2>3 DEF CloseOf
  <2>5. \A p \in Pid, s \in Sid :
          /\ SomeIn(tasks', {CloseOf(p, s)}) => SomeIn(tasks, {CloseOf(p, s)})
          /\ OnceIn(tasks', {CloseOf(p, s)})
    <3>1. tasks' = Append(tasks, m)
      BY <2>1, <2>3
    <3> QED
      BY <1>b, <1>d, <2>4, <3>1, AppendElement
  <2>6. \A s \in Sid : \A p \in Pid : \A k, w :
          Life(k, w, p, s)' => Life(k, w, p, s)
    BY <2>1, <2>5 DEF Life
  <2>7. OneLife' /\ LifeIsListed'
    BY <1>a, <1>c, <2>1, <2>6, LifeFrame
  <2> QED
    BY <1>a, <2>1, <2>5, <2>7 DEF NoneTwice
<1>2. ASSUME NEW q \in Pid, Poll(q)
      PROVE  OneLife' /\ LifeIsListed' /\ NoneTwice'
  <2>1. /\ fromProc[q] # <<>> /\ tasks' = Append(tasks, Head(fromProc[q]))
        /\ fromProc' = [fromProc EXCEPT ![q] = Tail(@)]
        /\ UNCHANGED <<toProc, running, worker, sessions, allocated>>
    BY <1>2 DEF Poll
  <2>2. PICK m \in Task : m = Head(fromProc[q])
    BY <1>b, <2>1
  <2>3. /\ fromProc'[q] = Tail(fromProc[q]) /\ fromProc[q] \in Seq(Task)
        /\ \A p \in Pid : p # q => fromProc'[p] = fromProc[p]
    BY <1>b, <2>1
  <2>4. \A p \in Pid, s \in Sid :
          /\ m = CloseOf(p, s) => SomeIn(fromProc[q], {CloseOf(p, s)})
          /\ SomeIn(fromProc'[q], {CloseOf(p, s)})
               => SomeIn(fromProc[q], {CloseOf(p, s)})
          /\ OnceIn(fromProc[q], {CloseOf(p, s)})
               => OnceIn(fromProc'[q], {CloseOf(p, s)})
          /\ OnceIn(fromProc[q], {CloseOf(p, s)}) /\ m = CloseOf(p, s)
               => ~SomeIn(fromProc'[q], {CloseOf(p, s)})
    BY <2>1, <2>2, <2>3, TailOnce
  <2>5. \A p \in Pid, s \in Sid : m = CloseOf(p, s) => p = q
    <3>1. fromProc[q][1].kind = "close" => fromProc[q][1].pid = q
      BY <1>a, <2>1, <2>3 DEF Wires
    <3>2. m = fromProc[q][1]
      BY <2>1, <2>2, <2>3
    <3> QED
      BY <3>1, <3>2 DEF CloseOf
  <2>6. \A p \in Pid, s \in Sid :
          /\ SomeIn(tasks', {CloseOf(p, s)}) =>
               SomeIn(tasks, {CloseOf(p, s)}) \/ m = CloseOf(p, s)
          /\ m # CloseOf(p, s) \/ ~SomeIn(tasks, {CloseOf(p, s)})
               => OnceIn(tasks', {CloseOf(p, s)})
    <3>1. tasks' = Append(tasks, m)
      BY <2>1, <2>2
    <3> QED
      BY <1>b, <1>d, <3>1, AppendElement
  <2>7. \A p \in Pid, s \in Sid : OnceIn(fromProc'[p], {CloseOf(p, s)})
    BY <1>d, <2>3, <2>4
  <2>8. CASE \E s \in Sid : m = CloseOf(q, s)
    <3>1. PICK s \in Sid : m = CloseOf(q, s)
      BY <2>8
    <3>2. Life("closed", None, q, s)
      BY <2>4, <3>1 DEF Life
    <3>3. SomeIn(sessions'[q], {s}) /\ allocated'[s]
      BY <1>a, <2>1, <3>2 DEF LifeIsListed
    <3>4. \A p \in Pid : \A k, w :
            Life(k, w, p, s) => k = "closed" /\ w = None /\ p = q
      BY <1>a, <3>2, LifeUnique
    <3>5. \A p \in Pid : \A k, w :
            Life(k, w, p, s)' => k = "task" /\ w = None /\ p = q
      <4> SUFFICES ASSUME NEW p \in Pid, NEW k, NEW w, Life(k, w, p, s)',
                          ~(k = "task" /\ w = None /\ p = q)
                   PROVE  FALSE
        OBVIOUS
      <4>1. Life(k, w, p, s)
        <5>1. CASE k = "task"
          <6>1. SomeIn(tasks', {CloseOf(p, s)}) /\ w = None /\ p # q
            BY <5>1 DEF Life
          <6>2. SomeIn(tasks, {CloseOf(p, s)})
            BY <2>5, <2>6, <6>1
          <6> QED
            BY <5>1, <6>1, <6>2 DEF Life
        <5>2. CASE k # "task"
          BY <2>1, <2>3, <2>4, <5>2 DEF Life
        <5> QED
          BY <5>1, <5>2
      <4>2. k = "closed" /\ p = q
        BY <3>4, <4>1
      <4>3. ~SomeIn(fromProc'[q], {CloseOf(q, s)})
        BY <1>d, <2>4, <3>1
      <4> QED
        BY <4>2, <4>3 DEF Life
    <3>6. \A r \in Sid : r # s => \A p \in Pid : m # CloseOf(p, r)
      BY <3>1 DEF CloseOf
    <3>7. \A r \in Sid : r # s => \A p \in Pid : \A k, w :
            Life(k, w, p, r)' => Life(k, w, p, r)
      <4>1. \A r \in Sid : r # s => \A p \in Pid :
              /\ SomeIn(tasks', {CloseOf(p, r)})
                   => SomeIn(tasks, {CloseOf(p, r)})
              /\ SomeIn(fromProc'[p], {CloseOf(p, r)})
                   => SomeIn(fromProc[p], {CloseOf(p, r)})
        BY <2>3, <2>4, <2>6, <3>6
      <4> QED
        BY <2>1, <4>1 DEF Life
    <3>8. OneLife' /\ LifeIsListed'
      <4>1. \A r \in Sid : r # s => \A p \in Pid : \A k, w :
              Life(k, w, p, r)' =>
                Life(k, w, p, r) /\ SomeIn(sessions'[p], {r})
        BY <1>c, <2>1, <3>7
      <4>2. \A r \in Sid : allocated[r] => allocated'[r]
        BY <2>1
      <4>3. \A p1, p2 \in Pid : \A k1, w1, k2, w2 :
              Life(k1, w1, p1, s)' /\ Life(k2, w2, p2, s)' =>
                k1 = k2 /\ w1 = w2 /\ p1 = p2
        BY <3>5
      <4>4. \A p \in Pid : \A k, w :
              Life(k, w, p, s)' => SomeIn(sessions'[p], {s})
        BY <3>3, <3>5
      <4> QED
        BY <1>a, <3>3, <4>1, <4>2, <4>3, <4>4, LifeMoves
    <3>9. \A p \in Pid : ~SomeIn(tasks, {CloseOf(p, s)})
      BY <3>4 DEF Life
    <3>10. \A p \in Pid, r \in Sid : OnceIn(tasks', {CloseOf(p, r)})
      BY <2>6, <3>6, <3>9
    <3> QED
      BY <1>a, <2>1, <2>7, <3>8, <3>10 DEF NoneTwice
  <2>9. CASE \A s \in Sid : m # CloseOf(q, s)
    <3>1. \A p \in Pid, s \in Sid : m # CloseOf(p, s)
      BY <2>5, <2>9
    <3>2. \A s \in Sid : \A p \in Pid : \A k, w :
            Life(k, w, p, s)' => Life(k, w, p, s)
      BY <2>1, <2>3, <2>4, <2>6, <3>1 DEF Life
    <3>3. OneLife' /\ LifeIsListed'
      BY <1>a, <1>c, <2>1, <3>2, LifeFrame
    <3> QED
      BY <1>a, <2>1, <2>6, <2>7, <3>1, <3>3 DEF NoneTwice
  <2> QED
    BY <2>8, <2>9
<1> QED
  BY <1>1, <1>2 DEF MainStep

(* The steps of a pool thread: a closure is served by the thread that took *)
(* its task, until the session has left the vector; process_process asks   *)
(* only for sessions that were not asked for, and so have no life.         *)
LEMMA LifeWorker ==
  ASSUME TypeOK, Custody, NEW w \in Worker, WorkerStep(w)
  PROVE  OneLife' /\ LifeIsListed' /\ NoneTwice'
PROOF
<1> USE DEF redisVars, processVars, sessionVars, poolVars, queueVars,
            wireVars, envVars, historyVars
<1>a. OneLife /\ LifeIsListed /\ NoneTwice /\ Wires
  BY DEF Custody
<1>b. /\ tasks \in Seq(Task) /\ sessions \in [Pid -> Seq(Sid)]
      /\ worker \in [Worker -> WorkerState] /\ swap_in \in [Sid -> BOOLEAN]
  BY DEF TypeOK
<1>c. \A s \in Sid : \A p \in Pid : \A k, v :
        Life(k, v, p, s) => SomeIn(sessions[p], {s})
  BY <1>a DEF LifeIsListed
<1>d. \A v \in Worker : v # w => worker'[v] = worker[v]
  BY WorkerMoves
<1>1. ASSUME UNCHANGED <<toProc, fromProc, running, tasks, sessions,
                         allocated>>,
             worker'[w].pc \in {"run", "erase"} =>
               /\ worker[w].pc \in {"run", "erase"}
               /\ worker'[w].task = worker[w].task
      PROVE  OneLife' /\ LifeIsListed' /\ NoneTwice'
  <2>1. \A s \in Sid : \A p \in Pid : \A k, v :
          Life(k, v, p, s)' => Life(k, v, p, s)
    BY <1>1, <1>d DEF Life
  <2>2. OneLife' /\ LifeIsListed'
    BY <1>1, <1>a, <1>c, <2>1, LifeFrame
  <2> QED
    BY <1>1, <1>a, <2>2 DEF NoneTwice
<1>2. CASE TakeTask(w)
  <2>1. /\ tasks # <<>> /\ tasks' = Tail(tasks)
        /\ UNCHANGED <<toProc, fromProc, running, sessions, allocated>>
    BY <1>2 DEF TakeTask
  <2>2. /\ worker[w].pc = "idle" /\ worker'[w].pc = "run"
        /\ worker'[w].task = Head(tasks)
    BY <1>2, WorkerMoves
  <2>3. PICK m \in Task : m = Head(tasks)
    BY <1>b, <2>1
  <2>4. \A p \in Pid, s \in Sid :
          /\ m = CloseOf(p, s) => SomeIn(tasks, {CloseOf(p, s)})
          /\ SomeIn(tasks', {CloseOf(p, s)}) => SomeIn(tasks, {CloseOf(p, s)})
          /\ OnceIn(tasks', {CloseOf(p, s)})
          /\ m = CloseOf(p, s) => ~SomeIn(tasks', {CloseOf(p, s)})
    <3>1. \A p \in Pid, s \in Sid : OnceIn(tasks, {CloseOf(p, s)})
      BY <1>a DEF NoneTwice
    <3> QED
      BY <1>b, <2>1, <2>3, <3>1, TailOnce
  <2>5. ASSUME NEW p \in Pid, NEW s \in Sid, NEW k, NEW v,
               Life(k, v, p, s)', ~(k = "worker" /\ v = w)
        PROVE  Life(k, v, p, s)
    <3>1. v # w
      BY <2>5, NoneAssumption DEF Life
    <3> QED
      BY <1>d, <2>1, <2>4, <2>5, <3>1 DEF Life
  <2>6. ASSUME NEW p \in Pid, NEW s \in Sid, NEW k, NEW v,
               Life(k, v, p, s)', k = "worker", v = w
        PROVE  m = CloseOf(p, s)
    BY <2>2, <2>3, <2>6 DEF Life
  <2>7. CASE \E q \in Pid, s \in Sid : m = CloseOf(q, s)
    <3>1. PICK q \in Pid, s \in Sid : m = CloseOf(q, s)
      BY <2>7
    <3>2. Life("task", None, q, s)
      BY <2>4, <3>1 DEF Life
    <3>3. SomeIn(sessions'[q], {s}) /\ allocated'[s]
      BY <1>a, <2>1, <3>2 DEF LifeIsListed
    <3>4. \A p \in Pid : \A k, v :
            Life(k, v, p, s) => k = "task" /\ v = None /\ p = q
      BY <1>a, <3>2, LifeUnique
    <3>5. ASSUME NEW p \in Pid, NEW k, NEW v, Life(k, v, p, s)'
          PROVE  k = "worker" /\ v = w /\ p = q
      <4>1. CASE k = "worker" /\ v = w
        <5>1. CloseOf(p, s) = CloseOf(q, s)
          BY <2>6, <3>1, <3>5, <4>1
        <5> QED
          BY <4>1, <5>1 DEF CloseOf
      <4>2. CASE ~(k = "worker" /\ v = w)
        <5>1. Life(k, v, p, s)
          BY <2>5, <3>5, <4>2
        <5>2. k = "task" /\ p = q
          BY <3>4, <5>1
        <5>3. ~SomeIn(tasks', {CloseOf(q, s)})
          BY <2>4, <3>1
        <5> QED
          BY <3>5, <5>2, <5>3 DEF Life
      <4> QED
        BY <4>1, <4>2
    <3>6. \A r \in Sid : r # s => \A p \in Pid : m # CloseOf(p, r)
      BY <3>1 DEF CloseOf
    <3>7. \A r \in Sid : r # s => \A p \in Pid : \A k, v :
            Life(k, v, p, r)' =>
              Life(k, v, p, r) /\ SomeIn(sessions'[p], {r})
      BY <1>c, <2>1, <2>5, <2>6, <3>6
    <3>8. \A p1, p2 \in Pid : \A k1, w1, k2, w2 :
            Life(k1, w1, p1, s)' /\ Life(k2, w2, p2, s)' =>
              k1 = k2 /\ w1 = w2 /\ p1 = p2
      BY <3>5
    <3>9. \A p \in Pid : \A k, v :
            Life(k, v, p, s)' => SomeIn(sessions'[p], {s})
      BY <3>3, <3>5
    <3>10. OneLife' /\ LifeIsListed'
      BY <1>a, <2>1, <3>3, <3>7, <3>8, <3>9, LifeMoves
    <3> QED
      BY <1>a, <2>1, <2>4, <3>10 DEF NoneTwice
  <2>8. CASE \A p \in Pid, s \in Sid : m # CloseOf(p, s)
    <3>1. \A s \in Sid : \A p \in Pid : \A k, v :
            Life(k, v, p, s)' => Life(k, v, p, s)
      BY <2>5, <2>6, <2>8
    <3>2. OneLife' /\ LifeIsListed'
      BY <1>a, <1>c, <2>1, <3>1, LifeFrame
    <3> QED
      BY <1>a, <2>1, <2>4, <3>2 DEF NoneTwice
  <2> QED
    BY <2>7, <2>8
<1>3. CASE \/ StoreConnection(w) \/ LockSessions(w) \/ AddEpoll(w)
           \/ process_session(w) \/ RemoveAlive(w) \/ LogStatus(w)
           \/ AddSwapped(w)
  <2>1. worker'[w].pc \notin {"run", "erase"}
    BY <1>3, WorkerMoves
  <2>2. UNCHANGED <<toProc, fromProc, running, tasks, sessions, allocated>>
    BY <1>3 DEF StoreConnection, LockSessions, AddEpoll, process_session,
      RemoveAlive, LogStatus, AddSwapped
  <2> QED
    BY <1>1, <2>1, <2>2
<1>4. CASE SendPending(w)
  <2>1. worker[w].task.pid \in Pid
    BY <1>4, <1>b, WorkerLocals DEF SendPending, ProcessTask
  <2>2. PICK p \in Pid : p = worker[w].task.pid
    BY <2>1
  <2>3. PICK i \in 1 .. Len(sessions[p]) :
          LET s == sessions[p][i] IN
          /\ FirstPending(p, i)
          /\ WriteRequest(p, s, swap_in[s], lives[s])
          /\ allocated' = [allocated EXCEPT ![s] = TRUE]
    BY <1>4, <2>2 DEF SendPending
  <2>4. sessions[p][i] \in Sid
    BY <1>b
  <2>5. PICK s \in Sid : s = sessions[p][i]
    BY <2>4
  <2>6. /\ ~allocated[s] /\ WriteRequest(p, s, swap_in[s], lives[s])
        /\ allocated' = [allocated EXCEPT ![s] = TRUE]
        /\ swap_in[s] \in BOOLEAN
    BY <1>b, <2>3, <2>5 DEF FirstPending
  <2>7. \A q \in Pid : \A k, v : ~Life(k, v, q, s)
    BY <1>a, <2>6 DEF LifeIsListed
  <2>8. UNCHANGED <<running, fromProc, tasks, worker, sessions>>
    BY <1>4 DEF SendPending
  <2>9. SomeIn(sessions[p], {s})
    BY <1>b, <2>5 DEF SomeIn
  <2>10. /\ OneLife' /\ LifeIsListed'
         /\ \A r \in Sid : \A q \in Pid : OnceIn(toProc'[q], Requests(r))
    BY <1>a, <2>6, <2>7, <2>8, <2>9, LifeBegins
  <2> QED
    BY <1>a, <2>8, <2>10 DEF NoneTwice
<1>5. ASSUME NEW p \in Pid, NEW s \in Sid, worker[w].task = CloseOf(p, s),
             worker[w].pc \in {"run", "erase"}, worker'[w].pc = "swap",
             UNCHANGED <<toProc, fromProc, running, tasks, allocated>>,
             sessions' = [sessions EXCEPT ![p] = RemoveFirst(@, s)]
      PROVE  OneLife' /\ LifeIsListed' /\ NoneTwice'
  <2>1. Life("worker", w, p, s)
    BY <1>5 DEF Life
  <2>2. \A r \in Sid : \A q \in Pid : \A k, v :
          Life(k, v, q, r)' => Life(k, v, q, r) /\ ~(k = "worker" /\ v = w)
    BY <1>5, <1>d DEF Life
  <2>3. \A q \in Pid : \A k, v : ~Life(k, v, q, s)'
    <3> SUFFICES ASSUME NEW q \in Pid, NEW k, NEW v, Life(k, v, q, s)'
                 PROVE  FALSE
      OBVIOUS
    <3>1. Life(k, v, q, s) /\ ~(k = "worker" /\ v = w)
      BY <2>2
    <3>2. k = "worker" /\ v = w
      BY <1>a, <2>1, <3>1, LifeUnique
    <3> QED
      BY <3>1, <3>2
  <2>4. /\ sessions'[p] = RemoveFirst(sessions[p], s)
        /\ \A q \in Pid : q # p => sessions'[q] = sessions[q]
        /\ sessions[p] \in Seq(Sid)
    BY <1>b, <1>5
  <2>5. \A r \in Sid :
          /\ OnceIn(sessions'[p], {r})
          /\ r # s /\ SomeIn(sessions[p], {r}) => SomeIn(sessions'[p], {r})
    <3>1. \A r \in Sid : OnceIn(sessions[p], {r})
      BY <1>a DEF NoneTwice
    <3>2. ASSUME NEW r \in Sid
          PROVE  /\ OnceIn(sessions[p], {r})
                      => OnceIn(RemoveFirst(sessions[p], s), {r})
                 /\ r # s /\ SomeIn(sessions[p], {r})
                      => SomeIn(RemoveFirst(sessions[p], s), {r})
      BY <2>4, RemoveFirstOnce, Zenon
    <3> QED
      BY <2>4, <3>1, <3>2
  <2>6. \A r \in Sid : \A q \in Pid : \A k, v :
          Life(k, v, q, r)' => Life(k, v, q, r) /\ SomeIn(sessions'[q], {r})
    BY <1>c, <2>2, <2>3, <2>4, <2>5
  <2>7. OneLife' /\ LifeIsListed'
    BY <1>a, <1>5, <2>6, LifeFrame
  <2> QED
    BY <1>a, <1>5, <2>4, <2>5, <2>7 DEF NoneTwice
<1>6. CASE remove_session(w)
  <2>1. /\ worker[w].pc = "run" /\ worker[w].task.kind = "close"
        /\ worker'[w].task = worker[w].task
    BY <1>6, WorkerMoves
  <2>2. worker[w].task \in StatusTask
    BY <1>b, <2>1, WorkerLocals, TaskFields
  <2>3. PICK p \in Pid, s \in Sid :
          p = worker[w].task.pid /\ s = worker[w].task.sid
    BY <2>2 DEF StatusTask
  <2>4. worker[w].task = CloseOf(p, s)
    BY <2>1, <2>2, <2>3 DEF CloseOf, StatusTask
  <2>5. CASE Contains(sessions[p], s)
    <3>1. UNCHANGED <<toProc, fromProc, running, tasks, sessions, allocated>>
      BY <1>6, <2>3, <2>5 DEF remove_session
    <3> QED
      BY <1>1, <2>1, <3>1
  <2>6. CASE ~Contains(sessions[p], s)
    <3>1. worker'[w].pc = "swap"
      BY <1>6, <2>3, <2>6, WorkerMoves
    <3>2. UNCHANGED <<toProc, fromProc, running, tasks, allocated,
                      sessions>>
      BY <1>6, <2>3, <2>6 DEF remove_session
    <3>3. sessions' = [sessions EXCEPT ![p] = RemoveFirst(@, s)]
      BY <2>3, <2>6, <3>2, RemoveFirstAbsent DEF TypeOK
    <3> QED
      BY <1>5, <2>1, <2>4, <3>1, <3>2, <3>3
  <2> QED
    BY <2>5, <2>6
<1>7. CASE EraseSession(w)
  <2>1. worker[w].pc = "erase" /\ worker'[w].pc = "swap"
    BY <1>7, WorkerMoves
  <2>2. worker[w].task \in StatusTask /\ worker[w].task.kind = "close"
    BY <1>a, <1>b, <2>1, WorkerLocals DEF Wires
  <2>3. PICK p \in Pid, s \in Sid :
          p = worker[w].task.pid /\ s = worker[w].task.sid
    BY <2>2 DEF StatusTask
  <2>4. worker[w].task = CloseOf(p, s)
    BY <2>2, <2>3 DEF CloseOf, StatusTask
  <2>5. /\ UNCHANGED <<toProc, fromProc, running, tasks, allocated>>
        /\ sessions' = [sessions EXCEPT ![p] = RemoveFirst(@, s)]
    BY <1>7, <2>3 DEF EraseSession
  <2> QED
    BY <1>5, <2>1, <2>4, <2>5
<1> QED
  BY <1>2, <1>3, <1>4, <1>6, <1>7 DEF WorkerStep

(* What a message of process p adds to the closures on its connection.     *)
LEMMA SayAdds ==
  ASSUME TypeOK, NEW p \in Pid, NEW kind, NEW x,
         [kind |-> kind, pid |-> p, sid |-> x] \in Task, Say(p, kind, x)
  PROVE  \A q \in Pid, r \in Sid :
           /\ SomeIn(fromProc'[q], {CloseOf(q, r)}) <=>
                \/ SomeIn(fromProc[q], {CloseOf(q, r)})
                \/ q = p /\ kind = "close" /\ x = r
           /\ OnceIn(fromProc[q], {CloseOf(q, r)})
                /\ (q = p /\ kind = "close" /\ x = r =>
                      ~SomeIn(fromProc[q], {CloseOf(q, r)}))
                => OnceIn(fromProc'[q], {CloseOf(q, r)})
PROOF
<1>1. PICK m \in Task : m = [kind |-> kind, pid |-> p, sid |-> x]
  OBVIOUS
<1>2. /\ fromProc[p] \in Seq(Task) /\ fromProc'[p] = Append(fromProc[p], m)
      /\ \A q \in Pid : q # p => fromProc'[q] = fromProc[q]
  BY <1>1 DEF TypeOK, Say
<1>3. \A r \in Sid : m = CloseOf(p, r) <=> kind = "close" /\ x = r
  BY <1>1 DEF CloseOf
<1>4. \A r \in Sid :
        /\ SomeIn(fromProc'[p], {CloseOf(p, r)}) <=>
             SomeIn(fromProc[p], {CloseOf(p, r)}) \/ m = CloseOf(p, r)
        /\ OnceIn(fromProc[p], {CloseOf(p, r)})
             /\ (m = CloseOf(p, r) => ~SomeIn(fromProc[p], {CloseOf(p, r)}))
             => OnceIn(fromProc'[p], {CloseOf(p, r)})
  BY <1>2, AppendElement
<1> QED
  BY <1>2, <1>3, <1>4

(* The steps of a subprocess: the life of a session goes from the request  *)
(* to the session, and from there to the message that reports its end.     *)
LEMMA LifeSubprocess ==
  ASSUME TypeOK, Custody, NEW p \in Pid, Subprocess(p)
  PROVE  OneLife' /\ LifeIsListed' /\ NoneTwice'
PROOF
<1> USE DEF redisVars, processVars, sessionVars, poolVars, queueVars,
            wireVars, envVars, historyVars
<1>a. OneLife /\ LifeIsListed /\ NoneTwice
  BY DEF Custody
<1>b. /\ toProc \in [Pid -> Seq(Request)] /\ fromProc \in [Pid -> Seq(Task)]
      /\ running \in [Pid -> SUBSET Sid]
  BY DEF TypeOK
<1>c. \A s \in Sid : \A q \in Pid : \A k, w :
        Life(k, w, q, s) => SomeIn(sessions[q], {s})
  BY <1>a DEF LifeIsListed
<1>d. \A s \in Sid, q \in Pid :
        /\ OnceIn(toProc[q], Requests(s))
        /\ OnceIn(fromProc[q], {CloseOf(q, s)})
  BY <1>a DEF NoneTwice
<1>1. CASE ProcConnect(p) \/ \E s \in Sid : SessionConnect(p, s)
  <2>1. UNCHANGED <<toProc, fromProc, running, tasks, worker, sessions,
                    allocated>>
    BY <1>1 DEF ProcConnect, SessionConnect
  <2>2. \A s \in Sid : \A q \in Pid : \A k, w :
          Life(k, w, q, s)' => Life(k, w, q, s)
    BY <2>1 DEF Life
  <2>3. OneLife' /\ LifeIsListed'
    BY <1>a, <1>c, <2>1, <2>2, LifeFrame
  <2> QED
    BY <1>a, <2>1, <2>3 DEF NoneTwice
<1>2. CASE ProcessExit(p)
  <2>1. /\ Say(p, "eof", None)
        /\ UNCHANGED <<toProc, running, tasks, worker, sessions, allocated>>
    BY <1>2 DEF ProcessExit
  <2>2. [kind |-> "eof", pid |-> p, sid |-> None] \in Task
    BY DEF Task, ProcessTask
  <2>3. \A q \in Pid, r \in Sid :
          /\ SomeIn(fromProc'[q], {CloseOf(q, r)})
               => SomeIn(fromProc[q], {CloseOf(q, r)})
          /\ OnceIn(fromProc'[q], {CloseOf(q, r)})
    BY <1>d, <2>1, <2>2, SayAdds
  <2>4. \A s \in Sid : \A q \in Pid : \A k, w :
          Life(k, w, q, s)' => Life(k, w, q, s)
    BY <2>1, <2>3 DEF Life
  <2>5. OneLife' /\ LifeIsListed'
    BY <1>a, <1>c, <2>1, <2>4, LifeFrame
  <2> QED
    BY <1>a, <2>1, <2>3, <2>5 DEF NoneTwice
<1>3. CASE ProcAllocate(p) \/ ProcRefuse(p)
  <2>1. /\ toProc[p] # <<>> /\ toProc[p] \in Seq(Request)
        /\ Say(p, "status", Head(toProc[p]).sid)
        /\ toProc' = [toProc EXCEPT ![p] = Tail(@)]
        /\ \/ running' = [running EXCEPT ![p] = @ \cup {Head(toProc[p]).sid}]
           \/ running' = running
        /\ UNCHANGED <<tasks, worker, sessions, allocated>>
    BY <1>3, <1>b DEF ProcAllocate, ProcRefuse
  <2>2. PICK m \in Request : m = Head(toProc[p])
    BY <2>1
  <2>3. PICK s \in Sid : s = m.sid
    BY DEF Request
  <2>4. [kind |-> "status", pid |-> p, sid |-> s] \in Task
    BY DEF Task, StatusTask
  <2>5. \A q \in Pid, r \in Sid :
          /\ SomeIn(fromProc'[q], {CloseOf(q, r)})
               => SomeIn(fromProc[q], {CloseOf(q, r)})
          /\ OnceIn(fromProc'[q], {CloseOf(q, r)})
    <3>1. Say(p, "status", s)
      BY <2>1, <2>2, <2>3
    <3> QED
      BY <1>d, <2>4, <3>1, SayAdds
  <2>6. \A r \in Sid : m \in Requests(r) <=> r = s
    BY <2>3 DEF Requests, Request
  <2>7. /\ toProc'[p] = Tail(toProc[p])
        /\ \A q \in Pid : q # p => toProc'[q] = toProc[q]
    BY <1>b, <2>1
  <2>8. \A r \in Sid :
          /\ r = s => SomeIn(toProc[p], Requests(r))
          /\ SomeIn(toProc'[p], Requests(r)) => SomeIn(toProc[p], Requests(r))
          /\ OnceIn(toProc'[p], Requests(r))
          /\ r = s => ~SomeIn(toProc'[p], Requests(r))
    <3> SUFFICES ASSUME NEW r \in Sid
                 PROVE  /\ r = s => SomeIn(toProc[p], Requests(r))
                        /\ SomeIn(Tail(toProc[p]), Requests(r))
                             => SomeIn(toProc[p], Requests(r))
                        /\ OnceIn(Tail(toProc[p]), Requests(r))
                        /\ r = s => ~SomeIn(Tail(toProc[p]), Requests(r))
      BY <2>7
    <3>1. /\ OnceIn(toProc[p], Requests(r))
          /\ Head(toProc[p]) \in Requests(r) <=> r = s
      BY <1>d, <2>2, <2>6
    <3> QED
      BY <2>1, <3>1, TailOnce, Zenon
  <2>9. \A r \in Sid, q \in Pid :
          r \in running'[q] => r \in running[q] \/ (r = s /\ q = p)
    BY <1>b, <2>1, <2>2, <2>3
  <2>10. Life("request", None, p, s)
    BY <2>8 DEF Life
  <2>11. SomeIn(sessions'[p], {s}) /\ allocated'[s]
    BY <1>a, <2>1, <2>10 DEF LifeIsListed
  <2>12. ASSUME NEW q \in Pid, NEW k, NEW w, Life(k, w, q, s)'
         PROVE  k = "running" /\ w = None /\ q = p
    <3>1. \A u \in Pid : \A l, v :
            Life(l, v, u, s) => l = "request" /\ v = None /\ u = p
      BY <1>a, <2>10, LifeUnique
    <3> SUFFICES ASSUME ~(k = "running" /\ w = None /\ q = p) PROVE FALSE
      OBVIOUS
    <3>2. Life(k, w, q, s)
      BY <2>1, <2>5, <2>7, <2>8, <2>9, <2>12 DEF Life
    <3>3. k = "request" /\ q = p
      BY <3>1, <3>2
    <3> QED
      BY <2>8, <2>12, <3>3 DEF Life
  <2>13. \A r \in Sid : r # s => \A q \in Pid : \A k, w :
          Life(k, w, q, r)' => Life(k, w, q, r) /\ SomeIn(sessions'[q], {r})
    <3>1. \A r \in Sid : r # s => \A q \in Pid : \A k, w :
            Life(k, w, q, r)' => Life(k, w, q, r)
      <4>1. \A r \in Sid, q \in Pid :
              SomeIn(toProc'[q], Requests(r)) => SomeIn(toProc[q], Requests(r))
        BY <2>7, <2>8
      <4>2. \A r \in Sid : r # s => \A q \in Pid :
              r \in running'[q] => r \in running[q]
        BY <2>9
      <4>3. UNCHANGED <<tasks, worker>>
        BY <2>1
      <4> SUFFICES ASSUME NEW r \in Sid, r # s, NEW q \in Pid, NEW k, NEW w,
                          Life(k, w, q, r)'
                   PROVE  Life(k, w, q, r)
        OBVIOUS
      <4> QED
        BY <2>5, <4>1, <4>2, <4>3 DEF Life
    <3> QED
      BY <1>c, <2>1, <3>1
  <2>14. \A p1, p2 \in Pid : \A k1, w1, k2, w2 :
           Life(k1, w1, p1, s)' /\ Life(k2, w2, p2, s)' =>
             k1 = k2 /\ w1 = w2 /\ p1 = p2
    BY <2>12
  <2>15. \A q \in Pid : \A k, w :
           Life(k, w, q, s)' => SomeIn(sessions'[q], {s})
    BY <2>11, <2>12
  <2>16. OneLife' /\ LifeIsListed'
    BY <1>a, <2>1, <2>11, <2>13, <2>14, <2>15, LifeMoves
  <2> QED
    BY <1>a, <1>d, <2>1, <2>5, <2>7, <2>8, <2>16 DEF NoneTwice
<1>4. ASSUME NEW s \in Sid, SessionEnd(p, s)
      PROVE  OneLife' /\ LifeIsListed' /\ NoneTwice'
  <2>1. /\ s \in running[p] /\ running' = [running EXCEPT ![p] = @ \ {s}]
        /\ Say(p, "close", s)
        /\ UNCHANGED <<toProc, tasks, worker, sessions, allocated>>
    BY <1>4 DEF SessionEnd
  <2>2. [kind |-> "close", pid |-> p, sid |-> s] \in Task
    BY DEF Task, StatusTask
  <2>3. Life("running", None, p, s)
    BY <2>1 DEF Life
  <2>4. \A q \in Pid : \A k, w :
          Life(k, w, q, s) => k = "running" /\ w = None /\ q = p
    BY <1>a, <2>3, LifeUnique
  <2>5. \A q \in Pid : ~SomeIn(fromProc[q], {CloseOf(q, s)})
    <3> SUFFICES ASSUME NEW q \in Pid, SomeIn(fromProc[q], {CloseOf(q, s)})
                 PROVE  FALSE
      OBVIOUS
    <3>1. Life("closed", None, q, s)
      BY DEF Life
    <3>2. "closed" = "running"
      BY <2>4, <3>1
    <3> QED
      BY <3>2
  <2>6. \A q \in Pid, r \in Sid :
          /\ SomeIn(fromProc'[q], {CloseOf(q, r)}) =>
               SomeIn(fromProc[q], {CloseOf(q, r)}) \/ (q = p /\ r = s)
          /\ OnceIn(fromProc'[q], {CloseOf(q, r)})
    BY <1>d, <2>1, <2>2, <2>5, SayAdds
  <2>7. \A r \in Sid, q \in Pid :
          r \in running'[q] => r \in running[q] /\ ~(r = s /\ q = p)
    BY <1>b, <2>1
  <2>8. SomeIn(sessions'[p], {s}) /\ allocated'[s]
    BY <1>a, <2>1, <2>3 DEF LifeIsListed
  <2>9. ASSUME NEW q \in Pid, NEW k, NEW w, Life(k, w, q, s)'
        PROVE  k = "closed" /\ w = None /\ q = p
    <3> SUFFICES ASSUME ~(k = "closed" /\ w = None /\ q = p) PROVE FALSE
      OBVIOUS
    <3>1. Life(k, w, q, s)
      BY <2>1, <2>6, <2>7, <2>9 DEF Life
    <3>2. k = "running" /\ q = p
      BY <2>4, <3>1
    <3> QED
      BY <2>7, <2>9, <3>2 DEF Life
  <2>10. \A r \in Sid : r # s => \A q \in Pid : \A k, w :
          Life(k, w, q, r)' => Life(k, w, q, r) /\ SomeIn(sessions'[q], {r})
    <3>1. \A r \in Sid : r # s => \A q \in Pid : \A k, w :
            Life(k, w, q, r)' => Life(k, w, q, r)
      BY <2>1, <2>6, <2>7 DEF Life
    <3> QED
      BY <1>c, <2>1, <3>1
  <2>11. \A p1, p2 \in Pid : \A k1, w1, k2, w2 :
           Life(k1, w1, p1, s)' /\ Life(k2, w2, p2, s)' =>
             k1 = k2 /\ w1 = w2 /\ p1 = p2
    BY <2>9
  <2>12. \A q \in Pid : \A k, w :
           Life(k, w, q, s)' => SomeIn(sessions'[q], {s})
    BY <2>8, <2>9
  <2>13. OneLife' /\ LifeIsListed'
    BY <1>a, <2>1, <2>8, <2>10, <2>11, <2>12, LifeMoves
  <2> QED
    BY <1>a, <2>1, <2>6, <2>13 DEF NoneTwice
<1> QED
  BY <1>1, <1>2, <1>3, <1>4 DEF Subprocess

-----------------------------------------------------------------------------
(* The rest of the invariant.                                              *)

(* Only processes report closures, each its own, and the handler of a      *)
(* closure handles nothing else.                                           *)
LEMMA WiresStep ==
  ASSUME TypeOK, Wires, [Next]_vars
  PROVE  Wires'
PROOF
<1> USE DEF redisVars, processVars, sessionVars, poolVars, queueVars,
            wireVars, envVars, historyVars
<1> DEFINE W1 == \A p \in Pid : \A i \in DOMAIN fromProc[p] :
                   fromProc[p][i].kind = "close" => fromProc[p][i].pid = p
           W2 == \A i \in DOMAIN backlog : backlog[i].kind # "close"
           W3 == \A w \in Worker :
                   worker[w].pc \in {"erase", "swap", "unalive"} =>
                     worker[w].task.kind = "close"
<1>a. W1 /\ W2 /\ W3
  BY DEF Wires
<1>b. /\ fromProc \in [Pid -> Seq(Task)] /\ backlog \in Seq(Task)
      /\ worker \in [Worker -> WorkerState]
  BY DEF TypeOK
<1>c. ASSUME UNCHANGED <<fromProc, backlog, worker>> PROVE Wires'
  BY <1>a, <1>c DEF Wires
<1>d. ASSUME NEW p \in Pid, NEW k, NEW s, Say(p, k, s)
      PROVE  W1'
  <2> DEFINE m == [kind |-> k, pid |-> p, sid |-> s]
  <2>1. \A q \in Pid : fromProc'[q] = IF q = p THEN Append(fromProc[q], m)
                                      ELSE fromProc[q]
    BY <1>b, <1>d DEF Say
  <2> SUFFICES ASSUME NEW q \in Pid, NEW i \in DOMAIN fromProc'[q],
                      fromProc'[q][i].kind = "close"
               PROVE  fromProc'[q][i].pid = q
    OBVIOUS
  <2>2. fromProc[q] \in Seq(Task)
    BY <1>b
  <2>3. CASE q # p
    BY <1>a, <2>1, <2>3
  <2>4. CASE q = p
    <3>1. fromProc'[q] = Append(fromProc[q], m)
      BY <2>1, <2>4
    <3>2. CASE i \in DOMAIN fromProc[q]
      BY <1>a, <2>2, <3>1, <3>2
    <3>3. CASE i \notin DOMAIN fromProc[q]
      <4>1. fromProc'[q][i] = m
        BY <2>2, <3>1, <3>3
      <4> QED
        BY <2>4, <4>1
    <3> QED
      BY <3>2, <3>3
  <2> QED
    BY <2>3, <2>4
<1>1. CASE UNCHANGED vars
  BY <1>1, <1>c DEF vars
<1>2. CASE Client
  BY <1>2, <1>c DEF Client, process_allocation, NewSession, CheckAlive
<1>3. CASE HttpStep
  BY <1>3, <1>c DEF HttpStep, TakeSwapped, UnknownSession, GetFreeProcess,
    AddToNew, StoreCount, NoFreeProcess, AddToExisting, MarkAlive
<1>4. CASE Accept
  <2>1. /\ backlog # <<>> /\ backlog' = Tail(backlog)
        /\ UNCHANGED <<fromProc, worker>>
    BY <1>4 DEF Accept
  <2>2. W2'
    BY <1>a, <1>b, <2>1
  <2> QED
    BY <1>a, <2>1, <2>2 DEF Wires
<1>5. ASSUME NEW p \in Pid, Poll(p) PROVE Wires'
  <2>1. /\ fromProc[p] # <<>> /\ fromProc' = [fromProc EXCEPT ![p] = Tail(@)]
        /\ UNCHANGED <<backlog, worker>>
    BY <1>5 DEF Poll
  <2>2. /\ fromProc[p] \in Seq(Task) /\ fromProc'[p] = Tail(fromProc[p])
        /\ \A q \in Pid : q # p => fromProc'[q] = fromProc[q]
    BY <1>b, <2>1
  <2>3. \A i \in DOMAIN fromProc'[p] :
          /\ i + 1 \in DOMAIN fromProc[p]
          /\ fromProc'[p][i] = fromProc[p][i + 1]
    <3>1. ASSUME NEW q \in Seq(Task), q # <<>>, NEW i \in DOMAIN Tail(q)
          PROVE  i + 1 \in DOMAIN q /\ Tail(q)[i] = q[i + 1]
      BY <3>1
    <3> SUFFICES ASSUME NEW i \in DOMAIN Tail(fromProc[p])
                 PROVE  /\ i + 1 \in DOMAIN fromProc[p]
                        /\ Tail(fromProc[p])[i] = fromProc[p][i + 1]
      BY <2>2
    <3> QED
      BY <2>1, <2>2, <3>1, Zenon
  <2>4. W1'
    <3> SUFFICES ASSUME NEW q \in Pid, NEW i \in DOMAIN fromProc'[q],
                        fromProc'[q][i].kind = "close"
                 PROVE  fromProc'[q][i].pid = q
      OBVIOUS
    <3>1. CASE q = p
      <4>1. /\ i + 1 \in DOMAIN fromProc[p]
            /\ fromProc'[p][i] = fromProc[p][i + 1]
        BY <2>3, <3>1
      <4> QED
        BY <1>a, <3>1, <4>1
    <3>2. CASE q # p
      BY <1>a, <2>2, <3>2
    <3> QED
      BY <3>1, <3>2
  <2> QED
    BY <1>a, <2>1, <2>4 DEF Wires
<1>6. ASSUME NEW w \in Worker, WorkerStep(w) PROVE Wires'
  <2>1. UNCHANGED <<fromProc, backlog>>
    BY <1>6 DEF WorkerStep, TakeTask, StoreConnection, LockSessions,
      SendPending, AddEpoll, process_session, remove_session, EraseSession,
      AddSwapped, RemoveAlive, LogStatus
  <2>2. \A v \in Worker : v # w => worker'[v] = worker[v]
    BY <1>6, WorkerMoves
  <2>3. worker'[w].pc \in {"erase", "swap", "unalive"} =>
          worker'[w].task.kind = "close"
    <3>1. CASE TakeTask(w) \/ StoreConnection(w) \/ LockSessions(w)
               \/ AddEpoll(w) \/ process_session(w) \/ RemoveAlive(w)
               \/ LogStatus(w)
      BY <1>6, <3>1, WorkerMoves
    <3>2. CASE SendPending(w)
      BY <1>6, <1>a, <3>2, WorkerMoves
    <3>3. CASE remove_session(w)
      BY <1>6, <3>3, WorkerMoves
    <3>4. CASE EraseSession(w) \/ AddSwapped(w)
      BY <1>6, <1>a, <3>4, WorkerMoves
    <3> QED
      BY <1>6, <3>1, <3>2, <3>3, <3>4 DEF WorkerStep
  <2>4. W3'
    BY <1>a, <2>2, <2>3
  <2> QED
    BY <1>a, <2>1, <2>4 DEF Wires
<1>7. ASSUME NEW p \in Pid, Subprocess(p) PROVE Wires'
  <2>1. CASE ProcConnect(p) \/ \E s \in Sid : SessionConnect(p, s)
    <3>1. PICK m \in [kind : {"process", "session"}, pid : Pid \cup {None},
                      sid : Sid \cup {None}] :
            backlog' = Append(backlog, m)
      BY <2>1 DEF ProcConnect, SessionConnect
    <3>2. UNCHANGED <<fromProc, worker>>
      BY <2>1 DEF ProcConnect, SessionConnect
    <3>3. W2'
      BY <1>a, <1>b, <3>1
    <3> QED
      BY <1>a, <3>2, <3>3 DEF Wires
  <2>2. CASE \/ ProcAllocate(p) \/ ProcRefuse(p) \/ ProcessExit(p)
             \/ \E s \in Sid : SessionEnd(p, s)
    <3>1. /\ \E k, s : Say(p, k, s)
          /\ UNCHANGED <<backlog, worker>>
      BY <2>2 DEF ProcAllocate, ProcRefuse, ProcessExit, SessionEnd
    <3>2. W1'
      BY <1>d, <3>1
    <3> QED
      BY <1>a, <3>1, <3>2 DEF Wires
  <2> QED
    BY <1>7, <2>1, <2>2 DEF Subprocess
<1>8. CASE \E w \in Worker : handle_process_closure(w)
  BY <1>8, <1>c DEF handle_process_closure
<1> QED
  BY <1>1, <1>2, <1>3, <1>4, <1>5, <1>6, <1>7, <1>8 DEF Next, Serve, MainStep

(* A process that add_process has not created yet has no sessions.         *)
LEMMA UnusedStep ==
  ASSUME TypeOK, UnusedIsEmpty, [Next]_vars
  PROVE  UnusedIsEmpty'
PROOF
<1> USE DEF redisVars, processVars, sessionVars, poolVars, queueVars,
            wireVars, envVars, historyVars
<1>a. /\ http \in HttpState /\ sessions \in [Pid -> Seq(Sid)]
      /\ worker \in [Worker -> WorkerState]
  BY DEF TypeOK
<1>c. ASSUME UNCHANGED <<processes, sessions>>,
             http'.pc \in {"store", "add"} =>
               \/ http' = http
               \/ http'.proc \in processes
      PROVE  UnusedIsEmpty'
  BY <1>c DEF UnusedIsEmpty
<1>1. CASE UNCHANGED vars
  BY <1>1, <1>c DEF vars
<1>2. CASE Client
  BY <1>2, <1>c
  DEF Client, process_allocation, NewSession, CheckAlive, IdleHttp
<1>3. CASE HttpStep
  <2>1. CASE TakeSwapped \/ UnknownSession \/ MarkAlive \/ NoFreeProcess
    <3>1. UNCHANGED <<processes, sessions>>
      BY <2>1 DEF TakeSwapped, UnknownSession, MarkAlive, NoFreeProcess
    <3>2. http'.pc \notin {"store", "add"}
      <4>1. TakeSwapped => http'.pc = "free"
        BY <1>3, HttpMoves
      <4>2. NoFreeProcess => http'.pc = "new"
        BY <1>3, HttpMoves
      <4>3. UnknownSession \/ MarkAlive => http'.pc = "idle"
        BY DEF UnknownSession, MarkAlive, IdleHttp
      <4> QED
        BY <2>1, <4>1, <4>2, <4>3
    <3> QED
      BY <1>c, <3>1, <3>2
  <2>2. CASE StoreCount
    <3>1. UNCHANGED <<processes, sessions>> /\ http.pc = "store"
      BY <2>2 DEF StoreCount
    <3>2. http'.proc = http.proc
      BY <1>3, <2>2, HttpMoves
    <3> QED
      BY <1>c, <3>1, <3>2 DEF UnusedIsEmpty
  <2>3. ASSUME NEW p \in Pid, GetFreeProcess(p) PROVE UnusedIsEmpty'
    <3>1. UNCHANGED <<processes, sessions>> /\ p \in processes
      BY <2>3 DEF GetFreeProcess
    <3>2. http'.proc = p
      BY <1>3, <2>3, HttpMoves
    <3> QED
      BY <1>c, <3>1, <3>2
  <2>4. CASE AddToExisting
    <3>1. /\ http.pc = "add" /\ UNCHANGED processes /\ http'.pc = "alive"
          /\ sessions' = [sessions EXCEPT ![http.proc] = Append(@, http.sid)]
      BY <1>3, <2>4, HttpMoves DEF AddToExisting
    <3>2. http.proc \in processes
      BY <3>1 DEF UnusedIsEmpty
    <3> QED
      BY <1>a, <3>1, <3>2 DEF UnusedIsEmpty
  <2>5. ASSUME NEW p \in Pid, AddToNew(p) PROVE UnusedIsEmpty'
    <3>1. /\ processes' = processes \cup {p} /\ http'.pc = "alive"
          /\ sessions' = [sessions EXCEPT ![p] = <<http.sid>>]
      BY <1>3, <2>5, HttpMoves DEF AddToNew
    <3> QED
      BY <1>a, <3>1 DEF UnusedIsEmpty
  <2> QED
    BY <1>3, <2>1, <2>2, <2>3, <2>4, <2>5 DEF HttpStep
<1>4. CASE MainStep
  BY <1>4, <1>c DEF MainStep, Accept, Poll
<1>5. ASSUME NEW w \in Worker, WorkerStep(w) PROVE UnusedIsEmpty'
  <2>1. CASE \/ TakeTask(w) \/ StoreConnection(w) \/ LockSessions(w)
             \/ SendPending(w) \/ AddEpoll(w) \/ process_session(w)
             \/ AddSwapped(w) \/ RemoveAlive(w) \/ LogStatus(w)
    BY <1>c, <2>1
    DEF TakeTask, StoreConnection, LockSessions, SendPending, AddEpoll,
        process_session, AddSwapped, RemoveAlive, LogStatus
  <2>2. CASE remove_session(w) \/ EraseSession(w)
    <3>1. /\ UNCHANGED <<processes, http>>
          /\ \/ sessions' = sessions
             \/ \E p, s : sessions' =
                  [sessions EXCEPT ![p] = RemoveFirst(@, s)]
      BY <2>2 DEF remove_session, EraseSession
    <3>2. ASSUME NEW q \in Pid, NEW s, sessions[q] = <<>>
          PROVE  RemoveFirst(sessions[q], s) = <<>>
      <4>1. ~Contains(sessions[q], s)
        BY <3>2 DEF Contains
      <4> QED
        BY <3>2, <4>1, RemoveFirstAbsent
    <3>3. \A q \in Pid : sessions[q] = <<>> => sessions'[q] = <<>>
      BY <1>a, <3>1, <3>2
    <3> QED
      BY <3>1, <3>3 DEF UnusedIsEmpty
  <2> QED
    BY <1>5, <2>1, <2>2 DEF WorkerStep
<1>6. CASE \E p \in Pid : Subprocess(p)
  BY <1>6, <1>c DEF Subprocess, ProcConnect, ProcAllocate, ProcRefuse,
    ProcessExit, SessionConnect, SessionEnd
<1>7. CASE \E w \in Worker : handle_process_closure(w)
  BY <1>7, <1>c DEF handle_process_closure
<1> QED
  BY <1>1, <1>2, <1>3, <1>4, <1>5, <1>6, <1>7 DEF Next, Serve

-----------------------------------------------------------------------------
(* SingleInstance.                                                         *)

(* At start-up nobody has a session, and no session lives.                 *)
LEMMA CustodyInit == Init => Custody
PROOF
<1> SUFFICES ASSUME Init PROVE Custody
  OBVIOUS
<1>1. /\ \A s \in Sid : \A k, a : ~Owner(k, a, s)
      /\ http.pc = "idle"
  BY DEF Init, Owner, SomeIn, IdleHttp, IdleWorker
<1>2. \A s \in Sid : \A p \in Pid : \A k, w : ~Life(k, w, p, s)
  BY DEF Init, Life, SomeIn, IdleWorker
<1>3. NoneTwice /\ Wires
  BY DEF Init, NoneTwice, OnceIn, Wires, IdleWorker
<1>4. UnusedIsEmpty
  BY DEF Init, UnusedIsEmpty, IdleHttp
<1> QED
  BY <1>1, <1>2, <1>3, <1>4
  DEF Custody, OneOwner, OwnedIsKnown, OneLife, LifeIsListed

(* Custody is inductive: every step of every thread, of the epoll loop and *)
(* of the subprocesses hands a session over or leaves it where it is.      *)
LEMMA CustodyStep == TypeOK /\ Custody /\ [Next]_vars => Custody'
PROOF
<1> SUFFICES ASSUME TypeOK, Custody, [Next]_vars PROVE Custody'
  OBVIOUS
<1> USE DEF redisVars, processVars, sessionVars, poolVars, queueVars,
            wireVars, envVars, historyVars
<1>1. OneOwner' /\ OwnedIsKnown'
  BY OwnerStep
<1>2. Wires' /\ UnusedIsEmpty'
  BY WiresStep, UnusedStep DEF Custody
<1>3. OneLife' /\ LifeIsListed' /\ NoneTwice'
  <2>1. ASSUME UNCHANGED <<toProc, fromProc, running, tasks, worker, sessions,
                           allocated>>
        PROVE  OneLife' /\ LifeIsListed' /\ NoneTwice'
    <3>1. \A s \in Sid : \A p \in Pid : \A k, w :
            Life(k, w, p, s)' => Life(k, w, p, s)
      BY <2>1 DEF Life
    <3>2. \A s \in Sid : \A p \in Pid : \A k, w :
            Life(k, w, p, s) => SomeIn(sessions'[p], {s})
      BY <2>1 DEF Custody, LifeIsListed
    <3>3. OneLife' /\ LifeIsListed'
      BY <2>1, <3>1, <3>2, LifeFrame DEF Custody
    <3> QED
      BY <2>1, <3>3 DEF Custody, NoneTwice
  <2>2. CASE UNCHANGED vars
    BY <2>1, <2>2 DEF vars
  <2>3. CASE Client
    <3>1. UNCHANGED <<processVars, sessionVars, poolVars, queueVars, wireVars,
                      envVars>>
      BY <2>3 DEF Client, process_allocation, NewSession, CheckAlive
    <3> QED
      BY <2>1, <3>1
  <2>4. CASE \E w \in Worker : handle_process_closure(w)
    BY <2>1, <2>4 DEF handle_process_closure
  <2> QED
    BY <2>2, <2>3, <2>4, LifeHttp, LifeMain, LifeWorker, LifeSubprocess
    DEF Next, Serve
<1> QED
  BY <1>1, <1>2, <1>3 DEF Custody

(* At every moment one party at most has a session in its hands, one       *)
(* message, process or thread at most carries its present life, and only   *)
(* in a process whose vector lists it (process_client,                     *)
(* handle_session_closure and the Redis sets between them).                *)
THEOREM CustodyCorrect == Spec => []Custody
PROOF
  BY CustodyInit, CustodyStep, TypeCorrect, PTL DEF Spec

(* A session never runs in, or is on its way to, two places: placement and *)
(* closure run on different threads and share no lock for the whole of     *)
(* what they do, and the counter may lose updates; still a client that     *)
(* asks for a session never gets a second instance of it.                  *)
THEOREM SingleInstanceCorrect == Spec => []SingleInstance
PROOF
<1>1. TypeOK /\ Custody => SingleInstance
  <2> SUFFICES ASSUME TypeOK, Custody, NEW s \in Sid,
                      NEW p \in Pid, NEW q \in Pid,
                      NEW i \in 0 .. Len(toProc[p]),
                      NEW j \in 0 .. Len(toProc[q]),
                      Active(s, p, i), Active(s, q, j)
               PROVE  p = q /\ i = j
    BY DEF SingleInstance
  <2>a. toProc[p] \in Seq(Request) /\ toProc[q] \in Seq(Request)
    BY DEF TypeOK
  <2>b. ASSUME NEW u \in Pid, toProc[u] \in Seq(Request),
               NEW n \in 0 .. Len(toProc[u]), Active(s, u, n)
        PROVE  \/ n = 0 /\ Life("running", None, u, s)
               \/ /\ n \in DOMAIN toProc[u] /\ toProc[u][n] \in Requests(s)
                  /\ Life("request", None, u, s)
    <3>1. CASE n = 0 /\ s \in running[u]
      BY <3>1 DEF Life
    <3>2. CASE n \in DOMAIN toProc[u] /\ toProc[u][n].sid = s
      <4>1. toProc[u][n] \in Request
        BY <2>b, <3>2
      <4>2. toProc[u][n] \in Requests(s)
        BY <3>2, <4>1 DEF Request, Requests
      <4> QED
        BY <3>2, <4>2 DEF Life, SomeIn
    <3> QED
      BY <2>b, <3>1, <3>2 DEF Active
  <2>1. p = q /\ (i = 0 <=> j = 0)
    <3>1. PICK k \in {"running", "request"} :
            /\ Life(k, None, p, s)
            /\ \/ k = "running" /\ i = 0
               \/ k = "request" /\ i \in DOMAIN toProc[p]
      BY <2>a, <2>b
    <3>2. PICK l \in {"running", "request"} :
            /\ Life(l, None, q, s)
            /\ \/ l = "running" /\ j = 0
               \/ l = "request" /\ j \in DOMAIN toProc[q]
      BY <2>a, <2>b
    <3>3. p = q /\ k = l
      BY <3>1, <3>2, LifeUnique DEF Custody
    <3>4. 0 \notin DOMAIN toProc[p] /\ 0 \notin DOMAIN toProc[q]
      BY <2>a
    <3> QED
      BY <3>1, <3>2, <3>3, <3>4
  <2>2. CASE i = 0
    BY <2>1, <2>2
  <2>3. CASE i # 0
    <3>1. /\ i \in DOMAIN toProc[p] /\ toProc[p][i] \in Requests(s)
          /\ j \in DOMAIN toProc[p] /\ toProc[p][j] \in Requests(s)
      BY <2>a, <2>b, <2>1, <2>3
    <3>2. OnceIn(toProc[p], Requests(s))
      BY DEF Custody, NoneTwice
    <3> QED
      BY <2>1, <3>1, <3>2 DEF OnceIn
  <2> QED
    BY <2>2, <2>3
<1> QED
  BY <1>1, CustodyCorrect, TypeCorrect, PTL
=============================================================================
