-------------------------- MODULE RefinementProofs --------------------------
(***************************************************************************)
(* The control plane implements SessionPlacement, for every number of      *)
(* sessions, processes, clients and pool threads.  Custody says that a     *)
(* session that is asked for is nowhere, one that starts or ends is at one *)
(* place; Flags that it is resumed if it was asked for before.             *)
(***************************************************************************)
EXTENDS PlacementProofs

(* Where a session is, read off its three kinds of places.                 *)
PlacesAre ==
  \A s, x : x \in PlacesOf(s) <=>
    \E p \in Pid :
      \/ x = [proc |-> p, as |-> "running"] /\ s \in running[p]
      \/ x = [proc |-> p, as |-> "resumed"] /\ Asked(s, p, TRUE)
      \/ x = [proc |-> p, as |-> "new"] /\ Asked(s, p, FALSE)

(* PlacesOf means that.                                                    *)
LEMMA PlacesNow == PlacesAre
PROOF
<1> SUFFICES ASSUME NEW s, NEW x
             PROVE  x \in PlacesOf(s) <=>
    \E p \in Pid :
      \/ x = [proc |-> p, as |-> "running"] /\ s \in running[p]
      \/ x = [proc |-> p, as |-> "resumed"] /\ Asked(s, p, TRUE)
      \/ x = [proc |-> p, as |-> "new"] /\ Asked(s, p, FALSE)
  BY DEF PlacesAre
<1>1. ASSUME x \in PlacesOf(s)
      PROVE  \E p \in Pid :
             \/ x = [proc |-> p, as |-> "running"] /\ s \in running[p]
             \/ x = [proc |-> p, as |-> "resumed"] /\ Asked(s, p, TRUE)
             \/ x = [proc |-> p, as |-> "new"] /\ Asked(s, p, FALSE)
  BY <1>1 DEF PlacesOf
<1>2. ASSUME NEW p \in Pid, x = [proc |-> p, as |-> "running"],
             s \in running[p]
      PROVE  x \in PlacesOf(s)
  BY <1>2 DEF PlacesOf
<1>3. ASSUME NEW p \in Pid, x = [proc |-> p, as |-> "resumed"],
             Asked(s, p, TRUE)
      PROVE  x \in PlacesOf(s)
  BY <1>3 DEF PlacesOf
<1>4. ASSUME NEW p \in Pid, x = [proc |-> p, as |-> "new"],
             Asked(s, p, FALSE)
      PROVE  x \in PlacesOf(s)
  BY <1>4 DEF PlacesOf
<1> QED
  BY <1>1, <1>2, <1>3, <1>4

(* And does so after every step.                                           *)
LEMMA PlacesNext == PlacesAre'
PROOF BY PlacesNow, PTL

(* A session that is asked for is carried by its process, and one that no  *)
(* process has is nowhere.                                                 *)
LEMMA AskedIsRequest ==
  ASSUME TypeOK, NEW p \in Pid, NEW s \in Sid
  PROVE  SomeIn(toProc[p], Requests(s)) <=>
           Asked(s, p, TRUE) \/ Asked(s, p, FALSE)
PROOF
<1>1. toProc[p] \in Seq(Request)
  BY DEF TypeOK
<1>2. ASSUME NEW m \in Request
      PROVE  m \in Requests(s) <=> \/ m = [sid |-> s, swap |-> TRUE]
                                  \/ m = [sid |-> s, swap |-> FALSE]
  <2>1. m = [sid |-> m.sid, swap |-> m.swap] /\ m.swap \in {TRUE, FALSE}
    BY DEF Request
  <2>2. m \in Requests(s) <=> m.sid = s
    BY DEF Request, Requests
  <2>3. CASE m.swap = TRUE
    BY <2>1, <2>2, <2>3
  <2>4. CASE m.swap = FALSE
    BY <2>1, <2>2, <2>4
  <2> QED
    BY <2>1, <2>3, <2>4
<1>3. \A i \in DOMAIN toProc[p] : toProc[p][i] \in Request
  BY <1>1
<1>4. \A i \in DOMAIN toProc[p] :
        toProc[p][i] \in Requests(s) <=>
          \/ toProc[p][i] = [sid |-> s, swap |-> TRUE]
          \/ toProc[p][i] = [sid |-> s, swap |-> FALSE]
  BY <1>2, <1>3, Zenon
<1> QED
  BY <1>4, Zenon DEF SomeIn, Asked

(* The places of the sessions in the abstract state.                       *)
Places == [s \in Sid |-> PlacesOf(s)]
Begun == {s \in Sid : sent[s] > 0}

(* One session moves: what the abstract state looks like afterwards.       *)
LEMMA OneMoves ==
  ASSUME NEW s \in Sid, NEW X, PlacesOf(s)' = X,
         \A r \in Sid : r # s => PlacesOf(r)' = PlacesOf(r)
  PROVE  Places' = [Places EXCEPT ![s] = X]
PROOF BY DEF Places

(* A session that is neither asked for nor runs is nowhere; one that runs  *)
(* is there and nowhere else; one that is asked for is on its way there    *)
(* and nowhere else.                                                       *)
Nowhere(s) == \A p \in Pid : /\ s \notin running[p]
                             /\ ~SomeIn(toProc[p], Requests(s))
IsWhere(s) ==
  /\ Nowhere(s) => PlacesOf(s) = {}
  /\ \A p \in Pid : s \in running[p] =>
       PlacesOf(s) = {[proc |-> p, as |-> "running"]}
  /\ \A p \in Pid : \A i \in DOMAIN toProc[p] :
       toProc[p][i].sid = s =>
         PlacesOf(s) = {[proc |-> p, as |-> IF toProc[p][i].swap
                                            THEN "resumed" ELSE "new"]}
EachIsWhere == \A s \in Sid : IsWhere(s)

(* That follows from Custody: a session has one life.                      *)
LEMMA WhereItIs == TypeOK /\ Custody => EachIsWhere
PROOF
<1> SUFFICES ASSUME TypeOK, Custody, NEW s \in Sid PROVE IsWhere(s)
  BY DEF EachIsWhere
<1>a. toProc \in [Pid -> Seq(Request)]
  BY DEF TypeOK
<1>b. ASSUME NEW p \in Pid, s \in running[p]
      PROVE  Carried(p, s) /\ Life("running", None, p, s)
  BY <1>b DEF Carried, Life
<1>c. ASSUME NEW p \in Pid, NEW swap \in BOOLEAN, Asked(s, p, swap)
      PROVE  /\ Carried(p, s) /\ Life("request", None, p, s)
             /\ \A i \in DOMAIN toProc[p] : toProc[p][i].sid = s =>
                  toProc[p][i] = [sid |-> s, swap |-> swap]
  <2>1. SomeIn(toProc[p], Requests(s))
    <3>1. CASE swap = TRUE
      BY <1>c, <3>1, AskedIsRequest
    <3>2. CASE swap = FALSE
      BY <1>c, <3>2, AskedIsRequest
    <3> QED
      BY <3>1, <3>2
  <2>2. Carried(p, s) /\ Life("request", None, p, s)
    BY <2>1 DEF Carried, Life
  <2>3. PICK j \in DOMAIN toProc[p] :
          toProc[p][j] = [sid |-> s, swap |-> swap]
    BY <1>c DEF Asked
  <2>4. ASSUME NEW i \in DOMAIN toProc[p], toProc[p][i].sid = s
        PROVE  i = j
    <3>1. toProc[p][i] \in Request
      BY <1>a
    <3>2. toProc[p][i] \in Requests(s) /\ toProc[p][j] \in Requests(s)
      BY <2>3, <2>4, <3>1 DEF Request, Requests
    <3>3. OnceIn(toProc[p], Requests(s))
      BY DEF Custody, NoneTwice
    <3> QED
      BY <3>2, <3>3 DEF OnceIn
  <2> QED
    BY <2>2, <2>3, <2>4
<1>1. ASSUME Nowhere(s)
      PROVE  PlacesOf(s) = {}
  <2>1. \A p \in Pid : /\ s \notin running[p]
                       /\ ~Asked(s, p, TRUE) /\ ~Asked(s, p, FALSE)
    BY <1>1, AskedIsRequest DEF Nowhere
  <2>2. \A x : x \notin PlacesOf(s)
    BY <2>1, PlacesNow, Zenon DEF PlacesAre
  <2> QED
    BY <2>2
<1>2. ASSUME NEW p \in Pid, s \in running[p]
      PROVE  PlacesOf(s) = {[proc |-> p, as |-> "running"]}
  <2>1. Life("running", None, p, s)
    BY <1>b, <1>2
  <2>2. \A q \in Pid : s \in running[q] => q = p
    BY <1>b, <2>1, LifeUnique DEF Custody
  <2>3. \A q \in Pid : ~Asked(s, q, TRUE) /\ ~Asked(s, q, FALSE)
    <3> SUFFICES ASSUME NEW q \in Pid, NEW swap \in BOOLEAN,
                        Asked(s, q, swap)
                 PROVE  FALSE
      OBVIOUS
    <3>1. Life("request", None, q, s)
      BY <1>c
    <3>2. "request" = "running"
      BY <2>1, <3>1, LifeUnique DEF Custody
    <3> QED
      BY <3>2
  <2>4. \A x : x \in PlacesOf(s) <=> x = [proc |-> p, as |-> "running"]
    BY <1>2, <2>2, <2>3, PlacesNow, Zenon DEF PlacesAre
  <2> QED
    BY <2>4
<1>3. ASSUME NEW p \in Pid, NEW i \in DOMAIN toProc[p], toProc[p][i].sid = s
      PROVE  PlacesOf(s) = {[proc |-> p, as |-> IF toProc[p][i].swap
                                                THEN "resumed" ELSE "new"]}
  <2>1. toProc[p][i] \in Request
    BY <1>a
  <2>2. PICK b \in BOOLEAN : toProc[p][i] = [sid |-> s, swap |-> b]
    BY <1>3, <2>1 DEF Request
  <2>3. Asked(s, p, b)
    BY <2>2 DEF Asked
  <2>4. Life("request", None, p, s)
    BY <1>c, <2>3
  <2>5. ASSUME NEW q \in Pid, NEW c \in BOOLEAN, Asked(s, q, c)
        PROVE  q = p /\ c = b
    <3>1. q = p
      BY <1>c, <2>4, <2>5, LifeUnique DEF Custody
    <3>2. [sid |-> s, swap |-> b] = [sid |-> s, swap |-> c]
      BY <1>c, <1>3, <2>2, <2>5, <3>1
    <3> QED
      BY <3>1, <3>2
  <2>6. \A q \in Pid : s \notin running[q]
    <3> SUFFICES ASSUME NEW q \in Pid, s \in running[q] PROVE FALSE
      OBVIOUS
    <3>1. "running" = "request"
      BY <1>b, <2>4, LifeUnique DEF Custody
    <3> QED
      BY <3>1
  <2>7. CASE b = TRUE
    <3>1. \A q \in Pid : ~Asked(s, q, FALSE) /\ (Asked(s, q, TRUE) => q = p)
      BY <2>5, <2>7
    <3>2. \A x : x \in PlacesOf(s) <=> x = [proc |-> p, as |-> "resumed"]
      BY <2>3, <2>6, <2>7, <3>1, PlacesNow, Zenon DEF PlacesAre
    <3> QED
      BY <2>2, <2>7, <3>2
  <2>8. CASE b = FALSE
    <3>1. \A q \in Pid : ~Asked(s, q, TRUE) /\ (Asked(s, q, FALSE) => q = p)
      BY <2>5, <2>8
    <3>2. \A x : x \in PlacesOf(s) <=> x = [proc |-> p, as |-> "new"]
      BY <2>3, <2>6, <2>8, <3>1, PlacesNow, Zenon DEF PlacesAre
    <3> QED
      BY <2>2, <2>8, <3>2
  <2> QED
    BY <2>7, <2>8
<1> QED
  BY <1>1, <1>2, <1>3 DEF IsWhere

(* After a step, too.                                                      *)
LEMMA WhereItIsNext == TypeOK' /\ Custody' => EachIsWhere'
PROOF BY WhereItIs, PTL

(* A session that no step asks for, starts or ends stays where it is.      *)
LEMMA StaysPut ==
  ASSUME NEW s,
         \A p \in Pid : s \in running'[p] <=> s \in running[p],
         \A p \in Pid : \A b \in BOOLEAN : Asked(s, p, b)' <=> Asked(s, p, b)
  PROVE  PlacesOf(s)' = PlacesOf(s)
PROOF
<1>1. \A x : x \in PlacesOf(s)' <=>
        \E p \in Pid :
          \/ x = [proc |-> p, as |-> "running"] /\ s \in running'[p]
          \/ x = [proc |-> p, as |-> "resumed"] /\ Asked(s, p, TRUE)'
          \/ x = [proc |-> p, as |-> "new"] /\ Asked(s, p, FALSE)'
  BY PlacesNext, Zenon DEF PlacesAre
<1>2. \A x : x \in PlacesOf(s)' <=> x \in PlacesOf(s)
  BY <1>1, PlacesNow DEF PlacesAre
<1> QED
  BY <1>2

(* The steps of SessionPlacement, on the abstract state.                   *)
LEMMA AbstractSteps ==
  ASSUME NEW s \in Sid, NEW p \in Pid, NEW X,
         Places' = [Places EXCEPT ![s] = X], X # Places[s],
         \/ /\ Places[s] = {}
            /\ X = {[proc |-> p,
                     as |-> IF s \in Begun THEN "resumed" ELSE "new"]}
            /\ Begun' = Begun \cup {s}
         \/ /\ \E how \in {"new", "resumed"} :
                 Places[s] = {[proc |-> p, as |-> how]}
            /\ X \in {{[proc |-> p, as |-> "running"]}, {}}
            /\ UNCHANGED Begun
         \/ /\ Places[s] = {[proc |-> p, as |-> "running"]}
            /\ X = {}
            /\ UNCHANGED Begun
  PROVE  Placement!Next
PROOF
<1>1. Places'[s] # Places[s]
  BY DEF Places
<1>2. ASSUME Places[s] = {},
             X = {[proc |-> p,
                   as |-> IF s \in Begun THEN "resumed" ELSE "new"]},
             Begun' = Begun \cup {s}
      PROVE  Placement!Request(s, p)
  BY <1>2 DEF Placement!Request, Places, Begun
<1>3. ASSUME NEW how \in {"new", "resumed"},
             Places[s] = {[proc |-> p, as |-> how]},
             X \in {{[proc |-> p, as |-> "running"]}, {}}, UNCHANGED Begun
      PROVE  Placement!Start(s, p) \/ Placement!Refuse(s, p)
  <2>1. Placement!Asked(s, p)
    BY <1>3 DEF Placement!Asked, Places
  <2>2. CASE X = {[proc |-> p, as |-> "running"]}
    BY <1>3, <2>1, <2>2 DEF Placement!Start, Places, Begun
  <2>3. CASE X = {}
    BY <1>3, <2>1, <2>3 DEF Placement!Refuse, Places, Begun
  <2> QED
    BY <1>3, <2>2, <2>3
<1>4. ASSUME Places[s] = {[proc |-> p, as |-> "running"]}, X = {},
             UNCHANGED Begun
      PROVE  Placement!Stop(s, p)
  BY <1>4 DEF Placement!Stop, Places, Begun
<1>5. \/ Placement!Request(s, p) \/ Placement!Start(s, p)
      \/ Placement!Refuse(s, p) \/ Placement!Stop(s, p)
  BY <1>2, <1>3, <1>4
<1> QED
  BY <1>1, <1>5 DEF Placement!Next, Places

-----------------------------------------------------------------------------
(* The steps.                                                              *)

(* A request that is written: the session was nowhere, and the flag tells  *)
(* whether it was asked for before.                                        *)
LEMMA RefineRequest ==
  ASSUME TypeOK, Custody, Flags, [Next]_vars, TypeOK', Custody',
         AskedFor
  PROVE  Placement!Next \/ UNCHANGED <<Places, Begun>>
PROOF
<1>a. /\ toProc \in [Pid -> Seq(Request)] /\ sent \in [Sid -> Nat]
      /\ swap_in \in [Sid -> BOOLEAN] /\ http \in HttpState
  BY DEF TypeOK
<1>1. PICK p \in Pid, s \in Sid :
        /\ WriteRequest(p, s, swap_in'[s], lives'[s])
        /\ SomeIn(sessions'[p], {s})
        /\ \A q \in Pid : ~Carried(q, s)
        /\ UNCHANGED running
        /\ \/ AddToExisting /\ s = http.sid
           \/ /\ UNCHANGED <<http, lives, swap_in, sessions>>
              /\ ~allocated[s]
  BY AskedFacts
<1>2. /\ lives'[s] \in Nat /\ lives'[s] > 0
      /\ swap_in'[s] <=> lives'[s] > 1
      /\ lives'[s] > 1 => sent[s] > 0
      /\ swap_in'[s] \in BOOLEAN
  BY <1>1, ListedStep DEF TypeOK
<1>3. CASE ~connection[p]
  <2>1. UNCHANGED <<toProc, sent, running>>
    BY <1>1, <1>3 DEF WriteRequest
  <2>2. \A r \in Sid : PlacesOf(r)' = PlacesOf(r)
    BY <2>1, StaysPut DEF Asked
  <2> QED
    BY <2>1, <2>2 DEF Places, Begun
<1>4. CASE connection[p]
  <2>1. /\ toProc' = [toProc EXCEPT ![p] = Append(@, fill(s, swap_in'[s]))]
        /\ sent' = [sent EXCEPT ![s] = lives'[s]]
    BY <1>1, <1>4 DEF WriteRequest
  <2>2. PICK m \in Request : m = [sid |-> s, swap |-> swap_in'[s]]
    BY <1>2 DEF Request
  <2>3. /\ toProc'[p] = Append(toProc[p], m) /\ toProc[p] \in Seq(Request)
        /\ \A q \in Pid : q # p => toProc'[q] = toProc[q]
    BY <1>a, <2>1, <2>2 DEF fill
  <2>4. PICK n : n = Len(toProc[p]) + 1
    OBVIOUS
  <2>5. /\ n \in DOMAIN toProc'[p] /\ toProc'[p][n] = m
        /\ DOMAIN toProc'[p] = (DOMAIN toProc[p]) \cup {n}
        /\ \A i \in DOMAIN toProc[p] : toProc'[p][i] = toProc[p][i]
        /\ Len(toProc'[p]) = Len(toProc[p]) + 1
        /\ Len(toProc[p]) \in Nat
    BY <2>3, <2>4
  <2>6. PlacesOf(s)' = {[proc |-> p, as |-> IF swap_in'[s]
                                            THEN "resumed" ELSE "new"]}
    <3>1. IsWhere(s)'
      BY WhereItIsNext DEF EachIsWhere
    <3>2. toProc'[p][n].sid = s /\ toProc'[p][n].swap = swap_in'[s]
      BY <2>2, <2>5
    <3>3. PlacesOf(s)' = {[proc |-> p, as |-> IF toProc'[p][n].swap
                                              THEN "resumed" ELSE "new"]}
      BY <2>5, <3>1, <3>2, Zenon DEF IsWhere
    <3> QED
      BY <3>2, <3>3
  <2>7. PlacesOf(s) = {}
    <3>1. Nowhere(s)
      BY <1>1 DEF Nowhere, Carried
    <3> QED
      BY <3>1, WhereItIs DEF EachIsWhere, IsWhere
  <2>8. ASSUME NEW r \in Sid, r # s
        PROVE  PlacesOf(r)' = PlacesOf(r)
    <3>1. ASSUME NEW q \in Pid, NEW b \in BOOLEAN
          PROVE  Asked(r, q, b)' <=> Asked(r, q, b)
      <4>1. CASE q = p
        <5>1. m # [sid |-> r, swap |-> b]
          BY <2>2, <2>8
        <5> QED
          BY <2>5, <4>1, <5>1 DEF Asked
      <4>2. CASE q # p
        BY <2>3, <4>2 DEF Asked
      <4> QED
        BY <4>1, <4>2
    <3> QED
      BY <1>1, <3>1, StaysPut
  <2>9. Begun' = Begun \cup {s}
    BY <1>a, <1>2, <2>1 DEF Begun
  <2>10. swap_in'[s] <=> s \in Begun
    <3>1. CASE AddToExisting /\ s = http.sid
      <4>1. Placed
        BY <3>1 DEF Placed
      <4>2. Placing /\ swap_in' = [swap_in EXCEPT ![http.sid] = http.swap]
        BY <4>1, PlacedFacts
      <4>3. swap_in'[s] = http.swap
        BY <1>a, <3>1, <4>2
      <4>4. http.swap <=> sent[http.sid] > 0
        BY <4>2 DEF Flags, PlacingFlag
      <4> QED
        BY <3>1, <4>3, <4>4 DEF Begun
    <3>2. CASE ~allocated[s]
      <4>1. sent[s] = 0
        BY <3>2 DEF Flags, AliveWasSent
      <4> QED
        BY <1>2, <4>1 DEF Begun
    <3> QED
      BY <1>1, <3>1, <3>2
  <2> DEFINE X == {[proc |-> p, as |-> IF s \in Begun THEN "resumed"
                                                      ELSE "new"]}
  <2>12. Places' = [Places EXCEPT ![s] = X] /\ Places[s] = {} /\ X # {}
    <3>1. PlacesOf(s)' = X
      BY <2>6, <2>10
    <3>2. Places' = [Places EXCEPT ![s] = X]
      BY <2>8, <3>1, OneMoves
    <3> QED
      BY <2>7, <3>2 DEF Places
  <2> QED
    BY <2>9, <2>12, AbstractSteps
<1> QED
  BY <1>3, <1>4

(* A session that starts or is refused was on its way to the process, and  *)
(* one that ends ran there.                                                *)
LEMMA RefineStartStop ==
  ASSUME TypeOK, Custody, TypeOK', Custody', NEW p \in Pid, NEW s \in Sid,
         \/ (ProcAllocate(p) \/ ProcRefuse(p)) /\ s = Head(toProc[p]).sid
         \/ SessionEnd(p, s)
  PROVE  Placement!Next
PROOF
<1> USE DEF redisVars, processVars, sessionVars, poolVars, queueVars,
            wireVars, envVars, historyVars
<1>a. /\ toProc \in [Pid -> Seq(Request)] /\ running \in [Pid -> SUBSET Sid]
      /\ EachIsWhere /\ EachIsWhere'
  BY WhereItIs, WhereItIsNext DEF TypeOK
<1>1. CASE (ProcAllocate(p) \/ ProcRefuse(p)) /\ s = Head(toProc[p]).sid
  <2>1. /\ \/ running' = [running EXCEPT ![p] = @ \cup {s}]
           \/ running' = running
        /\ toProc' = [toProc EXCEPT ![p] = Tail(@)]
        /\ toProc[p] # <<>> /\ UNCHANGED sent
    BY <1>1 DEF ProcAllocate, ProcRefuse
  <2>2. toProc[p] \in Seq(Request)
    BY <1>a
  <2>3. /\ 1 \in DOMAIN toProc[p] /\ toProc[p][1].sid = s
        /\ \A i \in DOMAIN toProc[p] :
             i = 1 \/ i - 1 \in DOMAIN Tail(toProc[p])
        /\ \A i \in DOMAIN Tail(toProc[p]) :
             /\ i + 1 \in DOMAIN toProc[p]
             /\ Tail(toProc[p])[i] = toProc[p][i + 1]
        /\ \A i \in DOMAIN toProc[p] : (i - 1) + 1 = i
    BY <1>1, <2>1, <2>2
  <2>4. PICK how \in {"new", "resumed"} :
          PlacesOf(s) = {[proc |-> p, as |-> how]}
    <3>1. PlacesOf(s) = {[proc |-> p, as |-> IF toProc[p][1].swap
                                             THEN "resumed" ELSE "new"]}
      BY <1>a, <2>3, Zenon DEF EachIsWhere, IsWhere
    <3> QED
      BY <3>1
  <2>5. PlacesOf(s)' \in {{[proc |-> p, as |-> "running"]}, {}}
    <3>1. CASE running' = [running EXCEPT ![p] = @ \cup {s}]
      <4>1. s \in running'[p]
        BY <1>a, <3>1
      <4>2. PlacesOf(s)' = {[proc |-> p, as |-> "running"]}
        BY <1>a, <4>1, Zenon DEF EachIsWhere, IsWhere
      <4> QED
        BY <4>2
    <3>2. CASE running' = running
      <4>1. Head(toProc[p]) \in Requests(s)
        <5>1. Head(toProc[p]) \in Request
          BY <2>1, <2>2
        <5> QED
          BY <1>1, <5>1 DEF Request, Requests
      <4>2. OnceIn(toProc[p], Requests(s))
        BY DEF Custody, NoneTwice
      <4>3. SomeIn(toProc[p], Requests(s))
            /\ ~SomeIn(Tail(toProc[p]), Requests(s))
        BY <2>1, <2>2, <4>1, <4>2, TailOnce
      <4>4. Life("request", None, p, s)
        BY <4>3 DEF Life
      <4>5. \A q \in Pid : s \notin running[q]
        <5> SUFFICES ASSUME NEW q \in Pid, s \in running[q] PROVE FALSE
          OBVIOUS
        <5>1. Life("running", None, q, s)
          BY DEF Life
        <5>2. "running" = "request"
          BY <4>4, <5>1, LifeUnique DEF Custody
        <5> QED
          BY <5>2
      <4>6. ASSUME NEW q \in Pid, q # p
            PROVE  ~SomeIn(toProc[q], Requests(s))
        <5> SUFFICES ASSUME SomeIn(toProc[q], Requests(s)) PROVE FALSE
          OBVIOUS
        <5>1. Life("request", None, q, s)
          BY DEF Life
        <5>2. q = p
          BY <4>4, <5>1, LifeUnique DEF Custody
        <5> QED
          BY <4>6, <5>2
      <4>7. Nowhere(s)'
        BY <1>a, <2>1, <3>2, <4>3, <4>5, <4>6 DEF Nowhere
      <4> QED
        BY <1>a, <4>7 DEF EachIsWhere, IsWhere
    <3> QED
      BY <2>1, <3>1, <3>2
  <2>6. ASSUME NEW r \in Sid, r # s
        PROVE  PlacesOf(r)' = PlacesOf(r)
    <3>1. \A q \in Pid : r \in running'[q] <=> r \in running[q]
      BY <1>a, <2>1, <2>6
    <3>2. ASSUME NEW q \in Pid, NEW b \in BOOLEAN
          PROVE  Asked(r, q, b)' <=> Asked(r, q, b)
      <4>1. CASE q = p
        <5>1. toProc'[p] = Tail(toProc[p])
          BY <1>a, <2>1
        <5>2. toProc[p][1] # [sid |-> r, swap |-> b]
          BY <2>3, <2>6
        <5>3. Asked(r, p, b)' => Asked(r, p, b)
          BY <2>3, <5>1 DEF Asked
        <5>4. Asked(r, p, b) => Asked(r, p, b)'
          <6> SUFFICES ASSUME NEW i \in DOMAIN toProc[p],
                              toProc[p][i] = [sid |-> r, swap |-> b]
                       PROVE  \E j \in DOMAIN Tail(toProc[p]) :
                                Tail(toProc[p])[j] = [sid |-> r, swap |-> b]
            BY <5>1 DEF Asked
          <6>1. i - 1 \in DOMAIN Tail(toProc[p]) /\ (i - 1) + 1 = i
            BY <2>3, <5>2
          <6> QED
            BY <2>3, <6>1
        <5> QED
          BY <4>1, <5>3, <5>4
      <4>2. CASE q # p
        BY <1>a, <2>1, <4>2 DEF Asked
      <4> QED
        BY <4>1, <4>2
    <3> QED
      BY <3>1, <3>2, StaysPut
  <2>7. PICK X \in {{[proc |-> p, as |-> "running"]}, {}} :
          PlacesOf(s)' = X
    BY <2>5
  <2>8. /\ Places' = [Places EXCEPT ![s] = X]
        /\ Places[s] = {[proc |-> p, as |-> how]}
    BY <2>4, <2>6, <2>7, OneMoves DEF Places
  <2>10. X # {[proc |-> p, as |-> how]}
    <3>1. how # "running"
      OBVIOUS
    <3>2. [proc |-> p, as |-> how] # [proc |-> p, as |-> "running"]
      BY <3>1
    <3> QED
      BY <3>2
  <2>9. UNCHANGED Begun
    BY <2>1 DEF Begun
  <2> QED
    BY <2>8, <2>9, <2>10, AbstractSteps
<1>2. CASE SessionEnd(p, s)
  <2>1. /\ running' = [running EXCEPT ![p] = @ \ {s}] /\ s \in running[p]
        /\ UNCHANGED <<toProc, sent>>
    BY <1>2 DEF SessionEnd
  <2>2. PlacesOf(s) = {[proc |-> p, as |-> "running"]}
    BY <1>a, <2>1, Zenon DEF EachIsWhere, IsWhere
  <2>3. PlacesOf(s)' = {}
    <3>1. Life("running", None, p, s)
      BY <2>1 DEF Life
    <3>2. \A q \in Pid : s \in running[q] => q = p
      <4> SUFFICES ASSUME NEW q \in Pid, s \in running[q] PROVE q = p
        OBVIOUS
      <4>1. Life("running", None, q, s)
        BY DEF Life
      <4> QED
        BY <3>1, <4>1, LifeUnique DEF Custody
    <3>3. \A q \in Pid : ~SomeIn(toProc[q], Requests(s))
      <4> SUFFICES ASSUME NEW q \in Pid, SomeIn(toProc[q], Requests(s))
                   PROVE  FALSE
        OBVIOUS
      <4>1. Life("request", None, q, s)
        BY DEF Life
      <4>2. "request" = "running"
        BY <3>1, <4>1, LifeUnique DEF Custody
      <4> QED
        BY <4>2
    <3>4. Nowhere(s)'
      BY <1>a, <2>1, <3>2, <3>3 DEF Nowhere
    <3> QED
      BY <1>a, <3>4 DEF EachIsWhere, IsWhere
  <2>4. ASSUME NEW r \in Sid, r # s
        PROVE  PlacesOf(r)' = PlacesOf(r)
    <3>1. \A q \in Pid : r \in running'[q] <=> r \in running[q]
      BY <1>a, <2>1, <2>4
    <3> QED
      BY <2>1, <3>1, StaysPut DEF Asked
  <2>5. /\ Places' = [Places EXCEPT ![s] = {}]
        /\ Places[s] = {[proc |-> p, as |-> "running"]}
    BY <2>2, <2>3, <2>4, OneMoves DEF Places
  <2>6. UNCHANGED Begun
    BY <2>1 DEF Begun
  <2> QED
    BY <2>5, <2>6, AbstractSteps
<1> QED
  BY <1>1, <1>2

(* Seen from the sessions, every step of the control plane and of its      *)
(* subprocesses is a step of SessionPlacement, or changes nothing there.   *)
(* Nothing is assumed: the slot counter may lose updates, processes may be *)
(* overbooked, and subprocesses may refuse any session.                    *)
THEOREM PlacementRefined == Spec => ImplementsPlacement
PROOF
<1>1. Init => Placement!Init
  <2> SUFFICES ASSUME Init PROVE Placement!Init
    OBVIOUS
  <2>1. \A s \in Sid : PlacesOf(s) = {}
    <3>1. \A s \in Sid : \A x : x \notin PlacesOf(s)
      <4>1. \A s \in Sid : \A p \in Pid :
              /\ s \notin running[p]
              /\ ~Asked(s, p, TRUE) /\ ~Asked(s, p, FALSE)
        BY DEF Init, Asked
      <4> QED
        BY <4>1, PlacesNow, Zenon DEF PlacesAre
    <3> QED
      BY <3>1
  <2>2. {s \in Sid : sent[s] > 0} = {}
    BY DEF Init
  <2> QED
    BY <2>1, <2>2 DEF Placement!Init
<1>2. ASSUME TypeOK, Custody, Flags, [Next]_vars, TypeOK', Custody'
      PROVE  [Placement!Next]_(Placement!vars)
  <2>2. CASE AskedFor
    BY <1>2, <2>2, RefineRequest DEF Placement!vars, Places, Begun
  <2>3. ASSUME NEW p \in Pid, ProcAllocate(p) \/ ProcRefuse(p)
        PROVE  Placement!Next
    <3>1. toProc[p] \in Seq(Request) /\ toProc[p] # <<>>
      BY <1>2, <2>3 DEF TypeOK, ProcAllocate, ProcRefuse
    <3>2. Head(toProc[p]) \in Request
      BY <3>1
    <3>3. Head(toProc[p]).sid \in Sid
      BY <3>2 DEF Request
    <3> QED
      BY <1>2, <2>3, <3>3, RefineStartStop
  <2>4. ASSUME NEW p \in Pid, NEW s \in Sid, SessionEnd(p, s)
        PROVE  Placement!Next
    BY <1>2, <2>4, RefineStartStop
  <2>5. CASE UNCHANGED <<running, toProc, sent>>
    <3>1. \A r \in Sid : PlacesOf(r)' = PlacesOf(r)
      BY <2>5, StaysPut DEF Asked
    <3> QED
      BY <2>5, <3>1 DEF Placement!vars
  <2> QED
    BY <1>2, <2>2, <2>3, <2>4, <2>5, OnlyChanges DEF Answered
<1>3. TypeOK /\ Custody /\ Flags /\ [Next]_vars => Flags'
  BY FlagsStep
<1> QED
  BY <1>1, <1>2, <1>3, FlagsInit, CustodyCorrect, TypeCorrect, PTL
  DEF Spec, ImplementsPlacement, Placement!Spec
=============================================================================
