------------------------- MODULE SessionExecProofs -------------------------
(***************************************************************************)
(* What SessionExec guarantees for every set of invocations, every size of *)
(* their payloads and of the pool.                                         *)
(***************************************************************************)
EXTENDS SessionExec, FiniteSetTheorems, SequenceTheorems, TLAPS

(* Where an invocation is: not read yet, with receive, queued, running.    *)
Written(s, i) == \E k \in 1..Len(s) : s[k] = <<"head", i>>
Pending(i) == i \in unsent \/ Written(cpIn, i) \/ Written(dpIn, i)
InRx(i) == rx # None /\ rx.inv = i
InTask(i) == \E k \in 1..Len(tasks) : tasks[k].inv = i
InThread(i) == \E t \in Thread : Busy(t) /\ thread[t].inv = i

(* It has had no final answer.                                             *)
Quiet(i) == \A k \in 1..Len(replies[i]) : ~Final(replies[i][k])

(* A request is written once.                                              *)
Once(s) == \A j, k \in 1..Len(s) : s[j] = s[k] /\ s[j][1] = "head" => j = k

Requests ==
  /\ Once(cpIn) /\ Once(dpIn)
  /\ \A i \in Inv : Written(cpIn, i) => ~Written(dpIn, i) /\ i \notin unsent
  /\ \A i \in Inv : Written(dpIn, i) => i \notin unsent

(* An invocation is in one place, and unanswered until it returns.         *)
Taken ==
  /\ \A i \in Inv : Pending(i) =>
       ~InRx(i) /\ ~InTask(i) /\ ~InThread(i) /\ Quiet(i)
  /\ \A i \in Inv : InRx(i) => ~InTask(i) /\ ~InThread(i) /\ Quiet(i)
  /\ \A i \in Inv : InTask(i) => ~InThread(i) /\ Quiet(i)
  /\ \A j, k \in 1..Len(tasks) : tasks[j].inv = tasks[k].inv => j = k
  /\ \A t, u \in Thread :
       Busy(t) /\ Busy(u) /\ thread[t].inv = thread[u].inv => t = u
  /\ \A t \in Thread :
       Busy(t) /\ thread[t].pc # "return" => Quiet(thread[t].inv)

(* Nothing is written before the start, and nothing is received or run     *)
(* before the start and after the end.                                     *)
Phases ==
  /\ phase = "starting" => dpIn = <<>> /\ owing = None /\ dp = "none"
  /\ phase \in {"starting", "ended", "dead"} =>
       tasks = <<>> /\ \A t \in Thread : ~Busy(t)
  /\ rx # None => phase \in {"first", "loop"}

(* The addresses in use; those that were allocated since the start; and    *)
(* there is one left for each invocation that was not read.                *)
InUse == Live \cup (IF rx = None THEN {} ELSE {rx.buf.val})
Added == InUse \ (0..(2 * max_functions))
Unread == {i \in Inv : Pending(i)}
Room == Cardinality(Added) + Cardinality(Unread) <= Cardinality(Inv)

(* A request that is followed by a payload.                                *)
Owing(u) == u[1] = "rest" /\ u[2] # None /\ Units(u[2]) > 0
Framed(s) == \A k, l \in 1..Len(s) :
               l = k + 1 /\ Owing(s[k]) => s[l] = <<"body", s[k][2]>>

(* What receive waits for is what it reads next.                           *)
Expected ==
  /\ Framed(cpIn) /\ Framed(dpIn)
  /\ owing # None => Units(owing) > 0
  /\ dp = "open" => \A k \in 1..Len(dpIn) :
       k = Len(dpIn) /\ Owing(dpIn[k]) => owing = dpIn[k][2]
  /\ rx # None =>
       /\ rx.buf.val # 0 /\ Units(rx.inv) > 0
       /\ Stream # <<>> => Stream[1] = <<"body", rx.inv>>
       /\ phase = "loop" /\ dpIn = <<>> /\ dp = "open" => owing = rx.inv

(* No memory is in two places.                                             *)
Apart ==
  /\ \A j, k \in 1..Len(_buffers) :
       _buffers[j].val = _buffers[k].val /\ _buffers[j].val # 0 => j = k
  /\ \A j, k \in 1..Len(tasks) :
       tasks[j].buf.val = tasks[k].buf.val /\ tasks[j].buf.val # 0 => j = k
  /\ \A t, u \in Thread :
       Busy(t) /\ Busy(u) /\ thread[t].buf.val = thread[u].buf.val
         /\ thread[t].buf.val # 0 => t = u
  /\ \A k \in 1..Len(_buffers), j \in 1..Len(tasks) :
       _buffers[k].val = tasks[j].buf.val => tasks[j].buf.val = 0
  /\ \A k \in 1..Len(_buffers), t \in Thread :
       Busy(t) /\ _buffers[k].val = thread[t].buf.val => thread[t].buf.val = 0
  /\ \A k \in 1..Len(tasks), t \in Thread :
       Busy(t) /\ tasks[k].buf.val = thread[t].buf.val =>
         thread[t].buf.val = 0
  /\ rx # None =>
       /\ \A k \in 1..Len(_buffers) : _buffers[k].val # rx.buf.val
       /\ \A k \in 1..Len(tasks) : tasks[k].buf.val # rx.buf.val
       /\ \A t \in Thread : Busy(t) => thread[t].buf.val # rx.buf.val

-----------------------------------------------------------------------------
(* Sequences.                                                              *)

(* What is left of a stream when n units have been read.                   *)
Cut(s, n) == SubSeq(s, n + 1, Len(s))

(* A stream that was read in part holds the rest in order: Consume.        *)
LEMMA CutElement ==
  ASSUME NEW S, NEW s \in Seq(S), NEW n \in 0..Len(s)
  PROVE  /\ Cut(s, n) \in Seq(S)
         /\ Len(Cut(s, n)) = Len(s) - n
         /\ \A k \in 1..Len(Cut(s, n)) :
              k + n \in 1..Len(s) /\ Cut(s, n)[k] = s[k + n]
<1>1. Len(s) \in Nat /\ n \in Nat
  BY LenProperties
<1>2. \A k \in (n + 1)..Len(s) : s[k] \in S
  BY <1>1, ElementOfSeq
<1>3. /\ Cut(s, n) \in Seq(S)
      /\ Len(Cut(s, n)) = IF n + 1 <= Len(s) THEN Len(s) - (n + 1) + 1 ELSE 0
      /\ \A k \in 1..(Len(s) - (n + 1) + 1) : Cut(s, n)[k] = s[(n + 1) + k - 1]
  BY <1>1, <1>2, SubSeqProperties DEF Cut
<1> HIDE DEF Cut
<1>4. PICK l \in Nat : l = Len(s)
  BY <1>1
<1>5. Len(Cut(s, n)) = l - n
  BY <1>1, <1>3, <1>4
<1>6. \A k \in 1..(l - n) : k + n \in 1..l /\ Cut(s, n)[k] = s[k + n]
  <2> TAKE k \in 1..(l - n)
  <2>1. (n + 1) + k - 1 = k + n
    BY <1>1
  <2> QED
    BY <1>1, <1>3, <1>4, <2>1
<1> QED
  BY <1>3, <1>4, <1>5, <1>6

(* Nothing read, and all read.                                             *)
LEMMA CutEnds ==
  ASSUME NEW S, NEW s \in Seq(S)
  PROVE  /\ 0 \in 0..Len(s) /\ Len(s) \in 0..Len(s)
         /\ Cut(s, 0) = s /\ Cut(s, Len(s)) = <<>>
<1>1. Len(s) \in Nat
  BY LenProperties
<1>2. SubSeq(s, 1, Len(s)) = s
  BY SubSeqFull
<1>3. SubSeq(s, Len(s) + 1, Len(s)) = <<>>
  BY <1>1, SubSeqEmpty
<1> QED
  BY <1>1, <1>2, <1>3 DEF Cut

(* A stream that was written to.                                           *)
LEMMA ConcatElement ==
  ASSUME NEW S, NEW s \in Seq(S), NEW r \in Seq(S)
  PROVE  /\ s \o r \in Seq(S)
         /\ \A k \in 1..Len(s \o r) :
              \/ k \in 1..Len(s) /\ (s \o r)[k] = s[k]
              \/ /\ k - Len(s) \in 1..Len(r) /\ k > Len(s)
                 /\ (s \o r)[k] = r[k - Len(s)]
<1>1. Len(s) \in Nat /\ Len(r) \in Nat
  BY LenProperties
<1>2. /\ s \o r \in Seq(S) /\ Len(s \o r) = Len(s) + Len(r)
      /\ \A k \in 1..(Len(s) + Len(r)) :
           (s \o r)[k] = IF k <= Len(s) THEN s[k] ELSE r[k - Len(s)]
  BY ConcatProperties
<1> PICK m \in Nat, n \in Nat : m = Len(s) /\ n = Len(r)
  BY <1>1
<1> QED
  BY <1>2

(* A queue after an element was added.                                     *)
LEMMA AppendElement ==
  ASSUME NEW S, NEW s \in Seq(S), NEW e \in S
  PROVE  /\ Append(s, e) \in Seq(S)
         /\ Len(Append(s, e)) \in 1..Len(Append(s, e))
         /\ Append(s, e)[Len(Append(s, e))] = e
         /\ \A k \in 1..Len(s) :
              k \in 1..Len(Append(s, e)) /\ Append(s, e)[k] = s[k]
         /\ \A k \in 1..Len(Append(s, e)) :
              \/ k \in 1..Len(s)
              \/ k = Len(Append(s, e))
<1>1. Len(s) \in Nat
  BY LenProperties
<1>2. /\ Append(s, e) \in Seq(S) /\ Len(Append(s, e)) = Len(s) + 1
      /\ \A k \in 1..Len(s) : Append(s, e)[k] = s[k]
      /\ Append(s, e)[Len(s) + 1] = e
  BY AppendProperties
<1> PICK m \in Nat : m = Len(s)
  BY <1>1
<1> QED
  BY <1>2

(* A queue after its first element was taken.                              *)
LEMMA TailElement ==
  ASSUME NEW S, NEW s \in Seq(S), s # <<>>
  PROVE  /\ Tail(s) \in Seq(S) /\ Head(s) \in S
         /\ 1 \in 1..Len(s) /\ s[1] = Head(s)
         /\ \A k \in 1..Len(Tail(s)) :
              /\ k + 1 \in 1..Len(s) /\ k + 1 # 1
              /\ Tail(s)[k] = s[k + 1]
         /\ \A k \in 1..Len(s) :
              \/ k = 1
              \/ k - 1 \in 1..Len(Tail(s)) /\ Tail(s)[k - 1] = s[k]
<1>1. Len(s) \in Nat /\ Len(s) # 0
  BY LenProperties, EmptySeq
<1>2. /\ Head(s) \in S /\ Tail(s) \in Seq(S) /\ Len(Tail(s)) = Len(s) - 1
      /\ \A k \in 1..Len(Tail(s)) : Tail(s)[k] = s[k + 1]
  BY HeadTailProperties
<1>3. Head(s) = s[1]
  BY <1>1
<1> PICK m \in Nat \ {0} : m = Len(s)
  BY <1>1
<1> QED
  BY <1>2, <1>3

-----------------------------------------------------------------------------
(* Sizes.                                                                  *)

(* A payload of some bytes has some units.                                 *)
LEMMA SomeUnits ==
  ASSUME NEW n \in Nat
  PROVE  /\ UnitsOf(n) \in Nat
         /\ n > 0 <=> UnitsOf(n) > 0
BY DEF UnitsOf, MaxUnits, HalfRequest

(* A message is a request and units that are none.                         *)
LEMMA MessageElement ==
  ASSUME NEW i \in Inv
  PROVE  /\ Payload(i) \in Seq(Unit) /\ Len(Payload(i)) = Units(i)
         /\ \A k \in 1..Len(Payload(i)) : Payload(i)[k] = <<"body", i>>
<1>1. Units(i) \in Nat
  BY SomeUnits, ExecAssumption DEF Units
<1>2. <<"body", i>> \in Unit
  BY DEF Unit
<1>3. Payload(i) \in Seq(Unit)
  BY <1>1, <1>2 DEF Payload
<1>4. DOMAIN Payload(i) = 1..Units(i)
  BY DEF Payload
<1>5. Len(Payload(i)) = Units(i)
  BY <1>1, <1>3, <1>4, LenProperties
<1> QED
  BY <1>3, <1>5 DEF Payload

(* A request is two units, the first of which begins it.                   *)
LEMMA RequestElement ==
  ASSUME NEW i \in Inv \cup {None}
  PROVE  /\ Request(i) \in Seq(Unit) /\ Len(Request(i)) = 2
         /\ Request(i)[1] = <<"head", i>> /\ Request(i)[2] = <<"rest", i>>
BY DEF Request, Unit

(* There are as many threads as the largest pool has.                      *)
LEMMA AddrSize ==
  /\ IsFiniteSet(Thread) /\ Thread \subseteq Nat \ {0}
  /\ Cardinality(Thread) \in Nat /\ Cardinality(Inv) \in Nat
  /\ \A m \in MaxFunctions : m \in Nat \ {0} /\ m <= Cardinality(Thread)
<1>1. \A m \in MaxFunctions : m \in Nat \ {0} /\ IsFiniteSet(1..m)
  BY ExecAssumption, FS_Interval
<1>2. IsFiniteSet({1..m : m \in MaxFunctions})
  <2> DEFINE f == [m \in MaxFunctions |-> 1..m]
  <2>1. f \in Surjection(MaxFunctions, {1..m : m \in MaxFunctions})
    BY DEF Surjection
  <2> QED
    BY <2>1, FS_Surjection, ExecAssumption
<1>3. \A T \in {1..m : m \in MaxFunctions} : IsFiniteSet(T)
  BY <1>1
<1>4. IsFiniteSet(Thread)
  BY <1>2, <1>3, FS_UNION DEF Thread
<1>5. \A m \in MaxFunctions : m <= Cardinality(Thread)
  <2> TAKE m \in MaxFunctions
  <2>1. 1..m \in SUBSET Thread
    BY DEF Thread
  <2>2. Cardinality(1..m) <= Cardinality(Thread)
    BY <1>4, <2>1, FS_Subset
  <2>3. Cardinality(1..m) = m
    BY <1>1, FS_Interval
  <2> QED
    BY <2>2, <2>3
<1>6. Thread \subseteq Nat \ {0}
  BY <1>1 DEF Thread
<1> QED
  BY <1>1, <1>4, <1>5, <1>6, ExecAssumption, FS_CardinalityType

-----------------------------------------------------------------------------
(* What a step of the session reads and takes.                             *)

(* Stream is one of the two connections.                                   *)
LEMMA StreamType ==
  ASSUME TypeOK
  PROVE  Stream \in Seq(Unit) /\ Len(Stream) \in Nat
<1>1. Stream \in Seq(Unit)
  BY DEF TypeOK, Stream
<1> QED
  BY <1>1, LenProperties

(* A request that is read was at the start of the stream, and has not been *)
(* read before.                                                            *)
LEMMA ReadsRequest ==
  ASSUME TypeOK, NEW i \in Inv \cup {None}, ReadRequest(i)
  PROVE  /\ 2 \in 0..Len(Stream) /\ 1 \in 1..Len(Stream)
         /\ 2 \in 1..Len(Stream)
         /\ Stream[1] = <<"head", i>> /\ Stream[2] = <<"rest", i>>
         /\ i \in Inv => Pending(i)
<1>1. Stream \in Seq(Unit) /\ Len(Stream) \in Nat
  BY StreamType
<1>2. Len(Stream) >= 2 /\ SubSeq(Stream, 1, 2) = Request(i)
  BY DEF ReadRequest
<1>3. \A k \in 1..2 : Stream[k] \in Unit
  BY <1>1, <1>2, ElementOfSeq
<1>4. \A k \in 1..(2 - 1 + 1) : SubSeq(Stream, 1, 2)[k] = Stream[1 + k - 1]
  BY <1>3, SubSeqProperties
<1>5. /\ SubSeq(Stream, 1, 2)[1] = Stream[1 + 1 - 1]
      /\ SubSeq(Stream, 1, 2)[2] = Stream[1 + 2 - 1]
  BY <1>4
<1>6. Stream[1] = <<"head", i>> /\ Stream[2] = <<"rest", i>>
  BY <1>2, <1>5, RequestElement
<1>7. 2 \in 0..Len(Stream) /\ 1 \in 1..Len(Stream) /\ 2 \in 1..Len(Stream)
  BY <1>1, <1>2
<1>8. Written(Stream, i)
  BY <1>6, <1>7 DEF Written
<1>9. Pending(i)
  BY <1>8 DEF Pending, Stream
<1> QED
  BY <1>6, <1>7, <1>9

(* Announced is a size.                                                    *)
LEMMA AnnouncedSize ==
  ASSUME NEW i \in Inv
  PROVE  /\ Announced(i) \in Nat
         /\ Announced(i) > 0 => Bytes[i] > 0
         /\ Bytes[i] \in Nat /\ Units(i) \in Nat
         /\ Announced(i) > 0 => Units(i) > 0
<1>1. Bytes[i] \in Nat
  BY ExecAssumption
<1>2. PICK n \in Nat : n = Bytes[i]
  BY <1>1
<1>3. n % 65536 \in Nat /\ (n = 0 => n % 65536 = 0)
  OBVIOUS
<1>4. Announced(i) \in Nat /\ (Announced(i) > 0 => n > 0)
  BY <1>2, <1>3 DEF Announced
<1> QED
  BY <1>1, <1>2, <1>4, SomeUnits DEF Units

(* The addresses of the buffers that are in use.                           *)
LEMMA LiveType ==
  ASSUME TypeOK
  PROVE  /\ \A k \in 1..Len(_buffers) :
              _buffers[k] \in Buffer /\ _buffers[k].val \in InUse
         /\ \A k \in 1..Len(tasks) :
              /\ tasks[k].buf \in Buffer
              /\ tasks[k].buf.val \in InUse /\ tasks[k].buf.val \in Live
         /\ \A t \in Thread : Busy(t) =>
              /\ thread[t].buf \in Buffer /\ thread[t].buf.val \in InUse
         /\ rx # None => rx.buf \in Buffer /\ rx.buf.val \in InUse
         /\ \A b \in Buffer : b.val \in Addr \cup {0}
         /\ InUse \subseteq Addr \cup {0}
<1>1. _buffers \in Seq(Buffer) /\ tasks \in Seq(Task)
  BY DEF TypeOK
<1>2. DOMAIN _buffers = 1..Len(_buffers) /\ DOMAIN tasks = 1..Len(tasks)
  BY <1>1, LenProperties
<1>3. /\ \A k \in 1..Len(_buffers) : _buffers[k] \in Buffer
      /\ \A k \in 1..Len(tasks) : tasks[k] \in Task
  BY <1>1, ElementOfSeq
<1>4. \A t \in Thread : Busy(t) => thread[t] \in Running
  BY DEF TypeOK, Busy
<1>5. rx # None => rx \in Receipt
  BY DEF TypeOK
<1>6. \A b \in Buffer : b.val \in Addr \cup {0}
  BY DEF Buffer, Null
<1>7. \A k \in 1..Len(tasks) : tasks[k].buf \in Buffer
  BY <1>3 DEF Task
<1>8. \A t \in Thread : Busy(t) => thread[t].buf \in Buffer
  BY <1>4 DEF Running
<1>9. rx # None => rx.buf \in Buffer
  BY <1>5 DEF Receipt
<1>10. \A k \in 1..Len(_buffers) : _buffers[k].val \in Live
  BY <1>2 DEF Live
<1>11. \A k \in 1..Len(tasks) : tasks[k].buf.val \in Live
  BY <1>2 DEF Live
<1>12. \A t \in Thread : Busy(t) => thread[t].buf.val \in Live
  BY DEF Live, Busy
<1>13. \A a \in Live : \/ \E k \in 1..Len(_buffers) : a = _buffers[k].val
                       \/ \E k \in 1..Len(tasks) : a = tasks[k].buf.val
                       \/ \E t \in Thread : Busy(t) /\ a = thread[t].buf.val
  BY <1>2 DEF Live, Busy
<1>14. Live \subseteq Addr \cup {0}
  BY <1>3, <1>6, <1>7, <1>8, <1>13
<1>15. Live \subseteq InUse /\ (rx # None => rx.buf.val \in InUse)
  BY DEF InUse
<1>16. InUse \subseteq Addr \cup {0}
  BY <1>6, <1>9, <1>14 DEF InUse
<1> QED
  BY <1>3, <1>6, <1>7, <1>8, <1>9, <1>10, <1>11, <1>12, <1>15, <1>16

(* operator new finds memory for a request that was not read before.       *)
LEMMA FreshExists ==
  ASSUME TypeOK, Room, NEW i \in Inv, Pending(i)
  PROVE  Fresh \in Addr /\ Fresh \notin Live
<1> DEFINE F == 0..(2 * max_functions)
           N == 2 * Cardinality(Thread) + Cardinality(Inv)
<1>1. /\ Cardinality(Thread) \in Nat /\ Cardinality(Inv) \in Nat
      /\ max_functions \in Nat /\ max_functions <= Cardinality(Thread)
  BY AddrSize DEF TypeOK
<1>2. N \in Nat /\ Addr = 1..N
  BY <1>1 DEF Addr
<1>3. IsFiniteSet(0..N) /\ Cardinality(0..N) = N + 1
  BY <1>2, FS_Interval
<1>4. Added \in SUBSET (0..N)
  BY <1>2, LiveType DEF Added
<1>5. IsFiniteSet(Added) /\ Cardinality(Added) \in Nat
  BY <1>3, <1>4, FS_Subset, FS_CardinalityType
<1>6. Unread \in SUBSET Inv
  BY DEF Unread
<1>7. IsFiniteSet(Unread) /\ Cardinality(Unread) \in Nat
  BY <1>6, ExecAssumption, FS_Subset, FS_CardinalityType
<1>8. Unread # {}
  BY DEF Unread
<1>9. Cardinality(Unread) # 0
  BY <1>7, <1>8, FS_EmptySet
<1>10. IsFiniteSet(F) /\ Cardinality(F) = 2 * max_functions + 1
  <2>1. PICK z \in Nat : z = 2 * max_functions
    BY <1>1
  <2>2. IsFiniteSet(0..z) /\ Cardinality(0..z) = z - 0 + 1
    BY FS_Interval
  <2> QED
    BY <2>1, <2>2
<1>11. /\ IsFiniteSet(F \cup Added)
       /\ Cardinality(F \cup Added) =
            Cardinality(F) + Cardinality(Added) - Cardinality(F \cap Added)
  BY <1>5, <1>10, FS_Union
<1>12. F \cap Added = {}
  BY DEF Added
<1>13. Cardinality(F \cap Added) = 0
  BY <1>12, FS_EmptySet
<1>14. Cardinality(F \cup Added) < N + 1
  <2>1. PICK x \in Nat, y \in Nat, f \in Nat :
          x = Cardinality(Added) /\ y = Cardinality(Unread) /\
          f = Cardinality(F)
    BY <1>1, <1>5, <1>7, <1>10
  <2>2. x + y <= Cardinality(Inv)
    BY <2>1 DEF Room
  <2>3. Cardinality(F \cup Added) = f + x
    BY <1>5, <1>11, <1>13, <2>1
  <2>4. y # 0 /\ f = 2 * max_functions + 1
    BY <1>9, <1>10, <2>1
  <2> HIDE DEF F
  <2> QED
    BY <1>1, <2>2, <2>3, <2>4
<1>15. ~(0..N \subseteq F \cup Added)
  <2> SUFFICES ASSUME 0..N \in SUBSET (F \cup Added)
               PROVE  FALSE
    OBVIOUS
  <2>1. Cardinality(0..N) <= Cardinality(F \cup Added)
    BY <1>11, FS_Subset
  <2>2. Cardinality(F \cup Added) \in Nat
    BY <1>11, FS_CardinalityType
  <2> QED
    BY <1>2, <1>3, <1>14, <2>1, <2>2
<1>16. PICK a \in 0..N : a \notin F \cup Added
  BY <1>15
<1>17. a \in Addr /\ a \notin InUse
  <2>1. a \notin InUse
    BY <1>16 DEF Added
  <2>2. a # 0
    BY <1>1, <1>16
  <2> QED
    BY <1>2, <2>1, <2>2
<1>18. a \notin Live
  BY <1>17 DEF InUse
<1> QED
  BY <1>17, <1>18 DEF Fresh

(* retrieve_buffer returns a buffer; and one with a size has memory, that  *)
(* of the first in the queue or memory nobody uses.                        *)
LEMMA RetrievedType ==
  ASSUME TypeOK, Room, NEW i \in Inv, Pending(i), NEW n \in Nat, n > 0
  PROVE  /\ Retrieved(n) \in Buffer
         /\ Retrieved(n).size > 0 =>
              /\ Retrieved(n).val # 0 /\ _buffers # <<>>
              /\ \/ Retrieved(n).val = Head(_buffers).val
                 \/ /\ Head(_buffers).val = 0
                    /\ Retrieved(n).val \in Addr
                    /\ Retrieved(n).val \notin Live
         /\ Retrieved(n).size = 0 =>
              _buffers = <<>> \/ Head(_buffers).val = 0
<1>1. Fresh \in Addr /\ Fresh \notin Live
  BY FreshExists
<1>2. \A b \in Buffer : /\ b.val = 0 <=> b.size = 0
                        /\ b.val \in Addr \cup {0} /\ b.size \in Nat
  BY AddrSize DEF Buffer, Null, Addr
<1>3. 0 \notin Addr
  BY AddrSize DEF Addr
<1>4. CASE _buffers = <<>>
  <2>1. Retrieved(n) = Null
    BY <1>4 DEF Retrieved
  <2> QED
    BY <1>4, <2>1 DEF Buffer, Null
<1>5. CASE _buffers # <<>>
  <2> DEFINE b == Head(_buffers)
  <2>1. b \in Buffer
    BY <1>5, HeadTailProperties DEF TypeOK
  <2>2. CASE Len(_buffers) < n
    <3>1. Retrieved(n) = [val |-> IF b.val = 0 THEN Fresh ELSE b.val,
                          size |-> n]
      BY <1>5, <2>2 DEF Retrieved
    <3> HIDE DEF b
    <3>2. (IF b.val = 0 THEN Fresh ELSE b.val) \in Addr
      BY <1>1, <1>2, <2>1
    <3>3. Retrieved(n) \in Buffer
      BY <3>1, <3>2 DEF Buffer
    <3>4. Retrieved(n).val # 0 /\ Retrieved(n).size = n
      BY <1>3, <3>1, <3>2
    <3>5. \/ Retrieved(n).val = b.val
          \/ b.val = 0 /\ Retrieved(n).val = Fresh
      BY <3>1
    <3> QED
      BY <1>1, <1>5, <3>3, <3>4, <3>5 DEF b
  <2>3. CASE ~(Len(_buffers) < n)
    <3>1. Retrieved(n) = b
      BY <1>5, <2>3 DEF Retrieved
    <3> HIDE DEF b
    <3> QED
      BY <1>2, <1>5, <2>1, <3>1 DEF b
  <2> QED
    BY <2>2, <2>3
<1> QED
  BY <1>4, <1>5

(* A read takes from the front of the stream it is about.                  *)
LEMMA Consumed ==
  ASSUME TypeOK, NEW n \in 0..Len(Stream), Consume(n)
  PROVE  \/ /\ phase = "first" /\ n \in 0..Len(cpIn)
            /\ cpIn' = Cut(cpIn, n) /\ dpIn' = dpIn
         \/ /\ phase # "first" /\ n \in 0..Len(dpIn)
            /\ dpIn' = Cut(dpIn, n) /\ cpIn' = cpIn
BY DEF Consume, Stream, Cut

(* The read of receive, whatever comes of it.                              *)
Reads(n) ==
  /\ Consume(n) \/ UNCHANGED <<cpIn, dpIn>>
  /\ n \in 0..Len(Stream)
  /\ UNCHANGED clientVars

(* What a step may do to the streams.                                      *)
Emptied == /\ cpIn' = cpIn \/ cpIn' = <<>>
           /\ dpIn' = dpIn \/ dpIn' = <<>>
           /\ unsent' = unsent \/ unsent' = {}
           /\ owing' = owing \/ (owing' = None /\ dp' # "open")

(* What a step does to the streams: it empties some, it reads the front of *)
(* one, or the client writes.                                              *)
LEMMA StreamStep ==
  ASSUME TypeOK, [Next]_vars
  PROVE  \/ Emptied
         \/ \E n \in 0..Len(Stream) : Reads(n)
         \/ \E i \in Inv : ClientRequest(i)
         \/ ClientPayload
<1>0. Len(Stream) \in Nat
  BY StreamType
<1>1. CASE UNCHANGED vars
  BY <1>1 DEF vars, clientVars, Emptied
<1>2. CASE Start \/ StartFails \/ LoadFails \/ Crash \/ ClientLeaves
  BY <1>2 DEF Start, StartFails, LoadFails, Crash, Exit, ClientLeaves,
     clientVars, Emptied
<1>3. CASE ReadEof \/ ReadError \/ Finish
  BY <1>3 DEF ReadEof, ReadError, Finish, clientVars, Emptied
<1>4. ASSUME NEW n \in 1..2, ReadUnknown(n)
      PROVE  n \in 0..Len(Stream) /\ Reads(n)
  BY <1>0, <1>4 DEF ReadUnknown, Reads
<1>5. ASSUME NEW i \in Inv \cup {None}, ReadRequest(i), UNCHANGED clientVars
      PROVE  2 \in 0..Len(Stream) /\ Reads(2)
  BY <1>5, ReadsRequest DEF ReadRequest, Reads
<1>6. CASE ReceiveEmpty
  BY <1>5, <1>6 DEF ReceiveEmpty
<1>7. ASSUME NEW i \in Inv, ReceiveBare(i) \/ ReceiveHeader(i)
                                \/ ReceiveRefused(i)
      PROVE  2 \in 0..Len(Stream) /\ Reads(2)
  BY <1>5, <1>7 DEF ReceiveBare, ReceiveHeader, ReceiveRefused
<1>8. ASSUME NEW n \in Int, ReceivePayload(n)
      PROVE  \E l \in 0..Len(Stream) : Reads(l)
  <2>1. CASE n <= Len(Stream) /\ n > 0
    <3>1. n \in 0..Len(Stream)
      BY <1>0, <2>1
    <3> QED
      BY <1>8, <2>1, <3>1 DEF ReceivePayload, Reads
  <2>2. CASE ~(n <= Len(Stream) /\ n > 0)
    <3>1. 0 \in 0..Len(Stream)
      BY <1>0
    <3> QED
      BY <1>8, <2>2, <3>1 DEF ReceivePayload, Reads
  <2> QED
    BY <2>1, <2>2
<1>9. ASSUME NEW n \in -1..(IF rx = None THEN -2 ELSE Units(rx.inv)),
             ReceivePayload(n)
      PROVE  \E l \in 0..Len(Stream) : Reads(l)
  <2>1. rx # None => Units(rx.inv) \in Nat
    BY AnnouncedSize DEF TypeOK, Receipt
  <2>2. n \in Int
    BY <2>1
  <2> QED
    BY <1>8, <1>9, <2>2
<1>10. ASSUME NEW t \in Thread, Worker(t)
       PROVE  Emptied
  BY <1>10 DEF Worker, TakeTask, FindFunction, UnknownFunction, SendHeader,
     SendData, mark_end, return_buffer, clientVars, Emptied
<1> QED
  BY <1>1, <1>2, <1>3, <1>4, <1>6, <1>7, <1>9, <1>10 DEF Next, Main, Client

(* What receive is about to read of a payload.                             *)
LEMMA PayloadSize ==
  ASSUME TypeOK, rx # None
  PROVE  /\ rx \in Receipt /\ rx.inv \in Inv /\ rx.buf \in Buffer
         /\ Units(rx.inv) \in Nat
         /\ \A n \in -1..(IF rx = None THEN -2 ELSE Units(rx.inv)) : n \in Int
<1>1. rx \in Receipt
  BY DEF TypeOK
<1>2. rx.inv \in Inv /\ rx.buf \in Buffer
  BY <1>1 DEF Receipt
<1> QED
  BY <1>1, <1>2, AnnouncedSize

-----------------------------------------------------------------------------
(* Types.                                                                  *)

(* An item is written to the client, or not.                               *)
LEMMA SendType ==
  ASSUME TypeOK, NEW k \in Kind, NEW i \in Inv \cup {None}, send(k, i)
  PROVE  wire' \in Item \cup {None} /\ replies' \in [Inv -> Seq(Kind)]
<1>1. CASE dp = "open"
  <2>1. wire' = [kind |-> k, inv |-> i]
    BY <1>1 DEF send
  <2>2. wire' \in Item
    BY <2>1 DEF Item
  <2>3. \A j \in Inv : Append(replies[j], k) \in Seq(Kind)
    BY AppendProperties DEF TypeOK
  <2>4. replies' \in [Inv -> Seq(Kind)]
    BY <1>1, <2>3 DEF send, TypeOK
  <2> QED
    BY <2>2, <2>4
<1> QED
  BY <1>1 DEF send, outVars, TypeOK

(* The streams keep their type.                                            *)
LEMMA StreamsTyped ==
  ASSUME TypeOK, [Next]_vars
  PROVE  /\ cpIn' \in Seq(Unit) /\ dpIn' \in Seq(Unit)
         /\ owing' \in Inv \cup {None} /\ unsent' \subseteq Inv
<1>1. cpIn \in Seq(Unit) /\ dpIn \in Seq(Unit)
  BY DEF TypeOK
<1>2. CASE Emptied
  <2>1. <<>> \in Seq(Unit)
    BY EmptySeq
  <2>2. cpIn' \in Seq(Unit) /\ dpIn' \in Seq(Unit)
    BY <1>1, <1>2, <2>1 DEF Emptied
  <2> QED
    BY <1>2, <2>2 DEF Emptied, clientVars, TypeOK
<1>3. ASSUME NEW n \in 0..Len(Stream), Reads(n)
      PROVE  cpIn' \in Seq(Unit) /\ dpIn' \in Seq(Unit)
  <2>1. CASE UNCHANGED <<cpIn, dpIn>>
    BY <1>1, <2>1
  <2>2. CASE Consume(n)
    BY <1>1, <2>2, Consumed, CutElement
  <2> QED
    BY <1>3, <2>1, <2>2 DEF Reads
<1>4. ASSUME NEW n \in 0..Len(Stream), Reads(n)
      PROVE  owing' \in Inv \cup {None} /\ unsent' \subseteq Inv
  BY <1>4 DEF Reads, clientVars, TypeOK
<1>5. ASSUME NEW i \in Inv, ClientRequest(i)
      PROVE  /\ cpIn' \in Seq(Unit) /\ dpIn' \in Seq(Unit)
             /\ owing' \in Inv \cup {None} /\ unsent' \subseteq Inv
  BY <1>1, <1>5, RequestElement, ConcatProperties DEF ClientRequest, TypeOK
<1>6. CASE ClientPayload
  BY <1>1, <1>6, MessageElement, ConcatProperties DEF ClientPayload, TypeOK
<1> QED
  BY <1>2, <1>3, <1>4, <1>5, <1>6, StreamStep

(* The rest of the types, of what one action changes.                      *)
Rest ==
  /\ max_functions \in MaxFunctions
  /\ phase \in {"starting", "first", "loop", "waiting", "ended", "dead"}
  /\ rx \in Receipt \cup {None}
  /\ dp \in {"none", "open", "closed", "reset"}
  /\ _buffers \in Seq(Buffer)
  /\ mem \in [Addr -> Inv \cup {None}]
  /\ tasks \in Seq(Task)
  /\ thread \in [Thread -> Running \cup {None}]
  /\ wire \in Item \cup {None} /\ replies \in [Inv -> Seq(Kind)]

(* The queue of buffers after retrieve_buffer.                             *)
LEMMA PoppedType ==
  ASSUME TypeOK
  PROVE  Popped \in Seq(Buffer)
BY HeadTailProperties DEF TypeOK, Popped

(* What a thread of the pool runs.                                         *)
LEMMA RunningType ==
  ASSUME TypeOK, NEW t \in Thread, Busy(t)
  PROVE  /\ thread[t] \in Running /\ thread[t].inv \in Inv
         /\ thread[t].buf \in Buffer /\ thread[t].sends \in 0..MaxSends
<1>1. thread[t] \in Running
  BY DEF TypeOK, Busy
<1> QED
  BY <1>1 DEF Running

(* A thread that goes on keeps what it runs.                               *)
LEMMA GotoType ==
  ASSUME TypeOK, NEW t \in Thread, Busy(t),
         NEW l \in {"start", "run", "data", "return"}, Goto(t, l)
  PROVE  /\ thread' \in [Thread -> Running \cup {None}]
         /\ thread' = [thread EXCEPT ![t] = [thread[t] EXCEPT !.pc = l]]
<1>1. thread[t] \in Running
  BY RunningType
<1>2. [thread[t] EXCEPT !.pc = l] \in Running
  BY <1>1 DEF Running
<1>3. thread' = [thread EXCEPT ![t] = [thread[t] EXCEPT !.pc = l]]
  BY DEF Goto
<1> QED
  BY <1>2, <1>3 DEF TypeOK

(* Steps of receive.                                                       *)
LEMMA MainTyped ==
  ASSUME TypeOK, Room, Main
  PROVE  Rest'
<1> USE DEF Rest
<1>1. CASE ReadEof \/ ReadError
  BY <1>1 DEF ReadEof, ReadError, AfterEof, mainVars, poolVars, outVars, TypeOK
<1>2. CASE ReceiveEmpty
  BY <1>2 DEF ReceiveEmpty, poolVars, outVars, TypeOK
<1>3. CASE Finish
  <2>1. <<>> \in Seq(Buffer) /\ [a \in Addr |-> None] \in
                                [Addr -> Inv \cup {None}]
    BY EmptySeq
  <2> QED
    BY <1>3, <2>1 DEF Finish, poolVars, outVars, TypeOK
<1>4. ASSUME NEW n \in 1..2, ReadUnknown(n)
      PROVE  Rest'
  <2>1. wire' \in Item \cup {None} /\ replies' \in [Inv -> Seq(Kind)]
    BY <1>4, SendType DEF ReadUnknown, Kind
  <2> QED
    BY <1>4, <2>1 DEF ReadUnknown, poolVars, TypeOK
<1>5. ASSUME NEW i \in Inv, ReceiveBare(i)
      PROVE  Rest'
  <2>1. [inv |-> i, got |-> 0, buf |-> Null] \in Task
    BY DEF Task, Buffer
  <2>2. tasks' \in Seq(Task)
    BY <1>5, <2>1, AppendProperties DEF ReceiveBare, TypeOK
  <2> QED
    BY <1>5, <2>2 DEF ReceiveBare, outVars, TypeOK
<1>6. ASSUME NEW i \in Inv, ReceiveHeader(i)
      PROVE  Rest'
  <2>1. Pending(i) /\ Announced(i) \in Nat /\ Announced(i) > 0
    BY <1>6, ReadsRequest, AnnouncedSize DEF ReceiveHeader
  <2>2. Retrieved(Announced(i)) \in Buffer
    BY <2>1, RetrievedType
  <2>3. rx' \in Receipt
    BY <1>6, <2>2 DEF ReceiveHeader, Receipt
  <2> QED
    BY <1>6, <2>3, PoppedType DEF ReceiveHeader, poolVars, outVars, TypeOK
<1>7. ASSUME NEW i \in Inv, ReceiveRefused(i)
      PROVE  Rest'
  <2>1. wire' \in Item \cup {None} /\ replies' \in [Inv -> Seq(Kind)]
    BY <1>7, SendType DEF ReceiveRefused, Kind
  <2> QED
    BY <1>7, <2>1, PoppedType DEF ReceiveRefused, poolVars, TypeOK
<1>8. ASSUME NEW n \in -1..(IF rx = None THEN -2 ELSE Units(rx.inv)),
             ReceivePayload(n)
      PROVE  Rest'
  <2>1. /\ rx.inv \in Inv /\ rx.buf \in Buffer /\ n \in Int
    BY <1>8, PayloadSize DEF ReceivePayload
  <2>2. [inv |-> rx.inv, got |-> n, buf |-> rx.buf] \in Task
    BY <2>1 DEF Task
  <2>3. tasks' \in Seq(Task)
    BY <1>8, <2>2, AppendProperties DEF ReceivePayload, TypeOK
  <2>4. Stream # <<>> => Head(Stream)[2] \in Inv \cup {None}
    BY StreamType, HeadTailProperties DEF Unit
  <2>5. n > 0 /\ n <= Len(Stream) => Stream # <<>>
    BY <2>1, EmptySeq
  <2>6. mem' \in [Addr -> Inv \cup {None}]
    BY <1>8, <2>1, <2>4, <2>5 DEF ReceivePayload, TypeOK
  <2> QED
    BY <1>8, <2>3, <2>6 DEF ReceivePayload, outVars, TypeOK
<1> QED
  BY <1>1, <1>2, <1>3, <1>4, <1>5, <1>6, <1>7, <1>8 DEF Main

(* Steps of the pool.                                                      *)
LEMMA WorkerTyped ==
  ASSUME TypeOK, NEW t \in Thread, Worker(t)
  PROVE  Rest'
<1> USE DEF Rest
<1>1. CASE TakeTask(t)
  <2>1. Head(tasks) \in Task /\ Tail(tasks) \in Seq(Task)
    BY <1>1, HeadTailProperties DEF TakeTask, TypeOK
  <2>2. 0 \in 0..MaxSends
    BY ExecAssumption
  <2>3. [inv |-> Head(tasks).inv, got |-> Head(tasks).got,
         buf |-> Head(tasks).buf, sends |-> 0, pc |-> "start"] \in Running
    BY <2>1, <2>2 DEF Task, Running
  <2> QED
    BY <1>1, <2>1, <2>3 DEF TakeTask, mainVars, outVars, TypeOK
<1>2. CASE FindFunction(t)
  <2>1. thread' \in [Thread -> Running \cup {None}]
    BY <1>2, GotoType DEF FindFunction, At, Busy
  <2> QED
    BY <1>2, <2>1 DEF FindFunction, mainVars, outVars, TypeOK
<1>3. CASE UnknownFunction(t)
  <2>1. thread' \in [Thread -> Running \cup {None}]
    BY <1>3, GotoType DEF UnknownFunction, At, Busy, AfterError
  <2>2. thread[t].inv \in Inv
    BY <1>3, RunningType DEF UnknownFunction, At, Busy
  <2>3. wire' \in Item \cup {None} /\ replies' \in [Inv -> Seq(Kind)]
    BY <1>3, <2>2, SendType DEF UnknownFunction, Refused, Kind
  <2> QED
    BY <1>3, <2>1, <2>3 DEF UnknownFunction, mainVars, TypeOK
<1>4. CASE SendHeader(t)
  <2>1. thread[t] \in Running /\ thread[t].inv \in Inv
    BY <1>4, RunningType DEF SendHeader, At, Busy
  <2>2. PICK k \in {"empty", "header"} :
          /\ send(k, thread[t].inv)
          /\ thread' = [thread EXCEPT
                          ![t].sends = @ + 1,
                          ![t].pc = IF k = "header" /\ dp = "open" THEN "data"
                                    ELSE "run"]
    BY <1>4 DEF SendHeader
  <2>3. wire' \in Item \cup {None} /\ replies' \in [Inv -> Seq(Kind)]
    BY <2>1, <2>2, SendType DEF Kind
  <2>4. thread[t].sends + 1 \in 0..MaxSends
    BY <1>4, <2>1, ExecAssumption DEF SendHeader, Running
  <2>5. thread' \in [Thread -> Running \cup {None}]
    BY <2>1, <2>2, <2>4 DEF TypeOK, Running
  <2> QED
    BY <1>4, <2>3, <2>5 DEF SendHeader, mainVars, TypeOK
<1>5. CASE SendData(t)
  <2>1. thread' \in [Thread -> Running \cup {None}]
    BY <1>5, GotoType DEF SendData, At, Busy
  <2>2. thread[t].inv \in Inv
    BY <1>5, RunningType DEF SendData, At, Busy
  <2>3. wire' \in Item \cup {None} /\ replies' \in [Inv -> Seq(Kind)]
    BY <1>5, <2>2, SendType DEF SendData, Kind
  <2> QED
    BY <1>5, <2>1, <2>3 DEF SendData, mainVars, TypeOK
<1>6. CASE mark_end(t)
  <2>1. thread' \in [Thread -> Running \cup {None}]
    BY <1>6, GotoType DEF mark_end, At, Busy
  <2>2. thread[t].inv \in Inv
    BY <1>6, RunningType DEF mark_end, At, Busy
  <2>3. wire' \in Item \cup {None} /\ replies' \in [Inv -> Seq(Kind)]
    BY <1>6, <2>2, SendType DEF mark_end, Kind
  <2> QED
    BY <1>6, <2>1, <2>3 DEF mark_end, mainVars, TypeOK
<1>7. CASE return_buffer(t)
  <2>1. thread[t].buf \in Buffer
    BY <1>7, RunningType DEF return_buffer, At, Busy
  <2>2. _buffers' \in Seq(Buffer)
    BY <1>7, <2>1, AppendProperties DEF return_buffer, Returned, TypeOK
  <2>3. thread' \in [Thread -> Running \cup {None}]
    BY <1>7 DEF return_buffer, TypeOK
  <2>4. mem' \in [Addr -> Inv \cup {None}]
    BY <1>7 DEF return_buffer, TypeOK
  <2> QED
    BY <1>7, <2>2, <2>3, <2>4 DEF return_buffer, mainVars, outVars, TypeOK
<1> QED
  BY <1>1, <1>2, <1>3, <1>4, <1>5, <1>6, <1>7 DEF Worker

(* TypeOK is inductive but for operator new: that Fresh is an address is   *)
(* what Room says.                                                         *)
LEMMA TypeStep ==
  ASSUME TypeOK, Room, [Next]_vars
  PROVE  TypeOK'
<1>1. ASSUME UNCHANGED vars
      PROVE  Rest'
  BY <1>1 DEF vars, mainVars, poolVars, outVars, TypeOK, Rest
<1>2. ASSUME Start \/ StartFails \/ Client
      PROVE  Rest'
  BY <1>2 DEF Start, StartFails, Client, ClientRequest, ClientPayload,
     ClientLeaves, mainVars, poolVars, outVars, TypeOK, Rest
<1>3. ASSUME LoadFails \/ Crash
      PROVE  Rest'
  <2>1. <<>> \in Seq(Buffer) /\ <<>> \in Seq(Task)
    BY EmptySeq
  <2>2. Exit
    BY <1>3 DEF LoadFails, Crash
  <2> QED
    BY <2>1, <2>2 DEF Exit, outVars, TypeOK, Rest
<1>4. Rest'
  BY <1>1, <1>2, <1>3, MainTyped, WorkerTyped DEF Next
<1> QED
  BY <1>4, StreamsTyped DEF Rest, TypeOK

-----------------------------------------------------------------------------
(* A request is written once, and read once.                               *)

(* What was read is not there any more.                                    *)
LEMMA CutOnce ==
  ASSUME NEW s \in Seq(Unit), NEW n \in 0..Len(s), Once(s)
  PROVE  /\ Once(Cut(s, n))
         /\ \A i : Written(Cut(s, n), i) => Written(s, i)
         /\ \A i : n > 0 /\ s[1] = <<"head", i>> => ~Written(Cut(s, n), i)
<1> DEFINE b == Cut(s, n)
<1>1. /\ b \in Seq(Unit)
      /\ \A k \in 1..Len(b) : k + n \in 1..Len(s) /\ b[k] = s[k + n]
  BY CutElement
<1>2. n \in Nat /\ Len(s) \in Nat /\ Len(b) \in Nat
  BY <1>1, LenProperties
<1> HIDE DEF b
<1>3. Once(b)
  <2> SUFFICES ASSUME NEW j \in 1..Len(b), NEW k \in 1..Len(b),
                      b[j] = b[k], b[j][1] = "head"
               PROVE  j = k
    BY DEF Once
  <2>1. j + n = k + n
    BY <1>1 DEF Once
  <2> QED
    BY <1>2, <2>1
<1>4. ASSUME NEW i, Written(b, i)
      PROVE  \E k \in 1..Len(s) : k > n /\ s[k] = <<"head", i>>
  <2>1. PICK k \in 1..Len(b) : b[k] = <<"head", i>>
    BY <1>4 DEF Written
  <2>2. k + n \in 1..Len(s) /\ k + n > n /\ s[k + n] = <<"head", i>>
    BY <1>1, <1>2, <2>1
  <2> QED
    BY <2>2
<1>5. ASSUME NEW i, n > 0, s[1] = <<"head", i>>, Written(b, i)
      PROVE  FALSE
  <2>1. PICK k \in 1..Len(s) : k > n /\ s[k] = <<"head", i>>
    BY <1>4, <1>5
  <2>2. 1 \in 1..Len(s) /\ k # 1
    BY <1>2, <1>5, <2>1
  <2>3. s[1] = s[k] /\ s[1][1] = "head"
    BY <1>5, <2>1
  <2> QED
    BY <2>2, <2>3 DEF Once
<1> QED
  BY <1>3, <1>4, <1>5 DEF b, Written

(* The client writes a new request.                                        *)
LEMMA RequestOnce ==
  ASSUME NEW s \in Seq(Unit), NEW i \in Inv, Once(s), ~Written(s, i)
  PROVE  /\ Once(s \o Request(i))
         /\ \A j : Written(s \o Request(i), j) => Written(s, j) \/ j = i
<1> DEFINE b == s \o Request(i)
<1>0. /\ Request(i) \in Seq(Unit) /\ Len(Request(i)) = 2
      /\ Request(i)[1] = <<"head", i>> /\ Request(i)[2] = <<"rest", i>>
  BY RequestElement
<1>1. /\ b \in Seq(Unit)
      /\ \A k \in 1..Len(b) :
           \/ k \in 1..Len(s) /\ b[k] = s[k]
           \/ /\ k - Len(s) \in 1..2 /\ k > Len(s)
              /\ b[k] = Request(i)[k - Len(s)]
  BY <1>0, ConcatElement
<1>2. Len(s) \in Nat /\ Len(b) \in Nat
  BY <1>1, LenProperties
<1> HIDE DEF b
<1>3. \A k \in 1..Len(b) : b[k][1] = "head" =>
        \/ k \in 1..Len(s) /\ b[k] = s[k]
        \/ k = Len(s) + 1 /\ b[k] = <<"head", i>>
  <2> SUFFICES ASSUME NEW k \in 1..Len(b), b[k][1] = "head",
                      ~(k \in 1..Len(s) /\ b[k] = s[k])
               PROVE  k = Len(s) + 1 /\ b[k] = <<"head", i>>
    OBVIOUS
  <2>1. k - Len(s) \in 1..2 /\ b[k] = Request(i)[k - Len(s)]
    BY <1>1
  <2>2. PICK m \in 1..2 : m = k - Len(s)
    BY <2>1
  <2>3. m # 2
    BY <1>0, <2>1, <2>2
  <2>4. m = 1
    BY <2>3
  <2> QED
    BY <1>0, <1>2, <2>1, <2>2, <2>4
<1>4. \A k \in 1..Len(s) : s[k] # <<"head", i>>
  BY DEF Written
<1>5. Once(b)
  <2> SUFFICES ASSUME NEW j \in 1..Len(b), NEW k \in 1..Len(b),
                      b[j] = b[k], b[j][1] = "head"
               PROVE  j = k
    BY DEF Once
  <2> QED
    BY <1>3, <1>4 DEF Once
<1>6. ASSUME NEW j, Written(b, j)
      PROVE  Written(s, j) \/ j = i
  BY <1>3, <1>6 DEF Written
<1> QED
  BY <1>5, <1>6 DEF b

(* A payload is no request.                                                *)
LEMMA PayloadOnce ==
  ASSUME NEW s \in Seq(Unit), NEW i \in Inv, Once(s)
  PROVE  /\ Once(s \o Payload(i))
         /\ \A j : Written(s \o Payload(i), j) => Written(s, j)
<1> DEFINE b == s \o Payload(i)
<1>1. \A k \in 1..Len(b) :
        \/ k \in 1..Len(s) /\ b[k] = s[k]
        \/ b[k] = <<"body", i>>
  BY MessageElement, ConcatElement
<1> HIDE DEF b
<1>2. \A k \in 1..Len(b) : b[k][1] = "head" => k \in 1..Len(s) /\ b[k] = s[k]
  BY <1>1
<1>3. Once(b)
  BY <1>2 DEF Once
<1>4. ASSUME NEW j, Written(b, j)
      PROVE  Written(s, j)
  BY <1>2, <1>4 DEF Written
<1> QED
  BY <1>3, <1>4 DEF b

(* An empty stream.                                                        *)
LEMMA EmptyOnce == Once(<<>>) /\ \A i : ~Written(<<>>, i)
BY DEF Once, Written

(* A request is written once, and what was read is not read again.         *)
LEMMA RequestsStep ==
  ASSUME TypeOK, Requests, [Next]_vars
  PROVE  /\ Requests'
         /\ \A i \in Inv : Pending(i)' => Pending(i)
<1>0. /\ cpIn \in Seq(Unit) /\ dpIn \in Seq(Unit)
      /\ Once(cpIn) /\ Once(dpIn)
  BY DEF TypeOK, Requests
<1>1. SUFFICES /\ Once(cpIn') /\ Once(dpIn')
               /\ \A i \in Inv : Written(cpIn', i) => Written(cpIn, i)
               /\ \A i \in Inv : Written(dpIn', i) =>
                    \/ Written(dpIn, i)
                    \/ i \in unsent /\ i \notin unsent'
               /\ unsent' \subseteq unsent
  BY DEF Requests, Pending, Written, Once
<1>2. CASE Emptied
  BY <1>0, <1>2, EmptyOnce DEF Emptied, clientVars
<1>3. ASSUME NEW n \in 0..Len(Stream), Reads(n)
      PROVE  /\ Once(cpIn') /\ Once(dpIn')
             /\ \A i \in Inv : Written(cpIn', i) => Written(cpIn, i)
             /\ \A i \in Inv : Written(dpIn', i) => Written(dpIn, i)
             /\ unsent' \subseteq unsent
  <2>1. unsent' = unsent
    BY <1>3 DEF Reads, clientVars
  <2>2. CASE UNCHANGED <<cpIn, dpIn>>
    BY <1>0, <2>1, <2>2
  <2>3. CASE Consume(n)
    BY <1>0, <2>1, <2>3, Consumed, CutOnce
  <2> QED
    BY <1>3, <2>2, <2>3 DEF Reads
<1>4. ASSUME NEW i \in Inv, ClientRequest(i)
      PROVE  /\ Once(cpIn') /\ Once(dpIn') /\ cpIn' = cpIn
             /\ \A j \in Inv : Written(dpIn', j) => Written(dpIn, j) \/ j = i
             /\ i \in unsent /\ unsent' = unsent \ {i}
  <2>1. ~Written(dpIn, i)
    BY <1>4 DEF ClientRequest, Requests
  <2>2. /\ dpIn' = dpIn \o Request(i) /\ cpIn' = cpIn
        /\ i \in unsent /\ unsent' = unsent \ {i}
    BY <1>4 DEF ClientRequest
  <2> QED
    BY <1>0, <2>1, <2>2, RequestOnce
<1>5. CASE ClientPayload
  <2>1. /\ dpIn' = dpIn \o Payload(owing) /\ cpIn' = cpIn /\ unsent' = unsent
        /\ owing \in Inv
    BY <1>5 DEF ClientPayload, TypeOK
  <2> QED
    BY <1>0, <2>1, PayloadOnce
<1> QED
  BY <1>2, <1>3, <1>4, <1>5, StreamStep

(* ReadRequest(i) takes the only request of i.                             *)
LEMMA ReadOnce ==
  ASSUME TypeOK, Requests, NEW i \in Inv, ReadRequest(i), UNCHANGED clientVars
  PROVE  Pending(i) /\ ~Pending(i)'
<1>1. /\ cpIn \in Seq(Unit) /\ dpIn \in Seq(Unit)
      /\ Once(cpIn) /\ Once(dpIn)
  BY DEF TypeOK, Requests
<1>2. /\ 2 \in 0..Len(Stream) /\ Stream[1] = <<"head", i>>
      /\ Written(Stream, i) /\ Pending(i)
  BY ReadsRequest DEF Written
<1>3. Consume(2) /\ unsent' = unsent
  BY DEF ReadRequest, clientVars
<1>4. CASE phase = "first"
  <2>1. /\ cpIn' = Cut(cpIn, 2) /\ dpIn' = dpIn /\ 2 \in 0..Len(cpIn)
        /\ cpIn[1] = <<"head", i>> /\ Written(cpIn, i)
    BY <1>2, <1>3, <1>4, Consumed DEF Stream
  <2>2. ~Written(cpIn', i)
    BY <1>1, <2>1, CutOnce
  <2>3. ~Written(dpIn', i) /\ i \notin unsent'
    BY <1>3, <2>1 DEF Requests
  <2> QED
    BY <1>2, <2>2, <2>3 DEF Pending, Written
<1>5. CASE phase # "first"
  <2>1. /\ dpIn' = Cut(dpIn, 2) /\ cpIn' = cpIn /\ 2 \in 0..Len(dpIn)
        /\ dpIn[1] = <<"head", i>> /\ Written(dpIn, i)
    BY <1>2, <1>3, <1>5, Consumed DEF Stream
  <2>2. ~Written(dpIn', i)
    BY <1>1, <2>1, CutOnce
  <2>3. ~Written(cpIn', i) /\ i \notin unsent'
    BY <1>3, <2>1 DEF Requests
  <2> QED
    BY <1>2, <2>2, <2>3 DEF Pending, Written
<1> QED
  BY <1>4, <1>5

-----------------------------------------------------------------------------
(* The steps of Next, by what they do to the buffers and the pool.         *)

(* Streams and phase only.                                                 *)
Idle == UNCHANGED <<max_functions, rx, tasks, thread, _buffers, mem, replies>>

(* A thread goes on with its function.                                     *)
GoesOn(t) ==
  /\ Busy(t) /\ thread'[t] # None
  /\ thread'[t].inv = thread[t].inv /\ thread'[t].buf = thread[t].buf
  /\ thread'[t].got = thread[t].got /\ thread[t].pc # "return"
  /\ \A u \in Thread : u # t => thread'[u] = thread[u]
  /\ UNCHANGED <<max_functions, phase, rx, dp, tasks, _buffers, mem>>

(* It answers; with a final answer it is done.                             *)
Answers(t) ==
  \/ UNCHANGED replies
  \/ \E k \in Kind : /\ send(k, thread[t].inv)
                     /\ Final(k) => thread'[t].pc = "return"

(* A thread that goes on keeps its invocation and its buffer, and gives a  *)
(* final answer only on its way to return_buffer.                          *)
LEMMA GoesOnStep ==
  ASSUME TypeOK, NEW t \in Thread,
         \/ FindFunction(t) \/ UnknownFunction(t) \/ SendHeader(t)
         \/ SendData(t) \/ mark_end(t)
  PROVE  GoesOn(t) /\ Answers(t)
<1>1. Busy(t) /\ thread[t].pc # "return"
  BY DEF FindFunction, UnknownFunction, SendHeader, SendData, mark_end, At,
     Busy
<1>2. thread[t] \in Running
  BY <1>1, RunningType
<1>3. UNCHANGED <<max_functions, phase, rx, dp, tasks, _buffers, mem>>
  BY DEF FindFunction, UnknownFunction, SendHeader, SendData, mark_end,
     mainVars
<1>4. ASSUME NEW r \in Running, thread' = [thread EXCEPT ![t] = r],
             r.inv = thread[t].inv, r.buf = thread[t].buf,
             r.got = thread[t].got
      PROVE  GoesOn(t) /\ thread'[t] = r
  <2>1. thread'[t] = r /\ \A u \in Thread : u # t => thread'[u] = thread[u]
    BY <1>4 DEF TypeOK
  <2>2. r # None
    BY NoneAssumption
  <2> QED
    BY <1>1, <1>3, <1>4, <2>1, <2>2 DEF GoesOn
<1>5. ASSUME NEW l \in {"start", "run", "data", "return"}, Goto(t, l)
      PROVE  GoesOn(t) /\ thread'[t].pc = l
  <2> DEFINE r == [thread[t] EXCEPT !.pc = l]
  <2>1. r \in Running /\ r.inv = thread[t].inv /\ r.buf = thread[t].buf
        /\ r.got = thread[t].got /\ r.pc = l
    BY <1>2 DEF Running
  <2>2. thread' = [thread EXCEPT ![t] = r]
    BY <1>1, <1>5, GotoType
  <2> HIDE DEF r
  <2> QED
    BY <1>4, <2>1, <2>2
<1>6. CASE FindFunction(t)
  BY <1>5, <1>6 DEF FindFunction, outVars, Answers
<1>7. CASE UnknownFunction(t)
  BY <1>5, <1>7 DEF UnknownFunction, Refused, AfterError, Answers, Kind,
     Final
<1>8. CASE SendData(t)
  BY <1>5, <1>8 DEF SendData, Answers, Kind, Final
<1>9. CASE mark_end(t)
  BY <1>5, <1>9 DEF mark_end, Answers, Kind, Final
<1>10. CASE SendHeader(t)
  <2>1. PICK k \in {"empty", "header"} :
          /\ send(k, thread[t].inv)
          /\ thread' = [thread EXCEPT
                          ![t].sends = @ + 1,
                          ![t].pc = IF k = "header" /\ dp = "open" THEN "data"
                                    ELSE "run"]
    BY <1>10 DEF SendHeader
  <2> DEFINE r == [thread[t] EXCEPT !.sends = thread[t].sends + 1,
                     !.pc = IF k = "header" /\ dp = "open" THEN "data"
                            ELSE "run"]
  <2>2. thread[t].sends + 1 \in 0..MaxSends
    BY <1>2, <1>10, ExecAssumption DEF SendHeader, Running
  <2>3. r \in Running /\ r.inv = thread[t].inv /\ r.buf = thread[t].buf
        /\ r.got = thread[t].got
    BY <1>2, <2>2 DEF Running
  <2>4. thread' = [thread EXCEPT ![t] = r]
    BY <2>1 DEF TypeOK
  <2>5. k \in Kind /\ ~Final(k)
    BY DEF Kind, Final
  <2> HIDE DEF r
  <2> QED
    BY <1>4, <2>1, <2>3, <2>4, <2>5 DEF Answers
<1> QED
  BY <1>6, <1>7, <1>8, <1>9, <1>10

(* The steps, told apart by what they do to buffers, tasks and threads.    *)
LEMMA NextCases ==
  ASSUME TypeOK, [Next]_vars
  PROVE  \/ Idle \/ Exit \/ Finish
         \/ \E i \in Inv : ReceiveBare(i) \/ ReceiveHeader(i)
                              \/ ReceiveRefused(i)
         \/ rx # None /\ \E n \in Int : ReceivePayload(n)
         \/ \E t \in Thread : \/ TakeTask(t) \/ return_buffer(t)
                              \/ GoesOn(t) /\ Answers(t)
<1>1. CASE UNCHANGED vars
  BY <1>1 DEF vars, mainVars, poolVars, outVars, Idle
<1>2. CASE Start \/ StartFails \/ Client
  BY <1>2 DEF Start, StartFails, Client, ClientRequest, ClientPayload,
     ClientLeaves, mainVars, poolVars, outVars, Idle
<1>3. CASE LoadFails \/ Crash
  BY <1>3 DEF LoadFails, Crash
<1>4. CASE ReadEof \/ ReadError \/ ReceiveEmpty
  BY <1>4 DEF ReadEof, ReadError, ReceiveEmpty, mainVars, poolVars, outVars,
     Idle
<1>5. ASSUME NEW n \in 1..2, ReadUnknown(n)
      PROVE  Idle
  BY <1>5 DEF ReadUnknown, send, poolVars, outVars, Idle
<1>6. ASSUME NEW n \in -1..(IF rx = None THEN -2 ELSE Units(rx.inv)),
             ReceivePayload(n)
      PROVE  n \in Int /\ rx # None
  BY <1>6, PayloadSize DEF ReceivePayload
<1>7. ASSUME NEW t \in Thread, Worker(t)
      PROVE  \/ TakeTask(t) \/ return_buffer(t)
             \/ GoesOn(t) /\ Answers(t)
  BY <1>7, GoesOnStep DEF Worker
<1> QED
  BY <1>1, <1>2, <1>3, <1>4, <1>5, <1>6, <1>7 DEF Next, Main

-----------------------------------------------------------------------------
(* The main thread and the pool.                                           *)

(* Only Finish ends the session, when its threads are done, and Exit, with *)
(* them.                                                                   *)
LEMMA PhasesStep ==
  ASSUME TypeOK, Phases, [Next]_vars
  PROVE  Phases'
<1> USE DEF Phases, Busy
<1>1. CASE UNCHANGED vars
  BY <1>1 DEF vars, mainVars, clientVars, poolVars
<1>2. CASE Start \/ StartFails \/ Client
  BY <1>2 DEF Start, StartFails, Client, ClientRequest, ClientPayload,
     ClientLeaves, mainVars, poolVars, TypeOK
<1>3. CASE LoadFails \/ Crash
  BY <1>3 DEF LoadFails, Crash, Exit
<1>4. CASE ReadEof \/ ReadError \/ ReceiveEmpty
  BY <1>4 DEF ReadEof, ReadError, ReceiveEmpty, ReadRequest, Receiving,
     AfterEof, mainVars, poolVars
<1>5. ASSUME NEW n \in 1..2, ReadUnknown(n)
      PROVE  Phases'
  BY <1>5 DEF ReadUnknown, Receiving
<1>6. CASE Finish
  BY <1>6 DEF Finish, TasksDone, poolVars
<1>7. ASSUME NEW i \in Inv, ReceiveBare(i) \/ ReceiveRefused(i)
      PROVE  Phases'
  BY <1>7 DEF ReceiveBare, ReceiveRefused, ReadRequest, Receiving
<1>8. ASSUME NEW i \in Inv, ReceiveHeader(i)
      PROVE  Phases'
  BY <1>8 DEF ReceiveHeader, ReadRequest, Receiving, poolVars
<1>9. ASSUME NEW n, ReceivePayload(n)
      PROVE  Phases'
  BY <1>9 DEF ReceivePayload
<1>10. ASSUME NEW t \in Thread, Worker(t)
       PROVE  Phases'
  <2>1. UNCHANGED <<phase, rx, dpIn, owing, dp>>
    BY <1>10 DEF Worker, TakeTask, FindFunction, UnknownFunction, SendHeader,
       SendData, mark_end, return_buffer, mainVars, clientVars
  <2>2. tasks # <<>> \/ Busy(t)
    BY <1>10 DEF Worker, TakeTask, FindFunction, UnknownFunction, SendHeader,
       SendData, mark_end, return_buffer, At
  <2> QED
    BY <2>1, <2>2
<1> QED
  BY <1>1, <1>2, <1>3, <1>4, <1>5, <1>6, <1>7, <1>8, <1>9, <1>10
  DEF Next, Main

-----------------------------------------------------------------------------
(* An invocation is in one place.                                          *)

(* An answer to one invocation is no answer to another.                    *)
LEMMA SendQuiet ==
  ASSUME TypeOK, NEW k \in Kind, NEW i \in Inv, send(k, i), Quiet(i)
  PROVE  /\ \A j \in Inv : j # i /\ Quiet(j) => Quiet(j)'
         /\ ~Final(k) => Quiet(i)'
         /\ AnsweredOnce => AnsweredOnce'
<1>1. CASE UNCHANGED replies
  BY <1>1 DEF Quiet, AnsweredOnce
<1>2. CASE replies' = [replies EXCEPT ![i] = Append(replies[i], k)]
  <2> DEFINE b == replies'[i]
  <2>1. /\ b = Append(replies[i], k) /\ replies[i] \in Seq(Kind)
        /\ \A j \in Inv : j # i => replies'[j] = replies[j]
    BY <1>2 DEF TypeOK
  <2>2. /\ b \in Seq(Kind) /\ b[Len(b)] = k
        /\ \A l \in 1..Len(replies[i]) : b[l] = replies[i][l]
        /\ \A l \in 1..Len(b) : l \in 1..Len(replies[i]) \/ l = Len(b)
    BY <2>1, AppendElement
  <2>3. Len(b) \in Nat
    BY <2>2, LenProperties
  <2>4. \A j \in Inv : j # i /\ Quiet(j) => Quiet(j)'
    BY <2>1 DEF Quiet
  <2> HIDE DEF b
  <2>5. \A l \in 1..Len(b) : l # Len(b) => ~Final(b[l])
    BY <2>2 DEF Quiet
  <2>6. ~Final(k) => \A l \in 1..Len(b) : ~Final(b[l])
    BY <2>2, <2>5
  <2>7. ~Final(k) => Quiet(i)'
    BY <2>6 DEF Quiet, b, Final
  <2>8. \A l \in 1..(Len(b) - 1) : ~Final(b[l])
    BY <2>3, <2>5
  <2>9. AnsweredOnce => AnsweredOnce'
    <3> SUFFICES ASSUME AnsweredOnce, NEW j \in Inv
                 PROVE  \A l \in 1..(Len(replies'[j]) - 1) :
                          ~Final(replies'[j][l])
      BY DEF AnsweredOnce, Final
    <3>1. CASE j = i
      BY <2>8, <3>1 DEF b
    <3>2. CASE j # i
      BY <2>1, <3>2 DEF AnsweredOnce
    <3> QED
      BY <3>1, <3>2
  <2> QED
    BY <2>4, <2>7, <2>9
<1> QED
  BY <1>1, <1>2, ExecAssumption DEF send, outVars

(* The queue of the pool after a task was added, and after the first task  *)
(* was taken.                                                              *)
LEMMA TaskAdded ==
  ASSUME TypeOK, NEW e \in Task, tasks' = Append(tasks, e)
  PROVE  /\ \A k \in 1..Len(tasks) :
              k \in 1..Len(tasks') /\ tasks'[k] = tasks[k]
         /\ \A k \in 1..Len(tasks') :
              \/ k \in 1..Len(tasks) /\ tasks'[k] = tasks[k]
              \/ k = Len(tasks') /\ tasks'[k] = e
         /\ Len(tasks') \in 1..Len(tasks') /\ tasks'[Len(tasks')] = e
         /\ tasks' \in Seq(Task)
<1> DEFINE b == tasks'
<1>1. b = Append(tasks, e) /\ tasks \in Seq(Task)
  BY DEF TypeOK
<1> HIDE DEF b
<1>2. /\ b \in Seq(Task) /\ b[Len(b)] = e /\ Len(b) \in 1..Len(b)
      /\ \A l \in 1..Len(tasks) : l \in 1..Len(b) /\ b[l] = tasks[l]
      /\ \A l \in 1..Len(b) : l \in 1..Len(tasks) \/ l = Len(b)
  BY <1>1, AppendElement
<1> QED
  BY <1>2 DEF b

(* The queue of the pool after a thread took its first task.               *)
LEMMA TaskTaken ==
  ASSUME TypeOK, NEW t \in Thread, TakeTask(t)
  PROVE  /\ 1 \in 1..Len(tasks) /\ tasks[1] = Head(tasks)
         /\ Head(tasks) \in Task
         /\ \A k \in 1..Len(tasks') :
              k + 1 \in 1..Len(tasks) /\ k + 1 # 1 /\ tasks'[k] = tasks[k + 1]
         /\ \A k \in 1..Len(tasks) :
              k = 1 \/ (k - 1 \in 1..Len(tasks') /\ tasks'[k - 1] = tasks[k])
         /\ tasks' \in Seq(Task) /\ Len(tasks') \in Nat
         /\ ~Busy(t) /\ thread'[t] # None /\ thread'[t].inv = tasks[1].inv
         /\ thread'[t].buf = tasks[1].buf /\ thread'[t].got = tasks[1].got
         /\ \A u \in Thread : u # t => thread'[u] = thread[u]
         /\ UNCHANGED <<max_functions, phase, rx, dp, _buffers, mem, replies>>
<1> DEFINE b == tasks'
           h == Head(tasks)
           r == [inv |-> h.inv, got |-> h.got, buf |-> h.buf, sends |-> 0,
                 pc |-> "start"]
<1>1. b = Tail(tasks) /\ tasks \in Seq(Task) /\ tasks # <<>>
  BY DEF TakeTask, TypeOK
<1> HIDE DEF b, h
<1>2. /\ b \in Seq(Task) /\ h \in Task
      /\ 1 \in 1..Len(tasks) /\ tasks[1] = h
      /\ \A k \in 1..Len(b) :
           k + 1 \in 1..Len(tasks) /\ k + 1 # 1 /\ b[k] = tasks[k + 1]
      /\ \A k \in 1..Len(tasks) :
           k = 1 \/ (k - 1 \in 1..Len(b) /\ b[k - 1] = tasks[k])
  BY <1>1, TailElement DEF h
<1>3. Len(b) \in Nat
  BY <1>2, LenProperties
<1>4. 0 \in 0..MaxSends
  BY ExecAssumption
<1>5. r \in Running /\ r.inv = h.inv /\ r.buf = h.buf /\ r.got = h.got
  BY <1>2, <1>4 DEF Task, Running
<1>6. thread' = [thread EXCEPT ![t] = r] /\ ~Busy(t)
  BY DEF TakeTask, Busy, h
<1> HIDE DEF r
<1>7. /\ thread'[t] = r /\ r # None
      /\ \A u \in Thread : u # t => thread'[u] = thread[u]
  BY <1>5, <1>6, NoneAssumption DEF TypeOK
<1>8. UNCHANGED <<max_functions, phase, rx, dp, _buffers, mem, replies>>
  BY DEF TakeTask, mainVars, outVars
<1> QED
  BY <1>2, <1>3, <1>5, <1>6, <1>7, <1>8 DEF b, h

(* What is left of Taken when nothing is moved.                            *)
LEMMA TakenSame ==
  ASSUME Taken, \A i \in Inv : Pending(i)' => Pending(i),
         UNCHANGED <<rx, tasks, thread, replies>>
  PROVE  Taken'
BY DEF Taken, InRx, InTask, InThread, Quiet, Busy

(* An invocation moves from the stream to receive, to the pool, to a       *)
(* thread and out; only the step that takes it out answers for good.       *)
LEMMA TakenStep ==
  ASSUME TypeOK, Requests, Taken, AnsweredOnce, [Next]_vars
  PROVE  Taken' /\ AnsweredOnce'
<1>0. \A i \in Inv : Pending(i)' => Pending(i)
  BY RequestsStep
<1>1. CASE Idle \/ Finish
  BY <1>0, <1>1, TakenSame DEF Idle, Finish, poolVars, outVars, AnsweredOnce
<1>2. CASE Exit
  <2>1. /\ rx' = None /\ tasks' = <<>> /\ replies' = replies
        /\ \A t \in Thread : thread'[t] = None
    BY <1>2 DEF Exit, outVars
  <2> QED
    BY <1>0, <2>1
    DEF Taken, InRx, InTask, InThread, Quiet, Busy, AnsweredOnce
<1>3. ASSUME NEW i \in Inv, ReceiveBare(i)
      PROVE  Taken' /\ AnsweredOnce'
  <2> DEFINE e == [inv |-> i, got |-> 0, buf |-> Null]
  <2>1. Pending(i) /\ ~Pending(i)'
    BY <1>3, ReadOnce DEF ReceiveBare
  <2>2. e \in Task /\ e.inv = i
    BY DEF Task, Buffer
  <2>3. tasks' = Append(tasks, e) /\ UNCHANGED <<rx, thread, replies>>
    BY <1>3 DEF ReceiveBare, outVars
  <2> HIDE DEF e
  <2>4. /\ \A k \in 1..Len(tasks') :
             \/ k \in 1..Len(tasks) /\ tasks'[k] = tasks[k]
             \/ k = Len(tasks') /\ tasks'[k] = e
    BY <2>2, <2>3, TaskAdded
  <2>5. \A j \in Inv : InTask(j)' => InTask(j) \/ j = i
    BY <2>2, <2>4 DEF InTask
  <2>6. ~InTask(i) /\ ~InRx(i) /\ ~InThread(i) /\ Quiet(i)
    BY <2>1 DEF Taken
  <2>7. \A j, k \in 1..Len(tasks') : tasks'[j].inv = tasks'[k].inv => j = k
    BY <2>2, <2>4, <2>6 DEF Taken, InTask
  <2> QED
    BY <1>0, <2>1, <2>3, <2>5, <2>6, <2>7
    DEF Taken, InRx, InThread, Quiet, Busy, AnsweredOnce
<1>4. ASSUME NEW i \in Inv, ReceiveHeader(i)
      PROVE  Taken' /\ AnsweredOnce'
  <2>1. Pending(i) /\ ~Pending(i)'
    BY <1>4, ReadOnce DEF ReceiveHeader
  <2>2. rx'.inv = i /\ UNCHANGED <<tasks, thread, replies>>
    BY <1>4 DEF ReceiveHeader, poolVars, outVars
  <2>3. ~InTask(i) /\ ~InThread(i) /\ Quiet(i)
    BY <2>1 DEF Taken
  <2> QED
    BY <1>0, <2>1, <2>2, <2>3
    DEF Taken, InRx, InTask, InThread, Quiet, Busy, AnsweredOnce
<1>5. ASSUME NEW i \in Inv, ReceiveRefused(i)
      PROVE  Taken' /\ AnsweredOnce'
  <2>1. Pending(i) /\ ~Pending(i)'
    BY <1>5, ReadOnce DEF ReceiveRefused
  <2>2. send("error", i) /\ UNCHANGED <<rx, tasks, thread>>
    BY <1>5 DEF ReceiveRefused, poolVars
  <2>3. ~InTask(i) /\ ~InRx(i) /\ ~InThread(i) /\ Quiet(i)
    BY <2>1 DEF Taken
  <2>4. /\ \A j \in Inv : j # i /\ Quiet(j) => Quiet(j)'
        /\ AnsweredOnce'
    BY <2>2, <2>3, SendQuiet DEF Kind
  <2>5. \A t \in Thread : Busy(t) => thread[t].inv \in Inv
    BY RunningType
  <2>6. \A t \in Thread : Busy(t) => thread[t].inv # i
    BY <2>3 DEF InThread
  <2>7. \A j \in Inv : /\ InRx(j)' <=> InRx(j)
                       /\ InTask(j)' <=> InTask(j)
                       /\ InThread(j)' <=> InThread(j)
    BY <2>2 DEF InRx, InTask, InThread, Busy
  <2>8. \A t \in Thread :
          (Busy(t) /\ thread[t].pc # "return")' => Quiet(thread[t].inv)'
    <3> SUFFICES ASSUME NEW t \in Thread, Busy(t), thread[t].pc # "return"
                 PROVE  Quiet(thread[t].inv)'
      BY <2>2 DEF Busy
    <3>1. Quiet(thread[t].inv) /\ thread[t].inv # i /\ thread[t].inv \in Inv
      BY <2>5, <2>6 DEF Taken
    <3> QED
      BY <2>2, <2>4, <3>1 DEF Quiet
  <2> QED
    BY <1>0, <2>1, <2>2, <2>3, <2>4, <2>7, <2>8 DEF Taken, Busy
<1>6. ASSUME NEW n \in Int, rx # None, ReceivePayload(n)
      PROVE  Taken' /\ AnsweredOnce'
  <2> DEFINE e == [inv |-> rx.inv, got |-> n, buf |-> rx.buf]
  <2>1. rx.inv \in Inv /\ rx.buf \in Buffer
    BY <1>6, PayloadSize
  <2>2. e \in Task /\ e.inv = rx.inv
    BY <2>1 DEF Task
  <2>3. /\ tasks' = Append(tasks, e) /\ rx' = None
        /\ UNCHANGED <<thread, replies>>
    BY <1>6 DEF ReceivePayload, outVars
  <2> HIDE DEF e
  <2>4. /\ \A k \in 1..Len(tasks') :
             \/ k \in 1..Len(tasks) /\ tasks'[k] = tasks[k]
             \/ k = Len(tasks') /\ tasks'[k] = e
    BY <2>2, <2>3, TaskAdded
  <2>5. \A j \in Inv : InTask(j)' => InTask(j) \/ InRx(j)
    BY <1>6, <2>2, <2>4 DEF InTask, InRx
  <2>6. ~InTask(rx.inv)
    BY <1>6, <2>1 DEF Taken, InRx
  <2>7. \A j, k \in 1..Len(tasks') : tasks'[j].inv = tasks'[k].inv => j = k
    BY <2>2, <2>4, <2>6 DEF Taken, InTask
  <2> QED
    BY <1>0, <2>3, <2>5, <2>7
    DEF Taken, InRx, InThread, Quiet, Busy, AnsweredOnce
<1>7. ASSUME NEW t \in Thread, TakeTask(t)
      PROVE  Taken' /\ AnsweredOnce'
  <2>1. /\ 1 \in 1..Len(tasks) /\ tasks[1] \in Task
        /\ \A k \in 1..Len(tasks') :
             k + 1 \in 1..Len(tasks) /\ k + 1 # 1 /\ tasks'[k] = tasks[k + 1]
        /\ ~Busy(t) /\ thread'[t] # None /\ thread'[t].inv = tasks[1].inv
        /\ \A u \in Thread : u # t => thread'[u] = thread[u]
        /\ rx' = rx /\ replies' = replies /\ Len(tasks') \in Nat
    BY <1>7, TaskTaken
  <2>2. tasks[1].inv \in Inv /\ InTask(tasks[1].inv)
    BY <2>1 DEF Task, InTask
  <2>3. ~InThread(tasks[1].inv) /\ Quiet(tasks[1].inv)
    BY <2>2 DEF Taken
  <2>4. \A j \in Inv : InTask(j)' => InTask(j) /\ j # tasks[1].inv
    <3> SUFFICES ASSUME NEW k \in 1..Len(tasks')
                 PROVE  /\ InTask(tasks'[k].inv)
                        /\ tasks'[k].inv # tasks[1].inv
      BY DEF InTask
    <3> QED
      BY <2>1 DEF Taken, InTask
  <2>5. \A j \in Inv : InThread(j)' => InThread(j) \/ j = tasks[1].inv
    BY <2>1 DEF InThread, Busy
  <2>6. \A j, k \in 1..Len(tasks') : tasks'[j].inv = tasks'[k].inv => j = k
    <3> SUFFICES ASSUME NEW j \in 1..Len(tasks'), NEW k \in 1..Len(tasks'),
                        tasks'[j].inv = tasks'[k].inv
                 PROVE  j = k
      OBVIOUS
    <3>1. j + 1 = k + 1
      BY <2>1 DEF Taken
    <3> QED
      BY <2>1, <3>1
  <2>7. \A u, v \in Thread :
          thread'[u] # None /\ thread'[v] # None
            /\ thread'[u].inv = thread'[v].inv => u = v
    BY <2>1, <2>3 DEF Taken, InThread, Busy
  <2>8. \A j \in Inv : (InRx(j)' <=> InRx(j)) /\ (Quiet(j)' <=> Quiet(j))
    BY <2>1 DEF InRx, Quiet
  <2>9. \A u \in Thread :
          thread'[u] # None /\ thread'[u].pc # "return" =>
            Quiet(thread[u].inv)'
    <3> SUFFICES ASSUME NEW u \in Thread, thread'[u] # None,
                        thread'[u].pc # "return"
                 PROVE  \A k \in 1..Len(replies'[thread'[u].inv]) :
                          ~Final(replies'[thread'[u].inv][k])
      BY DEF Quiet, Final
    <3> QED
      BY <2>1, <2>3 DEF Taken, Quiet, Busy
  <2>10. AnsweredOnce'
    BY <2>1 DEF AnsweredOnce
  <2> QED
    BY <1>0, <2>2, <2>3, <2>4, <2>5, <2>6, <2>7, <2>8, <2>9, <2>10
    DEF Taken, Busy
<1>8. ASSUME NEW t \in Thread, return_buffer(t)
      PROVE  Taken' /\ AnsweredOnce'
  <2>1. /\ UNCHANGED <<rx, tasks, replies>> /\ thread'[t] = None
        /\ \A u \in Thread : u # t => thread'[u] = thread[u]
    BY <1>8 DEF return_buffer, mainVars, outVars, TypeOK
  <2> QED
    BY <1>0, <2>1
    DEF Taken, InRx, InTask, InThread, Quiet, Busy, AnsweredOnce
<1>9. ASSUME NEW t \in Thread, GoesOn(t), Answers(t)
      PROVE  Taken' /\ AnsweredOnce'
  <2> DEFINE i == thread[t].inv
  <2>1. i \in Inv /\ InThread(i) /\ Quiet(i)
    BY <1>9, RunningType DEF GoesOn, InThread, Taken
  <2>2. /\ Busy(t) /\ thread'[t] # None /\ thread'[t].inv = i
        /\ \A u \in Thread : u # t => thread'[u] = thread[u]
        /\ UNCHANGED <<rx, tasks>>
    BY <1>9 DEF GoesOn
  <2>3. \A j \in Inv : /\ InRx(j)' <=> InRx(j)
                       /\ InTask(j)' <=> InTask(j)
                       /\ InThread(j)' <=> InThread(j)
    BY <2>2 DEF InRx, InTask, InThread, Busy
  <2>4. /\ \A j \in Inv : j # i /\ Quiet(j) => Quiet(j)'
        /\ AnsweredOnce'
        /\ thread'[t].pc # "return" =>
             \A k \in 1..Len(replies'[i]) : ~Final(replies'[i][k])
    <3>1. CASE UNCHANGED replies
      BY <2>1, <3>1 DEF Quiet, AnsweredOnce
    <3>2. CASE \E k \in Kind : /\ send(k, thread[t].inv)
                               /\ Final(k) => thread'[t].pc = "return"
      <4>0. PICK k \in Kind : /\ send(k, thread[t].inv)
                              /\ Final(k) => thread'[t].pc = "return"
        BY <3>2
      <4> HIDE DEF i
      <4>1. PICK x \in Inv : x = i
        BY <2>1
      <4>2. send(k, x) /\ Quiet(x)
        BY <2>1, <4>0, <4>1 DEF i
      <4>3. /\ \A j \in Inv : j # x /\ Quiet(j) => Quiet(j)'
            /\ ~Final(k) => Quiet(x)'
            /\ AnsweredOnce'
        BY <4>2, SendQuiet
      <4>4. ~Final(k) => \A l \in 1..Len(replies'[x]) : ~Final(replies'[x][l])
        BY <4>3 DEF Quiet, Final
      <4> QED
        BY <4>0, <4>1, <4>3, <4>4
    <3> QED
      BY <1>9, <3>1, <3>2 DEF Answers
  <2>5. \A u, v \in Thread :
          thread'[u] # None /\ thread'[v] # None
            /\ thread'[u].inv = thread'[v].inv => u = v
    BY <2>2 DEF Taken, Busy
  <2>6. \A j \in Inv : ~InThread(j) => (Quiet(j) => Quiet(j)')
    BY <2>1, <2>4
  <2>7. \A u \in Thread :
          thread'[u] # None /\ thread'[u].pc # "return" =>
            Quiet(thread[u].inv)'
    <3> SUFFICES ASSUME NEW u \in Thread, thread'[u] # None,
                        thread'[u].pc # "return"
                 PROVE  \A k \in 1..Len(replies'[thread'[u].inv]) :
                          ~Final(replies'[thread'[u].inv][k])
      BY DEF Quiet, Final
    <3>1. CASE u = t
      BY <2>2, <2>4, <3>1
    <3>2. CASE u # t
      <4>1. thread'[u] = thread[u] /\ Busy(u)
        BY <2>2, <3>2 DEF Busy
      <4>2. PICK x \in Inv : x = thread[u].inv
        BY <4>1, RunningType
      <4>3. x # i /\ Quiet(x)
        BY <2>2, <3>2, <4>1, <4>2 DEF Taken
      <4>4. Quiet(x)'
        BY <2>4, <4>3
      <4> QED
        BY <4>1, <4>2, <4>4 DEF Quiet, Final
    <3> QED
      BY <3>1, <3>2
  <2>8. UNCHANGED tasks
    BY <2>2
  <2> QED
    BY <1>0, <2>3, <2>4, <2>5, <2>6, <2>7, <2>8 DEF Taken, Busy
<1> QED
  BY <1>1, <1>2, <1>3, <1>4, <1>5, <1>6, <1>7, <1>8, <1>9, NextCases

-----------------------------------------------------------------------------
(* The buffers, and where they are.                                        *)

Uses(a) == \/ \E k \in 1..Len(_buffers) : _buffers[k].val = a
           \/ \E k \in 1..Len(tasks) : tasks[k].buf.val = a
           \/ \E t \in Thread : Busy(t) /\ thread[t].buf.val = a
           \/ rx # None /\ rx.buf.val = a

(* Uses says of an address what InUse is the set of.                       *)
LEMMA UsesLive ==
  ASSUME TypeOK
  PROVE  \A a : a \in InUse <=> Uses(a)
<1>1. DOMAIN _buffers = 1..Len(_buffers) /\ DOMAIN tasks = 1..Len(tasks)
  BY LenProperties DEF TypeOK
<1>2. \A a : a \in Live <=>
        \/ \E k \in 1..Len(_buffers) : _buffers[k].val = a
        \/ \E k \in 1..Len(tasks) : tasks[k].buf.val = a
        \/ \E t \in Thread : Busy(t) /\ thread[t].buf.val = a
  BY <1>1 DEF Live, Busy
<1> QED
  BY <1>2 DEF InUse, Uses

(* retrieve_buffer takes the first buffer of the queue.                    *)
LEMMA BufferTaken ==
  ASSUME TypeOK, _buffers' = Popped
  PROVE  \/ _buffers = <<>> /\ _buffers' = <<>>
         \/ /\ _buffers # <<>>
            /\ 1 \in 1..Len(_buffers) /\ _buffers[1] = Head(_buffers)
            /\ \A k \in 1..Len(_buffers') :
                 /\ k + 1 \in 1..Len(_buffers) /\ k + 1 # 1 /\ k \in Nat
                 /\ _buffers'[k] = _buffers[k + 1]
            /\ \A k \in 1..Len(_buffers) :
                 \/ k = 1
                 \/ /\ k - 1 \in 1..Len(_buffers')
                    /\ _buffers'[k - 1] = _buffers[k]
<1>1. CASE _buffers = <<>>
  BY <1>1 DEF Popped
<1>2. CASE _buffers # <<>>
  <2> DEFINE b == _buffers'
  <2>1. b = Tail(_buffers) /\ _buffers \in Seq(Buffer)
    BY <1>2 DEF Popped, TypeOK
  <2> HIDE DEF b
  <2>2. /\ 1 \in 1..Len(_buffers) /\ _buffers[1] = Head(_buffers)
        /\ \A k \in 1..Len(b) :
             /\ k + 1 \in 1..Len(_buffers) /\ k + 1 # 1
             /\ b[k] = _buffers[k + 1]
        /\ \A k \in 1..Len(_buffers) :
             \/ k = 1
             \/ k - 1 \in 1..Len(b) /\ b[k - 1] = _buffers[k]
    BY <1>2, <2>1, TailElement
  <2>3. \A k \in 1..Len(b) : k \in Nat
    OBVIOUS
  <2> QED
    BY <1>2, <2>2, <2>3 DEF b
<1> QED
  BY <1>1, <1>2

(* receive takes a buffer that had memory, or new memory for a nullptr.    *)
LEMMA HeaderTakes ==
  ASSUME TypeOK, Room, NEW i \in Inv, ReceiveHeader(i)
  PROVE  /\ rx = None /\ rx' # None /\ rx'.inv = i
         /\ rx'.buf.val # 0 /\ _buffers # <<>>
         /\ \/ rx'.buf.val = _buffers[1].val
            \/ _buffers[1].val = 0 /\ ~Uses(rx'.buf.val)
         /\ _buffers' = Popped
         /\ UNCHANGED <<max_functions, phase, dp, mem, tasks, thread, replies>>
         /\ phase \in {"first", "loop"} /\ Announced(i) > 0
<1>1. Pending(i) /\ Announced(i) \in Nat /\ Announced(i) > 0
  BY ReadsRequest, AnnouncedSize DEF ReceiveHeader
<1> DEFINE r == Retrieved(Announced(i))
<1>2. /\ r \in Buffer
      /\ r.size > 0 =>
           /\ r.val # 0 /\ _buffers # <<>>
           /\ \/ r.val = Head(_buffers).val
              \/ /\ Head(_buffers).val = 0
                 /\ r.val \in Addr /\ r.val \notin Live
  BY <1>1, RetrievedType
<1>3. r.size > 0 /\ rx' = [inv |-> i, buf |-> r] /\ _buffers' = Popped
  BY DEF ReceiveHeader
<1> HIDE DEF r
<1>4. rx' \in Receipt /\ rx'.buf = r /\ rx'.inv = i
  BY <1>2, <1>3 DEF Receipt
<1>5. rx' # None
  BY <1>4, NoneAssumption
<1>6. rx = None /\ phase \in {"first", "loop"}
  BY DEF ReceiveHeader, ReadRequest, Receiving
<1>7. _buffers[1] = Head(_buffers)
  BY <1>2, <1>3, TailElement DEF TypeOK
<1>8. r.val \notin Live => ~Uses(r.val)
  BY <1>6, UsesLive DEF InUse
<1>9. UNCHANGED <<max_functions, phase, dp, mem, tasks, thread, replies>>
  BY DEF ReceiveHeader, poolVars, outVars
<1> QED
  BY <1>1, <1>2, <1>3, <1>4, <1>5, <1>6, <1>7, <1>8, <1>9

(* A refused request takes a nullptr, if anything.                         *)
LEMMA RefusedTakes ==
  ASSUME TypeOK, Room, NEW i \in Inv, ReceiveRefused(i)
  PROVE  /\ _buffers # <<>> => _buffers[1].val = 0
         /\ _buffers' = Popped
         /\ UNCHANGED <<max_functions, rx, dp, mem, tasks, thread>>
<1>1. Pending(i) /\ Announced(i) \in Nat /\ Announced(i) > 0
  BY ReadsRequest, AnnouncedSize DEF ReceiveRefused
<1>2. Retrieved(Announced(i)).size = 0
  BY DEF ReceiveRefused
<1>3. _buffers = <<>> \/ Head(_buffers).val = 0
  BY <1>1, <1>2, RetrievedType
<1>4. _buffers # <<>> => _buffers[1] = Head(_buffers)
  BY TailElement DEF TypeOK
<1>5. /\ _buffers' = Popped
      /\ UNCHANGED <<max_functions, rx, dp, mem, tasks, thread>>
  BY DEF ReceiveRefused, poolVars
<1> QED
  BY <1>3, <1>4, <1>5

(* A bare request has no buffer, and a payload that of its request.        *)
LEMMA BareAdds ==
  ASSUME TypeOK, NEW i \in Inv, ReceiveBare(i)
  PROVE  \E e \in Task :
           /\ e.inv = i /\ e.got = 0 /\ e.buf.val = 0
           /\ tasks' = Append(tasks, e)
           /\ UNCHANGED <<max_functions, rx, dp, _buffers, mem, thread,
                          replies>>
<1> DEFINE e == [inv |-> i, got |-> 0, buf |-> Null]
<1>1. e \in Task /\ e.inv = i /\ e.got = 0 /\ e.buf.val = 0
  BY DEF Task, Buffer, Null
<1>2. /\ tasks' = Append(tasks, e)
      /\ UNCHANGED <<max_functions, rx, dp, _buffers, mem, thread, replies>>
  BY DEF ReceiveBare, outVars
<1> QED
  BY <1>1, <1>2

(* receive hands its buffer on, whatever read_n has returned.              *)
LEMMA PayloadAdds ==
  ASSUME TypeOK, NEW n \in Int, rx # None, ReceivePayload(n)
  PROVE  \E e \in Task :
           /\ e.inv = rx.inv /\ e.got = n /\ e.buf = rx.buf
           /\ tasks' = Append(tasks, e) /\ rx' = None
           /\ UNCHANGED <<max_functions, _buffers, thread, replies>>
<1> DEFINE e == [inv |-> rx.inv, got |-> n, buf |-> rx.buf]
<1>1. e \in Task /\ e.inv = rx.inv /\ e.got = n /\ e.buf = rx.buf
  BY PayloadSize DEF Task
<1>2. /\ tasks' = Append(tasks, e) /\ rx' = None
      /\ UNCHANGED <<max_functions, _buffers, thread, replies>>
  BY DEF ReceivePayload, outVars
<1> QED
  BY <1>1, <1>2

(* return_buffer puts the buffer of the thread behind the others.          *)
LEMMA BufferBack ==
  ASSUME TypeOK, NEW t \in Thread, return_buffer(t)
  PROVE  /\ Busy(t) /\ thread[t].pc = "return" /\ thread'[t] = None
         /\ \A u \in Thread : u # t => thread'[u] = thread[u]
         /\ \A k \in 1..Len(_buffers) :
              k \in 1..Len(_buffers') /\ _buffers'[k] = _buffers[k]
         /\ \A k \in 1..Len(_buffers') :
              \/ k \in 1..Len(_buffers) /\ _buffers'[k] = _buffers[k]
              \/ k = Len(_buffers') /\ _buffers'[k] = thread[t].buf
         /\ Len(_buffers') \in 1..Len(_buffers')
         /\ _buffers'[Len(_buffers')] = thread[t].buf
         /\ UNCHANGED <<max_functions, phase, rx, dp, tasks, replies>>
<1> DEFINE b == _buffers'
<1>1. Busy(t) /\ thread[t].pc = "return"
  BY DEF return_buffer, At, Busy
<1>2. thread[t].buf \in Buffer
  BY <1>1, RunningType
<1>3. b = Append(_buffers, thread[t].buf) /\ _buffers \in Seq(Buffer)
  BY DEF return_buffer, Returned, TypeOK
<1>4. /\ thread'[t] = None
      /\ \A u \in Thread : u # t => thread'[u] = thread[u]
      /\ UNCHANGED <<max_functions, phase, rx, dp, tasks, replies>>
  BY DEF return_buffer, mainVars, outVars, TypeOK
<1> HIDE DEF b
<1>5. /\ b[Len(b)] = thread[t].buf /\ Len(b) \in 1..Len(b)
      /\ \A l \in 1..Len(_buffers) : l \in 1..Len(b) /\ b[l] = _buffers[l]
      /\ \A l \in 1..Len(b) : l \in 1..Len(_buffers) \/ l = Len(b)
  BY <1>2, <1>3, AppendElement
<1> QED
  BY <1>1, <1>4, <1>5 DEF b

(* Memory comes into use for a request that is read, and only the end of   *)
(* the process takes it out of use.                                        *)
LEMMA UseStep ==
  ASSUME TypeOK, Room, Requests, [Next]_vars
  PROVE  /\ max_functions' = max_functions
         /\ \/ \A a : a # 0 /\ Uses(a)' => Uses(a)
            \/ \E i \in Inv :
                 /\ Pending(i) /\ ~Pending(i)'
                 /\ \E x : \A a : a # 0 /\ Uses(a)' => Uses(a) \/ a = x
         /\ phase' \notin {"ended", "dead"} =>
              \A a : a # 0 /\ Uses(a) => Uses(a)'
<1>1. CASE Idle
  BY <1>1 DEF Idle, Uses, Busy
<1>2. CASE Exit
  <2>1. /\ rx' = None /\ tasks' = <<>> /\ _buffers' = <<>> /\ phase' = "dead"
        /\ (\A t \in Thread : thread'[t] = None)
        /\ max_functions' = max_functions
    BY <1>2 DEF Exit
  <2>2. \A a : ~Uses(a)'
    BY <2>1 DEF Uses, Busy
  <2> QED
    BY <2>1, <2>2
<1>3. CASE Finish
  <2>1. /\ _buffers' = <<>> /\ phase' = "ended"
        /\ UNCHANGED <<max_functions, rx, tasks, thread>>
    BY <1>3 DEF Finish, poolVars
  <2>2. \A a : Uses(a)' => Uses(a)
    BY <2>1 DEF Uses, Busy
  <2> QED
    BY <2>1, <2>2
<1>4. ASSUME NEW i \in Inv, ReceiveBare(i)
      PROVE  /\ max_functions' = max_functions
             /\ \A a : a # 0 => (Uses(a)' <=> Uses(a))
  <2>1. PICK e \in Task :
          /\ e.inv = i /\ e.got = 0 /\ e.buf.val = 0
          /\ tasks' = Append(tasks, e)
          /\ UNCHANGED <<max_functions, rx, dp, _buffers, mem, thread,
                         replies>>
    BY <1>4, BareAdds
  <2>2. /\ \A k \in 1..Len(tasks) :
             k \in 1..Len(tasks') /\ tasks'[k] = tasks[k]
        /\ \A k \in 1..Len(tasks') :
             \/ k \in 1..Len(tasks) /\ tasks'[k] = tasks[k]
             \/ k = Len(tasks') /\ tasks'[k] = e
    BY <2>1, TaskAdded
  <2>3. \A a : a # 0 => ((\E k \in 1..Len(tasks') : tasks'[k].buf.val = a) <=>
                         (\E k \in 1..Len(tasks) : tasks[k].buf.val = a))
    BY <2>1, <2>2
  <2> QED
    BY <2>1, <2>3 DEF Uses, Busy
<1>5. ASSUME NEW i \in Inv, ReceiveHeader(i)
      PROVE  /\ max_functions' = max_functions
             /\ Pending(i) /\ ~Pending(i)'
             /\ \A a : a # 0 /\ Uses(a)' => Uses(a) \/ a = rx'.buf.val
             /\ \A a : a # 0 /\ Uses(a) => Uses(a)'
  <2>1. /\ rx = None /\ rx' # None /\ _buffers # <<>>
        /\ \/ rx'.buf.val = _buffers[1].val
           \/ _buffers[1].val = 0
        /\ _buffers' = Popped
        /\ UNCHANGED <<max_functions, tasks, thread>>
    BY <1>5, HeaderTakes
  <2>2. Pending(i) /\ ~Pending(i)'
    BY <1>5, ReadOnce DEF ReceiveHeader
  <2>3. /\ \A k \in 1..Len(_buffers') :
             k + 1 \in 1..Len(_buffers) /\ _buffers'[k] = _buffers[k + 1]
        /\ \A k \in 1..Len(_buffers) :
             \/ k = 1
             \/ k - 1 \in 1..Len(_buffers') /\ _buffers'[k - 1] = _buffers[k]
    BY <2>1, BufferTaken
  <2>4. \A a : (\E k \in 1..Len(_buffers') : _buffers'[k].val = a) =>
                 \E k \in 1..Len(_buffers) : _buffers[k].val = a
    BY <2>3
  <2>5. \A a : (\E k \in 1..Len(_buffers) : _buffers[k].val = a) =>
                 \/ \E k \in 1..Len(_buffers') : _buffers'[k].val = a
                 \/ _buffers[1].val = a
    BY <2>3
  <2> QED
    BY <2>1, <2>2, <2>4, <2>5 DEF Uses, Busy
<1>6. ASSUME NEW i \in Inv, ReceiveRefused(i)
      PROVE  /\ max_functions' = max_functions
             /\ \A a : a # 0 => (Uses(a)' <=> Uses(a))
  <2>1. /\ _buffers # <<>> => _buffers[1].val = 0
        /\ _buffers' = Popped
        /\ UNCHANGED <<max_functions, rx, dp, mem, tasks, thread>>
    BY <1>6, RefusedTakes
  <2>2. \A a : a # 0 =>
          ((\E k \in 1..Len(_buffers') : _buffers'[k].val = a) <=>
           (\E k \in 1..Len(_buffers) : _buffers[k].val = a))
    <3>1. CASE _buffers = <<>> /\ _buffers' = <<>>
      BY <3>1
    <3>2. CASE _buffers # <<>>
      <4>1. /\ \A k \in 1..Len(_buffers') :
                 k + 1 \in 1..Len(_buffers) /\ _buffers'[k] = _buffers[k + 1]
            /\ \A k \in 1..Len(_buffers) :
                 \/ k = 1
                 \/ /\ k - 1 \in 1..Len(_buffers')
                    /\ _buffers'[k - 1] = _buffers[k]
        BY <2>1, <3>2, BufferTaken
      <4>2. \A a : (\E k \in 1..Len(_buffers') : _buffers'[k].val = a) =>
                     \E k \in 1..Len(_buffers) : _buffers[k].val = a
        BY <4>1
      <4>3. \A a : (\E k \in 1..Len(_buffers) : _buffers[k].val = a) =>
                     \/ \E k \in 1..Len(_buffers') : _buffers'[k].val = a
                     \/ _buffers[1].val = a
        BY <4>1
      <4>4. _buffers[1].val = 0
        BY <2>1, <3>2
      <4> QED
        BY <4>2, <4>3, <4>4
    <3> QED
      BY <2>1, <3>1, <3>2, BufferTaken
  <2> QED
    BY <2>1, <2>2 DEF Uses, Busy
<1>7. ASSUME NEW n \in Int, rx # None, ReceivePayload(n)
      PROVE  /\ max_functions' = max_functions
             /\ \A a : Uses(a)' <=> Uses(a)
  <2>1. PICK e \in Task :
          /\ e.inv = rx.inv /\ e.got = n /\ e.buf = rx.buf
          /\ tasks' = Append(tasks, e) /\ rx' = None
          /\ UNCHANGED <<max_functions, _buffers, thread, replies>>
    BY <1>7, PayloadAdds
  <2>2. /\ \A k \in 1..Len(tasks) :
             k \in 1..Len(tasks') /\ tasks'[k] = tasks[k]
        /\ \A k \in 1..Len(tasks') :
             \/ k \in 1..Len(tasks) /\ tasks'[k] = tasks[k]
             \/ k = Len(tasks') /\ tasks'[k] = e
        /\ Len(tasks') \in 1..Len(tasks') /\ tasks'[Len(tasks')] = e
    BY <2>1, TaskAdded
  <2>3. \A a : (\E k \in 1..Len(tasks') : tasks'[k].buf.val = a) <=>
               \/ \E k \in 1..Len(tasks) : tasks[k].buf.val = a
               \/ rx.buf.val = a
    BY <2>1, <2>2
  <2> QED
    BY <1>7, <2>1, <2>3 DEF Uses, Busy
<1>8. ASSUME NEW t \in Thread, TakeTask(t)
      PROVE  /\ max_functions' = max_functions
             /\ \A a : Uses(a)' <=> Uses(a)
  <2>1. /\ 1 \in 1..Len(tasks)
        /\ \A k \in 1..Len(tasks') :
             k + 1 \in 1..Len(tasks) /\ tasks'[k] = tasks[k + 1]
        /\ \A k \in 1..Len(tasks) :
             k = 1 \/ (k - 1 \in 1..Len(tasks') /\ tasks'[k - 1] = tasks[k])
        /\ ~Busy(t) /\ thread'[t] # None /\ thread'[t].buf = tasks[1].buf
        /\ \A u \in Thread : u # t => thread'[u] = thread[u]
        /\ UNCHANGED <<max_functions, rx, _buffers>>
    BY <1>8, TaskTaken
  <2>2. \A a : (\E k \in 1..Len(tasks) : tasks[k].buf.val = a) <=>
               \/ \E k \in 1..Len(tasks') : tasks'[k].buf.val = a
               \/ tasks[1].buf.val = a
    <3>1. \A a : (\E k \in 1..Len(tasks) : tasks[k].buf.val = a) =>
                 \/ \E k \in 1..Len(tasks') : tasks'[k].buf.val = a
                 \/ tasks[1].buf.val = a
      BY <2>1
    <3>2. \A a : (\E k \in 1..Len(tasks') : tasks'[k].buf.val = a) =>
                 \E k \in 1..Len(tasks) : tasks[k].buf.val = a
      BY <2>1
    <3> QED
      BY <2>1, <3>1, <3>2
  <2>3. \A a : (\E u \in Thread : thread'[u] # None /\ thread'[u].buf.val = a)
               <=> \/ \E u \in Thread : Busy(u) /\ thread[u].buf.val = a
                   \/ tasks[1].buf.val = a
    BY <2>1 DEF Busy
  <2> QED
    BY <2>1, <2>2, <2>3 DEF Uses, Busy
<1>9. ASSUME NEW t \in Thread, return_buffer(t)
      PROVE  /\ max_functions' = max_functions
             /\ \A a : Uses(a)' <=> Uses(a)
  <2>1. /\ Busy(t) /\ thread'[t] = None
        /\ \A u \in Thread : u # t => thread'[u] = thread[u]
        /\ \A k \in 1..Len(_buffers) :
             k \in 1..Len(_buffers') /\ _buffers'[k] = _buffers[k]
        /\ \A k \in 1..Len(_buffers') :
             \/ k \in 1..Len(_buffers) /\ _buffers'[k] = _buffers[k]
             \/ k = Len(_buffers') /\ _buffers'[k] = thread[t].buf
        /\ Len(_buffers') \in 1..Len(_buffers')
        /\ _buffers'[Len(_buffers')] = thread[t].buf
        /\ UNCHANGED <<max_functions, rx, tasks>>
    BY <1>9, BufferBack
  <2>2. \A a : (\E k \in 1..Len(_buffers') : _buffers'[k].val = a) <=>
               \/ \E k \in 1..Len(_buffers) : _buffers[k].val = a
               \/ thread[t].buf.val = a
    BY <2>1
  <2>3. \A a : (\E u \in Thread : Busy(u) /\ thread[u].buf.val = a) <=>
               \/ \E u \in Thread : thread'[u] # None /\ thread'[u].buf.val = a
               \/ thread[t].buf.val = a
    BY <2>1 DEF Busy
  <2> QED
    BY <2>1, <2>2, <2>3 DEF Uses, Busy
<1>10. ASSUME NEW t \in Thread, GoesOn(t)
       PROVE  /\ max_functions' = max_functions
              /\ \A a : Uses(a)' <=> Uses(a)
  BY <1>10 DEF GoesOn, Uses, Busy
<1>11. CASE \E i \in Inv : ReceiveHeader(i)
  BY <1>5, <1>11
<1>12. CASE \/ \E i \in Inv : ReceiveBare(i) \/ ReceiveRefused(i)
            \/ rx # None /\ \E n \in Int : ReceivePayload(n)
            \/ \E t \in Thread : TakeTask(t) \/ return_buffer(t) \/ GoesOn(t)
  <2>1. /\ max_functions' = max_functions
        /\ \A a : a # 0 => (Uses(a)' <=> Uses(a))
    BY <1>4, <1>6, <1>7, <1>8, <1>9, <1>10, <1>12
  <2> QED
    BY <2>1
<1> QED
  BY <1>1, <1>2, <1>3, <1>11, <1>12, NextCases

(* There is memory left for every request that was not read.               *)
LEMMA RoomStep ==
  ASSUME TypeOK, Room, Requests, [Next]_vars
  PROVE  Room'
<1>0. TypeOK' /\ max_functions' = max_functions
  BY TypeStep, UseStep
<1>1. \A a : a \in InUse <=> Uses(a)
  BY UsesLive
<1>2. (TypeOK => \A a : a \in InUse <=> Uses(a))'
  BY UsesLive, PTL
<1>3. \A a : a \in InUse' <=> Uses(a)'
  BY <1>0, <1>2
<1>4. \A a : /\ a \in Added <=> Uses(a) /\ a \notin 0..(2 * max_functions)
             /\ a \in Added' <=> Uses(a)' /\ a \notin 0..(2 * max_functions)
  BY <1>0, <1>1, <1>3 DEF Added
<1>5. 0 \in 0..(2 * max_functions)
  BY AddrSize DEF TypeOK
<1>6. IsFiniteSet(Added) /\ Cardinality(Added) \in Nat
  <2>1. InUse \subseteq Addr \cup {0}
    BY LiveType
  <2>2. IsFiniteSet(Addr)
    BY AddrSize, FS_Interval DEF Addr
  <2>3. Added \in SUBSET Addr
    BY <1>5, <2>1 DEF Added
  <2> QED
    BY <2>2, <2>3, FS_Subset, FS_CardinalityType
<1>7. /\ Unread \in SUBSET Inv
      /\ IsFiniteSet(Unread) /\ Cardinality(Unread) \in Nat
  <2>1. Unread \in SUBSET Inv
    BY DEF Unread
  <2> QED
    BY <2>1, ExecAssumption, FS_Subset, FS_CardinalityType
<1>8. Unread' \in SUBSET Unread
  BY RequestsStep DEF Unread
<1>9. IsFiniteSet(Unread') /\ Cardinality(Unread') \in Nat
  BY <1>7, <1>8, FS_Subset, FS_CardinalityType
<1>10. Cardinality(Inv) \in Nat
  BY AddrSize
<1> DEFINE c == Cardinality(Inv)
           A == Added
           B == Added'
           U == Unread
           V == Unread'
<1>11. Cardinality(A) + Cardinality(U) <= c
  BY DEF Room
<1>12. SUFFICES Cardinality(B) + Cardinality(V) <= c
  BY DEF Room
<1>13. CASE \A a : a # 0 /\ Uses(a)' => Uses(a)
  <2>1. B \in SUBSET A
    BY <1>4, <1>5, <1>13
  <2> HIDE DEF A, B, U, V, c
  <2>2. /\ Cardinality(B) \in Nat /\ Cardinality(B) <= Cardinality(A)
        /\ Cardinality(V) <= Cardinality(U)
    BY <1>6, <1>7, <1>8, <2>1, FS_Subset, FS_CardinalityType DEF A, U, V
  <2> QED
    BY <1>6, <1>7, <1>9, <1>10, <1>11, <2>2 DEF A, U, V, c
<1>14. ASSUME NEW i \in Inv, NEW x, Pending(i), ~Pending(i)',
              \A a : a # 0 /\ Uses(a)' => Uses(a) \/ a = x
       PROVE  Cardinality(B) + Cardinality(V) <= c
  <2>1. B \in SUBSET (A \cup {x})
    BY <1>4, <1>5, <1>14
  <2>2. V \in SUBSET (U \ {i}) /\ i \in U
    BY <1>8, <1>14 DEF Unread
  <2> HIDE DEF A, B, U, V, c
  <2>3. /\ IsFiniteSet(A \cup {x})
        /\ Cardinality(A \cup {x}) <= Cardinality(A) + 1
    BY <1>6, FS_AddElement DEF A
  <2>4. /\ IsFiniteSet(U \ {i})
        /\ Cardinality(U \ {i}) = Cardinality(U) - 1
    BY <1>7, <2>2, FS_RemoveElement DEF U
  <2>5. /\ Cardinality(B) \in Nat /\ Cardinality(B) <= Cardinality(A \cup {x})
        /\ Cardinality(V) <= Cardinality(U \ {i})
        /\ Cardinality(A \cup {x}) \in Nat /\ Cardinality(U \ {i}) \in Nat
    BY <2>1, <2>2, <2>3, <2>4, FS_Subset, FS_CardinalityType
  <2> QED
    BY <1>6, <1>7, <1>9, <1>10, <1>11, <2>3, <2>4, <2>5 DEF A, U, V, c
<1> QED
  BY <1>13, <1>14, UseStep

-----------------------------------------------------------------------------
(* How many buffers there are.                                             *)

Workers == {t \in Thread : Busy(t)}
Waiting == IF rx = None THEN 0 ELSE 1
Number == Len(_buffers) + Len(tasks) + Cardinality(Workers) + Waiting

(* Each request that was read has added one at most.                       *)
Counted ==
  Number + Cardinality(Unread) <= 2 * max_functions + Cardinality(Inv)

(* The summands are numbers.                                               *)
LEMMA NumberType ==
  ASSUME TypeOK
  PROVE  /\ Len(_buffers) \in Nat /\ Len(tasks) \in Nat
         /\ IsFiniteSet(Workers) /\ Cardinality(Workers) \in Nat
         /\ Waiting \in 0..1 /\ Number \in Nat
<1>1. Len(_buffers) \in Nat /\ Len(tasks) \in Nat
  BY LenProperties DEF TypeOK
<1>2. Workers \in SUBSET Thread
  BY DEF Workers
<1>3. IsFiniteSet(Workers) /\ Cardinality(Workers) \in Nat
  BY <1>2, AddrSize, FS_Subset, FS_CardinalityType
<1>4. Waiting \in 0..1
  BY DEF Waiting
<1> QED
  BY <1>1, <1>3, <1>4 DEF Number

(* Only a request without a payload adds a buffer, its nullptr.            *)
LEMMA NumberStep ==
  ASSUME TypeOK, Room, Requests, [Next]_vars
  PROVE  \/ Number' <= Number
         \/ /\ Number' = Number + 1
            /\ \E i \in Inv : Pending(i) /\ ~Pending(i)'
<1>0. TypeOK /\ TypeOK'
  BY TypeStep
<1>a. /\ Len(_buffers) \in Nat /\ Len(tasks) \in Nat
      /\ IsFiniteSet(Workers) /\ Cardinality(Workers) \in Nat
      /\ Waiting \in 0..1 /\ Number \in Nat
  BY NumberType
<1>b. (TypeOK => Number \in Nat)'
  BY NumberType, PTL
<1>c. Number' \in Nat
  BY <1>0, <1>b
<1>d. thread' = thread => Cardinality(Workers') = Cardinality(Workers) + 0
  BY <1>a DEF Workers, Busy
<1>e. rx' = rx => Waiting' = Waiting + 0
  BY <1>a DEF Waiting
<1>f. /\ _buffers' = _buffers => Len(_buffers') = Len(_buffers) + 0
      /\ tasks' = tasks => Len(tasks') = Len(tasks) + 0
  BY <1>a
<1>1. CASE Idle
  <2>1. UNCHANGED <<_buffers, tasks, thread, rx>>
    BY <1>1 DEF Idle
  <2>2. Number' = Number
    BY <2>1 DEF Number, Workers, Waiting, Busy
  <2> QED
    BY <1>a, <2>2
<1>2. CASE Exit \/ Finish
  <2>1. /\ _buffers' = <<>> /\ tasks' = <<>>
        /\ \A t \in Thread : thread'[t] = None
    BY <1>2 DEF Exit, Finish, TasksDone, poolVars
  <2>2. Workers' = {}
    BY <2>1 DEF Workers, Busy
  <2>3. Cardinality(Workers') = 0 /\ Len(_buffers') = 0 /\ Len(tasks') = 0
    BY <2>1, <2>2, FS_EmptySet
  <2>4. Number' = Waiting' /\ Waiting' \in 0..1
    BY <2>3 DEF Number, Waiting
  <2>5. Waiting' <= Waiting
    BY <1>2 DEF Exit, Finish, Waiting
  <2> QED
    BY <1>a, <2>3, <2>4, <2>5 DEF Number
<1>3. ASSUME NEW i \in Inv, ReceiveBare(i)
      PROVE  /\ Number' = Number + 1
             /\ Pending(i) /\ ~Pending(i)'
  <2>1. PICK e \in Task :
          /\ tasks' = Append(tasks, e)
          /\ UNCHANGED <<max_functions, rx, dp, _buffers, mem, thread,
                         replies>>
    BY <1>3, BareAdds
  <2>2. Len(tasks') = Len(tasks) + 1
    BY <2>1, AppendProperties DEF TypeOK
  <2>3. Number' = Number + 1
    BY <1>a, <1>d, <1>e, <1>f, <2>1, <2>2 DEF Number
  <2>4. Pending(i) /\ ~Pending(i)'
    BY <1>3, ReadOnce DEF ReceiveBare
  <2> QED
    BY <2>3, <2>4
<1>4. ASSUME NEW i \in Inv, ReceiveHeader(i)
      PROVE  Number' = Number
  <2>1. /\ rx = None /\ rx' # None /\ _buffers # <<>> /\ _buffers' = Popped
        /\ UNCHANGED <<tasks, thread>>
    BY <1>4, HeaderTakes
  <2>2. Len(_buffers') = Len(_buffers) + (-1)
    BY <1>a, <2>1, HeadTailProperties DEF Popped, TypeOK
  <2>3. Waiting' = Waiting + 1
    BY <2>1 DEF Waiting
  <2> QED
    BY <1>a, <1>d, <1>f, <2>1, <2>2, <2>3 DEF Number
<1>5. ASSUME NEW i \in Inv, ReceiveRefused(i)
      PROVE  Number' <= Number
  <2>1. /\ _buffers' = Popped
        /\ UNCHANGED <<rx, tasks, thread>>
    BY <1>5, RefusedTakes
  <2>2. CASE _buffers = <<>>
    <3>1. _buffers' = _buffers
      BY <2>1, <2>2 DEF Popped
    <3>2. Number' = Number
      BY <2>1, <3>1 DEF Number, Workers, Waiting, Busy
    <3> QED
      BY <1>a, <3>2
  <2>3. CASE _buffers # <<>>
    <3>1. Len(_buffers') = Len(_buffers) + (-1)
      BY <1>a, <2>1, <2>3, HeadTailProperties DEF Popped, TypeOK
    <3>2. Number' = Number - 1
      BY <1>a, <1>d, <1>e, <1>f, <2>1, <3>1 DEF Number
    <3> QED
      BY <1>a, <3>2
  <2> QED
    BY <2>2, <2>3
<1>6. ASSUME NEW n \in Int, rx # None, ReceivePayload(n)
      PROVE  Number' = Number
  <2>1. PICK e \in Task :
          /\ tasks' = Append(tasks, e) /\ rx' = None
          /\ UNCHANGED <<max_functions, _buffers, thread, replies>>
    BY <1>6, PayloadAdds
  <2>2. Len(tasks') = Len(tasks) + 1
    BY <2>1, AppendProperties DEF TypeOK
  <2>3. Waiting' = Waiting + (-1)
    BY <1>6, <2>1 DEF Waiting
  <2> QED
    BY <1>a, <1>d, <1>f, <2>1, <2>2, <2>3 DEF Number
<1>7. ASSUME NEW t \in Thread, TakeTask(t)
      PROVE  Number' = Number
  <2>1. /\ ~Busy(t) /\ thread'[t] # None
        /\ \A u \in Thread : u # t => thread'[u] = thread[u]
        /\ UNCHANGED <<rx, _buffers>>
    BY <1>7, TaskTaken
  <2>2. tasks # <<>> /\ tasks' = Tail(tasks)
    BY <1>7 DEF TakeTask
  <2>3. Len(tasks') = Len(tasks) + (-1)
    BY <1>a, <2>2, HeadTailProperties DEF TypeOK
  <2>4. Workers' = Workers \cup {t} /\ t \notin Workers
    BY <2>1 DEF Workers, Busy
  <2>5. Cardinality(Workers') = Cardinality(Workers) + 1
    BY <1>a, <2>4, FS_AddElement
  <2> QED
    BY <1>a, <1>e, <1>f, <2>1, <2>3, <2>5 DEF Number
<1>8. ASSUME NEW t \in Thread, return_buffer(t)
      PROVE  Number' = Number
  <2>1. /\ Busy(t) /\ thread'[t] = None
        /\ \A u \in Thread : u # t => thread'[u] = thread[u]
        /\ UNCHANGED <<rx, tasks>>
    BY <1>8, BufferBack
  <2>2. thread[t].buf \in Buffer /\ _buffers' = Append(_buffers, thread[t].buf)
    BY <1>8, <2>1, RunningType DEF return_buffer, Returned
  <2>3. Len(_buffers') = Len(_buffers) + 1
    BY <2>2, AppendProperties DEF TypeOK
  <2>4. Workers' = Workers \ {t} /\ t \in Workers
    BY <2>1 DEF Workers, Busy
  <2>5. Cardinality(Workers') = Cardinality(Workers) + (-1)
    BY <1>a, <2>4, FS_RemoveElement
  <2> QED
    BY <1>a, <1>e, <1>f, <2>1, <2>3, <2>5 DEF Number
<1>9. ASSUME NEW t \in Thread, GoesOn(t)
      PROVE  Number' = Number
  <2>1. /\ UNCHANGED <<rx, tasks, _buffers>>
        /\ \A u \in Thread : thread'[u] # None <=> Busy(u)
    BY <1>9 DEF GoesOn, Busy
  <2>2. Workers' = Workers
    BY <2>1 DEF Workers, Busy
  <2> QED
    BY <2>1, <2>2 DEF Number, Waiting
<1>10. Number' = Number => Number' <= Number
  BY <1>a
<1> QED
  BY <1>1, <1>2, <1>3, <1>4, <1>5, <1>6, <1>7, <1>8, <1>9, <1>10, NextCases

(* There are never more buffers than there were at the start and requests  *)
(* were read.                                                              *)
LEMMA CountedStep ==
  ASSUME TypeOK, Room, Requests, Counted, [Next]_vars
  PROVE  Counted'
<1>1. max_functions' = max_functions
  BY UseStep
<1>2. TypeOK'
  BY TypeStep
<1>3. (TypeOK => Number \in Nat)'
  BY NumberType, PTL
<1>4. Number \in Nat /\ Number' \in Nat
  BY <1>2, <1>3, NumberType
<1>5. Unread \in SUBSET Inv
  BY DEF Unread
<1>6. IsFiniteSet(Unread) /\ Cardinality(Unread) \in Nat
  BY <1>5, ExecAssumption, FS_Subset, FS_CardinalityType
<1>7. Unread' \in SUBSET Unread
  BY RequestsStep DEF Unread
<1>8. /\ Cardinality(Unread') \in Nat
      /\ Cardinality(Unread') <= Cardinality(Unread)
  BY <1>6, <1>7, FS_Subset, FS_CardinalityType
<1>9. ASSUME NEW i \in Inv, Pending(i), ~Pending(i)'
      PROVE  Cardinality(Unread') <= Cardinality(Unread) - 1
  <2>1. Unread' \in SUBSET (Unread \ {i}) /\ i \in Unread
    BY <1>7, <1>9 DEF Unread
  <2>2. /\ IsFiniteSet(Unread \ {i})
        /\ Cardinality(Unread \ {i}) = Cardinality(Unread) - 1
    BY <1>6, <2>1, FS_RemoveElement
  <2> QED
    BY <2>1, <2>2, FS_Subset
<1>10. PICK m \in Int : m = 2 * max_functions + Cardinality(Inv)
  BY AddrSize DEF TypeOK
<1>11. Number + Cardinality(Unread) <= m
  BY <1>10 DEF Counted
<1>12. Number' + Cardinality(Unread') <= m
  BY <1>4, <1>6, <1>8, <1>9, <1>11, NumberStep
<1> QED
  BY <1>1, <1>10, <1>12 DEF Counted

-----------------------------------------------------------------------------
(* No memory is in two places.                                             *)

(* Taking the first buffer, or losing it.                                  *)
LEMMA ApartTaken ==
  ASSUME TypeOK, Apart, _buffers' = Popped
  PROVE  /\ \A j, k \in 1..Len(_buffers') :
              _buffers'[j].val = _buffers'[k].val /\ _buffers'[j].val # 0 =>
                j = k
         /\ \A k \in 1..Len(_buffers') :
              \E l \in 1..Len(_buffers) : _buffers'[k] = _buffers[l]
         /\ \A k \in 1..Len(_buffers') :
              _buffers # <<>> /\ _buffers'[k].val = _buffers[1].val =>
                _buffers[1].val = 0
<1>1. CASE _buffers = <<>> /\ _buffers' = <<>>
  BY <1>1
<1>2. CASE _buffers # <<>>
  <2>1. /\ 1 \in 1..Len(_buffers)
        /\ \A k \in 1..Len(_buffers') :
             /\ k + 1 \in 1..Len(_buffers) /\ k + 1 # 1 /\ k \in Nat
             /\ _buffers'[k] = _buffers[k + 1]
    BY <1>2, BufferTaken
  <2>2. ASSUME NEW j \in 1..Len(_buffers'), NEW k \in 1..Len(_buffers'),
               _buffers'[j].val = _buffers'[k].val, _buffers'[j].val # 0
        PROVE  j = k
    <3>1. j + 1 = k + 1 /\ j \in Nat /\ k \in Nat
      BY <2>1, <2>2 DEF Apart
    <3> QED
      BY <3>1
  <2>3. ASSUME NEW k \in 1..Len(_buffers'), _buffers'[k].val = _buffers[1].val,
               _buffers[1].val # 0
        PROVE  FALSE
    BY <2>1, <2>3 DEF Apart
  <2> QED
    BY <2>1, <2>2, <2>3
<1> QED
  BY <1>1, <1>2, BufferTaken

(* Memory is handed on and never shared: retrieve_buffer pops what it      *)
(* gives away, and what it allocates is not in use.                        *)
LEMMA ApartStep ==
  ASSUME TypeOK, Room, Apart, [Next]_vars
  PROVE  Apart'
<1>1. CASE Idle
  BY <1>1 DEF Idle, Apart, Busy
<1>2. CASE Exit
  <2>1. /\ rx' = None /\ tasks' = <<>> /\ _buffers' = <<>>
        /\ \A t \in Thread : thread'[t] = None
    BY <1>2 DEF Exit
  <2> QED
    BY <2>1 DEF Apart, Busy
<1>3. CASE Finish
  <2>1. /\ _buffers' = <<>> /\ UNCHANGED <<rx, tasks, thread>>
    BY <1>3 DEF Finish, poolVars
  <2> QED
    BY <2>1 DEF Apart, Busy
<1>4. ASSUME NEW i \in Inv, ReceiveBare(i), rx = None
      PROVE  Apart'
  <2>1. PICK e \in Task :
          /\ e.inv = i /\ e.got = 0 /\ e.buf.val = 0
          /\ tasks' = Append(tasks, e)
          /\ UNCHANGED <<max_functions, rx, dp, _buffers, mem, thread,
                         replies>>
    BY <1>4, BareAdds
  <2>2. \A k \in 1..Len(tasks') :
          \/ k \in 1..Len(tasks) /\ tasks'[k] = tasks[k]
          \/ k = Len(tasks') /\ tasks'[k] = e
    BY <2>1, TaskAdded
  <2>3. UNCHANGED <<rx, _buffers, thread>> /\ e.buf.val = 0
    BY <2>1
  <2> QED
    BY <1>4, <2>2, <2>3 DEF Apart, Busy
<1>5. ASSUME NEW i \in Inv, ReceiveHeader(i)
      PROVE  Apart'
  <2> DEFINE v == rx'.buf.val
  <2>1. /\ rx = None /\ rx' # None /\ v # 0 /\ _buffers # <<>>
        /\ \/ v = _buffers[1].val
           \/ _buffers[1].val = 0 /\ ~Uses(v)
        /\ _buffers' = Popped /\ UNCHANGED <<tasks, thread>>
    BY <1>5, HeaderTakes
  <2>2. /\ \A j, k \in 1..Len(_buffers') :
             _buffers'[j].val = _buffers'[k].val /\ _buffers'[j].val # 0 =>
               j = k
        /\ \A k \in 1..Len(_buffers') :
             \E l \in 1..Len(_buffers) : _buffers'[k] = _buffers[l]
        /\ \A k \in 1..Len(_buffers') :
             _buffers'[k].val = _buffers[1].val => _buffers[1].val = 0
    BY <2>1, ApartTaken
  <2>3. 1 \in 1..Len(_buffers)
    BY <2>1, BufferTaken
  <2> HIDE DEF v
  <2>4. /\ \A k \in 1..Len(_buffers') : _buffers'[k].val # v
        /\ \A k \in 1..Len(tasks) : tasks[k].buf.val # v
        /\ \A t \in Thread : Busy(t) => thread[t].buf.val # v
    <3>1. CASE v = _buffers[1].val
      BY <2>1, <2>2, <2>3, <3>1 DEF Apart
    <3>2. CASE ~Uses(v)
      BY <2>2, <3>2 DEF Uses
    <3> QED
      BY <2>1, <3>1, <3>2
  <2>5. /\ \A k \in 1..Len(_buffers'), j \in 1..Len(tasks) :
             _buffers'[k].val = tasks[j].buf.val => tasks[j].buf.val = 0
        /\ \A k \in 1..Len(_buffers'), t \in Thread :
             Busy(t) /\ _buffers'[k].val = thread[t].buf.val =>
               thread[t].buf.val = 0
    BY <2>2 DEF Apart
  <2> QED
    BY <2>1, <2>2, <2>4, <2>5 DEF Apart, Busy, v
<1>6. ASSUME NEW i \in Inv, ReceiveRefused(i)
      PROVE  Apart'
  <2>1. _buffers' = Popped /\ UNCHANGED <<rx, tasks, thread>>
    BY <1>6, RefusedTakes
  <2>2. /\ \A j, k \in 1..Len(_buffers') :
             _buffers'[j].val = _buffers'[k].val /\ _buffers'[j].val # 0 =>
               j = k
        /\ \A k \in 1..Len(_buffers') :
             \E l \in 1..Len(_buffers) : _buffers'[k] = _buffers[l]
    BY <2>1, ApartTaken
  <2>3. UNCHANGED <<rx, tasks, thread>>
    BY <2>1
  <2> QED
    BY <2>2, <2>3 DEF Apart, Busy
<1>7. ASSUME NEW n \in Int, rx # None, ReceivePayload(n)
      PROVE  Apart'
  <2>1. PICK e \in Task :
          /\ e.inv = rx.inv /\ e.got = n /\ e.buf = rx.buf
          /\ tasks' = Append(tasks, e) /\ rx' = None
          /\ UNCHANGED <<max_functions, _buffers, thread, replies>>
    BY <1>7, PayloadAdds
  <2>2. \A k \in 1..Len(tasks') :
          \/ k \in 1..Len(tasks) /\ tasks'[k] = tasks[k]
          \/ k = Len(tasks') /\ tasks'[k] = e
    BY <2>1, TaskAdded
  <2>3. UNCHANGED <<_buffers, thread>> /\ e.buf.val = rx.buf.val /\ rx' = None
    BY <2>1
  <2>4. \A k \in 1..Len(tasks') :
          \/ k \in 1..Len(tasks) /\ tasks'[k].buf.val = tasks[k].buf.val
          \/ k = Len(tasks') /\ tasks'[k].buf.val = rx.buf.val
    BY <2>2, <2>3
  <2>5. \A j, k \in 1..Len(tasks') :
          tasks'[j].buf.val = tasks'[k].buf.val /\ tasks'[j].buf.val # 0 =>
            j = k
    BY <1>7, <2>4 DEF Apart
  <2>6. \A k \in 1..Len(_buffers), j \in 1..Len(tasks') :
          _buffers[k].val = tasks'[j].buf.val => tasks'[j].buf.val = 0
    BY <1>7, <2>4 DEF Apart
  <2>7. \A k \in 1..Len(tasks'), t \in Thread :
          Busy(t) /\ tasks'[k].buf.val = thread[t].buf.val =>
            thread[t].buf.val = 0
    BY <1>7, <2>4 DEF Apart
  <2> QED
    BY <2>3, <2>5, <2>6, <2>7 DEF Apart, Busy
<1>8. ASSUME NEW t \in Thread, TakeTask(t)
      PROVE  Apart'
  <2>1. /\ 1 \in 1..Len(tasks) /\ Len(tasks') \in Nat
        /\ \A k \in 1..Len(tasks') :
             k + 1 \in 1..Len(tasks) /\ k + 1 # 1 /\ tasks'[k] = tasks[k + 1]
        /\ thread'[t] # None /\ thread'[t].buf = tasks[1].buf
        /\ \A u \in Thread : u # t => thread'[u] = thread[u]
        /\ UNCHANGED <<rx, _buffers>>
    BY <1>8, TaskTaken
  <2>2. ASSUME NEW j \in 1..Len(tasks'), NEW k \in 1..Len(tasks'),
               tasks'[j].buf.val = tasks'[k].buf.val, tasks'[j].buf.val # 0
        PROVE  j = k
    <3>1. j + 1 = k + 1
      BY <2>1, <2>2 DEF Apart
    <3> QED
      BY <2>1, <3>1
  <2>3. \A k \in 1..Len(tasks') :
          /\ \E l \in 1..Len(tasks) : tasks'[k] = tasks[l]
          /\ tasks'[k].buf.val = tasks[1].buf.val => tasks[1].buf.val = 0
    BY <2>1 DEF Apart
  <2>4. \A u \in Thread :
          thread'[u] # None =>
            \/ u = t /\ thread'[u].buf.val = tasks[1].buf.val
            \/ u # t /\ Busy(u) /\ thread'[u].buf.val = thread[u].buf.val
    BY <2>1 DEF Busy
  <2>5. \A u, w \in Thread :
          thread'[u] # None /\ thread'[w] # None
            /\ thread'[u].buf.val = thread'[w].buf.val
            /\ thread'[u].buf.val # 0 => u = w
    BY <2>1, <2>4 DEF Apart
  <2>6. \A k \in 1..Len(_buffers), u \in Thread :
          thread'[u] # None /\ _buffers[k].val = thread'[u].buf.val =>
            thread'[u].buf.val = 0
    BY <2>1, <2>4 DEF Apart
  <2>7. \A k \in 1..Len(tasks'), u \in Thread :
          thread'[u] # None /\ tasks'[k].buf.val = thread'[u].buf.val =>
            thread'[u].buf.val = 0
    BY <2>3, <2>4 DEF Apart
  <2>8. \A k \in 1..Len(_buffers), j \in 1..Len(tasks') :
          _buffers[k].val = tasks'[j].buf.val => tasks'[j].buf.val = 0
    BY <2>3 DEF Apart
  <2>9. rx # None => \A k \in 1..Len(tasks') : tasks'[k].buf.val # rx.buf.val
    BY <2>3 DEF Apart
  <2>10. rx # None => \A u \in Thread : thread'[u] # None =>
           thread'[u].buf.val # rx.buf.val
    BY <2>1, <2>4 DEF Apart
  <2>11. UNCHANGED <<rx, _buffers>>
    BY <2>1
  <2> QED
    BY <2>2, <2>5, <2>6, <2>7, <2>8, <2>9, <2>10, <2>11 DEF Apart, Busy
<1>9. ASSUME NEW t \in Thread, return_buffer(t)
      PROVE  Apart'
  <2>1. /\ Busy(t) /\ thread'[t] = None
        /\ \A u \in Thread : u # t => thread'[u] = thread[u]
        /\ \A k \in 1..Len(_buffers') :
             \/ k \in 1..Len(_buffers) /\ _buffers'[k] = _buffers[k]
             \/ k = Len(_buffers') /\ _buffers'[k] = thread[t].buf
        /\ UNCHANGED <<rx, tasks>>
    BY <1>9, BufferBack
  <2>2. \A u \in Thread : thread'[u] # None =>
          u # t /\ Busy(u) /\ thread'[u].buf.val = thread[u].buf.val
    BY <2>1 DEF Busy
  <2>a. \A k \in 1..Len(_buffers') :
          \/ k \in 1..Len(_buffers) /\ _buffers'[k].val = _buffers[k].val
          \/ k = Len(_buffers') /\ _buffers'[k].val = thread[t].buf.val
    BY <2>1
  <2>b. \A j, k \in 1..Len(_buffers') :
          _buffers'[j].val = _buffers'[k].val /\ _buffers'[j].val # 0 => j = k
    BY <2>1, <2>a DEF Apart
  <2>c. \A k \in 1..Len(_buffers'), j \in 1..Len(tasks) :
          _buffers'[k].val = tasks[j].buf.val => tasks[j].buf.val = 0
    BY <2>1, <2>a DEF Apart
  <2>d. rx # None =>
          \A k \in 1..Len(_buffers') : _buffers'[k].val # rx.buf.val
    BY <2>1, <2>a DEF Apart
  <2>4. /\ \A u, w \in Thread :
             thread'[u] # None /\ thread'[w] # None
               /\ thread'[u].buf.val = thread'[w].buf.val
               /\ thread'[u].buf.val # 0 => u = w
        /\ \A k \in 1..Len(_buffers'), u \in Thread :
             thread'[u] # None /\ _buffers'[k].val = thread'[u].buf.val =>
               thread'[u].buf.val = 0
        /\ \A k \in 1..Len(tasks), u \in Thread :
             thread'[u] # None /\ tasks[k].buf.val = thread'[u].buf.val =>
               thread'[u].buf.val = 0
        /\ rx # None =>
             \A u \in Thread : thread'[u] # None =>
               thread'[u].buf.val # rx.buf.val
    BY <2>1, <2>2 DEF Apart
  <2>5. UNCHANGED <<rx, tasks>>
    BY <2>1
  <2> QED
    BY <2>b, <2>c, <2>d, <2>4, <2>5 DEF Apart, Busy
<1>10. ASSUME NEW t \in Thread, GoesOn(t)
       PROVE  Apart'
  <2>1. /\ UNCHANGED <<rx, tasks, _buffers>>
        /\ \A u \in Thread : thread'[u] # None =>
             Busy(u) /\ thread'[u].buf = thread[u].buf
    BY <1>10 DEF GoesOn, Busy
  <2> QED
    BY <2>1 DEF Apart, Busy
<1>11. \A i \in Inv : ReceiveBare(i) => rx = None
  BY DEF ReceiveBare, ReadRequest, Receiving
<1> QED
  BY <1>1, <1>2, <1>3, <1>4, <1>5, <1>6, <1>7, <1>8, <1>9, <1>10, <1>11,
     NextCases

-----------------------------------------------------------------------------
(* What receive waits for is what comes.                                   *)

(* The last unit of a stream does not announce a payload, or that of i.    *)
LastOwes(s, i) ==
  \A k \in 1..Len(s) : k = Len(s) /\ Owing(s[k]) => i = s[k][2]

(* Reading a stream keeps it framed.                                       *)
LEMMA CutFramed ==
  ASSUME NEW s \in Seq(Unit), NEW n \in 0..Len(s), Framed(s)
  PROVE  /\ Framed(Cut(s, n))
         /\ \A i : LastOwes(s, i) => LastOwes(Cut(s, n), i)
<1> DEFINE b == Cut(s, n)
<1>1. /\ b \in Seq(Unit) /\ Len(b) = Len(s) - n
      /\ \A k \in 1..Len(b) : k + n \in 1..Len(s) /\ b[k] = s[k + n]
  BY CutElement
<1>2. n \in Nat /\ Len(s) \in Nat
  BY LenProperties
<1> HIDE DEF b
<1>3. Framed(b)
  <2> SUFFICES ASSUME NEW k \in 1..Len(b), NEW l \in 1..Len(b), l = k + 1,
                      Owing(b[k])
               PROVE  b[l] = <<"body", b[k][2]>>
    BY DEF Framed
  <2>1. l + n = (k + n) + 1
    BY <1>1, <1>2
  <2> QED
    BY <1>1, <2>1 DEF Framed
<1>4. ASSUME NEW i, LastOwes(s, i)
      PROVE  LastOwes(b, i)
  <2> SUFFICES ASSUME NEW k \in 1..Len(b), k = Len(b), Owing(b[k])
               PROVE  i = b[k][2]
    BY DEF LastOwes
  <2>1. k + n = Len(s)
    BY <1>1, <1>2
  <2> QED
    BY <1>1, <1>4, <2>1 DEF LastOwes
<1> QED
  BY <1>3, <1>4 DEF b

(* So does a request, behind a stream that announces nothing more.         *)
LEMMA RequestFramed ==
  ASSUME NEW s \in Seq(Unit), NEW i \in Inv, Framed(s), LastOwes(s, None)
  PROVE  /\ Framed(s \o Request(i))
         /\ LastOwes(s \o Request(i), IF Units(i) > 0 THEN i ELSE None)
         /\ Len(s \o Request(i)) # 0
         /\ Len(s) # 0 => (s \o Request(i))[1] = s[1]
<1> DEFINE r == Request(i)
           b == s \o r
<1>0. /\ r \in Seq(Unit) /\ Len(r) = 2
      /\ r[1] = <<"head", i>> /\ r[2] = <<"rest", i>>
  BY RequestElement
<1> HIDE DEF r
<1>1. /\ b \in Seq(Unit) /\ Len(b) = Len(s) + Len(r)
      /\ \A k \in 1..(Len(s) + Len(r)) :
           b[k] = IF k <= Len(s) THEN s[k] ELSE r[k - Len(s)]
  BY <1>0, ConcatProperties
<1>2. PICK m \in Nat : m = Len(s)
  BY LenProperties
<1> HIDE DEF b
<1>3. /\ \A k \in 1..m : b[k] = s[k]
      /\ b[m + 1] = r[1] /\ b[m + 2] = r[2]
  <2>1. \A k \in 1..(m + 2) : b[k] = IF k <= m THEN s[k] ELSE r[k - m]
    BY <1>0, <1>1, <1>2
  <2>2. \A k \in 1..m : b[k] = s[k]
    BY <2>1
  <2>3. /\ m + 1 \in 1..(m + 2) /\ ~(m + 1 <= m) /\ (m + 1) - m = 1
        /\ m + 2 \in 1..(m + 2) /\ ~(m + 2 <= m) /\ (m + 2) - m = 2
    OBVIOUS
  <2>4. b[m + 1] = r[1]
    BY <2>1, <2>3
  <2>5. b[m + 2] = r[2]
    BY <2>1, <2>3
  <2> QED
    BY <2>2, <2>4, <2>5
<1>a. Len(b) = m + 2
  BY <1>0, <1>1, <1>2
<1>4. ~Owing(b[m + 1])
  BY <1>0, <1>3 DEF Owing
<1>5. Framed(b)
  <2> SUFFICES ASSUME NEW k \in 1..Len(b), NEW l \in 1..Len(b), l = k + 1,
                      Owing(b[k])
               PROVE  b[l] = <<"body", b[k][2]>>
    BY DEF Framed
  <2>0. k # m + 1
    BY <1>4
  <2>1. k \in 1..m
    BY <1>a, <2>0
  <2>2. k # m
    <3> SUFFICES ASSUME k = m
                 PROVE  FALSE
      OBVIOUS
    <3>1. Owing(s[k]) /\ k = Len(s)
      BY <1>2, <1>3, <2>1
    <3>2. None = s[k][2]
      BY <1>2, <2>1, <3>1 DEF LastOwes
    <3> QED
      BY <3>1, <3>2 DEF Owing
  <2>3. l \in 1..m
    BY <2>1, <2>2
  <2> QED
    BY <1>2, <1>3, <2>1, <2>3 DEF Framed
<1>6. LastOwes(b, IF Units(i) > 0 THEN i ELSE None)
  <2> SUFFICES ASSUME NEW k \in 1..Len(b), k = Len(b), Owing(b[k])
               PROVE  (IF Units(i) > 0 THEN i ELSE None) = b[k][2]
    BY DEF LastOwes
  <2>1. k = m + 2
    BY <1>0, <1>1, <1>2
  <2>2. b[k] = <<"rest", i>>
    BY <1>0, <1>3, <2>1
  <2> QED
    BY <2>2 DEF Owing
<1> QED
  BY <1>0, <1>1, <1>2, <1>3, <1>5, <1>6 DEF b, r

(* So does the payload that the end of the stream announces.               *)
LEMMA PayloadFramed ==
  ASSUME NEW s \in Seq(Unit), NEW i \in Inv, Framed(s), LastOwes(s, i),
         Units(i) > 0
  PROVE  /\ Framed(s \o Payload(i)) /\ LastOwes(s \o Payload(i), None)
         /\ Len(s \o Payload(i)) # 0
         /\ (s \o Payload(i))[1] = IF Len(s) = 0 THEN <<"body", i>> ELSE s[1]
<1> DEFINE r == Payload(i)
           b == s \o r
<1>0. /\ r \in Seq(Unit) /\ Len(r) = Units(i)
      /\ \A k \in 1..Len(r) : r[k] = <<"body", i>>
  BY MessageElement
<1> HIDE DEF r
<1>1. /\ b \in Seq(Unit) /\ Len(b) = Len(s) + Len(r)
      /\ \A k \in 1..(Len(s) + Len(r)) :
           b[k] = IF k <= Len(s) THEN s[k] ELSE r[k - Len(s)]
  BY <1>0, ConcatProperties
<1>2. PICK m \in Nat, u \in Nat : m = Len(s) /\ u = Len(r)
  BY <1>0, LenProperties
<1>3. u > 0
  BY <1>0, <1>2
<1> HIDE DEF b
<1>4. /\ Len(b) = m + u
      /\ \A k \in 1..m : b[k] = s[k]
      /\ \A k \in (m + 1)..(m + u) : b[k] = <<"body", i>>
  <2>1. \A k \in (m + 1)..(m + u) : k - m \in 1..u
    OBVIOUS
  <2> QED
    BY <1>0, <1>1, <1>2, <2>1
<1>5. \A k \in (m + 1)..(m + u) : ~Owing(b[k])
  BY <1>4 DEF Owing
<1>6. Framed(b)
  <2> SUFFICES ASSUME NEW k \in 1..Len(b), NEW l \in 1..Len(b), l = k + 1,
                      Owing(b[k])
               PROVE  b[l] = <<"body", b[k][2]>>
    BY DEF Framed
  <2>1. k \in 1..m
    BY <1>4, <1>5
  <2>2. CASE k = m
    <3>1. Owing(s[k]) /\ k = Len(s) /\ b[k] = s[k]
      BY <1>2, <1>4, <2>1, <2>2
    <3>2. i = s[k][2]
      BY <1>2, <2>1, <3>1 DEF LastOwes
    <3>3. l \in (m + 1)..(m + u)
      BY <1>3, <2>2
    <3> QED
      BY <1>4, <3>1, <3>2, <3>3
  <2>3. CASE k # m
    <3>1. l \in 1..m
      BY <2>1, <2>3
    <3> QED
      BY <1>2, <1>4, <2>1, <3>1 DEF Framed
  <2> QED
    BY <2>2, <2>3
<1>7. LastOwes(b, None)
  <2> SUFFICES ASSUME NEW k \in 1..Len(b), k = Len(b), Owing(b[k])
               PROVE  FALSE
    BY DEF LastOwes
  <2>1. k \in (m + 1)..(m + u)
    BY <1>3, <1>4
  <2> QED
    BY <1>5, <2>1
<1>8. b[1] = IF Len(s) = 0 THEN <<"body", i>> ELSE s[1]
  BY <1>2, <1>3, <1>4
<1> QED
  BY <1>2, <1>3, <1>4, <1>6, <1>7, <1>8 DEF b, r

(* An empty stream has no units, and others a first one.                   *)
LEMMA FirstUnit ==
  ASSUME NEW s \in Seq(Unit)
  PROVE  /\ s = <<>> <=> Len(s) = 0
         /\ s # <<>> => 1 \in 1..Len(s)
         /\ Len(s) \in Nat
BY EmptySeq, LenProperties

(* While receive waits for a payload, only the client changes the stream.  *)
LEMMA RxStays ==
  ASSUME TypeOK, Phases, [Next]_vars, rx # None, rx' # None
  PROVE  /\ rx' = rx /\ phase' = phase /\ cpIn' = cpIn
         /\ \/ UNCHANGED <<dpIn, dp, owing>>
            \/ \E i \in Inv : ClientRequest(i)
            \/ ClientPayload \/ ClientLeaves
<1>1. CASE UNCHANGED vars
  BY <1>1 DEF vars, mainVars, clientVars
<1>2. CASE Start \/ StartFails
  BY <1>2 DEF Start, StartFails, Phases
<1>3. CASE LoadFails \/ Crash
  BY <1>3 DEF LoadFails, Crash, Exit
<1>4. CASE Client
  BY <1>4 DEF Client, ClientRequest, ClientPayload, ClientLeaves, mainVars
<1>5. CASE ReadEof \/ ReadError \/ ReceiveEmpty
  BY <1>5 DEF ReadEof, ReadError, ReceiveEmpty, ReadRequest, Receiving
<1>6. CASE Finish
  BY <1>6 DEF Finish, Phases
<1>7. ASSUME NEW n \in 1..2, ReadUnknown(n)
      PROVE  FALSE
  BY <1>7 DEF ReadUnknown, Receiving
<1>8. ASSUME NEW i \in Inv, ReceiveBare(i) \/ ReceiveHeader(i)
                                \/ ReceiveRefused(i)
      PROVE  FALSE
  BY <1>8 DEF ReceiveBare, ReceiveHeader, ReceiveRefused, ReadRequest,
     Receiving
<1>9. ASSUME NEW n, ReceivePayload(n)
      PROVE  FALSE
  BY <1>9 DEF ReceivePayload
<1>10. ASSUME NEW t \in Thread, Worker(t)
       PROVE  UNCHANGED <<rx, phase, cpIn, dpIn, dp, owing>>
  BY <1>10 DEF Worker, TakeTask, FindFunction, UnknownFunction, SendHeader,
     SendData, mark_end, return_buffer, mainVars, clientVars
<1> QED
  BY <1>1, <1>2, <1>3, <1>4, <1>5, <1>6, <1>7, <1>8, <1>9, <1>10
  DEF Next, Main

(* The data plane is open from the start until the client leaves.          *)
LEMMA OpenStep ==
  ASSUME TypeOK, [Next]_vars, dp' = "open"
  PROVE  dp = "open" \/ Start
<1>1. CASE UNCHANGED vars
  BY <1>1 DEF vars
<1>2. CASE StartFails \/ LoadFails \/ Crash \/ Client
  BY <1>2 DEF StartFails, LoadFails, Crash, Exit, Client, ClientRequest,
     ClientPayload, ClientLeaves
<1>3. CASE ReadEof \/ ReadError \/ ReceiveEmpty \/ Finish
  BY <1>3 DEF ReadEof, ReadError, ReceiveEmpty, Finish
<1>4. ASSUME NEW n, ReadUnknown(n) \/ ReceivePayload(n)
      PROVE  dp = "open"
  BY <1>4 DEF ReadUnknown, ReceivePayload
<1>5. ASSUME NEW i \in Inv, ReceiveBare(i) \/ ReceiveHeader(i)
                                \/ ReceiveRefused(i)
      PROVE  dp = "open"
  BY <1>5 DEF ReceiveBare, ReceiveHeader, ReceiveRefused
<1>6. ASSUME NEW t \in Thread, Worker(t)
      PROVE  dp = "open"
  BY <1>6 DEF Worker, TakeTask, FindFunction, UnknownFunction, SendHeader,
     SendData, mark_end, return_buffer
<1> QED
  BY <1>1, <1>2, <1>3, <1>4, <1>5, <1>6 DEF Next, Main

(* The streams are framed.                                                 *)
LEMMA FramedStep ==
  ASSUME TypeOK, Expected, Phases, [Next]_vars
  PROVE  /\ Framed(cpIn') /\ Framed(dpIn')
         /\ owing' # None => Units(owing') > 0
         /\ dp' = "open" => LastOwes(dpIn', owing')
<1>0. /\ cpIn \in Seq(Unit) /\ dpIn \in Seq(Unit)
      /\ Framed(cpIn) /\ Framed(dpIn)
      /\ owing # None => Units(owing) > 0
      /\ dp = "open" => LastOwes(dpIn, owing)
  BY DEF TypeOK, Expected, LastOwes
<1>1. Framed(<<>>) /\ \A i : LastOwes(<<>>, i)
  BY DEF Framed, LastOwes
<1>2. dp' = "open" => dp = "open" \/ (dpIn = <<>> /\ owing = None)
  BY OpenStep DEF Start, Phases
<1>3. CASE Emptied
  BY <1>0, <1>1, <1>2, <1>3 DEF Emptied, clientVars
<1>4. ASSUME NEW n \in 0..Len(Stream), Reads(n)
      PROVE  /\ Framed(cpIn') /\ Framed(dpIn') /\ owing' = owing
             /\ dp' = "open" => LastOwes(dpIn', owing)
  <2>1. owing' = owing
    BY <1>4 DEF Reads, clientVars
  <2>2. dp' = "open" => LastOwes(dpIn, owing)
    BY <1>0, <1>1, <1>2
  <2>3. CASE UNCHANGED <<cpIn, dpIn>>
    BY <1>0, <2>1, <2>2, <2>3
  <2>4. CASE Consume(n)
    BY <1>0, <2>1, <2>2, <2>4, Consumed, CutFramed
  <2> QED
    BY <1>4, <2>3, <2>4 DEF Reads
<1>5. ASSUME NEW i \in Inv, ClientRequest(i)
      PROVE  /\ Framed(cpIn') /\ Framed(dpIn')
             /\ owing' # None => Units(owing') > 0
             /\ LastOwes(dpIn', owing')
  <2>1. /\ dpIn' = dpIn \o Request(i) /\ cpIn' = cpIn
        /\ owing = None /\ dp = "open"
        /\ owing' = IF Units(i) > 0 THEN i ELSE None
    BY <1>5 DEF ClientRequest
  <2>2. /\ Framed(dpIn \o Request(i))
        /\ LastOwes(dpIn \o Request(i), IF Units(i) > 0 THEN i ELSE None)
    BY <1>0, <2>1, RequestFramed
  <2> QED
    BY <1>0, <2>1, <2>2
<1>6. CASE ClientPayload
  <2>1. /\ dpIn' = dpIn \o Payload(owing) /\ cpIn' = cpIn
        /\ owing \in Inv /\ dp = "open" /\ owing' = None
        /\ Units(owing) > 0
    BY <1>0, <1>6 DEF ClientPayload, TypeOK
  <2>2. /\ Framed(dpIn \o Payload(owing))
        /\ LastOwes(dpIn \o Payload(owing), None)
    BY <1>0, <2>1, PayloadFramed
  <2> QED
    BY <1>0, <2>1, <2>2
<1> QED
  BY <1>0, <1>3, <1>4, <1>5, <1>6, StreamStep

(* What receive waits for is next, or owed by the client.                  *)
LEMMA ExpectedStep ==
  ASSUME TypeOK, Room, Phases, Expected, [Next]_vars
  PROVE  Expected'
<1>0. TypeOK'
  BY TypeStep
<1>1. /\ Framed(cpIn') /\ Framed(dpIn')
      /\ owing' # None => Units(owing') > 0
      /\ dp' = "open" => LastOwes(dpIn', owing')
  BY FramedStep
<1> DEFINE P == rx # None =>
                  /\ rx.buf.val # 0 /\ Units(rx.inv) > 0
                  /\ Stream # <<>> => Stream[1] = <<"body", rx.inv>>
                  /\ phase = "loop" /\ dpIn = <<>> /\ dp = "open" =>
                       owing = rx.inv
<1>2. SUFFICES P'
  BY <1>1 DEF Expected, Framed, LastOwes, Owing, Units
<1>3. /\ cpIn \in Seq(Unit) /\ dpIn \in Seq(Unit)
      /\ Framed(cpIn) /\ Framed(dpIn)
      /\ dp = "open" => LastOwes(dpIn, owing)
      /\ owing # None => Units(owing) > 0
  BY DEF TypeOK, Expected, LastOwes
<1>4. CASE rx # None /\ rx' # None
  <2>1. /\ rx' = rx /\ phase' = phase /\ cpIn' = cpIn
        /\ \/ UNCHANGED <<dpIn, dp, owing>>
           \/ \E i \in Inv : ClientRequest(i)
           \/ ClientPayload \/ ClientLeaves
    BY <1>4, RxStays
  <2>2. /\ rx.buf.val # 0 /\ Units(rx.inv) > 0 /\ rx.inv \in Inv
        /\ phase \in {"first", "loop"}
        /\ Stream # <<>> => Stream[1] = <<"body", rx.inv>>
        /\ phase = "loop" /\ dpIn = <<>> /\ dp = "open" => owing = rx.inv
    BY <1>4, PayloadSize DEF Expected, Phases
  <2>3. CASE phase = "first"
    BY <2>1, <2>2, <2>3 DEF Stream
  <2>4. CASE phase = "loop"
    <3>1. SUFFICES /\ dpIn' # <<>> => dpIn'[1] = <<"body", rx.inv>>
                   /\ dpIn' = <<>> /\ dp' = "open" => owing' = rx.inv
      BY <2>1, <2>2, <2>4 DEF Stream
    <3>2. /\ dpIn # <<>> => dpIn[1] = <<"body", rx.inv>>
          /\ dpIn = <<>> /\ dp = "open" => owing = rx.inv
      BY <2>2, <2>4 DEF Stream
    <3>3. CASE UNCHANGED <<dpIn, dp, owing>>
      BY <3>2, <3>3
    <3>4. CASE ClientLeaves
      BY <3>2, <3>4 DEF ClientLeaves
    <3>5. ASSUME NEW i \in Inv, ClientRequest(i)
          PROVE  dpIn' # <<>> /\ dpIn'[1] = <<"body", rx.inv>>
      <4>1. /\ dpIn' = dpIn \o Request(i) /\ owing = None /\ dp = "open"
        BY <3>5 DEF ClientRequest
      <4>2. dpIn # <<>>
        BY <2>2, <3>2, <4>1, ExecAssumption
      <4>3. Len(dpIn') # 0 /\ (Len(dpIn) # 0 => dpIn'[1] = dpIn[1])
        BY <1>3, <4>1, RequestFramed
      <4>4. dpIn' \in Seq(Unit)
        BY <1>0 DEF TypeOK
      <4> QED
        BY <1>3, <3>2, <4>2, <4>3, <4>4, FirstUnit
    <3>6. ASSUME ClientPayload
          PROVE  dpIn' # <<>> /\ dpIn'[1] = <<"body", rx.inv>>
      <4>1. /\ dpIn' = dpIn \o Payload(owing) /\ owing \in Inv /\ dp = "open"
            /\ Units(owing) > 0
        BY <1>3, <3>6 DEF ClientPayload, TypeOK
      <4>2. /\ Len(dpIn') # 0
            /\ dpIn'[1] = IF Len(dpIn) = 0 THEN <<"body", owing>> ELSE dpIn[1]
        BY <1>3, <4>1, PayloadFramed
      <4>3. dpIn' \in Seq(Unit)
        BY <1>0 DEF TypeOK
      <4> QED
        BY <1>3, <3>2, <4>1, <4>2, <4>3, FirstUnit
    <3> QED
      BY <2>1, <3>3, <3>4, <3>5, <3>6
  <2> QED
    BY <2>2, <2>3, <2>4
<1>5. CASE rx = None /\ rx' # None
  <2>1. PICK i \in Inv : ReceiveHeader(i)
    <3>1. /\ ~Idle /\ ~Exit /\ ~Finish
          /\ \A i \in Inv : ~ReceiveBare(i) /\ ~ReceiveRefused(i)
      BY <1>5 DEF Idle, Exit, Finish, ReceiveBare, ReceiveRefused
    <3>2. \A t \in Thread : ~TakeTask(t) /\ ~return_buffer(t) /\ ~GoesOn(t)
      BY <1>5 DEF TakeTask, return_buffer, GoesOn, mainVars
    <3> QED
      BY <1>5, <3>1, <3>2, NextCases
  <2>2. /\ rx'.inv = i /\ rx'.buf.val # 0
        /\ UNCHANGED <<phase, dp, owing>> /\ phase \in {"first", "loop"}
        /\ Units(i) > 0
    BY <2>1, HeaderTakes, AnnouncedSize DEF ReceiveHeader, clientVars
  <2>3. ReadRequest(i)
    BY <2>1 DEF ReceiveHeader
  <2>4. /\ 2 \in 0..Len(Stream) /\ 2 \in 1..Len(Stream)
        /\ Stream[2] = <<"rest", i>>
    BY <2>3, ReadsRequest
  <2>5. Consume(2)
    BY <2>3 DEF ReadRequest
  <2>6. Owing(<<"rest", i>>)
    BY <2>2, ExecAssumption DEF Owing
  <2>7. ASSUME NEW s \in Seq(Unit), NEW b \in Seq(Unit), b = Cut(s, 2),
               2 \in 0..Len(s), 2 \in 1..Len(s), s[2] = <<"rest", i>>,
               Framed(s)
        PROVE  /\ b # <<>> => b[1] = <<"body", i>>
               /\ b = <<>> => \A j : LastOwes(s, j) => j = i
    <3>1. /\ Len(b) = Len(s) - 2
          /\ \A k \in 1..Len(b) : k + 2 \in 1..Len(s) /\ b[k] = s[k + 2]
      BY <2>7, CutElement
    <3>2. Len(s) \in Nat /\ (b = <<>> <=> Len(b) = 0)
          /\ (b # <<>> => 1 \in 1..Len(b))
      BY FirstUnit
    <3>3. ASSUME b # <<>>
          PROVE  b[1] = <<"body", i>>
      <4>1. 3 \in 1..Len(s) /\ b[1] = s[3]
        BY <3>1, <3>2, <3>3
      <4>a. Owing(s[2]) /\ 3 = 2 + 1
        BY <2>6, <2>7
      <4>b. \A k, l \in 1..Len(s) :
              l = k + 1 /\ Owing(s[k]) => s[l] = <<"body", s[k][2]>>
        BY <2>7 DEF Framed
      <4>2. s[3] = <<"body", s[2][2]>>
        BY <2>7, <4>1, <4>a, <4>b
      <4> QED
        BY <2>7, <4>1, <4>2
    <3>4. ASSUME b = <<>>, NEW j, LastOwes(s, j)
          PROVE  j = i
      <4>1. 2 = Len(s)
        BY <3>1, <3>2, <3>4
      <4> QED
        BY <2>6, <2>7, <3>4, <4>1 DEF LastOwes
    <3> QED
      BY <3>3, <3>4
  <2>8. cpIn' \in Seq(Unit) /\ dpIn' \in Seq(Unit)
    BY <1>0 DEF TypeOK
  <2>9. CASE phase = "first"
    <3>1. cpIn' = Cut(cpIn, 2) /\ Stream = cpIn
      BY <2>4, <2>5, <2>9, Consumed DEF Stream
    <3>2. cpIn' # <<>> => cpIn'[1] = <<"body", i>>
      BY <1>3, <2>4, <2>7, <2>8, <3>1
    <3> QED
      BY <2>2, <2>9, <3>2 DEF Stream
  <2>10. CASE phase = "loop"
    <3>1. dpIn' = Cut(dpIn, 2) /\ Stream = dpIn
      BY <2>4, <2>5, <2>10, Consumed DEF Stream
    <3>2. /\ dpIn' # <<>> => dpIn'[1] = <<"body", i>>
          /\ dpIn' = <<>> /\ dp = "open" => owing = i
      BY <1>3, <2>4, <2>7, <2>8, <3>1
    <3> QED
      BY <2>2, <2>10, <3>2 DEF Stream
  <2> QED
    BY <2>2, <2>9, <2>10
<1> QED
  BY <1>4, <1>5

-----------------------------------------------------------------------------
(* A function finds its payload, and all of it.                            *)

(* The buffer that receive reads into is as large as what it reads.        *)
Fits == rx # None => Announced(rx.inv) <= rx.buf.size

(* receive begins to wait for a payload when it has read its request.      *)
LEMMA RxTaken ==
  ASSUME TypeOK, [Next]_vars, rx = None, rx' # None
  PROVE  \E i \in Inv : ReceiveHeader(i)
<1>1. CASE Idle \/ Exit \/ Finish
  BY <1>1 DEF Idle, Exit, Finish
<1>2. ASSUME NEW i \in Inv, ReceiveBare(i) \/ ReceiveRefused(i)
      PROVE  FALSE
  BY <1>2 DEF ReceiveBare, ReceiveRefused
<1>3. ASSUME NEW t \in Thread, TakeTask(t) \/ return_buffer(t) \/ GoesOn(t)
      PROVE  FALSE
  BY <1>3 DEF TakeTask, return_buffer, GoesOn, mainVars
<1> QED
  BY <1>1, <1>2, <1>3, NextCases

(* receive takes a buffer that is large enough when the size is safe: it   *)
(* exceeds the number of buffers, so that the buffer is replaced by one of *)
(* that size, or it is a single byte.                                      *)
LEMMA FitsTaken ==
  ASSUME TypeOK, Counted, NEW n \in Nat, SafeSize(n), Retrieved(n).size > 0
  PROVE  n <= Retrieved(n).size
<1>1. Len(_buffers) \in Nat /\ Len(_buffers) <= Number /\ Number \in Nat
  <2>1. /\ Len(_buffers) \in Nat /\ Len(tasks) \in Nat
        /\ Cardinality(Workers) \in Nat /\ Waiting \in 0..1 /\ Number \in Nat
    BY NumberType
  <2> QED
    BY <2>1 DEF Number
<1>2. Cardinality(Unread) \in Nat
  <2>1. Unread \in SUBSET Inv
    BY DEF Unread
  <2> QED
    BY <2>1, ExecAssumption, FS_Subset, FS_CardinalityType
<1>3. /\ Cardinality(Thread) \in Nat /\ Cardinality(Inv) \in Nat
      /\ max_functions \in Nat /\ max_functions <= Cardinality(Thread)
  BY AddrSize DEF TypeOK
<1>4. Len(_buffers) <= 2 * Cardinality(Thread) + Cardinality(Inv)
  BY <1>1, <1>2, <1>3 DEF Counted
<1>5. _buffers # <<>>
  BY DEF Retrieved, Null
<1>6. CASE Len(_buffers) < n
  BY <1>5, <1>6 DEF Retrieved
<1>7. CASE ~(Len(_buffers) < n)
  <2>1. n <= 1
    BY <1>1, <1>3, <1>4, <1>7 DEF SafeSize
  <2>2. Head(_buffers) \in Buffer
    BY <1>5, TailElement DEF TypeOK
  <2>3. Head(_buffers).size \in Nat
    BY <2>2 DEF Buffer, Null
  <2>4. Retrieved(n) = Head(_buffers)
    BY <1>5, <1>7 DEF Retrieved
  <2> QED
    BY <2>1, <2>3, <2>4
<1> QED
  BY <1>6, <1>7

(* With safe sizes nothing is read past the end of a buffer.               *)
LEMMA FitsStep ==
  ASSUME \A i \in Inv : SafeSize(Bytes[i]) /\ SafeSize(Bytes[i] % 65536),
         TypeOK, Phases, Counted, Fits, [Next]_vars
  PROVE  Fits'
<1>1. SUFFICES ASSUME rx' # None
               PROVE  (Announced(rx.inv) <= rx.buf.size)'
  BY DEF Fits
<1>2. CASE rx # None
  <2>1. rx' = rx /\ phase' = phase
    BY <1>1, <1>2, RxStays
  <2> QED
    BY <1>2, <2>1 DEF Fits, Announced
<1>3. CASE rx = None
  <2>1. PICK i \in Inv : ReceiveHeader(i)
    BY <1>1, <1>3, RxTaken
  <2> DEFINE n == Announced(i)
  <2>2. n \in Nat /\ SafeSize(n)
    BY AnnouncedSize DEF Announced
  <2>3. /\ Retrieved(n).size > 0 /\ phase' = phase
        /\ rx' = [inv |-> i, buf |-> Retrieved(n)]
    BY <2>1 DEF ReceiveHeader
  <2> HIDE DEF n
  <2>4. n <= Retrieved(n).size
    BY <2>2, <2>3, FitsTaken
  <2>5. Announced(i)' = n
    BY <2>3 DEF Announced, n
  <2> QED
    BY <2>3, <2>4, <2>5 DEF Announced
<1> QED
  BY <1>2, <1>3

(* What a task and what a running function have.                           *)
Has(b, n, i) == n > 0 => b.val # 0 /\ mem[b.val] = i

Intact ==
  /\ \A k \in 1..Len(tasks) : Has(tasks[k].buf, tasks[k].got, tasks[k].inv)
  /\ \A t \in Thread : Busy(t) =>
       Has(thread[t].buf, thread[t].got, thread[t].inv)

(* The payload that receive has read is that of the request, and goes      *)
(* nowhere else than into a buffer that is large enough.                   *)
LEMMA PayloadStored ==
  ASSUME TypeOK, Expected, Fits, NEW n \in Int, rx # None, ReceivePayload(n)
  PROVE  /\ n > 0 => mem'[rx.buf.val] = rx.inv
         /\ \A a \in Addr : a # rx.buf.val => mem'[a] = mem[a]
         /\ rx.buf.val # 0
<1>1. /\ rx.buf.val # 0
      /\ Stream # <<>> => Stream[1] = <<"body", rx.inv>>
  BY DEF Expected
<1>2. rx.buf.val \in Addr
  BY <1>1, LiveType, PayloadSize
<1>3. Stream \in Seq(Unit)
  BY StreamType
<1>4. Stream # <<>> => Head(Stream)[2] = rx.inv
  <2>1. Stream # <<>> => Head(Stream) = Stream[1]
    BY <1>3, TailElement
  <2> QED
    BY <1>1, <2>1
<1>5. n > 0 /\ n <= Len(Stream) => Stream # <<>>
  BY <1>3, FirstUnit
<1>6. Spill = {rx.buf.val}
  BY DEF Spill, Fits
<1>7. PICK a \in Spill :
        mem' = IF n > 0 THEN [mem EXCEPT ![rx.buf.val] = rx.inv,
                                         ![a] = rx.inv] ELSE mem
  BY <1>4, <1>5 DEF ReceivePayload
<1>8. a = rx.buf.val
  BY <1>6
<1> QED
  BY <1>1, <1>2, <1>7, <1>8 DEF TypeOK

(* Only receive writes into memory, and what it writes to is its own.      *)
LEMMA IntactStep ==
  ASSUME TypeOK, Room, Apart, Expected, Fits, Intact, [Next]_vars
  PROVE  Intact'
<1>a. /\ \A k \in 1..Len(tasks) : tasks[k].buf.val \in Addr \cup {0}
      /\ \A t \in Thread : Busy(t) => thread[t].buf.val \in Addr \cup {0}
  BY LiveType
<1>1. ASSUME \/ Idle \/ \E i \in Inv : ReceiveHeader(i) \/ ReceiveRefused(i)
      PROVE  Intact'
  <2>1. UNCHANGED <<mem, tasks, thread>>
    BY <1>1 DEF Idle, ReceiveHeader, ReceiveRefused, poolVars
  <2> QED
    BY <2>1 DEF Intact, Has, Busy
<1>2. CASE Exit
  <2>1. tasks' = <<>> /\ \A t \in Thread : thread'[t] = None
    BY <1>2 DEF Exit
  <2> QED
    BY <2>1 DEF Intact, Busy
<1>3. CASE Finish
  <2>1. tasks' = <<>> /\ \A t \in Thread : thread'[t] = None
    BY <1>3 DEF Finish, TasksDone, poolVars
  <2> QED
    BY <2>1 DEF Intact, Busy
<1>4. ASSUME NEW i \in Inv, ReceiveBare(i)
      PROVE  Intact'
  <2>1. PICK e \in Task :
          /\ e.inv = i /\ e.got = 0 /\ e.buf.val = 0
          /\ tasks' = Append(tasks, e)
          /\ UNCHANGED <<max_functions, rx, dp, _buffers, mem, thread,
                         replies>>
    BY <1>4, BareAdds
  <2>2. \A k \in 1..Len(tasks') :
          \/ k \in 1..Len(tasks) /\ tasks'[k] = tasks[k]
          \/ k = Len(tasks') /\ tasks'[k] = e
    BY <2>1, TaskAdded
  <2>3. mem' = mem /\ thread' = thread /\ ~(e.got > 0)
    BY <2>1
  <2> QED
    BY <2>2, <2>3 DEF Intact, Has, Busy
<1>5. ASSUME NEW n \in Int, rx # None, ReceivePayload(n)
      PROVE  Intact'
  <2>1. PICK e \in Task :
          /\ e.inv = rx.inv /\ e.got = n /\ e.buf = rx.buf
          /\ tasks' = Append(tasks, e) /\ rx' = None
          /\ UNCHANGED <<max_functions, _buffers, thread, replies>>
    BY <1>5, PayloadAdds
  <2>2. \A k \in 1..Len(tasks') :
          \/ k \in 1..Len(tasks) /\ tasks'[k] = tasks[k]
          \/ k = Len(tasks') /\ tasks'[k] = e
    BY <2>1, TaskAdded
  <2>3. /\ n > 0 => mem'[rx.buf.val] = rx.inv
        /\ \A a \in Addr : a # rx.buf.val => mem'[a] = mem[a]
        /\ rx.buf.val # 0
    BY <1>5, PayloadStored
  <2>4. e.got > 0 => e.buf.val # 0 /\ mem'[e.buf.val] = e.inv
    BY <2>1, <2>3
  <2>5. \A k \in 1..Len(tasks) : tasks[k].got > 0 =>
          tasks[k].buf.val # 0 /\ mem'[tasks[k].buf.val] = tasks[k].inv
    BY <1>5, <1>a, <2>3 DEF Intact, Has, Apart
  <2>6. \A t \in Thread : Busy(t) /\ thread[t].got > 0 =>
          thread[t].buf.val # 0 /\ mem'[thread[t].buf.val] = thread[t].inv
    BY <1>5, <1>a, <2>3 DEF Intact, Has, Apart
  <2>7. thread' = thread
    BY <2>1
  <2> QED
    BY <2>2, <2>4, <2>5, <2>6, <2>7 DEF Intact, Has, Busy
<1>6. ASSUME NEW t \in Thread, TakeTask(t)
      PROVE  Intact'
  <2>1. /\ 1 \in 1..Len(tasks)
        /\ \A k \in 1..Len(tasks') :
             k + 1 \in 1..Len(tasks) /\ tasks'[k] = tasks[k + 1]
        /\ thread'[t] # None /\ thread'[t].inv = tasks[1].inv
        /\ thread'[t].buf = tasks[1].buf /\ thread'[t].got = tasks[1].got
        /\ \A u \in Thread : u # t => thread'[u] = thread[u]
        /\ mem' = mem
    BY <1>6, TaskTaken
  <2> QED
    BY <2>1 DEF Intact, Has, Busy
<1>7. ASSUME NEW t \in Thread, return_buffer(t)
      PROVE  Intact'
  <2>1. /\ Busy(t) /\ thread'[t] = None /\ tasks' = tasks
        /\ \A u \in Thread : u # t => thread'[u] = thread[u]
    BY <1>7, BufferBack
  <2>2. \A a \in Addr : a # thread[t].buf.val => mem'[a] = mem[a]
    BY <1>7 DEF return_buffer, TypeOK
  <2>3. \A k \in 1..Len(tasks) : tasks[k].got > 0 =>
          tasks[k].buf.val # 0 /\ mem'[tasks[k].buf.val] = tasks[k].inv
    BY <1>a, <2>1, <2>2 DEF Intact, Has, Apart
  <2>4. \A u \in Thread : u # t /\ Busy(u) /\ thread[u].got > 0 =>
          thread[u].buf.val # 0 /\ mem'[thread[u].buf.val] = thread[u].inv
    BY <1>a, <2>1, <2>2 DEF Intact, Has, Apart
  <2> QED
    BY <2>1, <2>3, <2>4 DEF Intact, Has, Busy
<1>8. ASSUME NEW t \in Thread, GoesOn(t)
      PROVE  Intact'
  <2>1. /\ UNCHANGED <<tasks, mem>>
        /\ \A u \in Thread : thread'[u] # None =>
             /\ Busy(u) /\ thread'[u].buf = thread[u].buf
             /\ thread'[u].got = thread[u].got
             /\ thread'[u].inv = thread[u].inv
    BY <1>8 DEF GoesOn, Busy
  <2> QED
    BY <2>1 DEF Intact, Has, Busy
<1> QED
  BY <1>1, <1>2, <1>3, <1>4, <1>5, <1>6, <1>7, <1>8, NextCases

(* All of the payload, as long as the client is there.                     *)
Whole ==
  dp = "open" =>
    /\ \A k \in 1..Len(tasks) : tasks[k].got = Units(tasks[k].inv)
    /\ \A t \in Thread : Busy(t) => thread[t].got = Units(thread[t].inv)

(* A read of a payload is cut short only when the client has left.         *)
LEMMA WholeStep ==
  ASSUME \A i \in Inv : Bytes[i] < 65536,
         TypeOK, Phases, Whole, [Next]_vars
  PROVE  Whole'
<1>1. SUFFICES ASSUME dp' = "open"
               PROVE  Whole'
  BY DEF Whole
<1>2. ASSUME NEW i \in Inv
      PROVE  Announced(i) = Bytes[i] /\ Bytes[i] \in Nat
  <2>1. PICK n \in Nat : n = Bytes[i] /\ n < 65536
    BY <1>2, ExecAssumption
  <2>2. n % 65536 = n
    BY <2>1
  <2> QED
    BY <2>1, <2>2 DEF Announced
<1>3. CASE Start
  <2>1. tasks' = <<>> /\ \A t \in Thread : thread'[t] = None
    BY <1>3 DEF Start, Phases, poolVars, Busy
  <2> QED
    BY <2>1 DEF Whole, Busy
<1>4. CASE dp = "open"
  <2>0. /\ \A k \in 1..Len(tasks) : tasks[k].got = Units(tasks[k].inv)
        /\ \A t \in Thread : Busy(t) => thread[t].got = Units(thread[t].inv)
    BY <1>4 DEF Whole
  <2>1. ASSUME \/ Idle \/ Finish
               \/ \E i \in Inv : ReceiveHeader(i) \/ ReceiveRefused(i)
        PROVE  Whole'
    <3>1. UNCHANGED <<tasks, thread>>
      BY <2>1 DEF Idle, Finish, ReceiveHeader, ReceiveRefused, poolVars
    <3> QED
      BY <2>0, <3>1 DEF Whole, Busy
  <2>2. CASE Exit
    <3>1. tasks' = <<>> /\ \A t \in Thread : thread'[t] = None
      BY <2>2 DEF Exit
    <3> QED
      BY <3>1 DEF Whole, Busy
  <2>3. ASSUME NEW i \in Inv, ReceiveBare(i)
        PROVE  Whole'
    <3>1. PICK e \in Task :
            /\ e.inv = i /\ e.got = 0 /\ e.buf.val = 0
            /\ tasks' = Append(tasks, e)
            /\ UNCHANGED <<max_functions, rx, dp, _buffers, mem, thread,
                           replies>>
      BY <2>3, BareAdds
    <3>2. \A k \in 1..Len(tasks') :
            \/ k \in 1..Len(tasks) /\ tasks'[k] = tasks[k]
            \/ k = Len(tasks') /\ tasks'[k] = e
      BY <3>1, TaskAdded
    <3>3. Bytes[i] = 0
      BY <1>2, <2>3 DEF ReceiveBare
    <3>4. UnitsOf(0) = 0
      BY SomeUnits
    <3>5. e.got = Units(e.inv) /\ thread' = thread
      BY <3>1, <3>3, <3>4 DEF Units
    <3> QED
      BY <2>0, <3>2, <3>5 DEF Whole, Busy
  <2>4. ASSUME NEW n \in Int, rx # None, ReceivePayload(n)
        PROVE  Whole'
    <3>1. PICK e \in Task :
            /\ e.inv = rx.inv /\ e.got = n /\ e.buf = rx.buf
            /\ tasks' = Append(tasks, e) /\ rx' = None
            /\ UNCHANGED <<max_functions, _buffers, thread, replies>>
      BY <2>4, PayloadAdds
    <3>2. \A k \in 1..Len(tasks') :
            \/ k \in 1..Len(tasks) /\ tasks'[k] = tasks[k]
            \/ k = Len(tasks') /\ tasks'[k] = e
      BY <3>1, TaskAdded
    <3>3. n = UnitsOf(Announced(rx.inv))
      BY <1>4, <2>4 DEF ReceivePayload, PayloadRead
    <3>4. n = Units(rx.inv)
      BY <1>2, <2>4, <3>3, PayloadSize DEF Units
    <3>5. e.got = Units(e.inv) /\ thread' = thread
      BY <3>1, <3>4
    <3> QED
      BY <2>0, <3>2, <3>5 DEF Whole, Busy
  <2>5. ASSUME NEW t \in Thread, TakeTask(t)
        PROVE  Whole'
    <3>1. /\ 1 \in 1..Len(tasks)
          /\ \A k \in 1..Len(tasks') :
               k + 1 \in 1..Len(tasks) /\ tasks'[k] = tasks[k + 1]
          /\ thread'[t] # None /\ thread'[t].inv = tasks[1].inv
          /\ thread'[t].got = tasks[1].got
          /\ \A u \in Thread : u # t => thread'[u] = thread[u]
      BY <2>5, TaskTaken
    <3> QED
      BY <2>0, <3>1 DEF Whole, Busy
  <2>6. ASSUME NEW t \in Thread, return_buffer(t)
        PROVE  Whole'
    <3>1. /\ thread'[t] = None /\ tasks' = tasks
          /\ \A u \in Thread : u # t => thread'[u] = thread[u]
      BY <2>6, BufferBack
    <3> QED
      BY <2>0, <3>1 DEF Whole, Busy
  <2>7. ASSUME NEW t \in Thread, GoesOn(t)
        PROVE  Whole'
    <3>1. /\ tasks' = tasks
          /\ \A u \in Thread : thread'[u] # None =>
               /\ Busy(u) /\ thread'[u].got = thread[u].got
               /\ thread'[u].inv = thread[u].inv
      BY <2>7 DEF GoesOn, Busy
    <3> QED
      BY <2>0, <3>1 DEF Whole, Busy
  <2> QED
    BY <2>1, <2>2, <2>3, <2>4, <2>5, <2>6, <2>7, NextCases
<1> QED
  BY <1>1, <1>3, <1>4, OpenStep

-----------------------------------------------------------------------------
(* The buffers of the session circulate.                                   *)

(* None of the first buffers is lost.                                      *)
Present ==
  phase \notin {"ended", "dead"} =>
    \A a \in 1..(2 * max_functions) : Uses(a)

(* A buffer that leaves the queue comes back to it, by way of receive, a   *)
(* task and a thread, or the session ends.                                 *)
LEMMA PresentStep ==
  ASSUME TypeOK, Room, Requests, Phases, Present, [Next]_vars
  PROVE  Present'
<1>1. /\ max_functions' = max_functions
      /\ phase' \notin {"ended", "dead"} =>
           \A a : a # 0 /\ Uses(a) => Uses(a)'
  BY UseStep
<1>2. phase \in {"ended", "dead"} => phase' = phase
  <2> SUFFICES ASSUME phase \in {"ended", "dead"}
               PROVE  phase' = phase
    OBVIOUS
  <2>0. rx = None
    BY DEF Phases
  <2>1. CASE UNCHANGED vars
    BY <2>1 DEF vars, mainVars
  <2>2. CASE Start \/ StartFails \/ LoadFails \/ Crash
    BY <2>2 DEF Start, StartFails, LoadFails, Crash
  <2>3. CASE Client
    BY <2>3 DEF Client, ClientRequest, ClientPayload, ClientLeaves, mainVars
  <2>4. CASE ReadEof \/ ReadError \/ ReceiveEmpty \/ Finish
    BY <2>4 DEF ReadEof, ReadError, ReceiveEmpty, Finish, ReadRequest,
       Receiving
  <2>5. ASSUME NEW n, ReadUnknown(n) \/ ReceivePayload(n)
        PROVE  FALSE
    BY <2>0, <2>5 DEF ReadUnknown, ReceivePayload, Receiving
  <2>6. ASSUME NEW i \in Inv, ReceiveBare(i) \/ ReceiveHeader(i)
                                  \/ ReceiveRefused(i)
        PROVE  FALSE
    BY <2>6 DEF ReceiveBare, ReceiveHeader, ReceiveRefused, ReadRequest,
       Receiving
  <2>7. ASSUME NEW t \in Thread, Worker(t)
        PROVE  phase' = phase
    BY <2>7 DEF Worker, TakeTask, FindFunction, UnknownFunction, SendHeader,
       SendData, mark_end, return_buffer, mainVars
  <2> QED
    BY <2>1, <2>2, <2>3, <2>4, <2>5, <2>6, <2>7 DEF Next, Main
<1>3. \A a \in 1..(2 * max_functions) : a # 0
  BY AddrSize DEF TypeOK
<1>4. SUFFICES ASSUME phase' \notin {"ended", "dead"},
                      NEW a \in 1..(2 * max_functions)
               PROVE  Uses(a)'
  BY <1>1 DEF Present
<1> QED
  BY <1>1, <1>2, <1>3, <1>4 DEF Present

(* The memory at an address in use is in one place: Apart counted.         *)
LEMMA Conserved ==
  ASSUME TypeOK, Apart, NEW a, a # 0, Uses(a)
  PROVE  Places(a) = 1
<1> DEFINE B == {k \in 1..Len(_buffers) : _buffers[k].val = a}
           K == {k \in 1..Len(tasks) : tasks[k].buf.val = a}
           T == {t \in Thread : Busy(t) /\ thread[t].buf.val = a}
           r == IF rx # None THEN IF rx.buf.val = a THEN 1 ELSE 0 ELSE 0
<1>1. DOMAIN _buffers = 1..Len(_buffers) /\ DOMAIN tasks = 1..Len(tasks)
  BY LenProperties DEF TypeOK
<1>2. Places(a) = Cardinality(B) + r + Cardinality(K) + Cardinality(T)
  BY <1>1 DEF Places
<1>3. /\ \A x \in B : B = {x}
      /\ \A x \in K : K = {x}
      /\ \A x \in T : T = {x}
  BY DEF Apart
<1>4. /\ B # {} => K = {} /\ T = {} /\ r = 0
      /\ K # {} => T = {} /\ r = 0
      /\ T # {} => r = 0
  BY DEF Apart
<1>5. B # {} \/ K # {} \/ T # {} \/ r = 1
  BY DEF Uses
<1>6. r \in {0, 1}
  OBVIOUS
<1> HIDE DEF B, K, T, r
<1>7. \A S : (\A x \in S : S = {x}) =>
               Cardinality(S) = IF S = {} THEN 0 ELSE 1
  BY FS_EmptySet, FS_Singleton
<1>8. /\ Cardinality(B) = IF B = {} THEN 0 ELSE 1
      /\ Cardinality(K) = IF K = {} THEN 0 ELSE 1
      /\ Cardinality(T) = IF T = {} THEN 0 ELSE 1
  BY <1>3, <1>7
<1> QED
  BY <1>2, <1>4, <1>5, <1>6, <1>8

-----------------------------------------------------------------------------
(* The initial states.                                                     *)

(* What Worker::process_session writes, message by message.                *)
LEMMA MessageAdded ==
  ASSUME NEW s \in Seq(Unit), NEW i \in Inv, Once(s), ~Written(s, i),
         Framed(s), LastOwes(s, None)
  PROVE  /\ s \o Message(i) \in Seq(Unit)
         /\ Once(s \o Message(i))
         /\ \A j : Written(s \o Message(i), j) => Written(s, j) \/ j = i
         /\ Framed(s \o Message(i)) /\ LastOwes(s \o Message(i), None)
<1> DEFINE q == s \o Request(i)
           b == q \o Payload(i)
<1>1. /\ Request(i) \in Seq(Unit) /\ Payload(i) \in Seq(Unit)
      /\ Len(Payload(i)) = Units(i) /\ Units(i) \in Nat
  BY RequestElement, MessageElement, AnnouncedSize
<1>2. s \o Message(i) = b
  BY <1>1, ConcatAssociative DEF Message
<1>3. /\ q \in Seq(Unit) /\ Once(q)
      /\ \A j : Written(q, j) => Written(s, j) \/ j = i
      /\ Framed(q) /\ LastOwes(q, IF Units(i) > 0 THEN i ELSE None)
  BY <1>1, RequestOnce, RequestFramed, ConcatProperties
<1> HIDE DEF q
<1>4. /\ b \in Seq(Unit) /\ Once(b)
      /\ \A j : Written(b, j) => Written(q, j)
  BY <1>1, <1>3, PayloadOnce, ConcatProperties
<1>5. CASE Units(i) > 0
  <2>1. Framed(b) /\ LastOwes(b, None)
    BY <1>3, <1>5, PayloadFramed
  <2> QED
    BY <1>2, <1>3, <1>4, <2>1
<1>6. CASE ~(Units(i) > 0)
  <2>1. Payload(i) = <<>>
    BY <1>1, <1>6, FirstUnit
  <2>2. b = q
    BY <1>3, <2>1, ConcatEmptySeq
  <2> QED
    BY <1>2, <1>3, <1>4, <1>6, <2>2
<1> QED
  BY <1>5, <1>6

(* The one write of the control plane, whatever was queued.                *)
LEMMA QueuedOnce ==
  ASSUME NEW i \in Inv \cup {None}, NEW j \in Inv \cup {None},
         i = j => i = None
  PROVE  /\ QueuedFor(i, j) \in Seq(Unit)
         /\ Once(QueuedFor(i, j)) /\ Framed(QueuedFor(i, j))
         /\ \A k \in Inv : Written(QueuedFor(i, j), k) => k \in {i, j}
<1>1. /\ <<>> \in Seq(Unit) /\ Once(<<>>) /\ Framed(<<>>)
      /\ LastOwes(<<>>, None) /\ \A k : ~Written(<<>>, k)
  BY EmptySeq DEF Once, Framed, LastOwes, Written
<1>2. CASE i = None
  <2> DEFINE r == Request(None)
  <2>1. /\ r \in Seq(Unit) /\ Len(r) = 2
        /\ r[1] = <<"head", None>> /\ r[2] = <<"rest", None>>
    BY RequestElement
  <2> HIDE DEF r
  <2>2. Once(r) /\ Framed(r) /\ \A k \in Inv : ~Written(r, k)
    BY <2>1, ExecAssumption DEF Once, Framed, Written, Owing
  <2> QED
    BY <1>2, <2>1, <2>2 DEF QueuedFor, r
<1>3. ASSUME NEW k \in Inv
      PROVE  /\ Message(k) \in Seq(Unit) /\ <<>> \o Message(k) = Message(k)
  <2>1. Message(k) \in Seq(Unit)
    BY RequestElement, MessageElement, ConcatProperties DEF Message
  <2> QED
    BY <2>1, ConcatEmptySeq
<1>4. ASSUME NEW k \in Inv
      PROVE  /\ Message(k) \in Seq(Unit) /\ Once(Message(k))
             /\ Framed(Message(k)) /\ LastOwes(Message(k), None)
             /\ \A l : Written(Message(k), l) => l = k
  <2> DEFINE e == <<>>
  <2>1. /\ e \in Seq(Unit) /\ Once(e) /\ Framed(e) /\ LastOwes(e, None)
        /\ ~Written(e, k)
    BY <1>1
  <2>2. e \o Message(k) = Message(k) /\ \A l : ~Written(e, l)
    BY <1>1, <1>3
  <2> HIDE DEF e
  <2>3. /\ e \o Message(k) \in Seq(Unit) /\ Once(e \o Message(k))
        /\ Framed(e \o Message(k)) /\ LastOwes(e \o Message(k), None)
        /\ \A l : Written(e \o Message(k), l) => Written(e, l) \/ l = k
    BY <2>1, MessageAdded
  <2> QED
    BY <2>2, <2>3
<1>5. CASE i # None /\ j = None
  BY <1>4, <1>5 DEF QueuedFor
<1>6. CASE i # None /\ j # None
  <2>1. i \in Inv /\ j \in Inv /\ i # j
    BY <1>6
  <2>2. ~Written(Message(i), j)
    BY <1>4, <2>1
  <2>3. /\ Message(i) \o Message(j) \in Seq(Unit)
        /\ Once(Message(i) \o Message(j)) /\ Framed(Message(i) \o Message(j))
        /\ \A k : Written(Message(i) \o Message(j), k) =>
             Written(Message(i), k) \/ k = j
    BY <1>4, <2>1, <2>2, MessageAdded
  <2> QED
    BY <1>4, <1>6, <2>1, <2>3 DEF QueuedFor
<1> QED
  BY <1>2, <1>5, <1>6

(* The invariant that every step needs, and the parts that rest on it.     *)
Exec ==
  /\ TypeOK /\ Room /\ Requests /\ Phases /\ Taken /\ AnsweredOnce
  /\ Expected /\ Apart /\ Present /\ Counted

(* The buffers that Session::Session makes have memory of their own.       *)
LEMMA InitBuffers ==
  ASSUME Init
  PROVE  /\ _buffers \in Seq(Buffer) /\ Len(_buffers) = 2 * max_functions
         /\ \A k \in 1..(2 * max_functions) : _buffers[k].val = k
<1>1. /\ max_functions \in Nat /\ max_functions <= Cardinality(Thread)
      /\ Cardinality(Thread) \in Nat /\ Cardinality(Inv) \in Nat
  BY AddrSize DEF Init
<1>2. \A k \in 1..(2 * max_functions) : k \in Addr
  BY <1>1 DEF Addr
<1>3. \A k \in 1..(2 * max_functions) :
        [val |-> k, size |-> ElemSize] \in Buffer
  BY <1>2, ExecAssumption DEF Buffer
<1>4. 2 * max_functions \in Nat
  BY <1>1
<1> QED
  BY <1>3, <1>4 DEF Init

(* What the control plane has queued is not requested by the client.       *)
LEMMA InitRequests ==
  ASSUME Init
  PROVE  /\ cpIn \in Seq(Unit) /\ Framed(cpIn) /\ unsent \subseteq Inv
         /\ Requests
<1>1. PICK i \in Inv \cup {None}, j \in Inv \cup {None} :
        /\ i = j => i = None
        /\ cpIn = QueuedFor(i, j)
        /\ unsent = Inv \ {i, j}
  BY DEF Init
<1>2. /\ cpIn \in Seq(Unit) /\ Once(cpIn) /\ Framed(cpIn)
      /\ \A k \in Inv : Written(cpIn, k) => k \in {i, j}
  BY <1>1, QueuedOnce
<1>3. Once(<<>>) /\ \A k : ~Written(<<>>, k)
  BY EmptySeq DEF Once, Written
<1>4. dpIn = <<>>
  BY DEF Init
<1> QED
  BY <1>1, <1>2, <1>3, <1>4 DEF Requests

(* The constructor leaves the session as the invariant says.               *)
LEMMA ExecInit ==
  ASSUME Init
  PROVE  Exec /\ Whole /\ Fits /\ Intact
<1>1. /\ max_functions \in MaxFunctions /\ phase = "starting" /\ rx = None
      /\ dpIn = <<>> /\ dp = "none" /\ owing = None
      /\ mem = [a \in Addr |-> None] /\ tasks = <<>>
      /\ thread = [t \in Thread |-> None] /\ wire = None
      /\ replies = [i \in Inv |-> <<>>]
  BY DEF Init
<1>2. /\ Len(tasks) = 0 /\ \A t \in Thread : ~Busy(t)
      /\ \A i \in Inv : replies[i] = <<>> /\ Len(replies[i]) = 0
  BY <1>1 DEF Busy
<1>3. /\ _buffers \in Seq(Buffer) /\ Len(_buffers) = 2 * max_functions
      /\ \A k \in 1..(2 * max_functions) : _buffers[k].val = k
  BY InitBuffers
<1>4. /\ cpIn \in Seq(Unit) /\ Framed(cpIn) /\ unsent \subseteq Inv
      /\ Requests
  BY InitRequests
<1>5. TypeOK
  <2>1. /\ dpIn \in Seq(Unit) /\ tasks \in Seq(Task)
        /\ replies \in [Inv -> Seq(Kind)]
    BY <1>1, EmptySeq
  <2>2. /\ mem \in [Addr -> Inv \cup {None}]
        /\ thread \in [Thread -> Running \cup {None}]
    BY <1>1
  <2> QED
    BY <1>1, <1>3, <1>4, <2>1, <2>2 DEF TypeOK
<1>6. Phases
  BY <1>1, <1>2 DEF Phases
<1>7. Taken /\ AnsweredOnce
  <2>1. /\ \A i \in Inv : ~InRx(i) /\ ~InTask(i) /\ ~InThread(i)
        /\ \A i \in Inv : Quiet(i)
    BY <1>1, <1>2 DEF InRx, InTask, InThread, Quiet
  <2>2. Taken
    BY <1>2, <2>1 DEF Taken
  <2>3. AnsweredOnce
    BY <1>2 DEF AnsweredOnce
  <2> QED
    BY <2>2, <2>3
<1>8. Expected
  BY <1>1, <1>4 DEF Expected, Framed
<1>9. Apart
  BY <1>1, <1>2, <1>3 DEF Apart
<1>10. Intact /\ Whole /\ Fits
  BY <1>1, <1>2 DEF Intact, Whole, Fits
<1>11. Present
  BY <1>3 DEF Present, Uses
<1>12. Room
  <2>1. max_functions \in Nat
    BY <1>1, AddrSize
  <2>2. \A a : Uses(a) => a \in 1..(2 * max_functions)
    BY <1>1, <1>2, <1>3 DEF Uses
  <2>3. Added = {}
    BY <1>5, <2>1, <2>2, UsesLive DEF Added
  <2>4. Cardinality(Added) = 0
    BY <2>3, FS_EmptySet
  <2>5. Unread \subseteq Inv
    BY DEF Unread
  <2>6. Cardinality(Unread) <= Cardinality(Inv) /\ Cardinality(Unread) \in Nat
    BY <2>5, ExecAssumption, FS_Subset, FS_CardinalityType
  <2> QED
    BY <2>4, <2>6 DEF Room
<1>13. Counted
  <2>1. Workers = {} /\ Waiting = 0
    BY <1>1, <1>2 DEF Workers, Waiting
  <2>2. max_functions \in Nat
    BY <1>1, AddrSize
  <2>3. Number = 2 * max_functions
    BY <1>2, <1>3, <2>1, <2>2, FS_EmptySet DEF Number
  <2>4. Unread \in SUBSET Inv
    BY DEF Unread
  <2>5. /\ Cardinality(Unread) <= Cardinality(Inv)
        /\ Cardinality(Unread) \in Nat /\ Cardinality(Inv) \in Nat
    BY <2>4, ExecAssumption, FS_Subset, FS_CardinalityType
  <2> QED
    BY <2>2, <2>3, <2>5 DEF Counted
<1> QED
  BY <1>4, <1>5, <1>6, <1>7, <1>8, <1>9, <1>10, <1>11, <1>12, <1>13 DEF Exec

(* Every step keeps it.                                                    *)
LEMMA ExecStep ==
  ASSUME Exec, [Next]_vars
  PROVE  Exec'
<1> USE DEF Exec
<1>1. TypeOK' /\ Room'
  BY TypeStep, RoomStep
<1>2. Requests' /\ Phases'
  BY RequestsStep, PhasesStep
<1>3. Taken' /\ AnsweredOnce'
  BY TakenStep
<1>4. Expected' /\ Apart'
  BY ExpectedStep, ApartStep
<1>5. Present' /\ Counted'
  BY PresentStep, CountedStep
<1> QED
  BY <1>1, <1>2, <1>3, <1>4, <1>5

-----------------------------------------------------------------------------
(* The theorems.                                                           *)

(* Session::start, receive and FunctionWorker::invoke keep every variable  *)
(* in its type, for any number of invocations and threads: in particular a *)
(* buffer has a size exactly when it has memory, and operator new always   *)
(* has an address for the one nullptr that each request can replace.       *)
THEOREM ExecCorrect == Spec => [](TypeOK /\ Exec)
<1>1. Init => Exec
  BY ExecInit
<1>2. Exec /\ [Next]_vars => Exec'
  BY ExecStep
<1>3. Exec => TypeOK
  BY DEF Exec
<1> QED
  BY <1>1, <1>2, <1>3, PTL DEF Spec

(* No invocation gets two final answers, and none gets anything after its  *)
(* final one, although receive (session.cpp), the pool (function.cpp) and  *)
(* the functions all write to the same connection.                         *)
THEOREM AnsweredCorrect == Spec => []AnsweredOnce
<1>1. Exec => AnsweredOnce
  BY DEF Exec
<1> QED
  BY <1>1, ExecCorrect, PTL

(* When the sizes of the payloads are safe, what a queued or running       *)
(* function finds in its buffer, from the read until the buffer goes back, *)
(* is the payload of its own request: BufferQueue gives no memory away     *)
(* that is in use, and no read goes past the end of a buffer.  For other   *)
(* sizes this is not so: retrieve_buffer compares the size with the number *)
(* of buffers (buffer.hpp:62), and receive overruns a smaller one.         *)
THEOREM IntactCorrect ==
  ASSUME \A i \in Inv : SafeSize(Bytes[i]) /\ SafeSize(Bytes[i] % 65536)
  PROVE  Spec => []InputIntact
<1>1. Init => Fits /\ Intact
  BY ExecInit
<1>2. Exec /\ Fits /\ Intact /\ [Next]_vars => Fits' /\ Intact'
  BY FitsStep, IntactStep DEF Exec
<1>3. TypeOK /\ Intact => InputIntact
  <2> SUFFICES ASSUME TypeOK, Intact
               PROVE  InputIntact
    OBVIOUS
  <2>1. DOMAIN tasks = 1..Len(tasks)
    BY LenProperties DEF TypeOK
  <2> QED
    BY <2>1 DEF Intact, Has, InputIntact
<1> QED
  BY <1>1, <1>2, <1>3, ExecCorrect, PTL DEF Spec

(* Every buffer that the constructor made is, until the session ends, in   *)
(* exactly one place (the queue, receive, a task or a thread), whatever is *)
(* refused, cut short, unknown or returned as a nullptr.                   *)
THEOREM ConservedCorrect == Spec => []BuffersConserved
<1>1. TypeOK /\ Exec => BuffersConserved
  <2> SUFFICES ASSUME TypeOK, Exec, phase \notin {"ended", "dead"},
                      NEW a \in 1..(2 * max_functions)
               PROVE  Places(a) = 1
    BY DEF BuffersConserved
  <2>1. a # 0
    BY AddrSize DEF TypeOK
  <2>2. Uses(a) /\ Apart
    BY DEF Exec, Present
  <2> QED
    BY <2>1, <2>2, Conserved
<1> QED
  BY <1>1, ExecCorrect, PTL

(* When every payload fits the 16 bits in which the control plane stores   *)
(* its size, a function is given all of its payload unless the client has  *)
(* left: a read is cut short by nothing else.                              *)
THEOREM WholeCorrect ==
  ASSUME \A i \in Inv : Bytes[i] < 65536
  PROVE  Spec => []InputWhole
<1>1. Init => Whole
  BY ExecInit
<1>2. Exec /\ Whole /\ [Next]_vars => Whole'
  BY WholeStep DEF Exec
<1>3. TypeOK /\ Whole => InputWhole
  <2> SUFFICES ASSUME TypeOK, Whole
               PROVE  InputWhole
    OBVIOUS
  <2>1. DOMAIN tasks = 1..Len(tasks)
    BY LenProperties DEF TypeOK
  <2> QED
    BY <2>1 DEF Whole, InputWhole
<1> QED
  BY <1>1, <1>2, <1>3, ExecCorrect, PTL DEF Spec
=============================================================================
