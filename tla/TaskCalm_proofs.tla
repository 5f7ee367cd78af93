--------------------------- MODULE TaskCalm_proofs ---------------------------
(***************************************************************************)
(* Proofs about TaskTransfer, third part: no handler of the master or of a *)
(* worker raises.  For every number of workers and tasks and every number  *)
(* of failures, no message finds its receiver in a state that refuses it   *)
(* and both sides count the same; the run is given up only if the answer   *)
(* to a transfer was lost.                                                 *)
(***************************************************************************)
EXTENDS TaskTokens_proofs

USE TransferAssumption

-----------------------------------------------------------------------------

(* The reports of a worker: a task is reported finished before the next one is
   reported started, a transfer failed only after a lost answer, and at the end
   the worker's statistics are those of the master. *)
Ordered(q) == \A i, j \in DOMAIN q : q[i].type = "PROCESS_START" /\ q[j].type = "RESULT" => j < i
Agrees(q, m, w) == \A x \in Range(q) : x.type = "STOP_ACK" => m.stopping /\ x.stats = m.tally[w]
Excused(q, f) == \A x \in Range(q) : x.type = "P2P_FAILURE" => f > 0
ReportsOK(q, m, w, f) == Ordered(q) /\ Agrees(q, m, w) /\ Excused(q, f)
(* A check knows an answer, or one was lost. *)
CheckOK(k, f) ==
  /\ k.pc = "known" => k.answer # "NONE"
  /\ k.pc = "status" \/ (k.pc = "known" /\ k.answer = "UNKNOWN") => f > 0

(* What w has done and the master has recorded, or has still to record. *)
CountedAt(m, v) == {k \in v.stored : m.task[k].state = "DONE"}
Failing(m, v, w, k) ==
  m.task[k].state = "PROCESSING" /\ m.task[k].owner = w /\ k \notin v.stored /\ Current(v, k) = {}
FailedAt(m, v, w) == {k \in Key : Failing(m, v, w, k)}
MovedTo(v, c) == c \in v.events \/ v.received[c] = "ACCEPTED"
MovedAt(m, v) == {c \in m.transfers : MovedTo(v, c)}
Repeating(m, v, k) == m.task[k].state = "ACCEPTED" /\ \E y \in Accepted(v, k) : y.failed
RepeatedAt(m, v) == {k \in Key : Repeating(m, v, k)}
TallyOK(t, m, v, w) ==
  /\ t.success = Cardinality(CountedAt(m, v))
  /\ t.failures + Cardinality(FailedAt(m, v, w)) = v.failures
  /\ t.moved = Cardinality(MovedAt(m, v))
  /\ t.reassigned = Cardinality(v.reassigned) + Cardinality(RepeatedAt(m, v))
(* A repeated attempt is counted once. *)
SettledAttempt(t, v, e) ==
  e[2] <= t.attempt /\ (e[2] = t.attempt => t.state # "SENT" /\ Accepted(v, e[1]) = {})
SettledOK(m, v) == \A e \in v.reassigned : SettledAttempt(m.task[e[1]], v, e)
BooksOK(m, v, w) == TallyOK(m.tally[w], m, v, w) /\ SettledOK(m, v)

ActiveOK(m) == \A w \in Worker : m.active[w] # None =>
  m.task[m.active[w]].state = "PROCESSING" /\ m.task[m.active[w]].owner = w
(* STOP is the last message to a worker, when nothing is left to do. *)
StopsLast(q, m) == \A i \in DOMAIN q : q[i].type = "STOP" => i = Len(q) /\ m.stopping
StopsOK(m, down) == (m.stopping => AllDone(m) /\ NoCheck(m)) /\ \A w \in Worker : StopsLast(down[w], m)

CalmOK(m, down, up, wk, f) ==
  /\ ActiveOK(m) /\ StopsOK(m, down)
  /\ \A w \in Worker : ReportsOK(up[w], m, w, f) /\ CheckOK(wk[w].check, f) /\ BooksOK(m, wk[w], w)
Calm == CalmOK(master, toWorker, toMaster, worker, faults)

-----------------------------------------------------------------------------
(* Reports *)

LEMMA ReportTaken ==
  ASSUME NEW q \in Seq(Up), q # <<>>, NEW m, NEW w, NEW f, ReportsOK(q, m, w, f)
  PROVE  ReportsOK(Tail(q), m, w, f)
<1>1. /\ DOMAIN Tail(q) = 1..(Len(q) - 1) /\ DOMAIN q = 1..Len(q) /\ Len(q) \in Nat \ {0}
      /\ \A i \in DOMAIN Tail(q) : Tail(q)[i] = q[i + 1]
      /\ Range(Tail(q)) \subseteq Range(q)
  BY MessageTaken
<1>2. Ordered(Tail(q))
  <2> SUFFICES ASSUME NEW i \in DOMAIN Tail(q), NEW j \in DOMAIN Tail(q),
                      Tail(q)[i].type = "PROCESS_START", Tail(q)[j].type = "RESULT"
               PROVE  j < i
    BY DEF Ordered
  <2>1. i + 1 \in DOMAIN q /\ j + 1 \in DOMAIN q /\ i \in Int /\ j \in Int
    BY <1>1
  <2>2. q[i + 1].type = "PROCESS_START" /\ q[j + 1].type = "RESULT"
    BY <1>1
  <2>3. j + 1 < i + 1
    BY <2>1, <2>2 DEF ReportsOK, Ordered
  <2> QED
    BY <2>1, <2>3
<1>3. Agrees(Tail(q), m, w) /\ Excused(Tail(q), f)
  BY <1>1 DEF ReportsOK, Agrees, Excused
<1> QED
  BY <1>2, <1>3 DEF ReportsOK

(* Neither results nor statistics. *)
Plain(ms, f) == \A x \in Range(ms) :
  x.type \notin {"RESULT", "STOP_ACK"} /\ (x.type = "P2P_FAILURE" => f > 0)
LEMMA ReportsSent ==
  ASSUME NEW q \in Seq(Up), NEW ms \in Seq(Up), NEW m, NEW w, NEW f, ReportsOK(q, m, w, f), Plain(ms, f)
  PROVE  ReportsOK(q \o ms, m, w, f)
<1>1. Range(q \o ms) = Range(q) \cup Range(ms)
  BY TasksQueued
<1>2. /\ Len(q) \in Nat /\ Len(ms) \in Nat /\ DOMAIN q = 1..Len(q) /\ DOMAIN ms = 1..Len(ms)
      /\ DOMAIN (q \o ms) = 1..(Len(q) + Len(ms))
      /\ \A i \in 1..(Len(q) + Len(ms)) : (q \o ms)[i] = IF i <= Len(q) THEN q[i] ELSE ms[i - Len(q)]
  BY ConcatProperties, LenProperties
<1>3. Ordered(q \o ms)
  <2> SUFFICES ASSUME NEW i \in DOMAIN (q \o ms), NEW j \in DOMAIN (q \o ms),
                      (q \o ms)[i].type = "PROCESS_START", (q \o ms)[j].type = "RESULT"
               PROVE  j < i
    BY DEF Ordered
  <2>1. CASE j <= Len(q) /\ i <= Len(q)
    <3>1. i \in DOMAIN q /\ j \in DOMAIN q /\ q[i].type = "PROCESS_START" /\ q[j].type = "RESULT"
      BY <1>2, <2>1
    <3> QED
      BY <3>1 DEF ReportsOK, Ordered
  <2>2. CASE j <= Len(q) /\ ~(i <= Len(q))
    BY <1>2, <2>2
  <2>3. CASE ~(j <= Len(q))
    <3>1. j - Len(q) \in DOMAIN ms /\ ms[j - Len(q)].type = "RESULT"
      BY <1>2, <2>3
    <3> QED
      BY <3>1 DEF Plain, Range
  <2> QED
    BY <2>1, <2>2, <2>3
<1>4. Agrees(q \o ms, m, w) /\ Excused(q \o ms, f)
  BY <1>1 DEF ReportsOK, Agrees, Excused, Plain
<1> QED
  BY <1>3, <1>4 DEF ReportsOK

(* A result is not sent while a start is on its way. *)
LEMMA ReportSent ==
  ASSUME NEW q \in Seq(Up), NEW x \in Up, NEW m, NEW w, NEW f, ReportsOK(q, m, w, f),
         x.type = "RESULT" => \A y \in Range(q) : y.type # "PROCESS_START",
         x.type = "STOP_ACK" => m.stopping /\ x.stats = m.tally[w],
         x.type # "P2P_FAILURE"
  PROVE  ReportsOK(Append(q, x), m, w, f)
<1>1. /\ Len(q) \in Nat /\ DOMAIN q = 1..Len(q) /\ DOMAIN Append(q, x) = 1..(Len(q) + 1)
      /\ \A i \in DOMAIN q : Append(q, x)[i] = q[i]
      /\ Append(q, x)[Len(q) + 1] = x /\ Range(Append(q, x)) = Range(q) \cup {x}
  BY MessageSent
<1>2. Ordered(Append(q, x))
  <2> SUFFICES ASSUME NEW i \in DOMAIN Append(q, x), NEW j \in DOMAIN Append(q, x),
                      Append(q, x)[i].type = "PROCESS_START", Append(q, x)[j].type = "RESULT"
               PROVE  j < i
    BY DEF Ordered
  <2>1. CASE j \in DOMAIN q /\ i \in DOMAIN q
    BY <1>1, <2>1 DEF ReportsOK, Ordered
  <2>2. CASE j \in DOMAIN q /\ i \notin DOMAIN q
    BY <1>1, <2>2
  <2>3. CASE j \notin DOMAIN q
    <3>1. x.type = "RESULT"
      BY <1>1, <2>3
    <3>2. i \in DOMAIN q
      BY <1>1, <3>1
    <3>3. q[i].type = "PROCESS_START" /\ q[i] \in Range(q)
      BY <1>1, <3>2 DEF Range
    <3> QED
      BY <3>1, <3>3
  <2> QED
    BY <2>1, <2>2, <2>3
<1>3. Agrees(Append(q, x), m, w) /\ Excused(Append(q, x), f)
  BY <1>1 DEF ReportsOK, Agrees, Excused
<1> QED
  BY <1>2, <1>3 DEF ReportsOK

(* The master may have gone on, and more answers been lost. *)
LEMMA ReportsStay ==
  ASSUME NEW q, NEW m, NEW w, NEW f \in Nat, ReportsOK(q, m, w, f), NEW m2, NEW f2 \in Nat, f <= f2,
         m.stopping => m2.stopping /\ m2.tally = m.tally
  PROVE  ReportsOK(q, m2, w, f2)
<1>1. Agrees(q, m2, w)
  BY DEF ReportsOK, Agrees
<1>2. Excused(q, f2)
  BY DEF ReportsOK, Excused
<1> QED
  BY <1>1, <1>2 DEF ReportsOK

-----------------------------------------------------------------------------
(* The books of a worker *)

LEMMA BookSets ==
  ASSUME NEW m \in Masters, NEW v \in Workers, NEW w \in Worker
  PROVE  /\ CountedAt(m, v) \in SUBSET Key /\ FailedAt(m, v, w) \in SUBSET Key
         /\ MovedAt(m, v) \in SUBSET Check /\ RepeatedAt(m, v) \in SUBSET Key
         /\ v.stored \in SUBSET Key /\ v.events \in SUBSET Check /\ v.failures \in Nat
         /\ \A T \in SUBSET Key : IsFiniteSet(T) /\ Cardinality(T) \in Nat
         /\ \A T \in SUBSET Check : IsFiniteSet(T) /\ Cardinality(T) \in Nat
<1>1. v.stored \in SUBSET Key /\ v.events \in SUBSET Check /\ v.failures \in Nat
  BY WorkerFields
<1>2. m.transfers \in SUBSET Check
  BY Fields
<1>3. CountedAt(m, v) \in SUBSET Key /\ FailedAt(m, v, w) \in SUBSET Key /\ RepeatedAt(m, v) \in SUBSET Key
  BY <1>1 DEF CountedAt, FailedAt, RepeatedAt
<1>4. MovedAt(m, v) \in SUBSET Check
  BY <1>2 DEF MovedAt
<1>5. IsFiniteSet(Key) /\ IsFiniteSet(Check)
  BY FS_Interval DEF Key, Check
<1>6. \A T \in SUBSET Key : IsFiniteSet(T) /\ Cardinality(T) \in Nat
  BY <1>5, FS_Subset, FS_CardinalityType
<1>7. \A T \in SUBSET Check : IsFiniteSet(T) /\ Cardinality(T) \in Nat
  BY <1>5, FS_Subset, FS_CardinalityType
<1> QED
  BY <1>1, <1>3, <1>4, <1>6, <1>7

(* A finite set with one more, or one less. *)
LEMMA OneMore ==
  ASSUME NEW S, NEW T \in SUBSET S, \A U \in SUBSET S : IsFiniteSet(U) /\ Cardinality(U) \in Nat,
         NEW k \in S, NEW T2, T2 = Plus(T, k)
  PROVE  /\ k \notin T => Cardinality(T2) = Cardinality(T) + 1
         /\ k \in T => T2 = T /\ Cardinality(Minus(T, k)) + 1 = Cardinality(T)
<1>1. IsFiniteSet(T) /\ Cardinality(T) \in Nat
  OBVIOUS
<1>2. k \notin T => Cardinality(T \cup {k}) = Cardinality(T) + 1
  BY <1>1, FS_AddElement
<1>3. k \in T => T2 = T
  BY DEF Plus
<1>4. k \in T => Cardinality(T \ {k}) = Cardinality(T) - 1
  BY <1>1, FS_RemoveElement
<1>5. Minus(T, k) = T \ {k} /\ Plus(T, k) = T \cup {k}
  BY DEF Minus, Plus
<1>6. k \in T => Cardinality(Minus(T, k)) + 1 = Cardinality(T)
  BY <1>1, <1>4, <1>5
<1> QED
  BY <1>2, <1>3, <1>5, <1>6

(* What the books do not depend on. *)
Kept(m, v, v2) ==
  /\ v2.stored = v.stored /\ v2.failures = v.failures /\ v2.reassigned = v.reassigned
  /\ v2.accepted = v.accepted /\ \A c \in m.transfers : MovedTo(v2, c) <=> MovedTo(v, c)
  /\ \A k \in Key : m.task[k].state = "PROCESSING" => Current(v2, k) = Current(v, k)
LEMMA BooksKept ==
  ASSUME NEW m, NEW v, NEW v2, NEW w, Kept(m, v, v2), BooksOK(m, v, w)
  PROVE  BooksOK(m, v2, w)
<1>1. CountedAt(m, v2) = CountedAt(m, v)
  BY DEF CountedAt, Kept
<1>2. FailedAt(m, v2, w) = FailedAt(m, v, w)
  <2>1. \A k \in Key : Failing(m, v2, w, k) <=> Failing(m, v, w, k)
    BY DEF Failing, Kept
  <2> QED
    BY <2>1 DEF FailedAt
<1>3. MovedAt(m, v2) = MovedAt(m, v)
  BY DEF MovedAt, Kept
<1>4. \A k : Accepted(v2, k) = Accepted(v, k)
  BY DEF Accepted, Kept
<1>5. RepeatedAt(m, v2) = RepeatedAt(m, v)
  BY <1>4 DEF RepeatedAt, Repeating
<1>6. v2.failures = v.failures /\ v2.reassigned = v.reassigned
  BY DEF Kept
<1>7. TallyOK(m.tally[w], m, v2, w)
  BY <1>1, <1>2, <1>3, <1>5, <1>6 DEF BooksOK, TallyOK
<1>8. SettledOK(m, v2)
  <2> SUFFICES ASSUME NEW e \in v.reassigned
               PROVE  SettledAttempt(m.task[e[1]], v2, e)
    BY <1>6 DEF SettledOK
  <2>1. SettledAttempt(m.task[e[1]], v, e)
    BY DEF BooksOK, SettledOK
  <2> QED
    BY <2>1, <1>4 DEF SettledAttempt
<1> QED
  BY <1>7, <1>8 DEF BooksOK

(* What the master does in the rest of a round. *)
LaterTask(t, t2) ==
  t2 = t \/ (t.state = "WAITING" /\ t2.state = "SENT" /\ t2.attempt = t.attempt + 1)
Later(m, m2) ==
  /\ m2.tally = m.tally /\ m2.active = m.active /\ m2.transfers = m.transfers
  /\ \A k \in Key : LaterTask(m.task[k], m2.task[k])
LEMMA ActiveLater ==
  ASSUME NEW m \in Masters, NEW m2, Later(m, m2), ActiveOK(m)
  PROVE  ActiveOK(m2)
<1> SUFFICES ASSUME NEW w \in Worker, m.active[w] # None
             PROVE  m2.task[m.active[w]].state = "PROCESSING" /\ m2.task[m.active[w]].owner = w
  BY DEF ActiveOK, Later
<1>1. m.active[w] \in Key
  BY Fields
<1>2. m.task[m.active[w]].state = "PROCESSING" /\ m.task[m.active[w]].owner = w
  BY DEF ActiveOK
<1>3. LaterTask(m.task[m.active[w]], m2.task[m.active[w]])
  BY <1>1 DEF Later
<1> QED
  BY <1>2, <1>3 DEF LaterTask
LEMMA BooksLater ==
  ASSUME NEW m \in Masters, NEW m2, NEW v \in Workers, NEW w \in Worker, Later(m, m2), BooksOK(m, v, w)
  PROVE  BooksOK(m2, v, w)
<1>1. m2.tally = m.tally /\ m2.transfers = m.transfers /\ \A k \in Key : LaterTask(m.task[k], m2.task[k])
  BY DEF Later
<1>2. v.stored \in SUBSET Key /\ v.reassigned \in SUBSET (Key \X Nat)
  BY WorkerFields
<1>3. CountedAt(m2, v) = CountedAt(m, v)
  BY <1>1, <1>2 DEF CountedAt, LaterTask
<1>4. \A k \in Key : Failing(m2, v, w, k) <=> Failing(m, v, w, k)
  BY <1>1 DEF Failing, LaterTask
<1>5. FailedAt(m2, v, w) = FailedAt(m, v, w)
  BY <1>4 DEF FailedAt
<1>6. MovedAt(m2, v) = MovedAt(m, v)
  BY <1>1 DEF MovedAt
<1>7. \A k \in Key : Repeating(m2, v, k) <=> Repeating(m, v, k)
  BY <1>1 DEF Repeating, LaterTask
<1>8. RepeatedAt(m2, v) = RepeatedAt(m, v)
  BY <1>7 DEF RepeatedAt
<1>9. TallyOK(m2.tally[w], m2, v, w)
  BY <1>1, <1>3, <1>5, <1>6, <1>8 DEF BooksOK, TallyOK
<1>10. SettledOK(m2, v)
  <2> SUFFICES ASSUME NEW e \in v.reassigned
               PROVE  SettledAttempt(m2.task[e[1]], v, e)
    BY DEF SettledOK
  <2>1. e[1] \in Key /\ e[2] \in Nat
    BY <1>2
  <2>2. m.task \in [Key -> TaskState] /\ SettledAttempt(m.task[e[1]], v, e)
    BY Fields DEF BooksOK, SettledOK
  <2>3. m.task[e[1]].attempt \in Nat
    BY <2>1, <2>2 DEF TaskState
  <2>4. LaterTask(m.task[e[1]], m2.task[e[1]])
    BY <1>1, <2>1
  <2>5. CASE m2.task[e[1]] = m.task[e[1]]
    BY <2>2, <2>5
  <2>6. CASE m2.task[e[1]].attempt = m.task[e[1]].attempt + 1
    BY <2>1, <2>2, <2>3, <2>6 DEF SettledAttempt
  <2> QED
    BY <2>4, <2>5, <2>6 DEF LaterTask
<1> QED
  BY <1>9, <1>10 DEF BooksOK

-----------------------------------------------------------------------------
(* A round of the master *)

NoStops(q) == \A x \in Range(q) : x.type # "STOP"
LEMMA StopsMeans ==
  ASSUME NEW q \in Seq(Down), NEW m
  PROVE  /\ NoStops(q) => StopsLast(q, m)
         /\ ~m.stopping /\ StopsLast(q, m) => NoStops(q)
<1>1. DOMAIN q = 1..Len(q)
  BY LenProperties
<1>2. NoStops(q) => StopsLast(q, m)
  BY <1>1 DEF NoStops, StopsLast, Range
<1>3. ~m.stopping /\ StopsLast(q, m) => NoStops(q)
  BY <1>1 DEF NoStops, StopsLast, Range
<1> QED
  BY <1>2, <1>3

LEMMA StopSent ==
  ASSUME NEW q \in Seq(Down), NEW x \in Down, NoStops(q)
  PROVE  /\ x.type # "STOP" => NoStops(Append(q, x))
         /\ \A m : m.stopping => StopsLast(Append(q, x), m)
<1>1. /\ Len(q) \in Nat /\ Len(Append(q, x)) = Len(q) + 1
      /\ DOMAIN q = 1..Len(q) /\ DOMAIN Append(q, x) = 1..(Len(q) + 1)
      /\ \A i \in DOMAIN q : Append(q, x)[i] = q[i]
      /\ Range(Append(q, x)) = Range(q) \cup {x}
  BY MessageSent
<1>2. x.type # "STOP" => NoStops(Append(q, x))
  BY <1>1 DEF NoStops
<1>3. \A i \in DOMAIN q : q[i].type # "STOP"
  BY DEF NoStops, Range
<1>4. \A m : m.stopping => StopsLast(Append(q, x), m)
  BY <1>1, <1>3 DEF StopsLast
<1> QED
  BY <1>2, <1>4

LEMMA StopsTaken ==
  ASSUME NEW q \in Seq(Down), q # <<>>, NEW m, StopsLast(q, m)
  PROVE  /\ StopsLast(Tail(q), m)
         /\ Head(q).type = "STOP" => m.stopping /\ Tail(q) = <<>> /\ Range(q) = {Head(q)}
<1>1. /\ Head(q) = q[1] /\ 1 \in DOMAIN q /\ Len(q) \in Nat \ {0} /\ Tail(q) \in Seq(Down)
      /\ DOMAIN Tail(q) = 1..(Len(q) - 1) /\ DOMAIN q = 1..Len(q)
      /\ \A i \in DOMAIN Tail(q) : Tail(q)[i] = q[i + 1]
      /\ Range(q) = {Head(q)} \cup Range(Tail(q))
  BY MessageTaken
<1>2. Len(Tail(q)) = Len(q) - 1
  BY HeadTailProperties
<1>3. StopsLast(Tail(q), m)
  <2> SUFFICES ASSUME NEW i \in DOMAIN Tail(q), Tail(q)[i].type = "STOP"
               PROVE  i = Len(Tail(q)) /\ m.stopping
    BY DEF StopsLast
  <2>1. i + 1 \in DOMAIN q /\ q[i + 1].type = "STOP" /\ i \in Int
    BY <1>1
  <2>2. i + 1 = Len(q) /\ m.stopping
    BY <2>1 DEF StopsLast
  <2>3. \A n \in Int : i + 1 = n => i = n - 1
    BY <2>1
  <2>4. Len(q) \in Int
    BY <1>1
  <2>5. i = Len(q) - 1
    BY <2>2, <2>3, <2>4, Zenon
  <2> QED
    BY <1>2, <2>2, <2>5, Zenon
<1>4. ASSUME Head(q).type = "STOP" PROVE m.stopping /\ Tail(q) = <<>> /\ Range(q) = {Head(q)}
  <2>1. m.stopping /\ Len(q) = 1
    BY <1>1, <1>4 DEF StopsLast
  <2>2. Tail(q) = <<>>
    BY <1>1, <1>2, <2>1, EmptySeq
  <2>3. Range(Tail(q)) = {}
    BY <2>2, SingleTask
  <2> QED
    BY <1>1, <2>1, <2>2, <2>3
<1> QED
  BY <1>3, <1>4

LEMMA StopsQuiet ==
  ASSUME NEW m, NEW down \in [Worker -> Seq(Down)], StopsOK(m, down), ~m.stopping
  PROVE  \A w \in Worker : NoStops(down[w])
<1> SUFFICES ASSUME NEW w \in Worker PROVE NoStops(down[w])
  OBVIOUS
<1>1. StopsLast(down[w], m) /\ down[w] \in Seq(Down)
  BY DEF StopsOK
<1> QED
  BY <1>1, StopsMeans
LEMMA QuietStops ==
  ASSUME NEW m, NEW down \in [Worker -> Seq(Down)], ~m.stopping, \A w \in Worker : NoStops(down[w])
  PROVE  StopsOK(m, down)
<1>1. \A w \in Worker : StopsLast(down[w], m)
  BY StopsMeans
<1> QED
  BY <1>1 DEF StopsOK
LEMMA StopsAdded ==
  ASSUME NEW m, NEW down \in [Worker -> Seq(Down)], StopsOK(m, down), ~m.stopping,
         NEW m2, NEW A, NEW x \in [Worker -> Down]
  PROVE  /\ ~m2.stopping /\ (\A w \in Worker \cap A : x[w].type # "STOP") => StopsOK(m2, Added(down, A, x))
         /\ m2.stopping /\ Worker \subseteq A /\ AllDone(m2) /\ NoCheck(m2) => StopsOK(m2, Added(down, A, x))
<1> DEFINE g == Added(down, A, x)
<1>1. ASSUME NEW w \in Worker
      PROVE  /\ g[w] \in Seq(Down) /\ (w \in A => g[w] = Append(down[w], x[w])) /\ (w \notin A => g[w] = down[w])
             /\ x[w] \in Down /\ down[w] \in Seq(Down) /\ NoStops(down[w])
  <2>1. g[w] = IF w \in A THEN Append(down[w], x[w]) ELSE down[w]
    BY DEF Added
  <2>2. down[w] \in Seq(Down) /\ x[w] \in Down
    OBVIOUS
  <2>3. Append(down[w], x[w]) \in Seq(Down)
    BY <2>2, MessageSent
  <2> HIDE DEF g
  <2> QED
    BY <2>1, <2>2, <2>3, StopsQuiet
<1>2. DOMAIN g = Worker /\ g = [w \in Worker |-> g[w]]
  BY DEF Added
<1> HIDE DEF g
<1>3. g \in [Worker -> Seq(Down)]
  BY <1>1, <1>2
<1>4. ASSUME ~m2.stopping, \A w \in Worker \cap A : x[w].type # "STOP" PROVE StopsOK(m2, g)
  <2>1. \A w \in Worker : NoStops(g[w])
    BY <1>1, <1>4, StopSent
  <2> QED
    BY <1>3, <1>4, <2>1, QuietStops
<1>5. ASSUME m2.stopping, Worker \subseteq A, AllDone(m2), NoCheck(m2) PROVE StopsOK(m2, g)
  <2>1. \A w \in Worker : StopsLast(g[w], m2)
    BY <1>1, <1>5, StopSent
  <2> QED
    BY <1>5, <2>1 DEF StopsOK
<1> QED
  BY <1>4, <1>5 DEF g
LEMMA StopsPut ==
  ASSUME NEW m, NEW down \in [Worker -> Seq(Down)], StopsOK(m, down), ~m.stopping,
         NEW m2, ~m2.stopping, NEW w \in Worker, NEW x \in Down, x.type # "STOP"
  PROVE  StopsOK(m2, Put(down, w, x)) /\ Put(down, w, x) \in [Worker -> Seq(Down)]
<1> DEFINE g == Put(down, w, x)
<1>1. g = [down EXCEPT ![w] = Append(down[w], x)]
  BY DEF Put
<1>2. Append(down[w], x) \in Seq(Down) /\ NoStops(Append(down[w], x)) /\ \A z \in Worker : NoStops(down[z])
  BY MessageSent, StopSent, StopsQuiet
<1>3. g \in [Worker -> Seq(Down)] /\ \A z \in Worker : NoStops(g[z])
  BY <1>1, <1>2
<1> HIDE DEF g
<1>4. StopsOK(m2, g)
  BY <1>3, QuietStops
<1> QED
  BY <1>3, <1>4 DEF g

LEMMA LaterTwice ==
  ASSUME NEW m \in Masters, NEW m2, NEW m3, Later(m, m2), Later(m2, m3)
  PROVE  Later(m, m3)
<1>1. \A k \in Key : LaterTask(m.task[k], m3.task[k])
  BY DEF Later, LaterTask
<1> QED
  BY <1>1 DEF Later
LEMMA LaterSame ==
  ASSUME NEW m, NEW m2, m2.tally = m.tally, m2.active = m.active, m2.transfers = m.transfers, m2.task = m.task
  PROVE  Later(m, m2)
  BY DEF Later, LaterTask

(* What the rest of a round has made of state s so far. *)
Ahead(s, up, wk, rq) ==
  {t \in Turns(up, wk, rq) : Later(s.m, t.m) /\ t.m.stopping = s.m.stopping /\ StopsOK(t.m, t.wire)}
LEMMA AssignAhead ==
  ASSUME NEW s, s.m \in Masters, NEW up, NEW wk, NEW rq, NEW t \in Ahead(s, up, wk, rq)
  PROVE  AssignNext(t) \in Ahead(s, up, wk, rq)
<1> SUFFICES ASSUME AssignNext(t) # t PROVE AssignNext(t) \in Ahead(s, up, wk, rq)
  OBVIOUS
<1> DEFINE m == t.m
           k == Head(Waiting(m))
<1>1. /\ t \in Turns(up, wk, rq) /\ t \in [m : Masters, wire : [Worker -> Seq(Down)]] /\ m \in Masters
      /\ t.wire \in [Worker -> Seq(Down)] /\ WaitingOK(m)
      /\ Later(s.m, m) /\ m.stopping = s.m.stopping /\ StopsOK(m, t.wire)
  BY DEF Ahead, Turns, TokensOK
<1>2. Waiting(m) # <<>> /\ \E w \in Worker : AssignNext(t) = Assigned(t, k, w)
  BY <1>1, AssignShape
<1>3. PICK w \in Worker : AssignNext(t) = Assigned(t, k, w)
  BY <1>2
<1> DEFINE m2 == AssignState(m, k, w)
           x == AssignMessage(m, k)
<1>4. k \in Key /\ m.task \in [Key -> TaskState]
  BY <1>1, <1>2, FirstWaiting, Fields
<1>5. x \in Down /\ x.type = "TASK"
  <2>1. m.task[k].attempt + 1 \in Nat /\ (m.task[k].failedAt # None) \in BOOLEAN
    BY <1>4 DEF TaskState
  <2> QED
    BY <1>4, <2>1 DEF AssignMessage, Down, FreeTask, TaskRec
<1>6. m2.stopping = m.stopping /\ m2.tally = m.tally /\ m2.active = m.active
  BY <1>1 DEF AssignState, Masters
<1>7. /\ m2.transfers = m.transfers /\ m2.task[k].state = "SENT" /\ m2.task[k].attempt = m.task[k].attempt + 1
      /\ \A j \in Key : j # k => m2.task[j] = m.task[j]
  <2> HIDE DEF k
  <2> QED
    BY <1>1, <1>2, AssignFields DEF k
<1>8. m.task[k].state = "WAITING"
  BY <1>1, <1>2, AssignQueues
<1>9. Assigned(t, k, w) = [m |-> m2, wire |-> Put(t.wire, w, x)]
  BY DEF Assigned
<1> HIDE DEF k, m2, x
<1>10. ~m.stopping
  BY <1>1, <1>4, <1>8 DEF StopsOK, AllDone
<1>11. StopsOK(m2, Put(t.wire, w, x))
  BY <1>1, <1>5, <1>6, <1>10, StopsPut
<1>12. Later(m, m2)
  <2>1. \A j \in Key : LaterTask(m.task[j], m2.task[j])
    BY <1>7, <1>8 DEF LaterTask
  <2> QED
    BY <1>6, <1>7, <2>1 DEF Later
<1>13. Later(s.m, m2)
  BY <1>1, <1>12, LaterTwice
<1>14. AssignNext(t) \in Turns(up, wk, rq)
  BY <1>1, AssignTokens
<1>15. AssignNext(t).m = m2 /\ AssignNext(t).wire = Put(t.wire, w, x)
  BY <1>3, <1>9
<1> QED
  BY <1>1, <1>6, <1>11, <1>13, <1>14, <1>15 DEF Ahead

LEMMA DistributeAhead ==
  ASSUME NEW up, NEW wk, NEW rq, NEW s \in Turns(up, wk, rq), StopsOK(s.m, s.wire)
  PROVE  Distribute(s) \in Ahead(s, up, wk, rq)
<1> DEFINE A == Ahead(s, up, wk, rq)
<1>1. s.m \in Masters /\ s.m.retry \in Seq(Key) /\ s.m.fresh \in Seq(Key)
  BY DEF Turns, Masters
<1>2. Len(Waiting(s.m)) \in Nat
  BY <1>1, ConcatProperties, LenProperties DEF Waiting
<1>3. \A z \in A : AssignNext(z) \in A
  BY <1>1, AssignAhead
<1>4. s \in A
  BY LaterSame DEF Ahead
<1> HIDE DEF A
<1>5. s \in A => Distribute(s) \in A
  BY <1>2, <1>3, DistributeKeeps
<1> QED
  BY <1>4, <1>5 DEF A

(* What the end of a round has made of m. *)
RoundOK(m, m2, down2) ==
  Later(m, m2) /\ (m.stopping => m2.stopping) /\ StopsOK(m2, down2) /\ m2 \in Masters /\ down2 \in [Worker -> Seq(Down)]
LEMMA FinishAhead ==
  ASSUME NEW s, s.m \in Masters, NEW up, NEW wk, NEW rq, NEW t \in Ahead(s, up, wk, rq), ~s.m.stopping
  PROVE  RoundOK(s.m, FinishIfReady(t).m, FinishIfReady(t).wire)
<1> DEFINE x == [w \in Worker |-> [type |-> "STOP"]]
           m2 == [t.m EXCEPT !.stopping = TRUE]
           g == Added(t.wire, Worker, x)
<1>1. /\ t.m \in Masters /\ t.wire \in [Worker -> Seq(Down)] /\ Later(s.m, t.m) /\ ~t.m.stopping
      /\ StopsOK(t.m, t.wire)
  BY DEF Ahead, Turns
<1>2. \/ FinishIfReady(t) = t
      \/ AllDone(t.m) /\ NoCheck(t.m) /\ FinishIfReady(t) = [m |-> m2, wire |-> g]
  <2>1. g = [w \in Worker |-> Append(t.wire[w], [type |-> "STOP"])]
    BY DEF Added
  <2> HIDE DEF g
  <2> QED
    BY <2>1 DEF FinishIfReady
<1>3. x \in [Worker -> Down]
  BY DEF Down
<1>4. /\ m2 \in Masters /\ m2.task = t.m.task /\ m2.tally = t.m.tally /\ m2.active = t.m.active
      /\ m2.transfers = t.m.transfers /\ m2.check = t.m.check /\ m2.stopping
  BY <1>1 DEF Masters
<1> HIDE DEF x, m2
<1>5. CASE FinishIfReady(t) = t
  BY <1>1, <1>5 DEF RoundOK
<1>6. CASE AllDone(t.m) /\ NoCheck(t.m) /\ FinishIfReady(t) = [m |-> m2, wire |-> g]
  <2>1. AllDone(m2) /\ NoCheck(m2)
    BY <1>4, <1>6 DEF AllDone, NoCheck
  <2>2. StopsOK(m2, g)
    BY <1>1, <1>3, <1>4, <2>1, StopsAdded
  <2>3. Later(s.m, m2)
    BY <1>1, <1>4, LaterSame, LaterTwice
  <2>4. g \in [Worker -> Seq(Down)]
    <3>1. \A w \in Worker : t.wire[w] \in Seq(Down) /\ x[w] \in Down
      BY <1>1, <1>3
    <3>2. \A w \in Worker : Append(t.wire[w], x[w]) \in Seq(Down)
      BY <3>1, MessageSent
    <3> QED
      BY <3>1, <3>2 DEF Added
  <2> HIDE DEF g
  <2>5. FinishIfReady(t).m = m2 /\ FinishIfReady(t).wire = g
    BY <1>6
  <2> QED
    BY <1>4, <2>2, <2>3, <2>4, <2>5 DEF RoundOK
<1> QED
  BY <1>2, <1>5, <1>6

LEMMA OtherSent ==
  ASSUME NEW S, NEW q \in Seq(S), NEW x, x.type # "STOP", NoStops(q)
  PROVE  NoStops(Append(q, x))
<1> DEFINE T == S \cup {x}
<1>1. x \in T /\ \A i \in 1..Len(q) : q[i] \in T
  BY ElementOfSeq
<1>2. q \in Seq(T)
  BY <1>1, SeqDef
<1> HIDE DEF T
<1>3. Range(Append(q, x)) = Range(q) \cup {x}
  BY <1>1, <1>2, MessageSent
<1> QED
  BY <1>3 DEF NoStops
LEMMA LoadCalm ==
  ASSUME NEW m \in Masters, NEW down \in [Worker -> Seq(Down)], StopsOK(m, down), NEW s, s = [m |-> m, wire |-> down],
         CheckLoad(s).wire \in [Worker -> Seq(Down)]
  PROVE  LET s2 == CheckLoad(s)
         IN  Later(m, s2.m) /\ s2.m.stopping = m.stopping /\ StopsOK(s2.m, s2.wire)
<1> DEFINE s2 == CheckLoad(s)
<1>0. s.m = m /\ s.wire = down
  OBVIOUS
<1>1. CASE s2 = s
  BY <1>0, <1>1, LaterSame
<1>2. CASE s2 # s
  <2>1. ~m.stopping
    BY <1>0, <1>2 DEF CheckLoad
  <2>2. PICK asked \in SUBSET m.due :
          s2 = [m |-> AskMaster(m, asked), wire |-> Added(down, asked, AskMessages(m, asked))]
    BY <1>0, <1>2, LoadShape
  <2> DEFINE m2 == AskMaster(m, asked)
             x == AskMessages(m, asked)
             g == Added(down, asked, x)
  <2>3. m2.tally = m.tally /\ m2.active = m.active /\ m2.transfers = m.transfers /\ m2.task = m.task
        /\ m2.stopping = m.stopping
    BY DEF AskMaster, Masters
  <2>4. s2.m = m2 /\ s2.wire = g /\ g \in [Worker -> Seq(Down)]
    BY <2>2
  <2>5. ASSUME NEW w \in Worker PROVE NoStops(g[w])
    <3>1. g[w] = IF w \in asked THEN Append(down[w], x[w]) ELSE down[w]
      BY DEF Added
    <3>2. x[w].type # "STOP"
      BY DEF AskMessages
    <3> HIDE DEF g, x
    <3>3. NoStops(down[w]) /\ down[w] \in Seq(Down)
      BY <2>1, StopsQuiet
    <3>4. NoStops(Append(down[w], x[w]))
      BY <3>2, <3>3, OtherSent
    <3> QED
      BY <3>1, <3>3, <3>4
  <2> HIDE DEF g, m2
  <2>6. StopsOK(m2, g)
    BY <2>1, <2>3, <2>4, <2>5, QuietStops
  <2> QED
    BY <2>3, <2>4, <2>6, LaterSame
<1> QED
  BY <1>1, <1>2

(* The state in which the rest of a round begins. *)
TurnOK(s) ==
  /\ ActiveOK(s.m) /\ StopsOK(s.m, s.wire) /\ \A z \in Worker : BooksOK(s.m, worker[z], z)
  /\ master.stopping => s.m.stopping /\ s.m.tally = master.tally
(* No error was found. *)
Fine == verdict' = verdict /\ faults' \in Nat /\ faults <= faults'
LEMMA RoundCalm ==
  ASSUME Checked, Checked', Calm, NEW w \in Worker, toMaster[w] # <<>>, NEW s, Turning(w, s), TurnOK(s)
  PROVE  Calm' /\ Fine
<1> DEFINE up == Took(toMaster, w)
           t == Distribute(s)
           d == IF s.m.stopping THEN s ELSE FinishIfReady(t)
<1>1. /\ s \in Turns(up, worker, requests) /\ s.m \in Masters /\ s.wire \in [Worker -> Seq(Down)]
      /\ StopsOK(s.m, s.wire)
  BY DEF Turning, Turns, TurnOK
<1>2. RoundOK(s.m, d.m, d.wire)
  <2>1. CASE s.m.stopping
    BY <1>1, <2>1, LaterSame DEF RoundOK
  <2>2. CASE ~s.m.stopping
    <3>1. t \in Ahead(s, up, worker, requests)
      BY <1>1, DistributeAhead
    <3> QED
      BY <1>1, <2>2, <3>1, FinishAhead
  <2> QED
    BY <2>1, <2>2
<1>3. /\ toMaster' = up /\ UNCHANGED <<worker, requests, faults, verdict>>
      /\ \E ticks \in SUBSET Due(d.m) :
           master' = CheckLoad(Tick(d, ticks)).m /\ toWorker' = CheckLoad(Tick(d, ticks)).wire
  BY DEF Turning, EndOfRound, Took
<1>4. PICK ticks \in SUBSET Due(d.m) :
        master' = CheckLoad(Tick(d, ticks)).m /\ toWorker' = CheckLoad(Tick(d, ticks)).wire
  BY <1>3
<1>5. ticks \subseteq Worker
  BY DEF Due
<1> HIDE DEF d
<1> DEFINE m1 == [d.m EXCEPT !.due = @ \cup ticks]
           s1 == [m |-> m1, wire |-> d.wire]
<1>6. Tick(d, ticks) = s1
  BY DEF Tick
<1>7. d.m \in Masters /\ d.wire \in [Worker -> Seq(Down)] /\ StopsOK(d.m, d.wire) /\ Later(s.m, d.m)
      /\ (s.m.stopping => d.m.stopping)
  BY <1>2 DEF RoundOK
<1>8. /\ m1 \in Masters /\ m1.check = d.m.check /\ m1.transfers = d.m.transfers /\ m1.stopping = d.m.stopping
      /\ m1.task = d.m.task /\ m1.tally = d.m.tally /\ m1.active = d.m.active
  BY <1>5, <1>7 DEF Masters
<1> HIDE DEF m1
<1>9. StopsOK(m1, d.wire)
  BY <1>7, <1>8 DEF StopsOK, StopsLast, AllDone, NoCheck
<1>10. master' = CheckLoad(s1).m /\ toWorker' = CheckLoad(s1).wire
  BY <1>4, <1>6
<1>11. toWorker' \in [Worker -> Seq(Down)]
  BY DEF Checked, SystemOK, TypesOK
<1>12. /\ Later(m1, master') /\ master'.stopping = m1.stopping /\ StopsOK(master', toWorker')
  <2>1. CheckLoad(s1).wire \in [Worker -> Seq(Down)] /\ s1 = [m |-> m1, wire |-> d.wire]
    BY <1>10, <1>11
  <2> HIDE DEF s1
  <2> QED
    BY <1>7, <1>8, <1>9, <1>10, <2>1, LoadCalm
<1>13. Later(s.m, master') /\ (master.stopping => master'.stopping /\ master'.tally = master.tally)
  <2>1. Later(d.m, m1)
    BY <1>8, LaterSame
  <2>2. Later(s.m, m1)
    BY <1>1, <1>7, <2>1, LaterTwice
  <2>3. Later(s.m, master')
    BY <1>1, <1>12, <2>2, LaterTwice
  <2>4. master.stopping => s.m.stopping /\ s.m.tally = master.tally
    BY DEF TurnOK
  <2> QED
    BY <1>7, <1>8, <1>12, <2>3, <2>4 DEF Later
<1>14. ActiveOK(master')
  BY <1>1, <1>13, ActiveLater DEF TurnOK
<1>15. toMaster \in [Worker -> Seq(Up)] /\ faults \in Nat /\ \A z \in Worker : worker[z] \in Workers
  BY CheckedWorker DEF Checked, SystemOK, TypesOK
<1>16. ASSUME NEW z \in Worker
       PROVE  /\ ReportsOK(toMaster'[z], master', z, faults') /\ CheckOK(worker'[z].check, faults')
              /\ BooksOK(master', worker'[z], z)
  <2>1. ReportsOK(toMaster[z], master, z, faults) /\ CheckOK(worker[z].check, faults)
    BY DEF Calm, CalmOK
  <2>2. toMaster'[z] = IF z = w THEN Tail(toMaster[z]) ELSE toMaster[z]
    BY <1>3, <1>15 DEF Took
  <2>3. ReportsOK(toMaster'[z], master, z, faults)
    BY <1>15, <2>1, <2>2, ReportTaken
  <2>4. faults' = faults /\ faults \in Nat /\ worker' = worker
    BY <1>3, <1>15
  <2>5. ReportsOK(toMaster'[z], master', z, faults')
    <3>1. faults <= faults'
      BY <2>4
    <3> QED
      BY <1>13, <2>3, <2>4, <3>1, ReportsStay
  <2>6. BooksOK(s.m, worker[z], z)
    BY DEF TurnOK
  <2>7. BooksOK(master', worker[z], z)
    BY <1>1, <1>13, <1>15, <2>6, BooksLater
  <2> QED
    BY <2>1, <2>4, <2>5, <2>7
<1>17. Calm'
  <2>1. \A z \in Worker : ReportsOK(toMaster'[z], master', z, faults')
    BY <1>16
  <2>2. \A z \in Worker : CheckOK(worker'[z].check, faults') /\ BooksOK(master', worker'[z], z)
    BY <1>16
  <2> QED
    BY <1>12, <1>14, <2>1, <2>2 DEF Calm, CalmOK
<1> QED
  BY <1>3, <1>15, <1>17 DEF Fine


(* The master is not about to stop while a check or a task is left. *)
LEMMA NotYet ==
  ASSUME Calm, NEW w \in Worker, NEW c \in Check, Owns(master, w, c)
  PROVE  ~master.stopping
<1>1. master.check[w] # None
  BY HeldChecks DEF Owns
<1> QED
  BY <1>1 DEF Calm, CalmOK, StopsOK, NoCheck
LEMMA NotDone ==
  ASSUME Calm, NEW k \in Key, master.task[k].state # "DONE"
  PROVE  ~master.stopping
  BY DEF Calm, CalmOK, StopsOK, AllDone

LEMMA AsideOK ==
  ASSUME Checked, Calm, NEW m2, Aside(m2)
  PROVE  TurnOK(Now(m2))
<1>1. /\ master \in Masters /\ ActiveOK(master) /\ StopsOK(master, toWorker)
      /\ \A z \in Worker : worker[z] \in Workers /\ BooksOK(master, worker[z], z)
  BY CheckedWorker DEF Checked, SystemOK, TypesOK, MasterOK, Calm, CalmOK
<1>2. Later(master, m2)
  BY LaterSame DEF Aside
<1>3. ActiveOK(m2) /\ \A z \in Worker : BooksOK(m2, worker[z], z)
  BY <1>1, <1>2, ActiveLater, BooksLater
<1>4. StopsOK(m2, toWorker)
  BY <1>1 DEF StopsOK, StopsLast, AllDone, NoCheck, Aside
<1>5. master.stopping => m2.stopping /\ m2.tally = master.tally
  BY DEF Aside
<1>6. Now(m2).m = m2 /\ Now(m2).wire = toWorker
  BY DEF Now
<1> QED
  BY <1>3, <1>4, <1>5, <1>6 DEF TurnOK
(* A message is sent before the rest of the round. *)
LEMMA TurnSent ==
  ASSUME NEW s, TurnOK(s), s.wire \in [Worker -> Seq(Down)], ~s.m.stopping, NEW w \in Worker,
         NEW y \in Down, y.type # "STOP", s = [m |-> s.m, wire |-> s.wire]
  PROVE  /\ TurnOK(Send(s, w, y)) /\ Send(s, w, y).wire \in [Worker -> Seq(Down)] /\ Send(s, w, y).m = s.m
         /\ Send(s, w, y) = [m |-> Send(s, w, y).m, wire |-> Send(s, w, y).wire]
<1> DEFINE m2 == s.m
           g == Put(s.wire, w, y)
<1>1. Send(s, w, y) = [m |-> m2, wire |-> g]
  BY SendShape
<1>2. StopsOK(m2, g) /\ g \in [Worker -> Seq(Down)]
  BY StopsPut DEF TurnOK
<1> HIDE DEF g
<1> QED
  BY <1>1, <1>2 DEF TurnOK

LEMMA AsideCalm ==
  ASSUME Checked, Checked', Calm, NEW w \in Worker, toMaster[w] # <<>>, AsideTurn(w)
  PROVE  Calm' /\ Fine
<1>1. PICK m2 : Aside(m2) /\ Turning(w, Now(m2))
  BY DEF AsideTurn
<1> QED
  BY <1>1, AsideOK, RoundCalm
LEMMA TimeCalm ==
  ASSUME Checked, Checked', Calm, NEW w \in Worker, toMaster[w] # <<>>, ~master.stopping, TimeTurn(w)
  PROVE  Calm' /\ Fine
<1>1. PICK m2, y : /\ Aside(m2) /\ y \in Down /\ y.type = "TIME_ACK"
                   /\ Turning(w, Send(Now(m2), w, y))
  BY DEF TimeTurn
<1>2. TurnOK(Now(m2)) /\ ~m2.stopping
  BY <1>1, AsideOK DEF Aside
<1>3. Now(m2).m = m2 /\ Now(m2).wire = toWorker /\ Now(m2) = [m |-> m2, wire |-> toWorker]
  BY DEF Now
<1>4. toWorker \in [Worker -> Seq(Down)]
  BY WiresUnchanged
<1>5. TurnOK(Send(Now(m2), w, y))
  BY <1>1, <1>2, <1>3, <1>4, TurnSent
<1> QED
  BY <1>1, <1>5, RoundCalm


LEMMA NotRaised ==
  ASSUME verdict = "running", verdict' = verdict
  PROVE  ~Raise("error")
  BY DEF Raise
LEMMA RoundFine ==
  ASSUME NEW w, NEW s, EndOfRound(w, s)
  PROVE  verdict' = verdict
  BY DEF EndOfRound
LEMMA TransferTimeFine ==
  ASSUME Checked, Calm, NEW w \in Worker, TransferTime(w)
  PROVE  ~master.stopping /\ verdict' = verdict /\ verdict = "running"
<1> DEFINE x == Head(toMaster[w])
           c == x.id
           known == {y \in master.times : y.id = c}
           bad == IF x.phase = "SEND"
                  THEN w # x.source \/ master.check[w] = None \/ known # {} \/ c \in master.transfers
                  ELSE \/ w # x.target
                       \/ known # {[id |-> c, source |-> x.source, target |-> w, arrived |-> FALSE]}
<1>1. toMaster[w] # <<>> /\ x.type = "P2P_TIME" /\ verdict = "running"
  BY DEF TransferTime, FromWorker
<1>0. bad \/ \E s : EndOfRound(w, s)
  BY DEF TransferTime
<1>2. /\ x \in Up /\ c \in Check /\ x \in About(toMaster[w], c)
      /\ TransferOK(master, toWorker, toMaster, worker, requests, c)
  BY <1>1, Handling DEF TransferTypes
<1> HIDE DEF x
<1>3. PICK v \in Worker : UpMeans(master, toWorker, toMaster, worker, requests, c, w, x, v)
  BY <1>2, UpSays
<1> HIDE DEF c, bad
<1>4. \/ Timing(master, toWorker, toMaster, worker, requests, c, w, v) /\ x = TimeOf(c, w, v, "SEND")
      \/ /\ Asking(master, toWorker, toMaster, worker, requests, c, v, w)
         /\ Arriving(master, toWorker, toMaster, worker, requests, c, v, w)
         /\ x = TimeOf(c, v, w, "RECV")
  <2>1. /\ x # [type |-> "P2P_FAILURE", id |-> c, target |-> v]
        /\ x \notin {NoTransfer(c, FALSE), NoTransfer(c, TRUE)} /\ x.type # "P2P_TRANSFER"
    BY <1>1 DEF NoTransfer
  <2> QED
    BY <1>3, <2>1 DEF UpMeans
<1>5. known = Known(master, c)
  BY DEF Known
<1> HIDE DEF known
<1>6. CASE Timing(master, toWorker, toMaster, worker, requests, c, w, v) /\ x = TimeOf(c, w, v, "SEND")
  <2>1. Owns(master, w, c) /\ Known(master, c) = {}
    BY <1>2, <1>6 DEF Timing
  <2>2. ~master.stopping /\ master.check[w] # None /\ c \notin master.transfers
    BY <1>2, <2>1, NotYet, HeldChecks DEF Owns
  <2>3. x.phase = "SEND" /\ x.source = w
    BY <1>6 DEF TimeOf
  <2>5. ~(w # x.source \/ master.check[w] = None \/ known # {} \/ c \in master.transfers)
    BY <1>5, <2>1, <2>2, <2>3
  <2>6. verdict' = verdict
    BY <1>0, <2>3, <2>5, RoundFine DEF bad
  <2> QED
    BY <1>1, <2>2, <2>6
<1>7. CASE /\ Asking(master, toWorker, toMaster, worker, requests, c, v, w)
           /\ Arriving(master, toWorker, toMaster, worker, requests, c, v, w)
           /\ x = TimeOf(c, v, w, "RECV")
  <2>0. Owns(master, v, c) /\ About(toMaster[w], c) # {}
    BY <1>2, <1>7 DEF Asking
  <2>1. Owns(master, v, c) /\ Known(master, c) = {Record(c, v, w, FALSE)}
    BY <2>0, <1>7 DEF Arriving, Silent
  <2>2. ~master.stopping
    BY <1>2, <2>1, NotYet
  <2>3. x.phase = "RECV" /\ x.source = v /\ x.target = w
    BY <1>7 DEF TimeOf
  <2>4. ~(w # x.target \/ known # {[id |-> c, source |-> x.source, target |-> w, arrived |-> FALSE]})
    BY <1>5, <2>1, <2>3 DEF Record
  <2>5. verdict' = verdict
    BY <1>0, <2>3, <2>4, RoundFine DEF bad
  <2> QED
    BY <1>1, <2>2, <2>5
<1> QED
  BY <1>4, <1>6, <1>7
LEMMA PeerCostFine ==
  ASSUME Checked, Calm, NEW w \in Worker, PeerCost(w)
  PROVE  verdict' = verdict /\ verdict = "running"
<1> DEFINE x == Head(toMaster[w])
           c == x.id
           cancelled == {y \in master.times : y.id = c}
           bad == \/ c # master.check[w]
                  \/ x.cancels /\ (cancelled = {} \/ \E y \in cancelled : y.source # w \/ y.arrived)
<1>0. bad \/ \E s : EndOfRound(w, s)
  BY DEF PeerCost
<1>1. toMaster[w] # <<>> /\ x.type = "P2P_COST" /\ verdict = "running"
  BY DEF PeerCost, FromWorker
<1>2. /\ x \in Up /\ c \in Check /\ x \in About(toMaster[w], c)
      /\ TransferOK(master, toWorker, toMaster, worker, requests, c)
  BY <1>1, Handling DEF TransferTypes
<1> HIDE DEF x, bad
<1>3. PICK v \in Worker : UpMeans(master, toWorker, toMaster, worker, requests, c, w, x, v)
  BY <1>2, UpSays
<1>4. Dropped(master, toWorker, toMaster, worker, requests, c, w, v)
  <2>1. /\ x # TimeOf(c, w, v, "SEND") /\ x # TimeOf(c, v, w, "RECV")
        /\ x # [type |-> "P2P_FAILURE", id |-> c, target |-> v] /\ x.type # "P2P_TRANSFER"
    BY <1>1 DEF TimeOf
  <2> HIDE DEF c
  <2> QED
    BY <2>1, <1>3 DEF UpMeans
<1>5. cancelled = Known(master, c)
  BY DEF Known
<1> HIDE DEF cancelled, c
<1>6. PICK cancels \in BOOLEAN :
        /\ About(toMaster[w], c) = {NoTransfer(c, cancels)}
        /\ Known(master, c) = IF cancels THEN {Record(c, w, v, FALSE)} ELSE {}
  BY <1>4 DEF Dropped
<1>7. master.check[w] = c /\ x.cancels = cancels
  BY <1>2, <1>4, <1>6 DEF Dropped, Owns, NoTransfer
<1>8. ~(x.cancels /\ (cancelled = {} \/ \E y \in cancelled : y.source # w \/ y.arrived))
  <2> SUFFICES ASSUME x.cancels
               PROVE  cancelled # {} /\ \A y \in cancelled : ~(y.source # w \/ y.arrived)
    OBVIOUS
  <2>1. cancelled = {Record(c, w, v, FALSE)}
    BY <1>5, <1>6, <1>7
  <2>2. Record(c, w, v, FALSE).source = w /\ ~Record(c, w, v, FALSE).arrived
    BY DEF Record
  <2> QED
    BY <2>1, <2>2
<1>9. verdict' = verdict
  BY <1>0, <1>7, <1>8, RoundFine DEF bad
<1> QED
  BY <1>1, <1>9
LEMMA TransferFailureFine ==
  ASSUME Checked, Calm, NEW w \in Worker, TransferFailure(w)
  PROVE  Raise("unknown") /\ faults > 0
<1> DEFINE x == Head(toMaster[w])
           c == x.id
<1>1. toMaster[w] # <<>> /\ x.type = "P2P_FAILURE"
  BY DEF TransferFailure, FromWorker
<1>2. /\ x \in Up /\ c \in Check /\ x \in About(toMaster[w], c)
      /\ TransferOK(master, toWorker, toMaster, worker, requests, c)
  BY <1>1, Handling DEF TransferTypes
<1>3. x \in Range(toMaster[w])
  BY <1>2 DEF About
<1> HIDE DEF x, c
<1>4. PICK v \in Worker : UpMeans(master, toWorker, toMaster, worker, requests, c, w, x, v)
  BY <1>2, UpSays
<1>5. /\ Asking(master, toWorker, toMaster, worker, requests, c, w, v)
      /\ x = [type |-> "P2P_FAILURE", id |-> c, target |-> v]
  BY <1>1, <1>4 DEF UpMeans, TimeOf, NoTransfer
<1>6. Owns(master, w, c) /\ x.target = v
  BY <1>5 DEF Asking
<1>7. ~master.stopping /\ master.check[w] = c
  BY <1>2, <1>6, NotYet DEF Owns
<1>8. \E y \in Known(master, c) : y.source = w /\ y.target = v
  <2>1. \E arrived \in BOOLEAN : Known(master, c) = {Record(c, w, v, arrived)}
    BY <1>5 DEF Asking, Offered, Arriving, Answered
  <2>2. PICK arrived \in BOOLEAN : Known(master, c) = {Record(c, w, v, arrived)}
    BY <2>1
  <2>3. Record(c, w, v, arrived).source = w /\ Record(c, w, v, arrived).target = v
    BY DEF Record
  <2> QED
    BY <2>2, <2>3
<1>9. \E y \in master.times : y.id = c /\ y.source = w /\ y.target = x.target
  BY <1>6, <1>8 DEF Known
<1>10. Raise("unknown")
  BY <1>7, <1>9 DEF TransferFailure, x, c
<1>11. faults > 0
  BY <1>1, <1>3 DEF Calm, CalmOK, ReportsOK, Excused, x
<1> QED
  BY <1>10, <1>11


-----------------------------------------------------------------------------
(* The master learns what became of a task *)

(* The sets that the tallies count, when only task k has changed. *)
LEMMA BooksAbout ==
  ASSUME NEW m \in Masters, NEW m2, NEW v \in Workers, NEW w \in Worker, NEW k \in Key, OneTask(m, m2, k)
  PROVE  /\ MovedAt(m2, v) = MovedAt(m, v)
         /\ (m2.task[k].state = "DONE" <=> m.task[k].state = "DONE") \/ k \notin v.stored
              => CountedAt(m2, v) = CountedAt(m, v)
         /\ (Failing(m2, v, w, k) <=> Failing(m, v, w, k)) => FailedAt(m2, v, w) = FailedAt(m, v, w)
         /\ (Repeating(m2, v, k) <=> Repeating(m, v, k)) => RepeatedAt(m2, v) = RepeatedAt(m, v)
         /\ m2.task[k].state = "DONE" /\ m.task[k].state # "DONE" /\ k \in v.stored
              => CountedAt(m2, v) = Plus(CountedAt(m, v), k) /\ k \notin CountedAt(m, v)
         /\ ~Failing(m2, v, w, k) /\ Failing(m, v, w, k)
              => FailedAt(m2, v, w) = Minus(FailedAt(m, v, w), k) /\ k \in FailedAt(m, v, w)
         /\ Repeating(m2, v, k) /\ ~Repeating(m, v, k)
              => RepeatedAt(m2, v) = Plus(RepeatedAt(m, v), k) /\ k \notin RepeatedAt(m, v)
<1>1. m2.transfers = m.transfers /\ \A j \in Key : j # k => m2.task[j] = m.task[j]
  BY DEF OneTask
<1>2. v.stored \in SUBSET Key
  BY WorkerFields
<1>3. \A j \in Key : j # k => (Failing(m2, v, w, j) <=> Failing(m, v, w, j)) /\ (Repeating(m2, v, j) <=> Repeating(m, v, j))
  BY <1>1 DEF Failing, Repeating
<1>4. MovedAt(m2, v) = MovedAt(m, v)
  BY <1>1 DEF MovedAt
<1>5. /\ (m2.task[k].state = "DONE" <=> m.task[k].state = "DONE") \/ k \notin v.stored
              => CountedAt(m2, v) = CountedAt(m, v)
      /\ m2.task[k].state = "DONE" /\ m.task[k].state # "DONE" /\ k \in v.stored
              => CountedAt(m2, v) = Plus(CountedAt(m, v), k) /\ k \notin CountedAt(m, v)
  BY <1>1, <1>2 DEF CountedAt, Plus
<1>6. /\ (Failing(m2, v, w, k) <=> Failing(m, v, w, k)) => FailedAt(m2, v, w) = FailedAt(m, v, w)
      /\ ~Failing(m2, v, w, k) /\ Failing(m, v, w, k)
              => FailedAt(m2, v, w) = Minus(FailedAt(m, v, w), k) /\ k \in FailedAt(m, v, w)
  BY <1>3 DEF FailedAt, Minus
<1>7. /\ (Repeating(m2, v, k) <=> Repeating(m, v, k)) => RepeatedAt(m2, v) = RepeatedAt(m, v)
      /\ Repeating(m2, v, k) /\ ~Repeating(m, v, k)
              => RepeatedAt(m2, v) = Plus(RepeatedAt(m, v), k) /\ k \notin RepeatedAt(m, v)
  BY <1>3 DEF RepeatedAt, Plus
<1> QED
  BY <1>4, <1>5, <1>6, <1>7
(* No attempt is settled again. *)
LEMMA SettledStays ==
  ASSUME NEW m, NEW m2, NEW v \in Workers, NEW k \in Key, OneTask(m, m2, k), SettledOK(m, v),
         m2.task[k].attempt = m.task[k].attempt, m2.task[k].state # "SENT"
  PROVE  SettledOK(m2, v)
<1> SUFFICES ASSUME NEW e \in v.reassigned PROVE SettledAttempt(m2.task[e[1]], v, e)
  BY DEF SettledOK
<1>1. SettledAttempt(m.task[e[1]], v, e)
  BY DEF SettledOK
<1>2. e[1] \in Key
  BY WorkerFields
<1>3. CASE e[1] # k
  BY <1>1, <1>2, <1>3 DEF OneTask
<1>4. CASE e[1] = k
  BY <1>1, <1>4 DEF SettledAttempt
<1> QED
  BY <1>3, <1>4
(* The worker's books are not affected. *)
LEMMA BooksElse ==
  ASSUME NEW m \in Masters, NEW m2, NEW v \in Workers, NEW w \in Worker, NEW k \in Key, OneTask(m, m2, k),
         BooksOK(m, v, w), m2.tally[w] = m.tally[w],
         (m2.task[k].state = "DONE" <=> m.task[k].state = "DONE") \/ k \notin v.stored,
         Failing(m2, v, w, k) <=> Failing(m, v, w, k),
         Repeating(m2, v, k) <=> Repeating(m, v, k),
         m2.task[k].attempt = m.task[k].attempt, m2.task[k].state # "SENT"
  PROVE  BooksOK(m2, v, w)
<1>1. SettledOK(m2, v)
  BY SettledStays DEF BooksOK
<1>2. /\ MovedAt(m2, v) = MovedAt(m, v) /\ CountedAt(m2, v) = CountedAt(m, v)
      /\ FailedAt(m2, v, w) = FailedAt(m, v, w) /\ RepeatedAt(m2, v) = RepeatedAt(m, v)
  BY BooksAbout
<1>3. TallyOK(m2.tally[w], m2, v, w)
  BY <1>2 DEF BooksOK, TallyOK
<1> QED
  BY <1>1, <1>3 DEF BooksOK
(* Another worker than the task's owner has nothing to do with it. *)
LEMMA BooksOther ==
  ASSUME NEW m \in Masters, NEW m2, NEW v \in Workers, NEW w \in Worker, NEW k \in Key, OneTask(m, m2, k),
         BooksOK(m, v, w), m2.tally[w] = m.tally[w], NEW d, NEW u, Blank(d, u, v, k),
         m.task[k].owner # w, m2.task[k].owner # w,
         m2.task[k].attempt = m.task[k].attempt, m2.task[k].state # "SENT"
  PROVE  BooksOK(m2, v, w)
<1>1. k \notin v.stored /\ Accepted(v, k) = {}
  BY DEF Blank, Unqueued
<1>2. (Failing(m2, v, w, k) <=> Failing(m, v, w, k)) /\ (Repeating(m2, v, k) <=> Repeating(m, v, k))
  BY <1>1 DEF Failing, Repeating
<1> QED
  BY <1>1, <1>2, BooksElse

(* After a message of w about its task k. *)
LEMMA OneTurn ==
  ASSUME Checked, Calm, NEW w \in Worker, NEW k \in Key, Owned(master, toWorker, toMaster, worker, k, w),
         master.task[k].state # "DONE",
         NEW m \in Masters, Aside(m), NEW m2 \in Masters, OneTask(m, m2, k), m2.stopping = m.stopping,
         m2.task[k].owner \in {w, None}, m2.task[k].attempt = m.task[k].attempt, m2.task[k].state # "SENT",
         \A z \in Worker : z # w => m2.tally[z] = m.tally[z], ActiveOK(m2),
         BooksOK(m, worker[w], w) => BooksOK(m2, worker[w], w)
  PROVE  TurnOK(Now(m2)) /\ ~m2.stopping
<1>1. /\ TurnOK(Now(m)) /\ Now(m).m = m /\ Now(m2).m = m2 /\ Now(m2).wire = toWorker /\ Now(m).wire = toWorker
  BY AsideOK DEF Now
<1>2. ~master.stopping /\ ~m.stopping /\ ~m2.stopping
  BY NotDone DEF Aside
<1>3. toWorker \in [Worker -> Seq(Down)] /\ \A z \in Worker : worker[z] \in Workers
  BY WiresUnchanged, CheckedWorker
<1>4. StopsOK(m2, toWorker)
  BY <1>1, <1>2, <1>3, StopsQuiet, QuietStops DEF TurnOK
<1>5. ASSUME NEW z \in Worker PROVE BooksOK(m2, worker[z], z)
  <2>1. BooksOK(m, worker[z], z)
    BY <1>1 DEF TurnOK
  <2>2. CASE z = w
    BY <2>1, <2>2
  <2>3. CASE z # w
    <3>1. Blank(toWorker[z], toMaster[z], worker[z], k) /\ m.task[k].owner = w
      BY <2>3 DEF Owned, Aside
    <3>2. m2.tally[z] = m.tally[z] /\ m.task[k].owner # z /\ m2.task[k].owner # z /\ worker[z] \in Workers
      BY <1>3, <2>3, <3>1, HeldChecks DEF None, Worker
    <3> QED
      BY <2>1, <3>1, <3>2, BooksOther
  <2> QED
    BY <2>2, <2>3
<1> QED
  BY <1>1, <1>2, <1>4, <1>5 DEF TurnOK


LEMMA UpdateAside ==
  ASSUME Checked, NEW w \in Worker, NEW x, x.size \in Size
  PROVE  LET m == UpdateQueue(master, w, x)
         IN  Aside(m) /\ m \in Masters /\ MasterOK(m)
<1>1. MasterOK(master)
  BY CheckedParts
<1>2. /\ Similar(master, UpdateQueue(master, w, x)) /\ UpdateQueue(master, w, x) \in Masters
      /\ UpdateQueue(master, w, x).task = master.task /\ UpdateQueue(master, w, x).active = master.active
      /\ UpdateQueue(master, w, x).tally = master.tally /\ UpdateQueue(master, w, x).stopping = master.stopping
  BY <1>1, UpdateSimilar
<1> QED
  BY <1>2 DEF Similar, Aside
LEMMA ActiveElse ==
  ASSUME NEW m \in Masters, NEW m2, NEW k \in Key, OneTask(m, m2, k), m2.active = m.active, ActiveOK(m),
         m.task[k].state # "PROCESSING"
  PROVE  ActiveOK(m2)
<1> SUFFICES ASSUME NEW z \in Worker, m.active[z] # None
             PROVE  m2.task[m.active[z]].state = "PROCESSING" /\ m2.task[m.active[z]].owner = z
  BY DEF ActiveOK
<1>1. m.active[z] \in Key
  BY Fields
<1>2. m.task[m.active[z]].state = "PROCESSING" /\ m.task[m.active[z]].owner = z
  BY DEF ActiveOK
<1> QED
  BY <1>1, <1>2 DEF OneTask

LEMMA AcceptShape ==
  ASSUME NEW m \in Masters, NEW w \in Worker, NEW k \in Key, NEW n \in Nat, NEW m2, m2 = AcceptMaster(m, k, w, n)
  PROVE  /\ m2.stopping = m.stopping /\ m2.active = m.active /\ \A z \in Worker : z # w => m2.tally[z] = m.tally[z]
         /\ m2.tally[w].success = m.tally[w].success /\ m2.tally[w].failures = m.tally[w].failures
         /\ m2.tally[w].moved = m.tally[w].moved /\ m2.tally[w].reassigned = m.tally[w].reassigned + n
<1>1. m.tally \in [Worker -> Tallies]
  BY Fields
<1>2. m2.tally = [m.tally EXCEPT ![w].reassigned = @ + n]
  BY DEF AcceptMaster, Masters
<1>3. m2.stopping = m.stopping /\ m2.active = m.active
  BY DEF AcceptMaster, Masters
<1>4. m.tally[w] \in Tallies /\ m2.tally[w] = [m.tally[w] EXCEPT !.reassigned = @ + n]
  BY <1>1, <1>2
<1> QED
  BY <1>1, <1>2, <1>3, <1>4 DEF Tallies
LEMMA AcceptBooks ==
  ASSUME NEW m \in Masters, NEW w \in Worker, NEW k \in Key, NEW v \in Workers, IsFiniteSet(v.reassigned), NEW x, Accepted(v, k) = {x},
         m.task[k].state = "SENT", x.failed \in BOOLEAN, NEW n, n = IF x.failed THEN 1 ELSE 0,
         NEW m2, m2 = AcceptMaster(m, k, w, n), m2 \in Masters, Becomes(m, m2, k, "ACCEPTED", w), BooksOK(m, v, w)
  PROVE  BooksOK(m2, v, w)
<1>1. OneTask(m, m2, k) /\ m2.task[k].state = "ACCEPTED" /\ m2.task[k].attempt = m.task[k].attempt
  BY DEF Becomes
<1>2. /\ m2.tally[w].success = m.tally[w].success /\ m2.tally[w].failures = m.tally[w].failures
      /\ m2.tally[w].moved = m.tally[w].moved /\ m2.tally[w].reassigned = m.tally[w].reassigned + n
  BY AcceptShape
<1>3. SettledOK(m2, v)
  BY <1>1, SettledStays DEF BooksOK
<1>4. ~Failing(m2, v, w, k) /\ ~Failing(m, v, w, k) /\ ~Repeating(m, v, k) /\ (Repeating(m2, v, k) <=> x.failed)
  BY <1>1 DEF Failing, Repeating
<1>5. /\ MovedAt(m2, v) = MovedAt(m, v) /\ CountedAt(m2, v) = CountedAt(m, v)
      /\ FailedAt(m2, v, w) = FailedAt(m, v, w)
  BY <1>1, <1>4, BooksAbout
<1>6. Cardinality(RepeatedAt(m2, v)) = Cardinality(RepeatedAt(m, v)) + n
  <2>1. /\ ~x.failed => RepeatedAt(m2, v) = RepeatedAt(m, v)
        /\ x.failed => RepeatedAt(m2, v) = Plus(RepeatedAt(m, v), k) /\ k \notin RepeatedAt(m, v)
    BY <1>1, <1>4, BooksAbout
  <2>2. RepeatedAt(m, v) \in SUBSET Key /\ \A T \in SUBSET Key : IsFiniteSet(T) /\ Cardinality(T) \in Nat
    BY BookSets
  <2>3. x.failed => Cardinality(RepeatedAt(m2, v)) = Cardinality(RepeatedAt(m, v)) + 1
    BY <2>1, <2>2, OneMore
  <2> QED
    BY <2>1, <2>2, <2>3
<1>7. TallyOK(m.tally[w], m, v, w)
  BY DEF BooksOK
<1>8. Cardinality(v.reassigned) \in Nat /\ Cardinality(RepeatedAt(m, v)) \in Nat
  BY FS_CardinalityType, BookSets
<1>9. m2.tally[w].reassigned = Cardinality(v.reassigned) + Cardinality(RepeatedAt(m2, v))
  <2>1. m.tally[w].reassigned = Cardinality(v.reassigned) + Cardinality(RepeatedAt(m, v))
    BY <1>7 DEF TallyOK
  <2> QED
    BY <2>1, <1>2, <1>6, <1>8
<1>10. TallyOK(m2.tally[w], m2, v, w)
  BY <1>2, <1>5, <1>7, <1>9 DEF TallyOK
<1> QED
  BY <1>3, <1>10 DEF BooksOK


LEMMA TaskAckOK ==
  ASSUME Checked, Tokens, Calm, NEW w \in Worker, toMaster[w] # <<>>, NEW x, x = Head(toMaster[w]), x.type = "TASK_ACK"
  PROVE  TurnOK(AckState(w, x))
<1> DEFINE k == x.task.key
           m == UpdateQueue(master, w, x)
           t == master.task[k]
           n == IF t.failedAt # None THEN 1 ELSE 0
<1>1. /\ x \in Of(toMaster[w], k) /\ k \in Key /\ x.task \in FreeTask /\ x.size \in Size
      /\ Owned(master, toWorker, toMaster, worker, k, w)
      /\ Judged(toWorker[w], toMaster[w], worker[w], k, t) /\ x.accepted \in BOOLEAN
  BY TaskSaid
<1>2. Aside(m) /\ m \in Masters /\ MasterOK(m)
  BY <1>1, UpdateAside
<1> HIDE DEF k, m
<1>3. m.task = master.task /\ m.stopping = master.stopping /\ m.task[k] = t
  BY <1>2 DEF Aside
<1>4. /\ t.state = "SENT" /\ Accepted(worker[w], k) = (IF x.accepted THEN {x.task} ELSE {})
      /\ (x.task.failed <=> t.failedAt # None) /\ t.owner = w
  <2>1. PICK y \in Of(toMaster[w], k) :
          /\ t.state = "SENT" /\ (y.task.failed <=> t.failedAt # None) /\ Of(toMaster[w], k) = {y}
          /\ Accepted(worker[w], k) = (IF y.accepted THEN {y.task} ELSE {})
    BY <1>1 DEF Judged
  <2>2. y = x
    BY <1>1, <2>1
  <2> QED
    BY <1>1, <2>1, <2>2 DEF Owned
<1> HIDE DEF t
<1>5. ActiveOK(m) /\ ~master.stopping
  <2>1. TurnOK(Now(m))
    BY <1>2, AsideOK
  <2> QED
    BY <1>1, <1>4, <2>1, NotDone DEF TurnOK, Now, t
<1>6. worker[w] \in Workers /\ IsFiniteSet(worker[w].reassigned) /\ toWorker \in [Worker -> Seq(Down)]
  BY CheckedWorker, WiresUnchanged
<1>7. CASE x.accepted
  <2> DEFINE m2 == AcceptMaster(m, k, w, n)
             y == [type |-> "TASK_CONFIRMED", task |-> x.task]
  <2>1. AckState(w, x) = Send(Now(m2), w, y)
    BY <1>7 DEF AckState, k, m, t
  <2>2. n \in Nat /\ n = (IF x.task.failed THEN 1 ELSE 0) /\ x.task.failed \in BOOLEAN
    BY <1>1, <1>4 DEF FreeTask, TaskRec
  <2> HIDE DEF n
  <2>3. Becomes(m, m2, k, "ACCEPTED", w) /\ m2 \in Masters
    BY <1>1, <1>2, <1>3, <1>4, <2>2, AcceptBecomes
  <2>4. /\ m2.stopping = m.stopping /\ m2.active = m.active /\ \A z \in Worker : z # w => m2.tally[z] = m.tally[z]
    BY <1>1, <1>2, <2>2, AcceptShape
  <2> HIDE DEF m2
  <2>5. BooksOK(m, worker[w], w) => BooksOK(m2, worker[w], w)
    <3>1. Accepted(worker[w], k) = {x.task} /\ m.task[k].state = "SENT"
      BY <1>3, <1>4, <1>7
    <3> QED
      BY <1>1, <1>2, <1>6, <2>2, <2>3, <3>1, AcceptBooks DEF m2
  <2>6. OneTask(m, m2, k) /\ m2.task[k].owner = w /\ m2.task[k].state = "ACCEPTED" /\ m2.task[k].attempt = m.task[k].attempt
    BY <2>3 DEF Becomes
  <2>7. ActiveOK(m2)
    BY <1>1, <1>2, <1>3, <1>4, <1>5, <2>4, <2>6, ActiveElse
  <2>9. TurnOK(Now(m2)) /\ ~m2.stopping
    <3>1. master.task[k].state # "DONE"
      BY <1>4 DEF t
    <3> QED
      BY <1>1, <1>2, <2>3, <2>4, <2>5, <2>6, <2>7, <3>1, OneTurn
  <2>10. y \in Down /\ y.type # "STOP"
    BY <1>1 DEF Down
  <2> HIDE DEF y
  <2>11. Now(m2).m = m2 /\ Now(m2).wire = toWorker /\ Now(m2) = [m |-> m2, wire |-> toWorker]
    BY DEF Now
  <2> QED
    BY <1>6, <2>1, <2>9, <2>10, <2>11, TurnSent
<1>8. CASE ~x.accepted
  <2> DEFINE m2 == RejectMaster(m, k, w, t)
  <2>1. AckState(w, x) = Now(m2)
    BY <1>8 DEF AckState, k, m, t
  <2>3. Becomes(m, m2, k, "WAITING", None) /\ m2 \in Masters
    BY <1>1, <1>2, <1>3, RejectBecomes
  <2>4. m2.stopping = m.stopping /\ m2.active = m.active /\ m2.tally = m.tally
    BY <1>2 DEF RejectMaster, Masters
  <2> HIDE DEF m2
  <2>6. OneTask(m, m2, k) /\ m2.task[k].owner = None /\ m2.task[k].state = "WAITING" /\ m2.task[k].attempt = m.task[k].attempt
    BY <2>3 DEF Becomes
  <2>5. BooksOK(m, worker[w], w) => BooksOK(m2, worker[w], w)
    <3>1. (Failing(m2, worker[w], w, k) <=> Failing(m, worker[w], w, k)) /\ (Repeating(m2, worker[w], k) <=> Repeating(m, worker[w], k))
      BY <1>3, <1>4, <2>6 DEF Failing, Repeating
    <3> QED
      BY <1>1, <1>2, <1>3, <1>4, <1>6, <2>4, <2>6, <3>1, BooksElse
  <2>7. ActiveOK(m2)
    BY <1>1, <1>2, <1>3, <1>4, <1>5, <2>4, <2>6, ActiveElse
  <2>9. TurnOK(Now(m2)) /\ ~m2.stopping
    <3>1. master.task[k].state # "DONE"
      BY <1>4 DEF t
    <3> QED
      BY <1>1, <1>2, <2>3, <2>4, <2>5, <2>6, <2>7, <3>1, OneTurn
  <2> QED
    BY <2>1, <2>9
<1> QED
  BY <1>7, <1>8


LEMMA StartShapes ==
  ASSUME NEW m \in Masters, NEW w \in Worker, NEW k \in Key, NEW m2, m2 = StartMaster(m, k, w)
  PROVE  /\ m2.stopping = m.stopping /\ m2.tally = m.tally /\ m2.active[w] = k
         /\ \A z \in Worker : z # w => m2.active[z] = m.active[z]
<1>1. m.active \in [Worker -> Key \cup {None}]
  BY Fields
<1>2. m2.active = [m.active EXCEPT ![w] = k] /\ m2.stopping = m.stopping /\ m2.tally = m.tally
  BY DEF StartMaster, Masters
<1> QED
  BY <1>1, <1>2
LEMMA StartOK ==
  ASSUME Checked, Tokens, Calm, NEW w \in Worker, toMaster[w] # <<>>, NEW x, x = Head(toMaster[w]),
         x.type = "PROCESS_START"
  PROVE  TurnOK(StartState(w, x))
<1> DEFINE k == x.task.key
           m == UpdateQueue(master, w, x)
           t == master.task[k]
           v == worker[w]
<1>1. /\ x \in Of(toMaster[w], k) /\ k \in Key /\ x.task \in FreeTask /\ x.size \in Size
      /\ Owned(master, toWorker, toMaster, worker, k, w)
      /\ Started(toWorker[w], toMaster[w], worker[w], k, t)
  BY TaskSaid
<1>2. Aside(m) /\ m \in Masters /\ MasterOK(m)
  BY <1>1, UpdateAside
<1> HIDE DEF k, m
<1>3. m.task = master.task /\ m.stopping = master.stopping /\ m.task[k] = t
  BY <1>2 DEF Aside
<1>4. /\ t.state = "ACCEPTED" /\ Accepted(v, k) = {} /\ Current(v, k) # {} /\ t.owner = w /\ k \notin v.stored
  BY <1>1 DEF Started, Owned
<1> HIDE DEF t, v
<1>5. ActiveOK(m) /\ ~master.stopping
  <2>1. TurnOK(Now(m))
    BY <1>2, AsideOK
  <2> QED
    BY <1>1, <1>4, <2>1, NotDone DEF TurnOK, Now, t
<1>6. v \in Workers /\ toWorker \in [Worker -> Seq(Down)]
  BY CheckedWorker, WiresUnchanged DEF v
<1> DEFINE m2 == StartMaster(m, k, w)
           y == [type |-> "PROCESS_ACK", task |-> x.task]
<1>7. StartState(w, x) = Send(Now(m2), w, y)
  BY DEF StartState, k, m
<1>8. Becomes(m, m2, k, "PROCESSING", w) /\ m2 \in Masters
  BY <1>1, <1>2, <1>3, <1>4, StartBecomes
<1>9. /\ m2.stopping = m.stopping /\ m2.tally = m.tally /\ m2.active[w] = k
      /\ \A z \in Worker : z # w => m2.active[z] = m.active[z]
  BY <1>1, <1>2, StartShapes
<1> HIDE DEF m2
<1>10. OneTask(m, m2, k) /\ m2.task[k].owner = w /\ m2.task[k].state = "PROCESSING" /\ m2.task[k].attempt = m.task[k].attempt
  BY <1>8 DEF Becomes
<1>11. BooksOK(m, v, w) => BooksOK(m2, v, w)
  <2>1. (Failing(m2, v, w, k) <=> Failing(m, v, w, k)) /\ (Repeating(m2, v, k) <=> Repeating(m, v, k))
    BY <1>3, <1>4, <1>10 DEF Failing, Repeating
  <2> QED
    BY <1>1, <1>2, <1>3, <1>4, <1>6, <1>9, <1>10, <2>1, BooksElse
<1>12. ActiveOK(m2)
  <2> SUFFICES ASSUME NEW z \in Worker, m2.active[z] # None
               PROVE  m2.task[m2.active[z]].state = "PROCESSING" /\ m2.task[m2.active[z]].owner = z
    BY DEF ActiveOK
  <2>1. CASE z = w
    BY <1>9, <1>10, <2>1
  <2>2. CASE z # w
    <3>1. m.active[z] \in Key /\ m2.active[z] = m.active[z]
      BY <1>2, <1>9, <2>2, Fields
    <3>2. m.task[m.active[z]].state = "PROCESSING" /\ m.task[m.active[z]].owner = z
      BY <1>5, <3>1 DEF ActiveOK
    <3>3. m.active[z] # k
      BY <1>3, <1>4, <3>2
    <3>4. m2.task[m.active[z]] = m.task[m.active[z]]
      BY <1>10, <3>1, <3>3 DEF OneTask
    <3> QED
      BY <3>1, <3>2, <3>4
  <2> QED
    BY <2>1, <2>2
<1>13. TurnOK(Now(m2)) /\ ~m2.stopping
  <2>1. master.task[k].state # "DONE"
    BY <1>4 DEF t
  <2> QED
    BY <1>1, <1>2, <1>8, <1>9, <1>10, <1>11, <1>12, <2>1, OneTurn DEF v
<1>14. y \in Down /\ y.type # "STOP"
  BY <1>1 DEF Down
<1> HIDE DEF y
<1>15. Now(m2).m = m2 /\ Now(m2).wire = toWorker /\ Now(m2) = [m |-> m2, wire |-> toWorker]
  BY DEF Now
<1> QED
  BY <1>6, <1>7, <1>13, <1>14, <1>15, TurnSent, SMTT(40)

(* A result is counted. *)
LEMMA SuccessShape ==
  ASSUME NEW m \in Masters, NEW w \in Worker, NEW k \in Key, NEW m2, m2 = SuccessMaster(m, k, w)
  PROVE  /\ m2.stopping = m.stopping /\ m2.active[w] = None
         /\ \A z \in Worker : z # w => m2.active[z] = m.active[z] /\ m2.tally[z] = m.tally[z]
         /\ m2.tally[w].success = m.tally[w].success + 1 /\ m2.tally[w].failures = m.tally[w].failures
         /\ m2.tally[w].moved = m.tally[w].moved /\ m2.tally[w].reassigned = m.tally[w].reassigned
<1>1. m.tally \in [Worker -> Tallies] /\ m.active \in [Worker -> Key \cup {None}]
  BY Fields
<1>2. m2.tally = [m.tally EXCEPT ![w].success = @ + 1] /\ m2.active = [m.active EXCEPT ![w] = None]
  BY DEF SuccessMaster, Masters
<1>3. m2.stopping = m.stopping
  BY DEF SuccessMaster, Masters
<1>4. m.tally[w] \in Tallies /\ m2.tally[w] = [m.tally[w] EXCEPT !.success = @ + 1]
  BY <1>1, <1>2
<1> QED
  BY <1>1, <1>2, <1>3, <1>4 DEF Tallies
LEMMA FailureShape ==
  ASSUME NEW m \in Masters, NEW w \in Worker, NEW k \in Key, NEW t, NEW m2, m2 = FailureMaster(m, k, w, t)
  PROVE  /\ m2.stopping = m.stopping /\ m2.active[w] = None
         /\ \A z \in Worker : z # w => m2.active[z] = m.active[z] /\ m2.tally[z] = m.tally[z]
         /\ m2.tally[w].success = m.tally[w].success /\ m2.tally[w].failures = m.tally[w].failures + 1
         /\ m2.tally[w].moved = m.tally[w].moved /\ m2.tally[w].reassigned = m.tally[w].reassigned
<1>1. m.tally \in [Worker -> Tallies] /\ m.active \in [Worker -> Key \cup {None}]
  BY Fields
<1>2. m2.tally = [m.tally EXCEPT ![w].failures = @ + 1] /\ m2.active = [m.active EXCEPT ![w] = None]
  BY DEF FailureMaster, Masters
<1>3. m2.stopping = m.stopping
  BY DEF FailureMaster, Masters
<1>4. m.tally[w] \in Tallies /\ m2.tally[w] = [m.tally[w] EXCEPT !.failures = @ + 1]
  BY <1>1, <1>2
<1> QED
  BY <1>1, <1>2, <1>3, <1>4 DEF Tallies

LEMMA SuccessBooks ==
  ASSUME NEW m \in Masters, NEW w \in Worker, NEW k \in Key, NEW v \in Workers, k \in v.stored,
         m.task[k].state = "PROCESSING",
         NEW m2, m2 = SuccessMaster(m, k, w), OneTask(m, m2, k), m2.task[k].state = "DONE",
         m2.task[k].attempt = m.task[k].attempt, BooksOK(m, v, w)
  PROVE  BooksOK(m2, v, w)
<1>1. /\ m2.tally[w].success = m.tally[w].success + 1 /\ m2.tally[w].failures = m.tally[w].failures
      /\ m2.tally[w].moved = m.tally[w].moved /\ m2.tally[w].reassigned = m.tally[w].reassigned
  BY SuccessShape
<1>2. SettledOK(m2, v)
  BY SettledStays DEF BooksOK
<1>3. ~Failing(m2, v, w, k) /\ ~Failing(m, v, w, k) /\ ~Repeating(m, v, k) /\ ~Repeating(m2, v, k)
  BY DEF Failing, Repeating
<1>4. /\ MovedAt(m2, v) = MovedAt(m, v) /\ RepeatedAt(m2, v) = RepeatedAt(m, v)
      /\ FailedAt(m2, v, w) = FailedAt(m, v, w)
      /\ CountedAt(m2, v) = Plus(CountedAt(m, v), k) /\ k \notin CountedAt(m, v)
  BY <1>3, BooksAbout
<1>5. CountedAt(m, v) \in SUBSET Key /\ \A T \in SUBSET Key : IsFiniteSet(T) /\ Cardinality(T) \in Nat
  BY BookSets
<1>6. Cardinality(CountedAt(m2, v)) = Cardinality(CountedAt(m, v)) + 1
  BY <1>4, <1>5, OneMore
<1>7. TallyOK(m.tally[w], m, v, w)
  BY DEF BooksOK
<1>8. TallyOK(m2.tally[w], m2, v, w)
  BY <1>1, <1>4, <1>6, <1>7 DEF TallyOK
<1> QED
  BY <1>2, <1>8 DEF BooksOK
LEMMA FailureBooks ==
  ASSUME NEW m \in Masters, NEW w \in Worker, NEW k \in Key, NEW v \in Workers, k \notin v.stored,
         Current(v, k) = {}, m.task[k].state = "PROCESSING", m.task[k].owner = w, NEW t,
         NEW m2, m2 = FailureMaster(m, k, w, t), OneTask(m, m2, k), m2.task[k].state = "WAITING",
         m2.task[k].attempt = m.task[k].attempt, BooksOK(m, v, w)
  PROVE  BooksOK(m2, v, w)
<1>1. /\ m2.tally[w].success = m.tally[w].success /\ m2.tally[w].failures = m.tally[w].failures + 1
      /\ m2.tally[w].moved = m.tally[w].moved /\ m2.tally[w].reassigned = m.tally[w].reassigned
  BY FailureShape
<1>2. SettledOK(m2, v)
  BY SettledStays DEF BooksOK
<1>3. ~Failing(m2, v, w, k) /\ Failing(m, v, w, k) /\ ~Repeating(m, v, k) /\ ~Repeating(m2, v, k)
  BY DEF Failing, Repeating
<1>4. /\ MovedAt(m2, v) = MovedAt(m, v) /\ RepeatedAt(m2, v) = RepeatedAt(m, v)
      /\ FailedAt(m2, v, w) = Minus(FailedAt(m, v, w), k) /\ k \in FailedAt(m, v, w)
      /\ CountedAt(m2, v) = CountedAt(m, v)
  BY <1>3, BooksAbout
<1>5. FailedAt(m, v, w) \in SUBSET Key /\ \A T \in SUBSET Key : IsFiniteSet(T) /\ Cardinality(T) \in Nat
  BY BookSets
<1>6. Cardinality(FailedAt(m2, v, w)) + 1 = Cardinality(FailedAt(m, v, w))
  <2> DEFINE T2 == Plus(FailedAt(m, v, w), k)
  <2>1. Cardinality(Minus(FailedAt(m, v, w), k)) + 1 = Cardinality(FailedAt(m, v, w))
    BY <1>4, <1>5, OneMore DEF T2
  <2> QED
    BY <1>4, <2>1
<1>7. TallyOK(m.tally[w], m, v, w)
  BY DEF BooksOK
<1>8. m2.tally[w].failures + Cardinality(FailedAt(m2, v, w)) = v.failures
  <2>1. m.tally[w].failures + Cardinality(FailedAt(m, v, w)) = v.failures
    BY <1>7 DEF TallyOK
  <2>2. m.tally[w].failures \in Nat
    <3>1. m.tally \in [Worker -> Tallies]
      BY Fields
    <3> QED
      BY <3>1 DEF Tallies
  <2>3. Minus(FailedAt(m, v, w), k) \in SUBSET Key
    BY <1>5 DEF Minus
  <2>4. Cardinality(FailedAt(m2, v, w)) \in Nat
    BY <1>4, <1>5, <2>3
  <2> QED
    BY <1>1, <1>6, <2>1, <2>2, <2>4
<1>9. TallyOK(m2.tally[w], m2, v, w)
  BY <1>1, <1>4, <1>7, <1>8 DEF TallyOK
<1> QED
  BY <1>2, <1>9 DEF BooksOK
LEMMA ResultOK ==
  ASSUME Checked, Tokens, Calm, NEW w \in Worker, toMaster[w] # <<>>, NEW x, x = Head(toMaster[w]), x.type = "RESULT"
  PROVE  TurnOK(ResultState(w, x))
<1> DEFINE k == x.task.key
           m == UpdateQueue(master, w, x)
           t == master.task[k]
           v == worker[w]
<1>1. /\ x \in Of(toMaster[w], k) /\ k \in Key /\ x.size \in Size
      /\ Owned(master, toWorker, toMaster, worker, k, w)
      /\ Finished(toWorker[w], toMaster[w], v, k, t)
  BY TaskSaid
<1>2. Aside(m) /\ m \in Masters /\ MasterOK(m)
  BY <1>1, UpdateAside
<1> HIDE DEF k, m
<1>3. m.task = master.task /\ m.stopping = master.stopping /\ m.task[k] = t
  BY <1>2 DEF Aside
<1>4. t.state = "PROCESSING" /\ Current(v, k) = {} /\ t.owner = w /\ (x.success <=> k \in v.stored)
  <2>1. PICK y \in Of(toMaster[w], k) :
          /\ t.state = "PROCESSING" /\ Current(v, k) = {} /\ (y.success <=> k \in v.stored)
          /\ Of(toMaster[w], k) = {y}
    BY <1>1 DEF Finished
  <2>2. y = x
    BY <1>1, <2>1
  <2> QED
    BY <1>1, <2>1, <2>2 DEF Owned
<1> HIDE DEF t
<1>5. ActiveOK(m) /\ ~master.stopping
  <2>1. TurnOK(Now(m))
    BY <1>2, AsideOK
  <2> QED
    BY <1>1, <1>4, <2>1, NotDone DEF TurnOK, Now, t
<1>6. v \in Workers /\ toWorker \in [Worker -> Seq(Down)]
  BY CheckedWorker, WiresUnchanged
<1> HIDE DEF v
<1>7. ASSUME NEW m2, OneTask(m, m2, k), m2.active[w] = None, \A z \in Worker : z # w => m2.active[z] = m.active[z]
      PROVE  ActiveOK(m2)
  <2> SUFFICES ASSUME NEW z \in Worker, m2.active[z] # None
               PROVE  m2.task[m2.active[z]].state = "PROCESSING" /\ m2.task[m2.active[z]].owner = z
    BY DEF ActiveOK
  <2>1. z # w /\ m2.active[z] = m.active[z]
    BY <1>7
  <2>2. m.active[z] \in Key
    BY <1>2, <2>1, Fields
  <2>3. m.task[m.active[z]].state = "PROCESSING" /\ m.task[m.active[z]].owner = z
    BY <1>5, <2>1 DEF ActiveOK
  <2>4. m.active[z] # k
    BY <1>3, <1>4, <2>1, <2>3
  <2> QED
    BY <1>7, <2>1, <2>2, <2>3, <2>4 DEF OneTask
<1>8. CASE x.success
  <2> DEFINE m2 == SuccessMaster(m, k, w)
  <2>1. ResultState(w, x) = Now(m2)
    BY <1>8 DEF ResultState, k, m
  <2>2. Becomes(m, m2, k, "DONE", w) /\ m2 \in Masters
    BY <1>1, <1>2, <1>3, <1>4, SuccessBecomes
  <2>3. /\ m2.stopping = m.stopping /\ m2.active[w] = None
        /\ \A z \in Worker : z # w => m2.active[z] = m.active[z]
        /\ \A z \in Worker : z # w => m2.tally[z] = m.tally[z]
    BY <1>1, <1>2, SuccessShape
  <2>4. OneTask(m, m2, k) /\ m2.task[k].owner = w /\ m2.task[k].state = "DONE" /\ m2.task[k].attempt = m.task[k].attempt
    BY <2>2 DEF Becomes
  <2>5. BooksOK(m, v, w) => BooksOK(m2, v, w)
    BY <1>1, <1>2, <1>3, <1>4, <1>6, <1>8, <2>4, SuccessBooks
  <2> HIDE DEF m2
  <2>6. ActiveOK(m2)
    BY <1>7, <2>3, <2>4
  <2>7. TurnOK(Now(m2))
    <3>1. master.task[k].state # "DONE"
      BY <1>4 DEF t
    <3> QED
      BY <1>1, <1>2, <2>2, <2>3, <2>4, <2>5, <2>6, <3>1, OneTurn DEF v
  <2> QED
    BY <2>1, <2>7
<1>9. CASE ~x.success
  <2> DEFINE m2 == FailureMaster(m, k, w, t)
  <2>1. ResultState(w, x) = Now(m2)
    BY <1>9 DEF ResultState, k, m, t
  <2>2. Becomes(m, m2, k, "WAITING", None) /\ m2 \in Masters
    BY <1>1, <1>2, <1>3, <1>4, FailureBecomes
  <2>3. /\ m2.stopping = m.stopping /\ m2.active[w] = None
        /\ \A z \in Worker : z # w => m2.active[z] = m.active[z]
        /\ \A z \in Worker : z # w => m2.tally[z] = m.tally[z]
    BY <1>1, <1>2, FailureShape
  <2>4. OneTask(m, m2, k) /\ m2.task[k].owner = None /\ m2.task[k].state = "WAITING" /\ m2.task[k].attempt = m.task[k].attempt
    BY <2>2 DEF Becomes
  <2>5. BooksOK(m, v, w) => BooksOK(m2, v, w)
    BY <1>1, <1>2, <1>3, <1>4, <1>6, <1>9, <2>4, FailureBooks
  <2> HIDE DEF m2
  <2>6. ActiveOK(m2)
    BY <1>7, <2>3, <2>4
  <2>7. TurnOK(Now(m2))
    <3>1. master.task[k].state # "DONE"
      BY <1>4 DEF t
    <3> QED
      BY <1>1, <1>2, <2>2, <2>3, <2>4, <2>5, <2>6, <3>1, OneTurn DEF v
  <2> QED
    BY <2>1, <2>7
<1> QED
  BY <1>8, <1>9

(* A transfer is recorded. *)
LEMMA TransferSaid ==
  ASSUME Checked, NEW w \in Worker, toMaster[w] # <<>>, NEW x, x = Head(toMaster[w]), x.type = "P2P_TRANSFER"
  PROVE  /\ x \in Up /\ x.id \in Check /\ x.target \in Worker
         /\ Given(master, toWorker, toMaster, worker, requests, x.id, w, x.target)
         /\ Range(x.tasks) = Held(worker[x.target], x.id) /\ x \in Range(toMaster[w])
<1> DEFINE c == x.id
<1>1. /\ x \in Up /\ c \in Check /\ x \in About(toMaster[w], c)
      /\ TransferOK(master, toWorker, toMaster, worker, requests, c)
  BY Handling DEF TransferTypes
<1>2. PICK v \in Worker : UpMeans(master, toWorker, toMaster, worker, requests, c, w, x, v)
  BY <1>1, UpSays
<1>3. /\ x # TimeOf(c, w, v, "SEND") /\ x # TimeOf(c, v, w, "RECV")
      /\ x # [type |-> "P2P_FAILURE", id |-> c, target |-> v] /\ x \notin {NoTransfer(c, FALSE), NoTransfer(c, TRUE)}
  BY DEF TimeOf, NoTransfer
<1>4. x \in Range(toMaster[w])
  BY <1>1 DEF About
<1> HIDE DEF c
<1>5. Given(master, toWorker, toMaster, worker, requests, c, w, v) /\ x.target = v /\ Range(x.tasks) = Held(worker[v], c)
  BY <1>2, <1>3 DEF UpMeans
<1> QED
  BY <1>1, <1>4, <1>5 DEF c
LEMMA MoveShape ==
  ASSUME NEW m \in Masters, NEW w \in Worker, NEW u \in Worker, NEW c \in Check, NEW moved,
         NEW m2, m2 = MoveMaster(m, c, w, u, MoveTally(m, w, u), MoveTask(m, u, moved))
  PROVE  /\ m2.stopping = m.stopping /\ m2.active = m.active /\ m2.transfers = Plus(m.transfers, c)
         /\ \A k \in Key : k \notin moved => m2.task[k] = m.task[k]
         /\ \A k \in Key : m2.task[k].state = m.task[k].state /\ m2.task[k].attempt = m.task[k].attempt
         /\ \A z \in Worker : /\ m2.tally[z].success = m.tally[z].success
                              /\ m2.tally[z].failures = m.tally[z].failures
                              /\ m2.tally[z].reassigned = m.tally[z].reassigned
                              /\ m2.tally[z].moved = m.tally[z].moved + IF z \in {w, u} THEN 1 ELSE 0
<1> DEFINE tally == MoveTally(m, w, u)
           task == MoveTask(m, u, moved)
<1>1. m.tally \in [Worker -> Tallies] /\ m.task \in [Key -> TaskState]
  BY Fields
<1>2. /\ \A z \in Worker : tally[z] = IF z \in {w, u} THEN [m.tally[z] EXCEPT !.moved = @ + 1] ELSE m.tally[z]
      /\ \A k \in Key : task[k] = IF k \in moved THEN [m.task[k] EXCEPT !.owner = u] ELSE m.task[k]
  BY DEF MoveTally, MoveTask
<1> HIDE DEF tally, task
<1>3. /\ m2.stopping = m.stopping /\ m2.active = m.active /\ m2.transfers = m.transfers \cup {c}
      /\ m2.task = task /\ m2.tally = tally
  BY DEF MoveMaster, Masters, tally, task
<1>4. \A k \in Key : k \notin moved => m2.task[k] = m.task[k]
  BY <1>2, <1>3
<1>5. ASSUME NEW k \in Key PROVE m2.task[k].state = m.task[k].state /\ m2.task[k].attempt = m.task[k].attempt
  <2>1. m.task[k] \in TaskState
    BY <1>1
  <2> QED
    BY <1>2, <1>3, <2>1 DEF TaskState
<1>6. ASSUME NEW z \in Worker
      PROVE  /\ m2.tally[z].success = m.tally[z].success
             /\ m2.tally[z].failures = m.tally[z].failures
             /\ m2.tally[z].reassigned = m.tally[z].reassigned
             /\ m2.tally[z].moved = m.tally[z].moved + IF z \in {w, u} THEN 1 ELSE 0
  <2>1. m.tally[z] \in Tallies
    BY <1>1
  <2>2. m.tally[z].moved \in Nat
    BY <2>1 DEF Tallies
  <2>3. CASE z \in {w, u}
    <3>1. m2.tally[z] = [m.tally[z] EXCEPT !.moved = @ + 1]
      BY <1>2, <1>3, <2>3
    <3> QED
      BY <2>1, <2>3, <3>1 DEF Tallies
  <2>4. CASE z \notin {w, u}
    <3>1. m2.tally[z] = m.tally[z]
      BY <1>2, <1>3, <2>4
    <3> QED
      BY <2>2, <2>4, <3>1
  <2> QED
    BY <2>3, <2>4
<1>7. m2.transfers = Plus(m.transfers, c)
  BY <1>3 DEF Plus
<1> QED
  BY <1>3, <1>4, <1>5, <1>6, <1>7
LEMMA BooksMoved ==
  ASSUME NEW m \in Masters, NEW m2, NEW v \in Workers, NEW z \in Worker, NEW c \in Check, c \notin m.transfers,
         m2.transfers = Plus(m.transfers, c),
         \A k \in Key : m.task[k].state # "ACCEPTED" => m2.task[k] = m.task[k],
         \A k \in Key : m2.task[k].state = m.task[k].state /\ m2.task[k].attempt = m.task[k].attempt,
         m2.tally[z].success = m.tally[z].success, m2.tally[z].failures = m.tally[z].failures,
         m2.tally[z].reassigned = m.tally[z].reassigned,
         NEW n, n = IF MovedTo(v, c) THEN 1 ELSE 0, m2.tally[z].moved = m.tally[z].moved + n,
         BooksOK(m, v, z)
  PROVE  BooksOK(m2, v, z)
<1>1. v.stored \in SUBSET Key /\ v.reassigned \in SUBSET (Key \X Nat)
  BY WorkerFields
<1>2. CountedAt(m2, v) = CountedAt(m, v)
  BY <1>1 DEF CountedAt
<1>3. \A k \in Key : (Failing(m2, v, z, k) <=> Failing(m, v, z, k)) /\ (Repeating(m2, v, k) <=> Repeating(m, v, k))
  BY DEF Failing, Repeating
<1>4. FailedAt(m2, v, z) = FailedAt(m, v, z) /\ RepeatedAt(m2, v) = RepeatedAt(m, v)
  BY <1>3 DEF FailedAt, RepeatedAt
<1>5. MovedAt(m, v) \in SUBSET Check /\ \A T \in SUBSET Check : IsFiniteSet(T) /\ Cardinality(T) \in Nat
  BY BookSets
<1>6. /\ ~MovedTo(v, c) => MovedAt(m2, v) = MovedAt(m, v)
      /\ MovedTo(v, c) => MovedAt(m2, v) = Plus(MovedAt(m, v), c) /\ c \notin MovedAt(m, v)
  BY DEF MovedAt, Plus
<1>7. Cardinality(MovedAt(m2, v)) = Cardinality(MovedAt(m, v)) + n
  <2>1. MovedTo(v, c) => Cardinality(MovedAt(m2, v)) = Cardinality(MovedAt(m, v)) + 1
    BY <1>5, <1>6, OneMore
  <2> QED
    BY <1>5, <1>6, <2>1
<1>8. TallyOK(m.tally[z], m, v, z) /\ SettledOK(m, v)
  BY DEF BooksOK
<1>9. m.tally[z].moved = Cardinality(MovedAt(m, v))
  BY <1>8 DEF TallyOK
<1>10. m2.tally[z].moved = Cardinality(MovedAt(m2, v))
  BY <1>7, <1>9
<1>11. TallyOK(m2.tally[z], m2, v, z)
  BY <1>2, <1>4, <1>8, <1>10 DEF TallyOK
<1>12. SettledOK(m2, v)
  <2> SUFFICES ASSUME NEW e \in v.reassigned
               PROVE  SettledAttempt(m2.task[e[1]], v, e)
    BY DEF SettledOK
  <2>1. e[1] \in Key
    BY <1>1
  <2>2. SettledAttempt(m.task[e[1]], v, e)
    BY <1>8 DEF SettledOK
  <2>3. m2.task[e[1]].state = m.task[e[1]].state /\ m2.task[e[1]].attempt = m.task[e[1]].attempt
    BY <2>1
  <2> QED
    BY <2>2, <2>3 DEF SettledAttempt
<1> QED
  BY <1>11, <1>12 DEF BooksOK
LEMMA MoveOK ==
  ASSUME Checked, Tokens, Calm, NEW w \in Worker, toMaster[w] # <<>>, NEW x, x = Head(toMaster[w]),
         x.type = "P2P_TRANSFER"
  PROVE  TurnOK(MoveState(w, x)) /\ ~master.stopping
<1> DEFINE c == x.id
           u == x.target
           moved == {t.key : t \in Range(x.tasks)}
           m2 == MoveMaster(master, c, w, u, MoveTally(master, w, u), MoveTask(master, u, moved))
           y == Recorded(c)
<1>1. /\ c \in Check /\ u \in Worker /\ Range(x.tasks) = Held(worker[u], c)
      /\ Given(master, toWorker, toMaster, worker, requests, c, w, u)
  BY TransferSaid
<1>2. MoveState(w, x) = Send(Send(Now(m2), w, y), u, y)
  BY Zenon DEF MoveState
<1>3. y \in Down /\ y.type # "STOP"
  BY <1>1 DEF Recorded, Down
<1> HIDE DEF c, u, y
<1>4. /\ u # w /\ Owns(master, w, c) /\ c \notin master.transfers
      /\ Others(toWorker, toMaster, worker, c, w, u) /\ c \in worker[w].events /\ worker[u].received[c] = "ACCEPTED"
  BY <1>1 DEF Given, Owns
<1>5. ~master.stopping
  BY <1>1, <1>4, NotYet
<1>6. master \in Masters /\ toWorker \in [Worker -> Seq(Down)] /\ \A z \in Worker : worker[z] \in Workers
  BY CheckedParts, WiresUnchanged, CheckedWorker
<1>7. ASSUME NEW k \in Key, k \in moved PROVE master.task[k].state = "ACCEPTED"
  <2>1. PICK t \in Held(worker[u], c) : t.key = k
    BY <1>1, <1>7
  <2>2. t \in Queued(worker[u], k) /\ t.held = c /\ c # None
    BY <1>1, <2>1, HeldChecks DEF Held, Queued, With
  <2>3. TaskOK(master, toWorker, toMaster, worker, k)
    BY TokenParts
  <2>4. PICK o \in Worker : InTransfer(master, toWorker, toMaster, worker, k, o, t)
    BY <1>1, <2>2, <2>3, HeldMeans
  <2> QED
    BY <2>4 DEF InTransfer
<1> HIDE DEF moved
<1>8. /\ m2.stopping = master.stopping /\ m2.active = master.active /\ m2.transfers = Plus(master.transfers, c)
      /\ \A k \in Key : k \notin moved => m2.task[k] = master.task[k]
      /\ \A k \in Key : m2.task[k].state = master.task[k].state /\ m2.task[k].attempt = master.task[k].attempt
      /\ \A z \in Worker : /\ m2.tally[z].success = master.tally[z].success
                           /\ m2.tally[z].failures = master.tally[z].failures
                           /\ m2.tally[z].reassigned = master.tally[z].reassigned
                           /\ m2.tally[z].moved = master.tally[z].moved + IF z \in {w, u} THEN 1 ELSE 0
  BY <1>1, <1>6, MoveShape
<1> HIDE DEF m2
<1>9. \A k \in Key : master.task[k].state # "ACCEPTED" => m2.task[k] = master.task[k]
  BY <1>7, <1>8
<1>10. ASSUME NEW z \in Worker PROVE BooksOK(m2, worker[z], z)
  <2> DEFINE n == IF MovedTo(worker[z], c) THEN 1 ELSE 0
  <2>1. BooksOK(master, worker[z], z) /\ worker[z] \in Workers
    BY <1>6 DEF Calm, CalmOK
  <2>2. MovedTo(worker[z], c) <=> z \in {w, u}
    BY <1>4 DEF MovedTo, Others, Outside, Unmarked
  <2>3. m2.tally[z].moved = master.tally[z].moved + n
    BY <1>8, <2>2
  <2>4. n = IF MovedTo(worker[z], c) THEN 1 ELSE 0
    OBVIOUS
  <2> HIDE DEF n
  <2>5. /\ m2.tally[z].success = master.tally[z].success /\ m2.tally[z].failures = master.tally[z].failures
        /\ m2.tally[z].reassigned = master.tally[z].reassigned
    BY <1>8
  <2>6. /\ m2.transfers = Plus(master.transfers, c)
        /\ \A k \in Key : m2.task[k].state = master.task[k].state /\ m2.task[k].attempt = master.task[k].attempt
    BY <1>8
  <2> QED
    BY <1>1, <1>4, <1>6, <1>9, <2>1, <2>3, <2>4, <2>5, <2>6, BooksMoved, ZenonT(60)
<1>11. ActiveOK(m2)
  <2> SUFFICES ASSUME NEW z \in Worker, m2.active[z] # None
               PROVE  m2.task[m2.active[z]].state = "PROCESSING" /\ m2.task[m2.active[z]].owner = z
    BY DEF ActiveOK
  <2>1. master.active[z] \in Key /\ m2.active[z] = master.active[z]
    BY <1>6, <1>8, Fields
  <2>2. master.task[master.active[z]].state = "PROCESSING" /\ master.task[master.active[z]].owner = z
    BY <1>8 DEF Calm, CalmOK, ActiveOK
  <2> QED
    BY <1>9, <2>1, <2>2
<1>12. StopsOK(m2, toWorker)
  <2>1. \A z \in Worker : NoStops(toWorker[z])
    BY <1>5, <1>6, StopsQuiet DEF Calm, CalmOK
  <2> QED
    BY <1>5, <1>6, <1>8, <2>1, QuietStops
<1>13. Now(m2).m = m2 /\ Now(m2).wire = toWorker /\ Now(m2) = [m |-> m2, wire |-> toWorker]
  BY DEF Now
<1>14. TurnOK(Now(m2))
  BY <1>5, <1>10, <1>11, <1>12, <1>13 DEF TurnOK
<1> DEFINE s == Send(Now(m2), w, y)
<1>15. /\ TurnOK(s) /\ s.wire \in [Worker -> Seq(Down)] /\ s.m = m2 /\ s = [m |-> s.m, wire |-> s.wire]
  BY <1>3, <1>5, <1>6, <1>8, <1>13, <1>14, TurnSent
<1> HIDE DEF s
<1>16. TurnOK(Send(s, u, y))
  BY <1>1, <1>3, <1>5, <1>8, <1>15, TurnSent
<1> QED
  BY <1>2, <1>5, <1>16 DEF s

-----------------------------------------------------------------------------
(* The master's handlers raise no exception. *)

LEMMA Steady ==
  ASSUME Fine, verdict = "running"
  PROVE  NoFalseAlarm'
  BY DEF Fine, NoFalseAlarm
LEMMA GivenUpCalm ==
  ASSUME Calm, Raise("unknown"), faults > 0
  PROVE  Calm' /\ NoFalseAlarm'
<1>1. UNCHANGED <<master, worker, toWorker, toMaster, faults>> /\ verdict' = "unknown"
  BY DEF Raise
<1> QED
  BY <1>1 DEF Calm, NoFalseAlarm

LEMMA ReadyCalm ==
  ASSUME Checked, Checked', Tokens, Calm, NEW w \in Worker, Ready(w)
  PROVE  Calm' /\ NoFalseAlarm'
<1>1. toMaster[w] # <<>> /\ verdict = "running"
  BY DEF Ready, FromWorker
<1>2. Calm' /\ Fine
  BY <1>1, ReadyTurn, AsideCalm
<1> QED
  BY <1>1, <1>2, Steady
LEMMA QueueStatusCalm ==
  ASSUME Checked, Checked', Tokens, Calm, NEW w \in Worker, QueueStatus(w)
  PROVE  Calm' /\ NoFalseAlarm'
<1>1. toMaster[w] # <<>> /\ verdict = "running"
  BY DEF QueueStatus, FromWorker
<1>2. Calm' /\ Fine
  BY <1>1, QueueStatusTurn, AsideCalm
<1> QED
  BY <1>1, <1>2, Steady
LEMMA TaskAckCalm ==
  ASSUME Checked, Checked', Tokens, Calm, NEW w \in Worker, TaskAck(w)
  PROVE  Calm' /\ NoFalseAlarm'
<1>a. FromWorker(w, "TASK_ACK")
  BY Zenon DEF TaskAck
<1>1. toMaster[w] # <<>> /\ verdict = "running" /\ Head(toMaster[w]).type = "TASK_ACK"
  BY <1>a DEF FromWorker
<1> DEFINE s == AckState(w, Head(toMaster[w]))
<1>2. Turning(w, s)
  BY TaskAckTurn
<1>3. TurnOK(s)
  BY <1>1, TaskAckOK
<1> HIDE DEF s
<1>4. Calm' /\ Fine
  BY <1>1, <1>2, <1>3, RoundCalm
<1> QED
  BY <1>1, <1>4, Steady

(* Only one task is started at a time. *)
LEMMA NoneActive ==
  ASSUME Checked, Tokens, Calm, NEW w \in Worker, toMaster[w] # <<>>, Head(toMaster[w]).type = "PROCESS_START"
  PROVE  master.active[w] = None
<1> SUFFICES ASSUME master.active[w] # None
             PROVE  FALSE
  OBVIOUS
<1> DEFINE x == Head(toMaster[w])
           k == x.task.key
           j == master.active[w]
           t == master.task[j]
           v == worker[w]
<1>1. /\ x \in Of(toMaster[w], k) /\ k \in Key
      /\ Started(toWorker[w], toMaster[w], v, k, master.task[k])
  BY TaskSaid
<1>2. x.type = "PROCESS_START"
  OBVIOUS
<1>3. x = toMaster[w][1] /\ 1 \in DOMAIN toMaster[w] /\ DOMAIN toMaster[w] = 1..Len(toMaster[w]) /\ Ordered(toMaster[w])
  <2>1. toMaster[w] \in Seq(Up)
    BY TokenParts
  <2>2. ReportsOK(toMaster[w], master, w, faults)
    BY DEF Calm, CalmOK
  <2> QED
    BY <2>1, <2>2, MessageTaken DEF ReportsOK
<1> HIDE DEF x, k
<1>4. j \in Key /\ t.state = "PROCESSING" /\ t.owner = w
  <2>1. j \in Key
    BY TokenParts, Fields
  <2> QED
    BY <2>1 DEF Calm, CalmOK, ActiveOK
<1>5. v \in Workers
  BY CheckedWorker
<1> HIDE DEF j
<1>6. TaskOK(master, toWorker, toMaster, worker, j)
  BY <1>4, TokenParts
<1>7. Place(toWorker[w], toMaster[w], v, j, t)
  BY <1>4, <1>6 DEF TaskOK, Unassigned, Owned, InTransfer
<1> HIDE DEF t, v
<1>8. Running(toWorker[w], toMaster[w], v, j, t) \/ Finished(toWorker[w], toMaster[w], v, j, t)
  BY <1>4, <1>7 DEF Place, Handed, Judged, Confirmed, Startable, Started, Stored
<1>9. k # j /\ Current(v, k) # {}
  BY <1>1, <1>4 DEF Started, t
<1>10. ~Running(toWorker[w], toMaster[w], v, j, t)
  <2> SUFFICES ASSUME Running(toWorker[w], toMaster[w], v, j, t)
               PROVE  FALSE
    OBVIOUS
  <2>1. PICK a \in Current(v, j) : TRUE
    BY DEF Running
  <2>2. PICK b \in Current(v, k) : TRUE
    BY <1>9
  <2>3. a \in Range(v.current) /\ a.key = j /\ b \in Range(v.current) /\ b.key = k
    BY DEF Current, With
  <2>4. v.current = <<>> \/ \E y \in FreeTask : v.current = <<y>>
    BY OnWires DEF Checked, SystemOK, v
  <2>5. v.current # <<>>
    BY <2>3, SingleTask
  <2>6. PICK y \in FreeTask : v.current = <<y>>
    BY <2>4, <2>5
  <2>7. Range(v.current) = {y}
    BY <2>6, SingleTask
  <2> QED
    BY <1>9, <2>3, <2>7
<1>11. ~Finished(toWorker[w], toMaster[w], v, j, t)
  <2> SUFFICES ASSUME Finished(toWorker[w], toMaster[w], v, j, t)
               PROVE  FALSE
    OBVIOUS
  <2>1. PICK y \in Of(toMaster[w], j) : y.type = "RESULT"
    BY DEF Finished
  <2>2. PICK i \in DOMAIN toMaster[w] : toMaster[w][i] = y
    BY DEF Of, Range
  <2>3. i < 1
    BY <1>2, <1>3, <2>1, <2>2 DEF Ordered
  <2> QED
    BY <1>3, <2>2, <2>3
<1> QED
  BY <1>8, <1>10, <1>11
LEMMA ProcessingStartCalm ==
  ASSUME Checked, Checked', Tokens, Calm, NEW w \in Worker, ProcessingStart(w)
  PROVE  Calm' /\ NoFalseAlarm'
<1> DEFINE x == Head(toMaster[w])
           k == x.task.key
           t == master.task[k]
           bad == \/ t.owner # w \/ t.attempt # x.task.attempt
                  \/ t.state # "ACCEPTED" \/ master.active[w] # None
           s == StartState(w, x)
<1>0. bad \/ \E y : EndOfRound(w, y)
  BY DEF ProcessingStart
<1>1. toMaster[w] # <<>> /\ x.type = "PROCESS_START" /\ verdict = "running"
  BY DEF ProcessingStart, FromWorker
<1>2. master.active[w] = None
  BY <1>1, NoneActive
<1>3. /\ x \in Of(toMaster[w], k) /\ Owned(master, toWorker, toMaster, worker, k, w)
      /\ Started(toWorker[w], toMaster[w], worker[w], k, t)
  BY <1>1, TaskSaid
<1>4. Raise("error") \/ Turning(w, s)
  BY ProcessingStartTurn
<1>5. TurnOK(s)
  BY <1>1, StartOK
<1> HIDE DEF s
<1>6. ~bad
  <2> HIDE DEF x, k
  <2>1. t.owner = w
    BY <1>3 DEF Owned
  <2> HIDE DEF t
  <2>2. t.state = "ACCEPTED" /\ t.attempt = x.task.attempt
    <3>1. PICK y \in Of(toMaster[w], k) : t.state = "ACCEPTED" /\ Fits(y.task, t) /\ Of(toMaster[w], k) = {y}
      BY <1>3 DEF Started
    <3>2. y = x
      BY <1>3, <3>1
    <3> QED
      BY <3>1, <3>2 DEF Fits
  <2> QED
    BY <1>2, <2>1, <2>2
<1>7. verdict' = verdict
  BY <1>0, <1>6, RoundFine
<1>8. Turning(w, s)
  BY <1>1, <1>4, <1>7, NotRaised
<1>9. Calm' /\ Fine
  BY <1>1, <1>5, <1>8, RoundCalm
<1> QED
  BY <1>1, <1>9, Steady
LEMMA TaskResultCalm ==
  ASSUME Checked, Checked', Tokens, Calm, NEW w \in Worker, TaskResult(w)
  PROVE  Calm' /\ NoFalseAlarm'
<1> DEFINE x == Head(toMaster[w])
           k == x.task.key
           s == ResultState(w, x)
<1>0. master.task[k].owner # w \/ \E y : EndOfRound(w, y)
  BY Zenon DEF TaskResult
<1>1. toMaster[w] # <<>> /\ x.type = "RESULT" /\ verdict = "running"
  BY DEF TaskResult, FromWorker
<1>2. Owned(master, toWorker, toMaster, worker, k, w)
  BY <1>1, TaskSaid
<1>3. Raise("error") \/ Turning(w, s)
  BY TaskResultTurn
<1>4. TurnOK(s)
  BY <1>1, ResultOK
<1> HIDE DEF s, x, k
<1>5. verdict' = verdict
  BY <1>0, <1>2, RoundFine DEF Owned
<1>6. Turning(w, s)
  BY <1>1, <1>3, <1>5, NotRaised
<1>7. Calm' /\ Fine
  BY <1>1, <1>4, <1>6, RoundCalm
<1> QED
  BY <1>1, <1>7, Steady
LEMMA TransferTimeCalm ==
  ASSUME Checked, Checked', Tokens, Calm, NEW w \in Worker, TransferTime(w)
  PROVE  Calm' /\ NoFalseAlarm'
<1>1. ~master.stopping /\ verdict' = verdict /\ verdict = "running"
  BY TransferTimeFine
<1>2. TimeTurn(w)
  BY <1>1, TransferTimeTurn, NotRaised
<1>3. toMaster[w] # <<>>
  BY DEF TransferTime, FromWorker
<1>4. Calm' /\ Fine
  BY <1>1, <1>2, <1>3, TimeCalm
<1> QED
  BY <1>1, <1>4, Steady
LEMMA PeerCostCalm ==
  ASSUME Checked, Checked', Tokens, Calm, NEW w \in Worker, PeerCost(w)
  PROVE  Calm' /\ NoFalseAlarm'
<1>1. verdict' = verdict /\ verdict = "running"
  BY PeerCostFine
<1>2. AsideTurn(w)
  BY <1>1, PeerCostTurn, NotRaised
<1>3. toMaster[w] # <<>>
  BY DEF PeerCost, FromWorker
<1>4. Calm' /\ Fine
  BY <1>2, <1>3, AsideCalm
<1> QED
  BY <1>1, <1>4, Steady
LEMMA TransferFailureCalm ==
  ASSUME Checked, Calm, NEW w \in Worker, TransferFailure(w)
  PROVE  Calm' /\ NoFalseAlarm'
  BY TransferFailureFine, GivenUpCalm

LEMMA ApartCount ==
  ASSUME NEW q \in Seq(TaskRec), Apart(q), NEW moved, moved = {t.key : t \in Range(q)}
  PROVE  Cardinality(moved) = Len(q)
<1> DEFINE f == [i \in 1..Len(q) |-> q[i].key]
<1>1. Len(q) \in Nat /\ DOMAIN q = 1..Len(q)
  BY LenProperties
<1>2. f \in Bijection(1..Len(q), moved)
  <2>1. f \in [1..Len(q) -> moved]
    BY <1>1 DEF Range
  <2>2. \A a, b \in 1..Len(q) : f[a] = f[b] => a = b
    BY <1>1 DEF Apart
  <2>3. \A y \in moved : \E a \in 1..Len(q) : f[a] = y
    BY <1>1 DEF Range
  <2> QED
    BY <2>1, <2>2, <2>3 DEF Bijection, Injection, IsInjective, Surjection
<1> DEFINE L == Len(q)
<1>3. IsFiniteSet(1..Len(q)) /\ Cardinality(1..Len(q)) = Len(q)
  <2>1. L \in Nat
    BY <1>1
  <2> HIDE DEF L
  <2>2. IsFiniteSet(1..L) /\ Cardinality(1..L) = IF 1 > L THEN 0 ELSE L - 1 + 1
    BY <2>1, FS_Interval
  <2>3. Cardinality(1..L) = L
    BY <2>1, <2>2
  <2> QED
    BY <2>2, <2>3 DEF L
<1>4. ExistsBijection(1..Len(q), moved)
  BY <1>2 DEF ExistsBijection
<1>5. Cardinality(moved) = Cardinality(1..Len(q))
  BY <1>3, <1>4, FS_Bijection
<1> QED
  BY <1>3, <1>5
(* The tasks of a transfer, when the source has reported it. *)
LEMMA GivenTasks ==
  ASSUME Checked, Tokens, NEW w \in Worker, NEW u \in Worker, NEW c \in Check,
         Given(master, toWorker, toMaster, worker, requests, c, w, u), NEW t \in Held(worker[u], c)
  PROVE  /\ master.task[t.key].owner = w /\ master.task[t.key].attempt = t.attempt
         /\ master.task[t.key].state = "ACCEPTED"
<1> DEFINE k == t.key
<1>1. t \in Queued(worker[u], k) /\ t.held = c /\ c # None
  BY HeldChecks DEF Held, Queued, With
<1>2. k \in Key
  <2>1. Tasks(worker[u]) \subseteq TaskRec
    BY OnWires DEF Checked, SystemOK
  <2> QED
    BY <2>1 DEF TaskRec, Held
<1> HIDE DEF k
<1>3. TaskOK(master, toWorker, toMaster, worker, k)
  BY <1>2, TokenParts
<1>4. PICK o \in Worker : InTransfer(master, toWorker, toMaster, worker, k, o, t)
  BY <1>1, <1>3, HeldMeans
<1>5. o = w
  BY <1>1, <1>4 DEF InTransfer, Given, Owns
<1> QED
  BY <1>4, <1>5 DEF InTransfer, Fits, k
LEMMA RoundTakes ==
  ASSUME Checked, NEW w \in Worker, toMaster[w] # <<>>, NEW s, EndOfRound(w, s), NEW reason
  PROVE  ~Raise(reason)
<1>1. toMaster \in [Worker -> Seq(Up)]
  BY DEF Checked, SystemOK, TypesOK
<1>2. toMaster' = Took(toMaster, w)
  BY DEF EndOfRound, Took
<1>3. toMaster'[w] = Tail(toMaster[w])
  BY <1>1, <1>2 DEF Took
<1>4. Tail(toMaster[w]) # toMaster[w]
  <2>1. DOMAIN Tail(toMaster[w]) = 1..(Len(toMaster[w]) - 1) /\ DOMAIN toMaster[w] = 1..Len(toMaster[w]) /\ Len(toMaster[w]) \in Nat \ {0}
    BY <1>1, MessageTaken
  <2> DEFINE L == Len(toMaster[w])
  <2>2. L \in Nat \ {0} /\ L \in DOMAIN toMaster[w] /\ DOMAIN Tail(toMaster[w]) = 1..(L - 1)
    BY <2>1
  <2> HIDE DEF L
  <2>3. L \notin DOMAIN Tail(toMaster[w])
    BY <2>2
  <2> QED
    BY <2>2, <2>3
<1> QED
  BY <1>3, <1>4 DEF Raise
LEMMA TransferResultCalm ==
  ASSUME Checked, Checked', Tokens, Calm, NEW w \in Worker, TransferResult(w)
  PROVE  Calm' /\ NoFalseAlarm'
<1> DEFINE x == Head(toMaster[w])
           c == x.id
           u == x.target
           moved == {t.key : t \in Range(x.tasks)}
           times == {[id |-> c, source |-> w, target |-> u, arrived |-> TRUE]}
           bad == \/ c # master.check[w] \/ ~(times \subseteq master.times)
                  \/ Cardinality(moved) # Len(x.tasks) \/ moved = {}
                  \/ \E t \in Range(x.tasks) :
                      LET known == master.task[t.key]
                      IN  known.owner # w \/ known.attempt # t.attempt \/ known.state # "ACCEPTED"
           s == MoveState(w, x)
<1>0. FromWorker(w, "P2P_TRANSFER") /\ (bad \/ \E y : EndOfRound(w, y))
  BY Zenon DEF TransferResult
<1>1. toMaster[w] # <<>> /\ x.type = "P2P_TRANSFER" /\ verdict = "running"
  BY <1>0 DEF FromWorker
<1>2. /\ c \in Check /\ u \in Worker /\ Range(x.tasks) = Held(worker[u], c) /\ x \in Up /\ x \in Range(toMaster[w])
      /\ Given(master, toWorker, toMaster, worker, requests, c, w, u)
  BY <1>1, TransferSaid
<1>3. (\E reason : Raise(reason)) \/ Turning(w, s)
  BY TransferResultTurn
<1>4. TurnOK(s)
  BY <1>1, MoveOK
<1>5. x.tasks \in Seq(TaskRec) /\ Apart(x.tasks)
  <2>1. x.tasks \in Seq(TaskRec)
    BY <1>1, <1>2, UpShape
  <2>2. ListsOK(toMaster, worker, requests)
    BY TokenParts
  <2> QED
    BY <1>1, <1>2, <2>1, <2>2 DEF ListsOK
<1>6. times = {Record(c, w, u, TRUE)}
  BY DEF Record
<1>7. moved = {t.key : t \in Range(x.tasks)}
  OBVIOUS
<1> HIDE DEF s, x, c, u, moved, times
<1>8. c = master.check[w] /\ times \subseteq master.times
  BY <1>2, <1>6 DEF Given, Owns, Known
<1>9. Cardinality(moved) = Len(x.tasks)
  BY <1>5, <1>7, ApartCount
<1>10. moved # {}
  <2>1. Held(worker[u], c) # {}
    BY <1>2 DEF Given
  <2> QED
    BY <1>2, <1>7, <2>1
<1>11. ASSUME NEW t \in Range(x.tasks)
       PROVE  LET known == master.task[t.key]
              IN  ~(known.owner # w \/ known.attempt # t.attempt \/ known.state # "ACCEPTED")
  <2>1. t \in Held(worker[u], c)
    BY <1>2
  <2> QED
    BY <1>2, <2>1, GivenTasks
<1>12. ~bad
  BY <1>8, <1>9, <1>10, <1>11
<1> HIDE DEF bad
<1>13. PICK y : EndOfRound(w, y)
  BY <1>0, <1>12
<1>14. Turning(w, s)
  BY <1>1, <1>3, <1>13, RoundTakes
<1>15. Calm' /\ Fine
  BY <1>1, <1>4, <1>14, RoundCalm
<1> QED
  BY <1>1, <1>15, Steady

(* At the end both sides agree. *)
LEMMA StopAckCalm ==
  ASSUME Checked, Checked', Calm, NEW w \in Worker, StopAck(w)
  PROVE  Calm' /\ NoFalseAlarm'
<1> DEFINE x == Head(toMaster[w])
           m2 == [master EXCEPT !.stopped = @ \cup {w}]
<1>1. toMaster[w] # <<>> /\ x.type = "STOP_ACK" /\ verdict = "running"
  BY DEF StopAck, FromWorker
<1>2. master \in Masters /\ toMaster \in [Worker -> Seq(Up)] /\ faults \in Nat /\ \A z \in Worker : worker[z] \in Workers
  BY CheckedParts, CheckedWorker DEF Checked, SystemOK, TypesOK
<1>3. x \in Range(toMaster[w])
  BY <1>1, CheckedParts
<1>4. master.stopping /\ x.stats = master.tally[w]
  BY <1>1, <1>3 DEF Calm, CalmOK, ReportsOK, Agrees
<1>5. /\ master' = m2 /\ toMaster' = Took(toMaster, w) /\ verdict' \in {verdict, "done"}
      /\ UNCHANGED <<worker, toWorker, requests, faults>>
  BY <1>4 DEF StopAck, Took
<1>6. /\ m2.task = master.task /\ m2.tally = master.tally /\ m2.active = master.active /\ m2.check = master.check
      /\ m2.transfers = master.transfers /\ m2.stopping = master.stopping
  BY <1>2 DEF Masters
<1> HIDE DEF m2, x
<1>7. Later(master, m2)
  BY <1>6, LaterSame
<1>8. ActiveOK(m2) /\ StopsOK(m2, toWorker)
  BY <1>2, <1>6, <1>7, ActiveLater DEF Calm, CalmOK, StopsOK, StopsLast, AllDone, NoCheck
<1>9. ASSUME NEW z \in Worker
      PROVE  /\ ReportsOK(toMaster'[z], m2, z, faults) /\ CheckOK(worker[z].check, faults)
             /\ BooksOK(m2, worker[z], z)
  <2>1. /\ ReportsOK(toMaster[z], master, z, faults) /\ CheckOK(worker[z].check, faults)
        /\ BooksOK(master, worker[z], z)
    BY DEF Calm, CalmOK
  <2>2. toMaster'[z] = IF z = w THEN Tail(toMaster[z]) ELSE toMaster[z]
    BY <1>2, <1>5 DEF Took
  <2>3. ReportsOK(toMaster'[z], master, z, faults)
    BY <1>1, <1>2, <2>1, <2>2, ReportTaken
  <2>4. ReportsOK(toMaster'[z], m2, z, faults)
    <3>1. faults <= faults
      BY <1>2
    <3> QED
      BY <1>2, <1>6, <2>3, <3>1, ReportsStay
  <2> QED
    BY <1>2, <1>7, <2>1, <2>4, BooksLater
<1>10. /\ \A z \in Worker : ReportsOK(toMaster'[z], master', z, faults')
       /\ \A z \in Worker : CheckOK(worker'[z].check, faults')
       /\ \A z \in Worker : BooksOK(master', worker'[z], z)
  BY <1>5, <1>9
<1>11. ActiveOK(master') /\ StopsOK(master', toWorker')
  BY <1>5, <1>8
<1> QED
  BY <1>1, <1>5, <1>10, <1>11 DEF Calm, CalmOK, NoFalseAlarm
LEMMA MessageCalm ==
  ASSUME Checked, Checked', Tokens, Calm, NEW w \in Worker, HandleMessage(w)
  PROVE  Calm' /\ NoFalseAlarm'
  BY ReadyCalm, QueueStatusCalm, TaskAckCalm, ProcessingStartCalm, TaskResultCalm, TransferTimeCalm,
     TransferResultCalm, PeerCostCalm, TransferFailureCalm, StopAckCalm, Zenon DEF HandleMessage

-----------------------------------------------------------------------------
(* The workers *)

LEMMA CheckStays ==
  ASSUME NEW k, NEW f \in Nat, NEW f2 \in Nat, f <= f2, CheckOK(k, f)
  PROVE  CheckOK(k, f2)
  BY DEF CheckOK
LEMMA StopsTook ==
  ASSUME NEW m, NEW down \in [Worker -> Seq(Down)], StopsOK(m, down), NEW w \in Worker, down[w] # <<>>
  PROVE  StopsOK(m, Took(down, w))
<1>1. StopsLast(Tail(down[w]), m)
  BY StopsTaken DEF StopsOK
<1>2. \A z \in Worker : Took(down, w)[z] = IF z = w THEN Tail(down[w]) ELSE down[z]
  BY DEF Took
<1> QED
  BY <1>1, <1>2 DEF StopsOK
(* What Calm says of worker w, when it has become v and its messages are q. *)
CalmAt(m, q, v, w, f) == ReportsOK(q, m, w, f) /\ CheckOK(v.check, f) /\ BooksOK(m, v, w)
LEMMA OneCalm ==
  ASSUME Checked, Calm, master' = master, StopsOK(master, toWorker'), faults' \in Nat, faults <= faults',
         NEW w \in Worker, \A z \in Worker : z # w => worker'[z] = worker[z] /\ toMaster'[z] = toMaster[z],
         CalmAt(master, toMaster'[w], worker'[w], w, faults')
  PROVE  Calm'
<1>1. faults \in Nat /\ ActiveOK(master)
  BY DEF Checked, Calm, CalmOK
<1>2. ASSUME NEW z \in Worker PROVE CalmAt(master, toMaster'[z], worker'[z], z, faults')
  <2>1. CASE z = w
    BY <2>1
  <2>2. CASE z # w
    <3>1. ReportsOK(toMaster[z], master, z, faults) /\ CheckOK(worker[z].check, faults) /\ BooksOK(master, worker[z], z)
      BY DEF Calm, CalmOK
    <3>2. ReportsOK(toMaster[z], master, z, faults') /\ CheckOK(worker[z].check, faults')
      BY <1>1, <3>1, ReportsStay, CheckStays
    <3> QED
      BY <2>2, <3>1, <3>2 DEF CalmAt
  <2> QED
    BY <2>1, <2>2
<1>3. \A z \in Worker : ReportsOK(toMaster'[z], master', z, faults')
  BY <1>2 DEF CalmAt
<1>4. \A z \in Worker : CheckOK(worker'[z].check, faults')
  BY <1>2 DEF CalmAt
<1>5. \A z \in Worker : BooksOK(master', worker'[z], z)
  BY <1>2 DEF CalmAt
<1>6. ActiveOK(master') /\ StopsOK(master', toWorker')
  BY <1>1
<1> QED
  BY <1>3, <1>4, <1>5, <1>6 DEF Calm, CalmOK
LEMMA CalmOf ==
  ASSUME Checked, Calm, NEW w \in Worker
  PROVE  /\ CalmAt(master, toMaster[w], worker[w], w, faults) /\ StopsOK(master, toWorker) /\ faults \in Nat
         /\ toWorker[w] # <<>> => StopsOK(master, Took(toWorker, w))
<1>1. toWorker \in [Worker -> Seq(Down)]
  BY WiresUnchanged
<1>2. StopsOK(master, toWorker)
  BY DEF Calm, CalmOK
<1> QED
  BY <1>1, <1>2, StopsTook DEF Calm, CalmOK, CalmAt, Checked

(* Only the record of the check changes. *)
LEMMA CheckCalm ==
  ASSUME Checked, Calm, NEW w \in Worker, NEW k, worker' = [worker EXCEPT ![w] = WithCheck(worker[w], k)],
         UNCHANGED <<master, toMaster>>, StopsOK(master, toWorker'), faults' \in Nat, faults <= faults',
         CheckOK(k, faults')
  PROVE  Calm'
<1>1. worker[w] \in Workers /\ DOMAIN worker = Worker /\ CalmAt(master, toMaster[w], worker[w], w, faults) /\ faults \in Nat
  BY CheckedWorker, CalmOf
<1> DEFINE v == WithCheck(worker[w], k)
<1>2. worker'[w] = v /\ \A z \in Worker : z # w => worker'[z] = worker[z]
  BY <1>1
<1>3. /\ v.check = k /\ v.stored = worker[w].stored /\ v.failures = worker[w].failures
      /\ v.reassigned = worker[w].reassigned /\ v.accepted = worker[w].accepted
      /\ v.events = worker[w].events /\ v.received = worker[w].received /\ v.current = worker[w].current
  BY <1>1 DEF Workers, WithCheck
<1> HIDE DEF v
<1>4. Kept(master, worker[w], v)
  BY <1>3 DEF Kept, MovedTo, Current
<1>5. BooksOK(master, v, w)
  BY <1>1, <1>4, BooksKept DEF CalmAt
<1>6. ReportsOK(toMaster[w], master, w, faults')
  BY <1>1, ReportsStay DEF CalmAt
<1>7. CalmAt(master, toMaster'[w], worker'[w], w, faults')
  BY <1>2, <1>3, <1>5, <1>6 DEF CalmAt
<1> QED
  BY <1>2, <1>7, OneCalm

LEMMA StartKept ==
  ASSUME NEW m, NEW v \in Workers, CanStart(v), m.task[v.queue[NextIndex(v.queue)].key].state # "PROCESSING"
  PROVE  Kept(m, v, Starting(v)) /\ Starting(v).check = v.check
<1> DEFINE y == v.queue[NextIndex(v.queue)]
           v2 == Starting(v)
<1>1. /\ v2.stored = v.stored /\ v2.failures = v.failures /\ v2.reassigned = v.reassigned
      /\ v2.accepted = v.accepted /\ v2.events = v.events /\ v2.received = v.received
      /\ v2.current = <<y>> /\ v2.check = v.check /\ v.current = <<>>
  BY DEF Workers, Starting, CanStart
<1>2. m.task[y.key].state # "PROCESSING"
  OBVIOUS
<1> HIDE DEF y, v2
<1>3. Range(v2.current) = {y} /\ Range(v.current) = {}
  BY <1>1, SingleTask
<1>4. \A k : k # y.key => Current(v2, k) = Current(v, k)
  BY <1>3 DEF Current, With
<1>5. Kept(m, v, v2)
  BY <1>1, <1>2, <1>4 DEF Kept, MovedTo
<1> QED
  BY <1>1, <1>5 DEF v2
LEMMA SendCalm ==
  ASSUME Checked, Checked', Tokens', Calm, NEW w \in Worker, NEW v \in Workers, NEW ms \in Seq(Up),
         SendAndStart(w, v, ms), master' = master, faults' \in Nat, faults <= faults', StopsOK(master, toWorker'),
         NEW q, q = Sends(toMaster, w, ms)[w], CalmAt(master, q, v, w, faults')
  PROVE  Calm'
<1> DEFINE up == Sends(toMaster, w, ms)
           wk == [worker EXCEPT ![w] = v]
           x == StartOf(v)
<1>1. toMaster \in [Worker -> Seq(Up)] /\ DOMAIN worker = Worker /\ toMaster' \in [Worker -> Seq(Up)]
  BY WiresUnchanged, CheckedWorker DEF Checked, SystemOK, TypesOK
<1>2. /\ wk[w] = v
      /\ IF CanStart(v) THEN /\ worker' = [wk EXCEPT ![w] = Starting(v)] /\ toMaster' = Put(up, w, x)
                        ELSE worker' = wk /\ toMaster' = up
  BY <1>1, StartShape
<1>3. up[w] = q /\ \A z \in Worker : z # w => up[z] = toMaster[z] /\ wk[z] = worker[z]
  BY <1>1 DEF Sends
<1>4. DOMAIN up = Worker /\ DOMAIN wk = Worker
  BY <1>1 DEF Sends
<1>5. up \in [Worker -> Seq(Up)] /\ (CanStart(v) => x \in Up)
  BY <1>1, SentUp
<1>6. CASE ~CanStart(v)
  <2>1. worker' = wk /\ toMaster' = up
    BY <1>2, <1>6
  <2> HIDE DEF wk, up
  <2> QED
    BY <1>2, <1>3, <2>1, OneCalm
<1>7. CASE CanStart(v)
  <2>1. worker' = [wk EXCEPT ![w] = Starting(v)] /\ toMaster' = Put(up, w, x)
    BY <1>2, <1>7
  <2>2. x.type = "PROCESS_START" /\ x.task = v.queue[NextIndex(v.queue)] /\ x \in Up
    BY <1>5, <1>7 DEF StartOf
  <2> HIDE DEF wk, up, x
  <2>3. worker'[w] = Starting(v) /\ \A z \in Worker : z # w => worker'[z] = worker[z]
    BY <1>3, <1>4, <2>1
  <2>4. toMaster'[w] = Append(q, x) /\ \A z \in Worker : z # w => toMaster'[z] = toMaster[z]
    BY <1>3, <1>4, <2>1 DEF Put
  <2>5. q \in Seq(Up)
    BY <1>3, <1>5
  <2>6. Range(Append(q, x)) = Range(q) \cup {x}
    BY <2>2, <2>5, MessageSent
  <2> DEFINE k == x.task.key
  <2>7. k \in Key
    BY <2>2, UpShape DEF FreeTask, TaskRec
  <2>8. x \in Of(toMaster'[w], k)
    BY <2>2, <2>4, <2>6 DEF Of, Speaks, TaskTypes
  <2> HIDE DEF k
  <2>9. TaskOK(master', toWorker', toMaster', worker', k)
    BY <2>7 DEF Tokens, TokensOK
  <2>10. Started(toWorker'[w], toMaster'[w], worker'[w], k, master'.task[k])
    BY <2>2, <2>7, <2>8, <2>9, UpTask
  <2>11. master.task[k].state = "ACCEPTED"
    BY <2>10 DEF Started
  <2>12. Kept(master, v, Starting(v)) /\ Starting(v).check = v.check
    <3>1. master.task[v.queue[NextIndex(v.queue)].key].state # "PROCESSING"
      BY <2>2, <2>11 DEF k
    <3> QED
      BY <1>7, <3>1, StartKept
  <2>13. ReportsOK(Append(q, x), master, w, faults')
    BY <2>2, <2>5, ReportSent DEF CalmAt
  <2>14. CalmAt(master, toMaster'[w], worker'[w], w, faults')
    BY <2>3, <2>4, <2>12, <2>13, BooksKept DEF CalmAt
  <2> QED
    BY <2>3, <2>4, <2>14, OneCalm
<1> QED
  BY <1>6, <1>7

(* A worker answers a message of the master. *)
LEMMA AnswerTo ==
  ASSUME Checked, Checked', NEW w \in Worker, NEW v, NEW y, Answer(w, v, <<y>>)
  PROVE  y \in Up /\ toMaster[w] \in Seq(Up) /\ <<y>> \in Seq(Up)
         /\ Sends(toMaster, w, <<y>>)[w] = Append(toMaster[w], y)
<1>1. toMaster \in [Worker -> Seq(Up)] /\ toMaster' \in [Worker -> Seq(Up)]
  BY WiresUnchanged DEF Checked, SystemOK, TypesOK
<1>2. SendAndStart(w, v, <<y>>)
  BY DEF Answer
<1> DEFINE ms == <<y>>
<1>3. ms \in Seq({y}) /\ Range(ms) = {y}
  BY SingleTask
<1>6. SendAndStart(w, v, ms)
  BY <1>2
<1> HIDE DEF ms
<1>4. ms \in Seq(Up)
  BY <1>1, <1>3, <1>6, SentUp
<1>5. y \in Up
  <2>1. ms[1] = y /\ 1 \in DOMAIN ms
    BY DEF ms
  <2> QED
    BY <1>4, <2>1, ElementOfSeq, LenProperties
<1>7. Sends(toMaster, w, <<y>>) = Put(toMaster, w, y)
  BY <1>1, <1>5, OneSent
<1> QED
  BY <1>1, <1>4, <1>5, <1>7 DEF ms, Put
LEMMA Going ==
  ASSUME verdict = "running", verdict' = verdict
  PROVE  NoFalseAlarm'
  BY DEF NoFalseAlarm
LEMMA AnswerCalm ==
  ASSUME Checked, Checked', Tokens', Calm, NEW w \in Worker, toWorker[w] # <<>>, verdict = "running",
         NEW v \in Workers, NEW ms \in Seq(Up), Answer(w, v, ms),
         NEW q, q = Sends(toMaster, w, ms)[w], CalmAt(master, q, v, w, faults)
  PROVE  Calm' /\ NoFalseAlarm'
<1>1. StopsOK(master, Took(toWorker, w)) /\ faults \in Nat
  BY CalmOf
<1>2. /\ SendAndStart(w, v, ms) /\ toWorker' = Took(toWorker, w)
      /\ master' = master /\ faults' = faults /\ verdict' = verdict
  BY DEF Answer, Took
<1>3. StopsOK(master, toWorker') /\ faults' \in Nat /\ faults <= faults' /\ CalmAt(master, q, v, w, faults')
  BY <1>1, <1>2
<1> QED
  BY <1>2, <1>3, SendCalm, Going
LEMMA OneAnswer ==
  ASSUME Checked, Checked', Tokens', Calm, NEW w \in Worker, toWorker[w] # <<>>, verdict = "running",
         NEW v \in Workers, NEW y, Answer(w, v, <<y>>),
         NEW q, q = Append(toMaster[w], y), CalmAt(master, q, v, w, faults)
  PROVE  Calm' /\ NoFalseAlarm'
<1> DEFINE ms == <<y>>
<1>1. ms \in Seq(Up) /\ q = Sends(toMaster, w, ms)[w] /\ Answer(w, v, ms)
  BY AnswerTo
<1> HIDE DEF ms
<1> QED
  BY <1>1, AnswerCalm
LEMMA PlainAnswer ==
  ASSUME Checked, Checked', Tokens', Calm, NEW w \in Worker, toWorker[w] # <<>>, verdict = "running",
         NEW v \in Workers, NEW y, y.type \notin {"RESULT", "STOP_ACK", "P2P_FAILURE"}, Answer(w, v, <<y>>),
         v.check = worker[w].check, BooksOK(master, v, w)
  PROVE  Calm' /\ NoFalseAlarm'
<1> DEFINE q == Append(toMaster[w], y)
<1>1. CalmAt(master, toMaster[w], worker[w], w, faults)
  BY CalmOf
<1>2. y \in Up /\ toMaster[w] \in Seq(Up)
  BY AnswerTo
<1>3. ReportsOK(q, master, w, faults)
  BY <1>1, <1>2, ReportSent DEF CalmAt
<1>4. q = Append(toMaster[w], y)
  OBVIOUS
<1> HIDE DEF q
<1>5. CalmAt(master, q, v, w, faults)
  BY <1>1, <1>3 DEF CalmAt
<1> QED
  BY <1>4, <1>5, OneAnswer
LEMMA NoneAnswered ==
  ASSUME Checked, Checked', Tokens', Calm, NEW w \in Worker, toWorker[w] # <<>>, verdict = "running",
         NEW v \in Workers, Answer(w, v, <<>>), CheckOK(v.check, faults), BooksOK(master, v, w)
  PROVE  Calm' /\ NoFalseAlarm'
<1> DEFINE ms == <<>>
<1>1. CalmAt(master, toMaster[w], worker[w], w, faults) /\ toMaster \in [Worker -> Seq(Up)]
  BY CalmOf, WiresUnchanged
<1>2. toMaster[w] \in Seq(Up)
  BY <1>1
<1>3. Sends(toMaster, w, ms)[w] = toMaster[w] /\ ms \in Seq(Up) /\ Answer(w, v, ms)
  BY <1>1, <1>2 DEF Sends
<1> HIDE DEF ms
<1>4. CalmAt(master, toMaster[w], v, w, faults)
  BY <1>1 DEF CalmAt
<1> QED
  BY <1>3, <1>4, AnswerCalm

LEMMA PeersCalm ==
  ASSUME Checked, Checked', Tokens', Calm, NEW w \in Worker, HandlePeers(w)
  PROVE  Calm' /\ NoFalseAlarm'
<1> DEFINE v == worker[w]
           v2 == [v EXCEPT !.ready = TRUE]
           y == [type |-> "READY"]
<1>1. v \in Workers /\ CalmAt(master, toMaster[w], v, w, faults)
  BY CheckedWorker, CalmOf
<1>2. toWorker[w] # <<>> /\ verdict = "running" /\ Answer(w, v2, <<y>>)
  BY DEF HandlePeers, FromMaster
<1>3. y.type \notin {"RESULT", "STOP_ACK", "P2P_FAILURE"}
  OBVIOUS
<1> HIDE DEF v, y
<1>4. /\ v2 \in Workers /\ v2.check = v.check
      /\ v2.stored = v.stored /\ v2.failures = v.failures /\ v2.reassigned = v.reassigned
      /\ v2.accepted = v.accepted /\ v2.events = v.events /\ v2.received = v.received /\ v2.current = v.current
  BY <1>1 DEF Workers
<1> HIDE DEF v2
<1>5. BooksOK(master, v2, w)
  <2>1. Kept(master, v, v2)
    BY <1>4 DEF Kept, MovedTo, Current
  <2> QED
    BY <1>1, <2>1, BooksKept DEF CalmAt
<1>6. v2.check = worker[w].check
  BY <1>4 DEF v
<1> QED
  BY <1>2, <1>3, <1>4, <1>5, <1>6, PlainAnswer

(* A task that the master has not seen accepted yet is not counted. *)
LEMMA TaskBooks ==
  ASSUME NEW m, NEW v, NEW v2, NEW w,
         v2.stored = v.stored, v2.failures = v.failures, v2.reassigned = v.reassigned,
         v2.events = v.events, v2.received = v.received, v2.current = v.current,
         NEW k, m.task[k].state = "SENT", \A j : j # k => Accepted(v2, j) = Accepted(v, j), BooksOK(m, v, w)
  PROVE  BooksOK(m, v2, w)
<1>1. CountedAt(m, v2) = CountedAt(m, v) /\ FailedAt(m, v2, w) = FailedAt(m, v, w) /\ MovedAt(m, v2) = MovedAt(m, v)
  BY DEF CountedAt, FailedAt, Failing, Current, MovedAt, MovedTo
<1>2. \A j \in Key : Repeating(m, v2, j) <=> Repeating(m, v, j)
  BY DEF Repeating
<1>3. RepeatedAt(m, v2) = RepeatedAt(m, v)
  BY <1>2 DEF RepeatedAt
<1>4. TallyOK(m.tally[w], m, v2, w)
  BY <1>1, <1>3 DEF BooksOK, TallyOK
<1>5. SettledOK(m, v2)
  <2> SUFFICES ASSUME NEW e \in v.reassigned PROVE SettledAttempt(m.task[e[1]], v2, e)
    BY DEF SettledOK
  <2>1. SettledAttempt(m.task[e[1]], v, e)
    BY DEF BooksOK, SettledOK
  <2> QED
    BY <2>1 DEF SettledAttempt
<1> QED
  BY <1>4, <1>5 DEF BooksOK
LEMMA TaskCalm ==
  ASSUME Checked, Checked', Tokens, Tokens', Calm, NEW w \in Worker, HandleTask(w)
  PROVE  Calm' /\ NoFalseAlarm'
<1> DEFINE x == Head(toWorker[w])
           v == worker[w]
           task == x.task
           k == task.key
           t == master.task[k]
           room == HasRoom(v, 1)
           y == [type |-> "TASK_ACK", task |-> task, accepted |-> room, size |-> Len(v.queue), confirms |-> {}]
           v2 == IF room THEN [v EXCEPT !.accepted = @ \cup {task}] ELSE v
<1>1. toWorker[w] # <<>> /\ x.type = "TASK" /\ Answer(w, v2, <<y>>) /\ verdict = "running"
  BY DEF HandleTask, FromMaster
<1>2. k \in Key /\ task \in FreeTask /\ Handed(toWorker[w], toMaster[w], v, k, t)
  BY <1>1, TaskTold
<1>3. v \in Workers /\ CalmAt(master, toMaster[w], v, w, faults)
  BY CheckedWorker, CalmOf
<1>4. y.type \notin {"RESULT", "STOP_ACK", "P2P_FAILURE"} /\ k = task.key /\ t = master.task[k] /\ v = worker[w]
  OBVIOUS
<1> HIDE DEF x, v, task, k, t, y
<1>5. /\ v2 \in Workers /\ v2.check = v.check
      /\ v2.stored = v.stored /\ v2.failures = v.failures /\ v2.reassigned = v.reassigned
      /\ v2.events = v.events /\ v2.received = v.received /\ v2.current = v.current
      /\ v2.accepted = IF room THEN v.accepted \cup {task} ELSE v.accepted
  BY <1>2, <1>3 DEF Workers
<1> HIDE DEF room, v2
<1>6. \A j : j # k => Accepted(v2, j) = Accepted(v, j)
  BY <1>4, <1>5 DEF Accepted, With
<1>7. master.task[k].state = "SENT"
  BY <1>2, <1>4 DEF Handed
<1>8. BooksOK(master, v2, w)
  BY <1>3, <1>5, <1>6, <1>7, TaskBooks DEF CalmAt
<1>9. v2.check = worker[w].check
  BY <1>4, <1>5
<1> QED
  BY <1>1, <1>4, <1>5, <1>8, <1>9, PlainAnswer

(* An attempt is settled: it was counted as repeated when it was accepted. *)
LEMMA SettleBooks ==
  ASSUME NEW m \in Masters, NEW v \in Workers, IsFiniteSet(v.reassigned), NEW v2, NEW w \in Worker,
         v2.stored = v.stored, v2.failures = v.failures, v2.events = v.events, v2.received = v.received,
         v2.current = v.current, NEW k \in Key, NEW task, m.task[k].state = "ACCEPTED", Fits(task, m.task[k]),
         Accepted(v, k) = {task}, Accepted(v2, k) = {}, \A j : j # k => Accepted(v2, j) = Accepted(v, j),
         v2.reassigned = IF task.failed THEN v.reassigned \cup {<<k, task.attempt>>} ELSE v.reassigned,
         BooksOK(m, v, w)
  PROVE  BooksOK(m, v2, w)
<1> DEFINE e0 == <<k, task.attempt>>
<1>1. CountedAt(m, v2) = CountedAt(m, v) /\ FailedAt(m, v2, w) = FailedAt(m, v, w) /\ MovedAt(m, v2) = MovedAt(m, v)
  BY DEF CountedAt, FailedAt, Failing, Current, MovedAt, MovedTo
<1>2. (Repeating(m, v, k) <=> task.failed) /\ ~Repeating(m, v2, k)
  BY DEF Repeating
<1>3. \A j \in Key : j # k => (Repeating(m, v2, j) <=> Repeating(m, v, j))
  BY DEF Repeating
<1>4. /\ ~task.failed => RepeatedAt(m, v2) = RepeatedAt(m, v)
      /\ task.failed => RepeatedAt(m, v2) = Minus(RepeatedAt(m, v), k) /\ k \in RepeatedAt(m, v)
  BY <1>2, <1>3 DEF RepeatedAt, Minus
<1>5. e0[1] = k /\ e0[2] = task.attempt /\ task.attempt = m.task[k].attempt
  BY DEF Fits
<1> HIDE DEF e0
<1>6. v2.reassigned = IF task.failed THEN Plus(v.reassigned, e0) ELSE v.reassigned
  BY DEF e0, Plus
<1>7. e0 \notin v.reassigned
  <2> SUFFICES ASSUME e0 \in v.reassigned PROVE FALSE
    OBVIOUS
  <2>1. SettledAttempt(m.task[e0[1]], v, e0)
    BY DEF BooksOK, SettledOK
  <2>2. Accepted(v, k) = {}
    BY <1>5, <2>1 DEF SettledAttempt
  <2> QED
    BY <2>2
<1>8. Cardinality(v.reassigned) \in Nat /\ Cardinality(Plus(v.reassigned, e0)) = Cardinality(v.reassigned) + 1
  BY <1>7, FS_CardinalityType, FS_AddElement DEF Plus
<1>9. \A T \in SUBSET Key : IsFiniteSet(T) /\ Cardinality(T) \in Nat
  BY BookSets
<1>10. RepeatedAt(m, v) \in SUBSET Key
  BY BookSets
<1>11. task.failed => Cardinality(RepeatedAt(m, v2)) + 1 = Cardinality(RepeatedAt(m, v))
  <2> DEFINE R == RepeatedAt(m, v)
  <2>1. R \in SUBSET Key /\ Plus(R, k) = Plus(R, k)
    BY <1>10
  <2> HIDE DEF R
  <2>2. k \in R => Cardinality(Minus(R, k)) + 1 = Cardinality(R)
    BY <1>9, <2>1, OneMore
  <2> QED
    BY <1>4, <2>2 DEF R
<1>12. Cardinality(RepeatedAt(m, v2)) \in Nat /\ Cardinality(RepeatedAt(m, v)) \in Nat
  <2>1. RepeatedAt(m, v2) \in SUBSET Key
    BY DEF RepeatedAt
  <2> QED
    BY <1>9, <1>10, <2>1
<1>13. TallyOK(m.tally[w], m, v2, w)
  <2>1. TallyOK(m.tally[w], m, v, w)
    BY DEF BooksOK
  <2>2. m.tally[w].reassigned = Cardinality(v.reassigned) + Cardinality(RepeatedAt(m, v))
    BY <2>1 DEF TallyOK
  <2>3. m.tally[w].reassigned = Cardinality(v2.reassigned) + Cardinality(RepeatedAt(m, v2))
    <3>1. CASE task.failed
      <4> DEFINE a == Cardinality(v.reassigned)
                 b == Cardinality(RepeatedAt(m, v))
                 c == Cardinality(RepeatedAt(m, v2))
                 d == Cardinality(v2.reassigned)
      <4>1. v2.reassigned = Plus(v.reassigned, e0)
        BY <1>6, <3>1
      <4>2. d = a + 1
        BY <1>8, <4>1
      <4>3. m.tally[w].reassigned = a + b /\ c + 1 = b /\ a \in Nat /\ b \in Nat /\ c \in Nat
        BY <1>8, <1>11, <1>12, <2>2, <3>1
      <4> HIDE DEF a, b, c, d
      <4>4. a + b = d + c
        BY <4>2, <4>3
      <4>5. m.tally[w].reassigned = d + c
        BY <4>3, <4>4
      <4> QED
        BY <4>5 DEF c, d
    <3>2. CASE ~task.failed
      BY <1>4, <1>6, <2>2, <3>2
    <3> QED
      BY <3>1, <3>2
  <2> QED
    BY <1>1, <2>1, <2>3 DEF TallyOK
<1>14. SettledOK(m, v2)
  <2> SUFFICES ASSUME NEW e \in v2.reassigned PROVE SettledAttempt(m.task[e[1]], v2, e)
    BY DEF SettledOK
  <2>1. m.task[k].attempt \in Nat
    BY Fields DEF TaskState
  <2>2. CASE e = e0
    BY <1>5, <2>1, <2>2 DEF SettledAttempt
  <2>3. CASE e \in v.reassigned
    <3>1. SettledAttempt(m.task[e[1]], v, e)
      BY <2>3 DEF BooksOK, SettledOK
    <3> QED
      BY <3>1 DEF SettledAttempt
  <2> QED
    BY <1>6, <2>2, <2>3 DEF Plus
<1> QED
  BY <1>13, <1>14 DEF BooksOK

LEMMA TaskConfirmedCalm ==
  ASSUME Checked, Checked', Tokens, Tokens', Calm, NEW w \in Worker, HandleTaskConfirmed(w)
  PROVE  Calm' /\ NoFalseAlarm'
<1> DEFINE x == Head(toWorker[w])
           v == worker[w]
           task == x.task
           k == task.key
           t == master.task[k]
           again == IF task.failed THEN v.reassigned \cup {<<task.key, task.attempt>>} ELSE v.reassigned
           q == Append(v.queue, task)
           v2 == [v EXCEPT !.queue = q, !.accepted = @ \ {task}, !.reassigned = again]
           y == Status(v2, {task.key})
<1>1. /\ toWorker[w] # <<>> /\ x.type = "TASK_CONFIRMED" /\ verdict = "running"
      /\ task \in v.accepted /\ Len(v.queue) < QueueSize => Answer(w, v2, <<y>>)
  BY DEF HandleTaskConfirmed, FromMaster
<1>2. k \in Key /\ task \in FreeTask /\ Confirmed(toWorker[w], toMaster[w], v, k, t) /\ x \in Of(toWorker[w], k)
  BY <1>1, TaskTold
<1>3. /\ v \in Workers /\ CalmAt(master, toMaster[w], v, w, faults) /\ v.queue \in Seq(TaskRec)
      /\ IsFiniteSet(v.accepted) /\ IsFiniteSet(v.reassigned) /\ Len(v.queue) \in Nat
      /\ Cardinality(v.accepted) \in Nat /\ v.incoming \in Nat
      /\ Len(v.queue) + Cardinality(v.accepted) + v.incoming <= QueueSize
  BY CheckedWorker, CalmOf
<1>4. /\ y.type = "QUEUE_STATUS" /\ k = task.key /\ t = master.task[k] /\ v = worker[w] /\ task = x.task
      /\ again = IF task.failed THEN v.reassigned \cup {<<k, task.attempt>>} ELSE v.reassigned
  BY DEF Status
<1>5. q \in Seq(TaskRec)
  BY <1>2, <1>3, MessageSent DEF FreeTask
<1>6. again \in SUBSET (Key \X Nat)
  <2>1. task.key \in Key /\ task.attempt \in Nat
    BY <1>2 DEF FreeTask, TaskRec
  <2>2. v.reassigned \in SUBSET (Key \X Nat)
    BY <1>3, WorkerFields
  <2> QED
    BY <2>1, <2>2
<1> HIDE DEF x, v, task, k, t, y, again, q
<1>7. Accepted(v, k) = {task} /\ t.state = "ACCEPTED" /\ Fits(task, t)
  BY <1>2, <1>4 DEF Confirmed
<1>8. task \in v.accepted
  BY <1>7 DEF Accepted, With
<1>9. Len(v.queue) < QueueSize
  <2>1. Cardinality(v.accepted) # 0
    BY <1>3, <1>8, FS_EmptySet
  <2> DEFINE L == Len(v.queue)
             A == Cardinality(v.accepted)
  <2>2. L \in Nat /\ A \in Nat /\ A # 0 /\ v.incoming \in Nat /\ L + A + v.incoming <= QueueSize
    BY <1>3, <2>1
  <2> HIDE DEF L, A
  <2>3. L < QueueSize
    BY <2>2
  <2> QED
    BY <2>3 DEF L
<1>10. Answer(w, v2, <<y>>)
  BY <1>1, <1>8, <1>9
<1>11. /\ v2 \in Workers /\ v2.check = v.check
       /\ v2.stored = v.stored /\ v2.failures = v.failures /\ v2.reassigned = again
       /\ v2.events = v.events /\ v2.received = v.received /\ v2.current = v.current
       /\ v2.accepted = v.accepted \ {task}
  BY <1>3, <1>5, <1>6 DEF Workers
<1> HIDE DEF v2
<1>12. Accepted(v2, k) = {} /\ \A j : j # k => Accepted(v2, j) = Accepted(v, j)
  BY <1>4, <1>7, <1>11 DEF Accepted, With
<1>13. master \in Masters /\ BooksOK(master, v, w)
  BY <1>3, CheckedParts DEF CalmAt
<1>14. BooksOK(master, v2, w)
  <2>1. /\ master.task[k].state = "ACCEPTED" /\ Fits(task, master.task[k])
        /\ v2.reassigned = IF task.failed THEN v.reassigned \cup {<<k, task.attempt>>} ELSE v.reassigned
    BY <1>4, <1>7, <1>11
  <2>2. /\ k \in Key /\ v \in Workers /\ IsFiniteSet(v.reassigned)
        /\ v2.stored = v.stored /\ v2.failures = v.failures
        /\ v2.events = v.events /\ v2.received = v.received /\ v2.current = v.current
    BY <1>2, <1>3, <1>11
  <2> QED
    BY <1>7, <1>12, <1>13, <2>1, <2>2, SettleBooks
<1>15. v2.check = worker[w].check /\ y.type \notin {"RESULT", "STOP_ACK", "P2P_FAILURE"}
  BY <1>4, <1>11
<1> QED
  BY <1>1, <1>10, <1>11, <1>14, <1>15, PlainAnswer

(* A task is finished. *)
LEMMA FinishBooks ==
  ASSUME NEW m \in Masters, NEW v \in Workers, NEW v2, NEW w \in Worker, NEW success \in BOOLEAN,
         v2.events = v.events, v2.received = v.received, v2.accepted = v.accepted, v2.reassigned = v.reassigned,
         NEW k \in Key, m.task[k].state = "PROCESSING", m.task[k].owner = w, k \notin v.stored,
         \A j : Current(v2, j) = {}, \A j : j # k => Current(v, j) = {}, Current(v, k) # {},
         v2.stored = IF success THEN v.stored \cup {k} ELSE v.stored,
         v2.failures = IF success THEN v.failures ELSE v.failures + 1, BooksOK(m, v, w)
  PROVE  BooksOK(m, v2, w)
<1>1. CountedAt(m, v2) = CountedAt(m, v)
  BY DEF CountedAt
<1>2. MovedAt(m, v2) = MovedAt(m, v)
  BY DEF MovedAt, MovedTo
<1>3. RepeatedAt(m, v2) = RepeatedAt(m, v)
  BY DEF RepeatedAt, Repeating, Accepted
<1>4. ~Failing(m, v, w, k) /\ (Failing(m, v2, w, k) <=> ~success)
  BY DEF Failing
<1>5. \A j \in Key : j # k => (Failing(m, v2, w, j) <=> Failing(m, v, w, j))
  BY DEF Failing
<1>6. /\ success => FailedAt(m, v2, w) = FailedAt(m, v, w)
      /\ ~success => FailedAt(m, v2, w) = Plus(FailedAt(m, v, w), k) /\ k \notin FailedAt(m, v, w)
  BY <1>4, <1>5 DEF FailedAt, Plus
<1>7. /\ FailedAt(m, v, w) \in SUBSET Key /\ v.failures \in Nat
      /\ \A T \in SUBSET Key : IsFiniteSet(T) /\ Cardinality(T) \in Nat
  BY BookSets
<1>8. ~success => Cardinality(FailedAt(m, v2, w)) = Cardinality(FailedAt(m, v, w)) + 1
  BY <1>6, <1>7, OneMore
<1>9. m.tally[w].failures \in Nat
  BY Fields DEF Tallies
<1>10. TallyOK(m.tally[w], m, v, w)
  BY DEF BooksOK
<1>11. m.tally[w].failures + Cardinality(FailedAt(m, v2, w)) = v2.failures
  <2> DEFINE a == Cardinality(FailedAt(m, v, w))
             b == Cardinality(FailedAt(m, v2, w))
  <2>1. m.tally[w].failures + a = v.failures /\ a \in Nat
    BY <1>7, <1>10 DEF TallyOK
  <2>2. IF success THEN b = a ELSE b = a + 1
    BY <1>6, <1>8
  <2> HIDE DEF a, b
  <2>3. m.tally[w].failures + b = v2.failures
    BY <1>7, <1>9, <2>1, <2>2
  <2> QED
    BY <2>3 DEF b
<1>12. TallyOK(m.tally[w], m, v2, w)
  BY <1>1, <1>2, <1>3, <1>10, <1>11 DEF TallyOK
<1>13. SettledOK(m, v2)
  BY DEF BooksOK, SettledOK, SettledAttempt, Accepted
<1> QED
  BY <1>12, <1>13 DEF BooksOK
LEMMA ProcessAckCalm ==
  ASSUME Checked, Checked', Tokens, Tokens', Calm, NEW w \in Worker, HandleProcessAck(w)
  PROVE  Calm' /\ NoFalseAlarm'
<1> DEFINE x == Head(toWorker[w])
           v == worker[w]
           task == x.task
           k == task.key
           t == master.task[k]
           d == toWorker[w]
           u == toMaster[w]
<1>1. toWorker[w] # <<>> /\ x.type = "PROCESS_ACK" /\ verdict = "running"
  <2>1. FromMaster(w, "PROCESS_ACK")
    BY Zenon DEF HandleProcessAck
  <2> QED
    BY <2>1 DEF FromMaster
<1>2. /\ k \in Key /\ task \in FreeTask /\ Owned(master, toWorker, toMaster, worker, k, w)
      /\ Running(d, u, v, k, t) /\ x \in Of(d, k)
  BY <1>1, TaskTold
<1>3. Current(v, k) = {task} /\ t.state = "PROCESSING" /\ t.owner = w /\ k \notin v.stored
  <2>1. PICK z \in Of(d, k) :
          /\ t.state = "PROCESSING" /\ Of(d, k) = {z} /\ Current(v, k) = {z.task} /\ k \notin v.stored
    BY <1>2, Zenon DEF Running
  <2>2. z = x
    BY <1>2, <2>1
  <2>3. master.task[k].owner = w
    BY <1>2 DEF Owned
  <2> QED
    BY <2>1, <2>2, <2>3
<1>4. v.current = <<>> \/ \E s \in FreeTask : v.current = <<s>>
  BY OnWires DEF Checked, SystemOK
<1>5. v.current = <<task>>
  <2>1. task \in Range(v.current)
    BY <1>3 DEF Current, With
  <2>2. v.current # <<>>
    BY <2>1, SingleTask
  <2>3. PICK s \in FreeTask : v.current = <<s>>
    BY <1>4, <2>2
  <2>4. s = task
    <3>1. Range(v.current) = {s}
      BY <2>3, SingleTask
    <3> QED
      BY <2>1, <3>1
  <2> QED
    BY <2>3, <2>4
<1>6. PICK success \in BOOLEAN :
          Answer(w, [worker[w] EXCEPT !.current = <<>>,
                          !.stored = IF success THEN @ \cup {Head(toWorker[w]).task.key} ELSE @,
                          !.failures = IF success THEN @ ELSE @ + 1],
                     <<[type |-> "RESULT", task |-> Head(toWorker[w]).task, success |-> success,
                        size |-> Len(worker[w].queue), confirms |-> {}]>>)
  BY <1>5, Zenon DEF HandleProcessAck
<1> DEFINE st == IF success THEN v.stored \cup {k} ELSE v.stored
           n == IF success THEN v.failures ELSE v.failures + 1
           v2 == [v EXCEPT !.current = <<>>, !.stored = st, !.failures = n]
           y == [type |-> "RESULT", task |-> task, success |-> success, size |-> Len(v.queue), confirms |-> {}]
           q == Append(u, y)
<1>7. Answer(w, v2, <<y>>)
  BY <1>6
<1>8. v \in Workers /\ CalmAt(master, toMaster[w], v, w, faults) /\ master \in Masters
  BY CheckedWorker, CalmOf, CheckedParts
<1>9. /\ y.type = "RESULT" /\ k = task.key /\ t = master.task[k] /\ v = worker[w] /\ u = toMaster[w] /\ d = toWorker[w]
      /\ q = Append(u, y)
  OBVIOUS
<1>10. /\ st \in SUBSET Key /\ n \in Nat /\ st = (IF success THEN v.stored \cup {k} ELSE v.stored)
       /\ n = IF success THEN v.failures ELSE v.failures + 1
  BY <1>2, <1>8, WorkerFields
<1> HIDE DEF x, v, task, k, t, d, u, y, st, n, q
<1>11. /\ v2 \in Workers /\ v2.check = v.check /\ v2.current = <<>> /\ v2.stored = st /\ v2.failures = n
       /\ v2.events = v.events /\ v2.received = v.received /\ v2.accepted = v.accepted
       /\ v2.reassigned = v.reassigned
  BY <1>8, <1>10 DEF Workers
<1> HIDE DEF v2
<1>12. /\ \A j : Current(v2, j) = {}
       /\ \A j : j # k => Current(v, j) = {}
  <2>1. Range(v2.current) = {} /\ Range(v.current) = {task}
    BY <1>5, <1>11, SingleTask
  <2> QED
    BY <1>9, <2>1 DEF Current, With
<1>13. BooksOK(master, v2, w)
  <2>1. Current(v, k) # {} /\ BooksOK(master, v, w)
    BY <1>3, <1>8 DEF CalmAt
  <2>2. master.task[k].state = "PROCESSING" /\ master.task[k].owner = w
    BY <1>3, <1>9
  <2> QED
    BY <1>2, <1>3, <1>8, <1>10, <1>11, <1>12, <2>1, <2>2, FinishBooks
<1>14. \A z \in Range(u) : z.type # "PROCESS_START"
  <2> SUFFICES ASSUME NEW z \in Range(u), z.type = "PROCESS_START" PROVE FALSE
    OBVIOUS
  <2> DEFINE j == z.task.key
  <2>1. Range(toMaster[w]) \subseteq Up
    BY OnWires DEF Checked, SystemOK
  <2>2. j \in Key
    BY <1>9, <2>1, UpShape DEF FreeTask, TaskRec
  <2>3. z \in Of(toMaster[w], j)
    BY <1>9 DEF Of, Speaks, TaskTypes
  <2> HIDE DEF j
  <2>4. TaskOK(master, toWorker, toMaster, worker, j)
    BY <2>2 DEF Tokens, TokensOK
  <2>5. Started(toWorker[w], toMaster[w], worker[w], j, master.task[j])
    BY <2>2, <2>3, <2>4, UpTask
  <2>6. master.task[j].state = "ACCEPTED" /\ Current(v, j) # {}
    BY <1>9, <2>5 DEF Started
  <2> QED
    BY <1>3, <1>9, <1>12, <2>6
<1>15. ReportsOK(q, master, w, faults)
  <2>1. y \in Up /\ u \in Seq(Up)
    BY <1>7, <1>9, AnswerTo
  <2>2. ReportsOK(u, master, w, faults)
    BY <1>8, <1>9 DEF CalmAt
  <2>3. /\ y.type # "STOP_ACK" /\ y.type # "P2P_FAILURE"
    BY <1>9
  <2>4. ReportsOK(Append(u, y), master, w, faults)
    BY <1>14, <2>1, <2>2, <2>3, ReportSent
  <2> QED
    BY <1>9, <2>4
<1>16. CalmAt(master, q, v2, w, faults)
  BY <1>8, <1>11, <1>13, <1>15 DEF CalmAt
<1>17. q = Append(toMaster[w], y)
  BY <1>9
<1> QED
  BY <1>1, <1>7, <1>11, <1>16, <1>17, OneAnswer

(* The check that a worker is at work on is the one the master has asked for. *)
LEMMA CheckOwned ==
  ASSUME Checked, NEW w \in Worker, worker[w].check.pc # "idle", NEW c, c = worker[w].check.id
  PROVE  Owns(master, w, c) /\ c \in Check
<1>1. c \in Check /\ TransferOK(master, toWorker, toMaster, worker, requests, c)
  BY CheckingOK
<1>2. \/ Early(master, toWorker, toMaster, worker, requests, c, w)
      \/ \E u \in Worker : Timing(master, toWorker, toMaster, worker, requests, c, w, u)
      \/ \E u \in Worker : Asking(master, toWorker, toMaster, worker, requests, c, w, u)
  BY <1>1, CheckSays
<1>3. CASE Early(master, toWorker, toMaster, worker, requests, c, w)
  BY <1>1, <1>3 DEF Early
<1>4. CASE \E u \in Worker : Timing(master, toWorker, toMaster, worker, requests, c, w, u)
  BY <1>1, <1>4, Zenon DEF Timing
<1>5. CASE \E u \in Worker : Asking(master, toWorker, toMaster, worker, requests, c, w, u)
  BY <1>1, <1>5, Zenon DEF Asking
<1> QED
  BY <1>2, <1>3, <1>4, <1>5
LEMMA P2PCheckCalm ==
  ASSUME Checked, Checked', Calm, NEW w \in Worker, HandleP2PCheck(w)
  PROVE  Calm' /\ NoFalseAlarm'
<1> DEFINE x == Head(toWorker[w])
           c == x.id
           k == [Idle EXCEPT !.pc = "begin", !.id = c]
<1>1. toWorker[w] # <<>> /\ x.type = "P2P_CHECK" /\ verdict = "running" /\ x.type \in TransferTypes
  BY DEF HandleP2PCheck, FromMaster, TransferTypes
<1>2. worker[w].check.pc = "idle"
  <2> SUFFICES ASSUME worker[w].check.pc # "idle" PROVE FALSE
    OBVIOUS
  <2>1. /\ x \in Down /\ c \in Check /\ x \in About(toWorker[w], c)
        /\ TransferOK(master, toWorker, toMaster, worker, requests, c)
    BY <1>1, Receiving1
  <2>2. PICK v \in Worker : DownMeans(master, toWorker, toMaster, worker, requests, c, w, x, v)
    BY <2>1, DownSays
  <2>3. Early(master, toWorker, toMaster, worker, requests, c, w) /\ worker[w].check.id # c
    <3>1. x # TimeAck(c, "SEND") /\ x # TimeAck(c, "RECV") /\ x # Recorded(c)
      BY <1>1 DEF TimeAck, Recorded
    <3> HIDE DEF c, x
    <3> QED
      BY <2>2, <3>1 DEF DownMeans
  <2>4. Owns(master, w, worker[w].check.id)
    BY CheckOwned
  <2> HIDE DEF c, x
  <2> QED
    BY <2>3, <2>4 DEF Early, Owns
<1>3. /\ worker' = [worker EXCEPT ![w] = WithCheck(worker[w], k)] /\ toWorker' = Took(toWorker, w)
      /\ UNCHANGED <<master, toMaster, requests, faults, verdict>>
  BY <1>2 DEF HandleP2PCheck, WithCheck, Took
<1>4. k.pc = "begin"
  BY DEF Idle
<1> HIDE DEF k, x
<1>5. StopsOK(master, toWorker') /\ faults' \in Nat /\ faults <= faults' /\ CheckOK(k, faults')
  BY <1>1, <1>3, <1>4, CalmOf DEF CheckOK
<1>6. Calm'
  BY <1>3, <1>5, CheckCalm
<1> QED
  BY <1>1, <1>3, <1>6, Going

(* The books do not depend on the transfer that a worker is at work on. *)
LEMMA SameBooks ==
  ASSUME NEW m, NEW v, NEW v2, NEW w, v2.stored = v.stored, v2.failures = v.failures,
         v2.reassigned = v.reassigned, v2.accepted = v.accepted, v2.current = v.current,
         \A c \in m.transfers : MovedTo(v2, c) <=> MovedTo(v, c), BooksOK(m, v, w)
  PROVE  BooksOK(m, v2, w)
<1>1. Kept(m, v, v2)
  BY DEF Kept, Current
<1> QED
  BY <1>1, BooksKept
LEMMA TimeAckCalm ==
  ASSUME Checked, Checked', Tokens', Calm, NEW w \in Worker, HandleTimeAck(w)
  PROVE  Calm' /\ NoFalseAlarm'
<1> DEFINE x == Head(toWorker[w])
           v == worker[w]
           k == [v.check EXCEPT !.pc = "transfer"]
           v1 == WithCheck(v, k)
           v2 == TimedState(v)
<1>1. toWorker[w] # <<>> /\ verdict = "running" /\ x.type = "TIME_ACK" /\ x.type \in TransferTypes
  BY DEF HandleTimeAck, FromMaster, TransferTypes
<1>2. \/ x.phase = "SEND" /\ Answer(w, [v EXCEPT !.check.pc = "transfer"], <<>>)
      \/ x.phase # "SEND" /\ Answer(w, v2, <<>>)
  BY DEF HandleTimeAck, TimedState
<1>3. [v EXCEPT !.check.pc = "transfer"] = v1
  BY DEF WithCheck
<1>4. v \in Workers /\ CalmAt(master, toMaster[w], v, w, faults) /\ v.check \in CheckRec /\ WorkerOK(v, w)
  BY CheckedWorker, CalmOf, WorkerFields
<1>5. CASE x.phase = "SEND"
  <2>1. k \in CheckRec /\ k.pc = "transfer"
    BY <1>4 DEF CheckRec, Pcs
  <2>2. v = worker[w]
    OBVIOUS
  <2> HIDE DEF k, x, v
  <2>3. /\ v1 \in Workers /\ v1.check = k
        /\ v1.stored = v.stored /\ v1.failures = v.failures /\ v1.reassigned = v.reassigned
        /\ v1.accepted = v.accepted /\ v1.events = v.events /\ v1.received = v.received /\ v1.current = v.current
    BY <1>4, <2>1 DEF Workers, WithCheck
  <2> HIDE DEF v1
  <2>4. BooksOK(master, v1, w)
    BY <1>4, <2>3, SameBooks DEF MovedTo, CalmAt
  <2>5. CheckOK(v1.check, faults) /\ Answer(w, v1, <<>>)
    BY <1>2, <1>3, <1>5, <2>1, <2>3 DEF CheckOK
  <2> QED
    BY <1>1, <2>3, <2>4, <2>5, NoneAnswered
<1>6. CASE x.phase # "SEND"
  <2> DEFINE c == x.id
  <2>1. /\ x \in Down /\ c \in Check /\ x \in About(toWorker[w], c)
        /\ TransferOK(master, toWorker, toMaster, worker, requests, c)
    BY <1>1, Receiving1
  <2>2. PICK u \in Worker : DownMeans(master, toWorker, toMaster, worker, requests, c, w, x, u)
    BY <2>1, DownSays
  <2>3. Arriving(master, toWorker, toMaster, worker, requests, c, u, w)
    <3>1. x # TimeAck(c, "SEND") /\ x # Recorded(c) /\ x # [type |-> "P2P_CHECK", id |-> c]
      BY <1>1, <1>6 DEF TimeAck, Recorded
    <3> HIDE DEF c, x
    <3> QED
      BY <2>2, <3>1 DEF DownMeans
  <2>4. Receiving(v, c)
    BY <2>3 DEF Arriving
  <2> HIDE DEF c, x
  <2>5. v.receiving # <<>>
    BY <2>4 DEF Receiving
  <2>6. v2 \in Workers /\ v2.received = v.received /\ v2.check = v.check /\ v2.events = v.events
    BY <1>4, <2>1, <2>4, <2>5, TimedReception DEF WorkerOK
  <2>7. /\ v2.stored = v.stored /\ v2.failures = v.failures /\ v2.reassigned = v.reassigned
        /\ v2.accepted = v.accepted /\ v2.current = v.current
    BY <1>4 DEF Workers, TimedState
  <2> HIDE DEF v2
  <2>8. BooksOK(master, v2, w)
    BY <1>4, <2>6, <2>7, SameBooks DEF MovedTo, CalmAt
  <2>9. CheckOK(v2.check, faults) /\ Answer(w, v2, <<>>)
    BY <1>2, <1>4, <1>6, <2>6 DEF CalmAt
  <2> QED
    BY <1>1, <2>6, <2>8, <2>9, NoneAnswered
<1> QED
  BY <1>5, <1>6

LEMMA TransferConfirmedCalm ==
  ASSUME Checked, Checked', Tokens', Calm, NEW w \in Worker, HandleTransferConfirmed(w)
  PROVE  Calm' /\ NoFalseAlarm'
<1> DEFINE x == Head(toWorker[w])
           c == x.id
           v == worker[w]
           v1 == Forgotten(v, c)
           v2 == Released(v, c)
           y == Status(v2, {})
<1>1. /\ toWorker[w] # <<>> /\ x.type = "TRANSFER_CONFIRMED" /\ x.type \in TransferTypes /\ verdict = "running"
  BY DEF HandleTransferConfirmed, FromMaster, TransferTypes
<1>2. /\ x \in Down /\ c \in Check /\ x \in About(toWorker[w], c)
      /\ TransferOK(master, toWorker, toMaster, worker, requests, c)
  BY <1>1, Receiving1
<1>3. PICK u \in Worker : DownMeans(master, toWorker, toMaster, worker, requests, c, w, x, u)
  BY <1>2, DownSays
<1>4. \/ Done(master, toWorker, toMaster, worker, requests, c, w, u) /\ c \in v.sent
      \/ Done(master, toWorker, toMaster, worker, requests, c, u, w) /\ c \notin v.events
  <2>1. x # TimeAck(c, "SEND") /\ x # TimeAck(c, "RECV") /\ x # [type |-> "P2P_CHECK", id |-> c]
    BY <1>1 DEF TimeAck
  <2> HIDE DEF c, x
  <2> QED
    BY <1>3, <2>1 DEF DownMeans
<1>5. /\ v \in Workers /\ CalmAt(master, toMaster[w], v, w, faults) /\ WorkerOK(v, w) /\ v.queue \in Seq(TaskRec)
  BY CheckedWorker, CalmOf
<1>6. /\ c \in v.sent => Answer(w, v1, <<>>)
      /\ c \notin v.sent /\ ReservedFor(v.queue, c) # <<>> => Answer(w, v2, <<y>>)
  BY DEF HandleTransferConfirmed, Forgotten, Released
<1>7. y.type \notin {"RESULT", "STOP_ACK", "P2P_FAILURE"}
  BY DEF Status
<1> HIDE DEF c, x, y
<1>8. CASE c \in v.sent
  <2>1. v1 \in Workers /\ v1.received = v.received /\ v1.check = v.check /\ v1.events = v.events
    BY <1>2, <1>5, ForgottenOK DEF WorkerOK
  <2>2. /\ v1.stored = v.stored /\ v1.failures = v.failures /\ v1.reassigned = v.reassigned
        /\ v1.accepted = v.accepted /\ v1.current = v.current
    BY <1>5 DEF Workers, Forgotten
  <2> HIDE DEF v1
  <2>3. BooksOK(master, v1, w)
    BY <1>5, <2>1, <2>2, SameBooks DEF MovedTo, CalmAt
  <2>4. CheckOK(v1.check, faults) /\ Answer(w, v1, <<>>)
    BY <1>5, <1>6, <1>8, <2>1 DEF CalmAt
  <2> QED
    BY <1>1, <2>1, <2>3, <2>4, NoneAnswered
<1>9. CASE c \notin v.sent
  <2>1. Done(master, toWorker, toMaster, worker, requests, c, u, w) /\ c \notin v.events
    BY <1>4, <1>9
  <2>2. v.received[c] = "ACCEPTED" /\ Held(v, c) # {}
    BY <2>1 DEF Done
  <2>3. ReservedFor(v.queue, c) # <<>>
    BY <1>5, <2>2, ReservedTasks DEF Held, Tasks
  <2>4. v2 \in Workers /\ v2.received = v.received /\ v2.check = v.check
    BY <1>2, <1>5, ReleasedOK DEF WorkerOK
  <2>5. /\ v2.stored = v.stored /\ v2.failures = v.failures /\ v2.reassigned = v.reassigned
        /\ v2.accepted = v.accepted /\ v2.current = v.current /\ v2.events = v.events \cup {c}
    BY <1>5 DEF Workers, Released
  <2>6. Answer(w, v2, <<y>>)
    BY <1>6, <1>9, <2>3
  <2> HIDE DEF v2
  <2>7. \A e : MovedTo(v2, e) <=> MovedTo(v, e)
    BY <2>2, <2>4, <2>5 DEF MovedTo
  <2>8. BooksOK(master, v2, w)
    BY <1>5, <2>5, <2>7, SameBooks DEF CalmAt
  <2> QED
    BY <1>1, <1>7, <2>4, <2>6, <2>8, PlainAnswer
<1> QED
  BY <1>8, <1>9

(* Nothing is left to do: what the worker has counted is what the master has. *)
LEMMA BooksClosed ==
  ASSUME Checked, Calm, NEW w \in Worker, master.stopping, NEW x, x.type = "STOP", Range(toWorker[w]) = {x}
  PROVE  Statistics(worker[w]) = master.tally[w]
<1> DEFINE v == worker[w]
           t == master.tally[w]
<1>1. /\ v \in Workers /\ master \in Masters /\ CalmAt(master, toMaster[w], v, w, faults)
      /\ AllDone(master) /\ NoCheck(master)
  BY CheckedWorker, CheckedParts, CalmOf DEF Calm, CalmOK, StopsOK
<1>2. t \in Tallies /\ v.stored \in SUBSET Key /\ v.events \in SUBSET Check /\ master.transfers \in SUBSET Check
  BY <1>1, Fields, WorkerFields
<1>3. CountedAt(master, v) = v.stored
  BY <1>1, <1>2 DEF CountedAt, AllDone
<1>4. FailedAt(master, v, w) = {} /\ RepeatedAt(master, v) = {}
  BY <1>1 DEF FailedAt, Failing, RepeatedAt, Repeating, AllDone
<1>5. MovedAt(master, v) = v.events
  <2> SUFFICES ASSUME NEW c \in Check PROVE c \in MovedAt(master, v) <=> c \in v.events
    BY <1>2 DEF MovedAt
  <2>1. TransferOK(master, toWorker, toMaster, worker, requests, c)
    BY DEF Checked, SystemOK, TransfersOK
  <2>2. CASE Off(master, toWorker, toMaster, worker, requests, c)
    <3>1. c \notin master.transfers /\ Outside(v, c)
      BY <2>2 DEF Off
    <3> QED
      BY <3>1 DEF MovedAt, Outside, Unmarked
  <2>3. CASE ~Off(master, toWorker, toMaster, worker, requests, c)
    <3>1. \A z \in Worker : ~Owns(master, z, c)
      BY <1>1, HeldChecks DEF NoCheck, Owns
    <3>2. PICK z \in Worker, u \in Worker :
              \/ Early(master, toWorker, toMaster, worker, requests, c, z)
              \/ Timing(master, toWorker, toMaster, worker, requests, c, z, u)
              \/ Asking(master, toWorker, toMaster, worker, requests, c, z, u)
              \/ Given(master, toWorker, toMaster, worker, requests, c, z, u)
              \/ Dropped(master, toWorker, toMaster, worker, requests, c, z, u)
              \/ Done(master, toWorker, toMaster, worker, requests, c, z, u)
      BY <2>1, <2>3, AllPhases
    <3>3. Done(master, toWorker, toMaster, worker, requests, c, z, u)
      BY <3>1, <3>2 DEF Early, Timing, Asking, Given, Dropped
    <3>4. c \in master.transfers
      BY <3>3 DEF Done
    <3>5. MovedTo(v, c) <=> c \in v.events
      <4>1. CASE w = z
        BY <3>3, <4>1 DEF Done, MovedTo
      <4>2. CASE w = u
        <5>1. About(toWorker[w], c) = IF c \in v.events THEN {} ELSE {Recorded(c)}
          BY <3>3, <4>2 DEF Done
        <5>2. Recorded(c) # x
          BY DEF Recorded
        <5>3. c \in v.events
          BY <5>1, <5>2 DEF About
        <5> QED
          BY <5>3 DEF MovedTo
      <4>3. CASE w # z /\ w # u
        <5>1. Outside(v, c) /\ v.received[c] = "NONE"
          BY <3>3, <4>3 DEF Done, Others
        <5> QED
          BY <5>1 DEF Outside, Unmarked, MovedTo
      <4> QED
        BY <4>1, <4>2, <4>3
    <3> QED
      BY <3>4, <3>5 DEF MovedAt
  <2> QED
    BY <2>2, <2>3
<1>6. TallyOK(t, master, v, w)
  BY <1>1 DEF CalmAt, BooksOK
<1>7. Cardinality({}) = 0
  BY FS_EmptySet
<1> DEFINE a == Cardinality(v.stored)
           b == Cardinality(v.events)
           e == Cardinality(v.reassigned)
<1>8. t.success = a /\ t.failures + 0 = v.failures /\ t.moved = b /\ t.reassigned = e + 0
  BY <1>3, <1>4, <1>5, <1>6, <1>7 DEF TallyOK
<1>9. IsFiniteSet(v.reassigned) /\ Statistics(v) = [success |-> a, failures |-> v.failures, moved |-> b, reassigned |-> e]
  BY CheckedWorker DEF Statistics
<1>10. e \in Nat
  BY <1>9, FS_CardinalityType
<1> HIDE DEF a, b, e, t
<1>11. t = [success |-> a, failures |-> v.failures, moved |-> b, reassigned |-> e]
  BY <1>2, <1>8, <1>10 DEF Tallies
<1> QED
  BY <1>9, <1>11 DEF t
LEMMA StopCalm ==
  ASSUME Checked, Checked', Tokens', Calm, NEW w \in Worker, HandleStop(w)
  PROVE  Calm' /\ NoFalseAlarm'
<1> DEFINE x == Head(toWorker[w])
           v == worker[w]
           v2 == [v EXCEPT !.stopping = TRUE]
           y == [type |-> "STOP_ACK", stats |-> Statistics(v)]
           q == Append(toMaster[w], y)
<1>1. toWorker[w] # <<>> /\ x.type = "STOP" /\ verdict = "running" /\ Answer(w, v2, <<y>>)
  BY DEF HandleStop, FromMaster
<1>2. v \in Workers /\ CalmAt(master, toMaster[w], v, w, faults) /\ toWorker[w] \in Seq(Down)
  BY CheckedWorker, CalmOf, OnWires DEF Checked, SystemOK
<1>3. StopsLast(toWorker[w], master)
  BY DEF Calm, CalmOK, StopsOK
<1>4. master.stopping /\ Range(toWorker[w]) = {x}
  BY <1>1, <1>2, <1>3, StopsTaken
<1> HIDE DEF x
<1>5. Statistics(worker[w]) = master.tally[w]
  BY <1>1, <1>4, BooksClosed
<1>6. y.type = "STOP_ACK" /\ y.stats = master.tally[w] /\ v = worker[w]
  BY <1>5
<1>7. q = Append(toMaster[w], y)
  OBVIOUS
<1>8. y \in Up /\ toMaster[w] \in Seq(Up)
  BY <1>1, AnswerTo
<1> HIDE DEF v, y, q
<1>9. ReportsOK(q, master, w, faults)
  BY <1>2, <1>4, <1>6, <1>7, <1>8, ReportSent DEF CalmAt
<1>10. /\ v2 \in Workers /\ v2.check = v.check
       /\ v2.stored = v.stored /\ v2.failures = v.failures /\ v2.reassigned = v.reassigned
       /\ v2.accepted = v.accepted /\ v2.events = v.events /\ v2.received = v.received /\ v2.current = v.current
  BY <1>2 DEF Workers
<1> HIDE DEF v2
<1>11. BooksOK(master, v2, w)
  BY <1>2, <1>10, SameBooks DEF MovedTo, CalmAt
<1>12. CalmAt(master, q, v2, w, faults)
  BY <1>2, <1>9, <1>10, <1>11 DEF CalmAt
<1> QED
  BY <1>1, <1>7, <1>10, <1>12, OneAnswer
LEMMA WorkerCalm ==
  ASSUME Checked, Checked', Tokens, Tokens', Calm, NEW w \in Worker, WorkerStep(w)
  PROVE  Calm' /\ NoFalseAlarm'
  BY PeersCalm, TaskCalm, TaskConfirmedCalm, ProcessAckCalm, P2PCheckCalm, TimeAckCalm, TransferConfirmedCalm,
     StopCalm, Zenon DEF WorkerStep

-----------------------------------------------------------------------------
(* The check threads *)

LEMMA FinishCalm ==
  ASSUME Checked, Checked', Tokens', Calm, verdict = "running", NEW w \in Worker, NEW v \in Workers,
         NEW l \in Seq(Up), NEW ms, NEW x, l = Append(ms, x), FinishCheck(w, v, ms, x), Plain(l, faults),
         BooksOK(master, v, w)
  PROVE  Calm' /\ NoFalseAlarm'
<1> DEFINE b == x.type = "P2P_FAILURE"
           v2 == Ended(v, b)
           q == Sends(toMaster, w, l)[w]
<1>1. /\ SendAndStart(w, v2, l) /\ master' = master /\ toWorker' = toWorker /\ faults' = faults
      /\ verdict' = verdict
  BY DEF FinishCheck, Ended
<1>2. /\ CalmAt(master, toMaster[w], worker[w], w, faults) /\ StopsOK(master, toWorker) /\ faults \in Nat
      /\ toMaster \in [Worker -> Seq(Up)]
  BY CalmOf, WiresUnchanged
<1>3. b \in BOOLEAN /\ Idle \in CheckRec /\ Idle.pc = "idle"
  BY DEF Idle, CheckRec, Pcs, Statuses
<1>4. q = toMaster[w] \o l
  BY <1>2 DEF Sends
<1>5. q = Sends(toMaster, w, l)[w]
  OBVIOUS
<1> HIDE DEF b, q
<1>6. /\ v2 \in Workers /\ v2.check = Idle
      /\ v2.stored = v.stored /\ v2.failures = v.failures /\ v2.reassigned = v.reassigned
      /\ v2.accepted = v.accepted /\ v2.events = v.events /\ v2.received = v.received /\ v2.current = v.current
  BY <1>3 DEF Workers, Ended
<1> HIDE DEF v2
<1>7. BooksOK(master, v2, w)
  BY <1>6, SameBooks DEF MovedTo
<1>8. ReportsOK(q, master, w, faults)
  <2>1. toMaster[w] \in Seq(Up)
    BY <1>2
  <2> QED
    BY <1>2, <1>4, <2>1, ReportsSent DEF CalmAt
<1>9. CheckOK(v2.check, faults)
  BY <1>3, <1>6 DEF CheckOK
<1>10. CalmAt(master, q, v2, w, faults')
  BY <1>1, <1>7, <1>8, <1>9 DEF CalmAt
<1>11. StopsOK(master, toWorker') /\ faults' \in Nat /\ faults <= faults'
  BY <1>1, <1>2
<1>12. Calm'
  BY <1>1, <1>5, <1>6, <1>10, <1>11, SendCalm
<1> QED
  BY <1>1, <1>12, Going

(* There was no transfer. *)
LEMMA NothingCalm ==
  ASSUME Checked, Checked', Tokens', Calm, verdict = "running", NEW w \in Worker, NEW c \in Check,
         FinishCheck(w, worker[w], <<>>, NoTransfer(c, FALSE))
  PROVE  Calm' /\ NoFalseAlarm'
<1> DEFINE ms == <<>>
           x == NoTransfer(c, FALSE)
           l == Append(ms, x)
<1>1. x \in Up /\ x.type = "P2P_COST"
  BY DEF NoTransfer, Up
<1>2. FinishCheck(w, worker[w], ms, x) /\ ms \in Seq(Up) /\ Range(ms) = {}
  <2>1. Range(ms) = {}
    BY DEF Range
  <2>2. ms \in Seq(Up)
    OBVIOUS
  <2>3. FinishCheck(w, worker[w], ms, x)
    OBVIOUS
  <2> QED
    BY <2>1, <2>2, <2>3
<1> HIDE DEF ms, x
<1>3. l \in Seq(Up) /\ Range(l) = {x}
  BY <1>1, <1>2, MessageSent
<1>4. l = Append(ms, x)
  OBVIOUS
<1> HIDE DEF l
<1>5. Plain(l, faults)
  BY <1>1, <1>3 DEF Plain
<1>6. worker[w] \in Workers /\ BooksOK(master, worker[w], w)
  BY CheckedWorker, CalmOf DEF CalmAt
<1> QED
  BY <1>2, <1>3, <1>4, <1>5, <1>6, FinishCalm

LEMMA BeginCheckCalm ==
  ASSUME Checked, Checked', Tokens', Calm, NEW w \in Worker, BeginCheck(w)
  PROVE  Calm' /\ NoFalseAlarm'
<1> DEFINE v == worker[w]
           c == v.check.id
           n == Len(v.queue)
           left == Worker \ {w}
           k == [v.check EXCEPT !.pc = "query", !.size = n, !.left = left]
<1>1. /\ v.check.pc = "begin" /\ verdict = "running"
      /\ \/ FinishCheck(w, v, <<>>, NoTransfer(c, FALSE))
         \/ /\ worker' = [worker EXCEPT ![w] = WithCheck(v, k)]
            /\ UNCHANGED <<master, toWorker, toMaster, requests, faults, verdict>>
  BY DEF BeginCheck, At, WithCheck
<1>2. c \in Check /\ v.check \in CheckRec
  BY <1>1, CheckingOK
<1>3. CASE FinishCheck(w, v, <<>>, NoTransfer(c, FALSE))
  BY <1>1, <1>2, <1>3, NothingCalm
<1>4. CASE ~FinishCheck(w, v, <<>>, NoTransfer(c, FALSE))
  <2>1. k.pc = "query"
    <3> HIDE DEF n, left
    <3> QED
      BY <1>2 DEF CheckRec
  <2> HIDE DEF k
  <2>2. worker' = [worker EXCEPT ![w] = WithCheck(worker[w], k)]
        /\ UNCHANGED <<master, toWorker, toMaster, faults, verdict>>
    BY <1>1, <1>4
  <2>3. StopsOK(master, toWorker') /\ faults' \in Nat /\ faults <= faults' /\ CheckOK(k, faults')
    BY <2>1, <2>2, CalmOf DEF CheckOK
  <2>4. Calm'
    BY <2>2, <2>3, CheckCalm
  <2> QED
    BY <1>1, <2>2, <2>4, Going
<1> QED
  BY <1>3, <1>4

LEMMA QueryPeerCalm ==
  ASSUME Checked, Checked', Calm, NEW w \in Worker, QueryPeer(w)
  PROVE  Calm' /\ NoFalseAlarm'
<1> DEFINE v == worker[w]
           g == v.check
           peer == Min(g.left)
           pc == IF g.left = {peer} THEN "reserve" ELSE g.pc
           left == g.left \ {peer}
           n == Len(worker[peer].queue)
           seen == g.seen \cup {[peer |-> peer, size |-> n]}
           k1 == [g EXCEPT !.left = left, !.pc = pc]
           k2 == [g EXCEPT !.left = left, !.pc = pc, !.seen = seen]
<1>1. /\ g.pc = "query" /\ verdict = "running" /\ UNCHANGED <<master, toWorker, toMaster, requests, verdict>>
      /\ faults' \in {faults, faults + 1}
      /\ \/ worker' = [worker EXCEPT ![w] = WithCheck(v, k1)]
         \/ worker' = [worker EXCEPT ![w] = WithCheck(v, k2)]
  BY DEF QueryPeer, At, WithCheck
<1>2. g \in CheckRec
  BY <1>1, CheckingOK
<1>3. pc \in {"query", "reserve"}
  BY <1>1
<1> HIDE DEF g, left, pc, seen
<1>4. k1.pc = pc /\ k2.pc = pc
  BY <1>2 DEF CheckRec
<1> HIDE DEF k1, k2
<1>5. faults' \in Nat /\ faults <= faults'
  <2>1. faults \in Nat
    BY CalmOf
  <2> QED
    BY <1>1, <2>1
<1>6. StopsOK(master, toWorker') /\ CheckOK(k1, faults') /\ CheckOK(k2, faults')
  BY <1>1, <1>3, <1>4, CalmOf DEF CheckOK
<1>7. CASE worker' = [worker EXCEPT ![w] = WithCheck(v, k1)]
  <2>1. Calm'
    BY <1>1, <1>5, <1>6, <1>7, CheckCalm
  <2> QED
    BY <1>1, <2>1, Going
<1>8. CASE worker' = [worker EXCEPT ![w] = WithCheck(v, k2)]
  <2>1. Calm'
    BY <1>1, <1>5, <1>6, <1>8, CheckCalm
  <2> QED
    BY <1>1, <2>1, Going
<1> QED
  BY <1>1, <1>7, <1>8

(* An answer is missing only if one was lost. *)
LEMMA NoAnswerOK ==
  ASSUME NEW g \in CheckRec, g.pc = "status", NEW f, f > 0
  PROVE  CheckOK(NoAnswer(g), f)
<1> DEFINE k == [g EXCEPT !.pc = "known", !.answer = "UNKNOWN"]
           k2 == [g EXCEPT !.tries = @ + 1]
<1>1. NoAnswer(g) = IF g.tries = 2 THEN k ELSE k2
  BY DEF NoAnswer
<1>2. k.pc = "known" /\ k.answer = "UNKNOWN" /\ k2.pc = "status"
  BY DEF CheckRec
<1> HIDE DEF k, k2
<1> QED
  BY <1>1, <1>2 DEF CheckOK

LEMMA AskStatusCalm ==
  ASSUME Checked, Checked', Calm, NEW w \in Worker, AskStatus(w)
  PROVE  Calm' /\ NoFalseAlarm'
<1> DEFINE g == worker[w].check
           heard == worker[g.target].received[g.id]
           k == IF heard \in {"ACCEPTED", "REJECTED"}
                THEN [g EXCEPT !.pc = "known", !.answer = heard] ELSE NoAnswer(g)
<1>1. /\ g.pc = "status" /\ verdict = "running" /\ UNCHANGED <<master, toWorker, toMaster, faults, verdict>>
      /\ worker' = [worker EXCEPT ![w].check = k]
  BY DEF AskStatus, At
<1>2. g \in CheckRec /\ CheckOK(g, faults) /\ faults \in Nat /\ StopsOK(master, toWorker)
  BY <1>1, CheckingOK, CalmOf DEF CalmAt
<1>3. faults > 0
  BY <1>1, <1>2 DEF CheckOK
<1>4. CheckOK(k, faults)
  <2> HIDE DEF g, heard
  <2>1. CheckOK(NoAnswer(g), faults)
    BY <1>1, <1>2, <1>3, NoAnswerOK
  <2>2. ASSUME heard \in {"ACCEPTED", "REJECTED"}
        PROVE  CheckOK([g EXCEPT !.pc = "known", !.answer = heard], faults)
    <3> DEFINE e == [g EXCEPT !.pc = "known", !.answer = heard]
    <3>1. e.pc = "known" /\ e.answer = heard
      BY <1>2 DEF CheckRec
    <3> HIDE DEF e
    <3>2. CheckOK(e, faults)
      BY <2>2, <3>1 DEF CheckOK
    <3> QED
      BY <3>2 DEF e
  <2> QED
    BY <2>1, <2>2
<1> HIDE DEF k
<1>5. worker' = [worker EXCEPT ![w] = WithCheck(worker[w], k)]
  BY <1>1 DEF WithCheck
<1>6. StopsOK(master, toWorker') /\ faults' \in Nat /\ faults <= faults' /\ CheckOK(k, faults')
  BY <1>1, <1>2, <1>4
<1>7. Calm'
  BY <1>1, <1>5, <1>6, CheckCalm
<1> QED
  BY <1>1, <1>7, Going

LEMMA TimeoutCalm ==
  ASSUME Checked, Checked', Calm, NEW w \in Worker, Timeout(w)
  PROVE  Calm' /\ NoFalseAlarm'
<1> DEFINE g == worker[w].check
           k == [g EXCEPT !.pc = "status"]
           k2 == NoAnswer(g)
<1>1. /\ verdict = "running" /\ UNCHANGED <<master, toWorker, toMaster, verdict>> /\ faults' = faults + 1
      /\ \/ g.pc = "transfer" /\ worker' = [worker EXCEPT ![w].check.pc = "status"]
         \/ g.pc = "status" /\ worker' = [worker EXCEPT ![w].check = k2]
  BY DEF Timeout, At
<1>2. g \in CheckRec /\ faults \in Nat /\ StopsOK(master, toWorker)
  BY <1>1, CheckingOK, CalmOf
<1>3. faults' \in Nat /\ faults <= faults' /\ faults' > 0 /\ StopsOK(master, toWorker')
  BY <1>1, <1>2
<1>4. CASE g.pc = "transfer"
  <2>1. k.pc = "status"
    <3> HIDE DEF g
    <3> QED
      BY <1>2 DEF CheckRec
  <2>2. worker' = [worker EXCEPT ![w].check.pc = "status"]
    BY <1>1, <1>4
  <2>3. worker' = [worker EXCEPT ![w] = WithCheck(worker[w], k)]
    BY <2>2 DEF WithCheck
  <2> HIDE DEF k
  <2>4. CheckOK(k, faults')
    BY <1>3, <2>1 DEF CheckOK
  <2>5. Calm'
    BY <1>1, <1>3, <2>3, <2>4, CheckCalm
  <2> QED
    BY <1>1, <2>5, Going
<1>5. CASE g.pc = "status"
  <2>1. CheckOK(k2, faults')
    BY <1>2, <1>3, <1>5, NoAnswerOK
  <2>2. worker' = [worker EXCEPT ![w].check = k2]
    BY <1>1, <1>5
  <2> HIDE DEF k2
  <2>3. worker' = [worker EXCEPT ![w] = WithCheck(worker[w], k2)]
    BY <2>2 DEF WithCheck
  <2>4. Calm'
    BY <1>1, <1>3, <2>1, <2>3, CheckCalm
  <2> QED
    BY <1>1, <2>4, Going
<1> QED
  BY <1>1, <1>4, <1>5

LEMMA ReserveCalm ==
  ASSUME Checked, Checked', Calm, NEW w \in Worker, NEW u \in Worker, NEW c \in Check, NEW count,
         NEW v2, ReserveStep(w, u, c, count, v2)
  PROVE  Calm'
<1> DEFINE v == worker[w]
           y == Status(v2, {})
           x == TimeOf(c, w, u, "SEND")
           ms == <<y, x>>
           q == Reserve(v.queue, c, count)
           k == Waits(c, u)
           p == toMaster[w]
<1>1. /\ v2 = Reserved(v, q, k) /\ worker' = [worker EXCEPT ![w] = v2]
      /\ toMaster' = Sends(toMaster, w, ms) /\ UNCHANGED <<master, toWorker, faults>>
  BY DEF ReserveStep
<1>2. /\ CalmAt(master, p, v, w, faults) /\ StopsOK(master, toWorker) /\ faults \in Nat
      /\ toMaster \in [Worker -> Seq(Up)] /\ v \in Workers /\ DOMAIN worker = Worker
  BY CalmOf, WiresUnchanged, CheckedWorker
<1>3. /\ y.type = "QUEUE_STATUS" /\ x.type = "P2P_TIME" /\ k.pc = "time"
      /\ x \in Up
  BY DEF Status, TimeOf, Waits, Idle, Up, Phases
<1>4. y \in Up
  <2>1. WorkerOK(worker'[w], w)
    BY DEF Checked, SystemOK, TypesOK
  <2>2. worker'[w] = v2
    BY <1>1, <1>2
  <2> QED
    BY <2>1, <2>2, StatusUp
<1>5. toMaster'[w] = p \o ms /\ \A z \in Worker : z # w => toMaster'[z] = toMaster[z]
  BY <1>1, <1>2 DEF Sends
<1> HIDE DEF ms, x, y, q, k, v
<1>6. worker'[w] = v2 /\ \A z \in Worker : z # w => worker'[z] = worker[z]
  BY <1>1, <1>2
<1>7. /\ v2.check = k
      /\ v2.stored = v.stored /\ v2.failures = v.failures /\ v2.reassigned = v.reassigned
      /\ v2.accepted = v.accepted /\ v2.events = v.events /\ v2.received = v.received /\ v2.current = v.current
  BY <1>1, <1>2 DEF Workers, Reserved
<1>8. BooksOK(master, v2, w)
  BY <1>2, <1>7, SameBooks DEF MovedTo, CalmAt
<1>9. ReportsOK(p \o ms, master, w, faults)
  <2>1. ms \in Seq(Up) /\ Range(ms) = {y, x}
    BY <1>3, <1>4 DEF ms, Range
  <2>2. Plain(ms, faults)
    BY <1>3, <2>1 DEF Plain
  <2>3. p \in Seq(Up)
    BY <1>2
  <2> QED
    BY <1>2, <2>1, <2>2, <2>3, ReportsSent DEF CalmAt
<1>10. CalmAt(master, toMaster'[w], worker'[w], w, faults')
  BY <1>1, <1>3, <1>5, <1>6, <1>7, <1>8, <1>9 DEF CalmAt, CheckOK
<1>11. master' = master /\ StopsOK(master, toWorker') /\ faults' \in Nat /\ faults <= faults'
  BY <1>1, <1>2
<1> QED
  BY <1>5, <1>6, <1>10, <1>11, OneCalm

LEMMA ChooseAndReserveCalm ==
  ASSUME Checked, Checked', Tokens', Calm, NEW w \in Worker, ChooseAndReserve(w)
  PROVE  Calm' /\ NoFalseAlarm'
<1> DEFINE v == worker[w]
           c == v.check.id
           target == FindTarget(v.check.seen)
           u == target.peer
           count == Min({(v.check.size - target.size) \div 2, QueueSize - target.size,
                         (Len(v.queue) - target.size) \div 2})
           v2 == Reserved(v, Reserve(v.queue, c, count), Waits(c, u))
<1>1. /\ v.check.pc = "reserve"
      /\ \/ FinishCheck(w, v, <<>>, NoTransfer(c, FALSE))
         \/ v.check.seen # {} /\ ~(count <= 0) /\ ReserveStep(w, u, c, count, v2)
  BY Zenon DEF ChooseAndReserve, At, Reserved, Waits, Sends, TimeOf, ReserveStep
<1>2. verdict = "running" /\ verdict' = verdict
  BY Zenon DEF ChooseAndReserve, At, FinishCheck
<1>3. c \in Check /\ v.check \in CheckRec
  BY <1>1, CheckingOK
<1>4. CASE FinishCheck(w, v, <<>>, NoTransfer(c, FALSE))
  BY <1>2, <1>3, <1>4, NothingCalm
<1>5. CASE ~FinishCheck(w, v, <<>>, NoTransfer(c, FALSE))
  <2>1. v.check.seen # {} /\ ReserveStep(w, u, c, count, v2)
    BY <1>1, <1>5, Zenon
  <2>2. v.check.seen \subseteq [peer : Worker, size : Nat]
    BY <1>3 DEF CheckRec
  <2>3. target \in v.check.seen
    BY <2>1, <2>2, TargetFound
  <2> HIDE DEF target
  <2>4. u \in Worker
    BY <2>2, <2>3
  <2> DEFINE n == count
             e == u
             c2 == c
             v3 == v2
  <2>5. ReserveStep(w, e, c2, n, v3) /\ e \in Worker /\ c2 \in Check
    BY <1>3, <2>1, <2>4, Zenon
  <2> HIDE DEF n, e, c2, v3
  <2>6. Calm'
    BY <2>5, ReserveCalm
  <2> QED
    BY <1>2, <2>6, Going
<1> QED
  BY <1>4, <1>5

(* A transfer that the master has not recorded changes nothing in its books. *)
LEMMA ConcludedBooks ==
  ASSUME NEW m, NEW v \in Workers, NEW v2, NEW w, NEW c, c \notin m.transfers, BooksOK(m, v, w),
         v2 = GivenState(v, c) \/ v2 = DroppedState(v, c)
  PROVE  v2 \in Workers => BooksOK(m, v2, w)
<1>1. /\ v2.stored = v.stored /\ v2.failures = v.failures /\ v2.reassigned = v.reassigned
      /\ v2.accepted = v.accepted /\ v2.received = v.received /\ v2.current = v.current
      /\ v2.events = v.events \/ v2.events = v.events \cup {c}
  BY DEF Workers, GivenState, DroppedState, MovedState
<1>2. \A d \in m.transfers : MovedTo(v2, d) <=> MovedTo(v, d)
  BY <1>1 DEF MovedTo
<1> QED
  BY <1>1, <1>2, SameBooks

LEMMA ListFinished ==
  ASSUME Checked, Checked', Tokens', Calm, verdict = "running", NEW w \in Worker, NEW v \in Workers,
         NEW ms \in Seq(Up), NEW x \in Up, Plain(ms, faults), x.type \notin {"RESULT", "STOP_ACK"},
         x.type = "P2P_FAILURE" => faults > 0, FinishCheck(w, v, ms, x), BooksOK(master, v, w)
  PROVE  Calm' /\ NoFalseAlarm'
<1> DEFINE l == Append(ms, x)
<1>1. l \in Seq(Up) /\ Range(l) = Range(ms) \cup {x} /\ l = Append(ms, x)
  BY MessageSent
<1> HIDE DEF l
<1>2. Plain(l, faults)
  BY <1>1 DEF Plain
<1> QED
  BY <1>1, <1>2, FinishCalm
LEMMA StatusFinished ==
  ASSUME Checked, Checked', Tokens', Calm, verdict = "running", NEW w \in Worker, NEW v, WorkerOK(v, w),
         NEW ms, ms = <<Status(v, {})>>, NEW x \in Up, x.type \notin {"RESULT", "STOP_ACK", "P2P_FAILURE"},
         FinishCheck(w, v, ms, x), BooksOK(master, v, w)
  PROVE  Calm' /\ NoFalseAlarm'
<1> DEFINE y == Status(v, {})
<1>1. y \in Up /\ y.type = "QUEUE_STATUS" /\ v \in Workers
  BY StatusUp DEF Status, WorkerOK
<1>2. ms = <<y>>
  OBVIOUS
<1> HIDE DEF y
<1>3. ms \in Seq(Up) /\ Range(ms) = {y}
  BY <1>1, <1>2, SingleTask
<1>4. Plain(ms, faults)
  BY <1>1, <1>3 DEF Plain
<1> QED
  BY <1>1, <1>3, <1>4, ListFinished

LEMMA ConcludeCalm ==
  ASSUME Checked, Checked', Tokens', Calm, NEW w \in Worker, Conclude(w)
  PROVE  Calm' /\ NoFalseAlarm'
<1> DEFINE v == worker[w]
           c == v.check.id
           u == v.check.target
           given == GivenState(v, c)
           dropped == DroppedState(v, c)
           ms1 == <<Status(given, {})>>
           x1 == TransferOf(c, u, ReservedFor(v.queue, c))
           ms2 == <<Status(dropped, {})>>
           x2 == NoTransfer(c, TRUE)
           ms3 == <<>>
           x3 == FailureOf(c, u)
<1>0. v.check.pc = "known" /\ v \in Workers /\ WorkerOK(v, w) /\ verdict = "running"
  BY CheckedWorker DEF Conclude, At
<1>1. /\ c \in Check /\ u \in Worker /\ worker[w].check.id = c /\ v.check \in CheckRec
      /\ Asking(master, toWorker, toMaster, worker, requests, c, w, u)
  BY <1>0, WaitingAsks
<1>2. [v EXCEPT !.queue = ConfirmTransfer(@, c), !.events = @ \cup {c}, !.sent = @ \cup {c}] = given
  BY DEF GivenState, MovedState
<1>3. [v EXCEPT !.queue = CancelTransfer(@, c)] = dropped
  BY <1>0 DEF DroppedState, MovedState, Workers
<1>4. c \notin master.transfers
  BY <1>1 DEF Asking, Owns
<1>5. BooksOK(master, v, w) /\ CheckOK(v.check, faults)
  BY CalmOf DEF CalmAt
<1>6. /\ WorkerOK(given, w) /\ WorkerOK(dropped, w)
      /\ QuietList(ms1) /\ QuietList(ms2)
  BY <1>0, <1>1, GivenOK, DroppedOK
<1>7. x1.type = "P2P_TRANSFER" /\ x2 \in Up /\ x2.type = "P2P_COST" /\ x3 \in Up /\ x3.type = "P2P_FAILURE"
  BY <1>1 DEF TransferOf, NoTransfer, FailureOf, Up
<1>8. CASE v.check.answer = "ACCEPTED"
  <2>1. FinishCheck(w, given, ms1, x1)
    BY <1>2, <1>8, Zenon DEF Conclude, TransferOf
  <2>2. given = GivenState(v, c) /\ ms1 = <<Status(given, {})>>
    OBVIOUS
  <2>3. x1 \in Up
    <3> DEFINE tasks == ReservedFor(v.queue, c)
    <3>1. tasks \in Seq(TaskRec)
      BY <1>0, <1>1, CheckedWorker, ReservedTasks
    <3> HIDE DEF tasks
    <3>2. TransferOf(c, u, tasks) \in Up
      BY <1>1, <3>1 DEF TransferOf, Up
    <3> QED
      BY <3>2 DEF tasks
  <2> HIDE DEF x1, given, ms1, v, c, u
  <2>4. BooksOK(master, given, w)
    BY <1>0, <1>4, <1>5, <1>6, <2>2, ConcludedBooks DEF WorkerOK
  <2> QED
    BY <1>0, <1>6, <1>7, <2>1, <2>2, <2>3, <2>4, StatusFinished
<1>9. CASE v.check.answer = "REJECTED"
  <2>1. FinishCheck(w, dropped, ms2, x2)
    <3>1. ~(v.check.answer = "ACCEPTED")
      BY <1>9
    <3> QED
      BY <1>3, <1>9, <3>1, Zenon DEF Conclude
  <2>2. dropped = DroppedState(v, c) /\ ms2 = <<Status(dropped, {})>>
    OBVIOUS
  <2> HIDE DEF x2, dropped, ms2, v, c, u
  <2>3. BooksOK(master, dropped, w)
    BY <1>0, <1>4, <1>5, <1>6, <2>2, ConcludedBooks DEF WorkerOK
  <2> QED
    BY <1>0, <1>6, <1>7, <2>1, <2>2, <2>3, StatusFinished
<1>10. CASE v.check.answer \notin {"ACCEPTED", "REJECTED"}
  <2>1. FinishCheck(w, v, ms3, x3)
    <3>1. ~(v.check.answer = "ACCEPTED") /\ ~(v.check.answer = "REJECTED")
      BY <1>10
    <3> QED
      BY <3>1, Zenon DEF Conclude, FailureOf
  <2>2. v.check.answer \in Statuses
    BY <1>1 DEF CheckRec
  <2>3. faults > 0
    BY <1>0, <1>5, <1>10, <2>2 DEF CheckOK, Statuses
  <2> DEFINE l == Append(ms3, x3)
  <2>4. Range(ms3) = {}
    BY DEF Range
  <2>5. ms3 \in Seq(Up)
    OBVIOUS
  <2> HIDE DEF ms3, x3, v, c, u
  <2>6. l \in Seq(Up) /\ Range(l) = {x3}
    BY <1>7, <2>4, <2>5, MessageSent
  <2>7. l = Append(ms3, x3)
    OBVIOUS
  <2> HIDE DEF l
  <2>8. Plain(l, faults)
    BY <1>7, <2>3, <2>6 DEF Plain
  <2> QED
    BY <1>0, <1>5, <2>1, <2>6, <2>7, <2>8, FinishCalm
<1> QED
  BY <1>8, <1>9, <1>10

-----------------------------------------------------------------------------
(* The peer threads *)

LEMMA TwoCalm ==
  ASSUME Checked, Calm, UNCHANGED <<master, toWorker, faults>>, NEW u \in Worker, NEW w \in Worker,
         \A z \in Worker : z # u /\ z # w => worker'[z] = worker[z],
         \A z \in Worker : z # u => toMaster'[z] = toMaster[z],
         ReportsOK(toMaster'[u], master, u, faults), CheckOK(worker'[u].check, faults), BooksOK(master, worker'[u], u),
         CheckOK(worker'[w].check, faults), BooksOK(master, worker'[w], w)
  PROVE  Calm'
<1>1. \A z \in Worker : CalmAt(master, toMaster[z], worker[z], z, faults)
  BY CalmOf
<1>2. master' = master /\ toWorker' = toWorker /\ faults' = faults
  OBVIOUS
<1>3. \A z \in Worker : ReportsOK(toMaster'[z], master', z, faults')
  <2>1. ASSUME NEW z \in Worker PROVE ReportsOK(toMaster'[z], master, z, faults)
    BY <1>1 DEF CalmAt
  <2> QED
    BY <1>2, <2>1
<1>4. \A z \in Worker : CheckOK(worker'[z].check, faults')
  <2>1. ASSUME NEW z \in Worker PROVE CheckOK(worker'[z].check, faults)
    BY <1>1 DEF CalmAt
  <2> QED
    BY <1>2, <2>1
<1>5. \A z \in Worker : BooksOK(master', worker'[z], z)
  <2>1. ASSUME NEW z \in Worker PROVE BooksOK(master, worker'[z], z)
    BY <1>1 DEF CalmAt
  <2> QED
    BY <1>2, <2>1
<1>6. ActiveOK(master') /\ StopsOK(master', toWorker')
  BY <1>2 DEF Calm, CalmOK
<1> QED
  BY <1>3, <1>4, <1>5, <1>6 DEF Calm, CalmOK

(* The source hears the answer. *)
LEMMA HeardCalm ==
  ASSUME Checked, Calm, NEW w \in Worker, NEW c \in Check, NEW answer \in {"ACCEPTED", "REJECTED"},
         NEW v2, v2 = HeardState(worker[w], c, answer)
  PROVE  CheckOK(v2.check, faults) /\ BooksOK(master, v2, w)
<1> DEFINE v == worker[w]
           k == Heard(v.check, c, answer)
<1>1. /\ v \in Workers /\ v.check \in CheckRec /\ CheckOK(v.check, faults) /\ BooksOK(master, v, w)
      /\ answer \in Statuses
  BY CheckedWorker, WorkerFields, CalmOf DEF CalmAt, Statuses
<1>2. CheckOK(k, faults)
  <2>1. CASE v.check.pc = "transfer" /\ v.check.id = c
    <3> DEFINE e == Knows(v.check, answer)
    <3>1. e.pc = "known" /\ e.answer = answer
      <4> HIDE DEF v
      <4> QED
        BY <1>1 DEF Knows, CheckRec
    <3>2. k = e
      BY <2>1 DEF Heard
    <3> HIDE DEF e, k
    <3> QED
      BY <3>1, <3>2 DEF CheckOK
  <2>2. CASE ~(v.check.pc = "transfer" /\ v.check.id = c)
    BY <1>1, <2>2 DEF Heard
  <2> QED
    BY <2>1, <2>2
<1>3. v2 = WithCheck(v, k)
  BY DEF HeardState
<1> HIDE DEF k, v
<1>4. /\ v2.check = k
      /\ v2.stored = v.stored /\ v2.failures = v.failures /\ v2.reassigned = v.reassigned
      /\ v2.accepted = v.accepted /\ v2.events = v.events /\ v2.received = v.received /\ v2.current = v.current
  BY <1>1, <1>3 DEF Workers, WithCheck
<1>5. BooksOK(master, v2, w)
  BY <1>1, <1>4, SameBooks DEF MovedTo
<1> QED
  BY <1>2, <1>4, <1>5

(* What a worker knows of a transfer that is not recorded. *)
LEMMA ReceivedBooks ==
  ASSUME NEW m, NEW v, NEW v2, NEW w, NEW c, c \notin m.transfers, BooksOK(m, v, w),
         v2.stored = v.stored, v2.failures = v.failures, v2.reassigned = v.reassigned,
         v2.accepted = v.accepted, v2.current = v.current, v2.events = v.events,
         \A d \in m.transfers : d # c => v2.received[d] = v.received[d]
  PROVE  BooksOK(m, v2, w)
<1>1. \A d \in m.transfers : MovedTo(v2, d) <=> MovedTo(v, d)
  BY DEF MovedTo
<1> QED
  BY <1>1, SameBooks

LEMMA AcceptCalm ==
  ASSUME Checked, Checked', Calm, NEW u \in Worker, NEW r \in requests, r.target = u, AcceptStep(u, r)
  PROVE  Calm'
<1> DEFINE v == worker[u]
           c == r.id
           v2 == AcceptingState(v, r)
           x == TimeOf(c, r.source, u, "RECV")
<1>1. /\ r \in Requests /\ c \in Check /\ r.source \in Worker
      /\ Asking(master, toWorker, toMaster, worker, requests, c, r.source, u)
  BY RequestTaken
<1>2. c \notin master.transfers /\ master.transfers \in SUBSET Check
  BY <1>1, CheckedParts, Fields DEF Asking, Owns
<1>3. /\ worker' = [worker EXCEPT ![u] = v2] /\ toMaster' = Put(toMaster, u, x)
      /\ UNCHANGED <<master, toWorker, faults>>
  BY DEF AcceptStep
<1>4. /\ v \in Workers /\ DOMAIN worker = Worker /\ toMaster \in [Worker -> Seq(Up)]
      /\ CalmAt(master, toMaster[u], v, u, faults) /\ StopsOK(master, toWorker) /\ faults \in Nat
  BY CheckedWorker, WiresUnchanged, CalmOf
<1>5. x \in Up /\ x.type = "P2P_TIME"
  BY <1>1 DEF TimeOf, Up, Phases
<1>6. /\ v2.check = v.check
      /\ v2.stored = v.stored /\ v2.failures = v.failures /\ v2.reassigned = v.reassigned
      /\ v2.accepted = v.accepted /\ v2.events = v.events /\ v2.current = v.current
      /\ v2.received = [v.received EXCEPT ![c] = "UNKNOWN"]
  BY <1>4 DEF Workers, AcceptingState
<1>7. \A d \in Check : d # c => v2.received[d] = v.received[d]
  BY <1>4, <1>6, WorkerFields
<1> HIDE DEF v2, x, c
<1>8. BooksOK(master, v2, u)
  <2>1. \A d \in master.transfers : d # c => v2.received[d] = v.received[d]
    BY <1>2, <1>7
  <2>2. BooksOK(master, v, u)
    BY <1>4 DEF CalmAt
  <2> QED
    BY <1>2, <1>6, <2>1, <2>2, ReceivedBooks
<1>9. worker'[u] = v2 /\ \A z \in Worker : z # u => worker'[z] = worker[z]
  BY <1>3, <1>4
<1>10. toMaster'[u] = Append(toMaster[u], x) /\ \A z \in Worker : z # u => toMaster'[z] = toMaster[z]
  BY <1>3, <1>4 DEF Put
<1>11. ReportsOK(toMaster'[u], master, u, faults)
  <2>1. toMaster[u] \in Seq(Up)
    BY <1>4
  <2> QED
    BY <1>4, <1>5, <1>10, <2>1, ReportSent DEF CalmAt
<1>12. CalmAt(master, toMaster'[u], worker'[u], u, faults')
  BY <1>3, <1>4, <1>6, <1>8, <1>9, <1>11 DEF CalmAt
<1>13. master' = master /\ StopsOK(master, toWorker') /\ faults' \in Nat /\ faults <= faults'
  BY <1>3, <1>4
<1> QED
  BY <1>9, <1>10, <1>12, <1>13, OneCalm

LEMMA RefuseCalm ==
  ASSUME Checked, Checked', Calm, NEW u \in Worker, NEW r \in requests, r.target = u, RefuseStep(u, r)
  PROVE  Calm'
<1> DEFINE v == worker[u]
           c == r.id
           w == r.source
           k == Heard(worker[w].check, c, "REJECTED")
           v2 == RefusingState(v, c)
           s2 == HeardState(worker[w], c, "REJECTED")
<1>1. /\ r \in Requests /\ c \in Check /\ w \in Worker
      /\ Asking(master, toWorker, toMaster, worker, requests, c, w, u)
  BY RequestTaken
<1>2. c \notin master.transfers /\ master.transfers \in SUBSET Check /\ u # w
  BY <1>1, CheckedParts, Fields DEF Asking, Owns
<1>3. Reply(r, "REJECTED") = k /\ s2 = WithCheck(worker[w], k)
  BY DEF Reply, Heard, Knows, HeardState
<1>4. worker' = [worker EXCEPT ![u].received[c] = "REJECTED", ![w].check = k]
  BY <1>3 DEF RefuseStep
<1>5. UNCHANGED <<master, toWorker, faults, toMaster>>
  BY DEF RefuseStep
<1>6. v \in Workers /\ CalmAt(master, toMaster[u], v, u, faults)
  BY CheckedWorker, CalmOf
<1>7. /\ v2.check = v.check
      /\ v2.stored = v.stored /\ v2.failures = v.failures /\ v2.reassigned = v.reassigned
      /\ v2.accepted = v.accepted /\ v2.events = v.events /\ v2.current = v.current
      /\ v2.received = [v.received EXCEPT ![c] = "REJECTED"]
  BY <1>6 DEF Workers, RefusingState
<1>8. \A d \in Check : d # c => v2.received[d] = v.received[d]
  BY <1>6, <1>7, WorkerFields
<1> HIDE DEF k
<1>9. BothChange(worker', u, v2, w, s2)
  <2> HIDE DEF c, w, s2, v2
  <2>1. BothChange(worker', u, RefusingState(worker[u], c), w, WithCheck(worker[w], k))
    BY <1>1, <1>2, <1>4, TwoChange
  <2> QED
    BY <1>3, <2>1 DEF v2
<1>10. s2 = HeardState(worker[w], c, "REJECTED")
  OBVIOUS
<1> HIDE DEF s2, v2, c, w
<1>11. CheckOK(s2.check, faults) /\ BooksOK(master, s2, w)
  BY <1>1, <1>10, HeardCalm
<1>12. BooksOK(master, v2, u) /\ CheckOK(v2.check, faults)
  <2>1. \A d \in master.transfers : d # c => v2.received[d] = v.received[d]
    BY <1>2, <1>8
  <2>2. BooksOK(master, v, u) /\ CheckOK(v2.check, faults)
    BY <1>6, <1>7 DEF CalmAt
  <2>3. /\ v2.stored = v.stored /\ v2.failures = v.failures /\ v2.reassigned = v.reassigned
        /\ v2.accepted = v.accepted /\ v2.current = v.current /\ v2.events = v.events
        /\ c \notin master.transfers
    BY <1>2, <1>7
  <2> HIDE DEF v
  <2>4. BooksOK(master, v2, u)
    BY <2>1, <2>2, <2>3, ReceivedBooks
  <2> QED
    BY <2>2, <2>4
<1>13. /\ worker'[u] = v2 /\ worker'[w] = s2
       /\ \A z \in Worker : z # u /\ z # w => worker'[z] = worker[z]
  BY <1>9 DEF BothChange
<1>14. /\ ReportsOK(toMaster'[u], master, u, faults)
       /\ \A z \in Worker : z # u => toMaster'[z] = toMaster[z]
  BY <1>5, <1>6 DEF CalmAt
<1> QED
  BY <1>1, <1>5, <1>11, <1>12, <1>13, <1>14, TwoCalm

LEMMA StartReceiveCalm ==
  ASSUME Checked, Checked', Calm, NEW w \in Worker, StartReceive(w)
  PROVE  Calm' /\ NoFalseAlarm'
<1>1. PICK r \in requests :
        /\ r.target = w /\ requests' = requests \ {r}
        /\ IF HasRoom(worker[w], Len(r.tasks))
           THEN /\ worker' = [worker EXCEPT
                     ![w].incoming = @ + Len(r.tasks),
                     ![w].received[r.id] = "UNKNOWN",
                     ![w].receiving = <<[request |-> r, timed |-> FALSE]>>]
                /\ toMaster' = [toMaster EXCEPT ![w] = Append(@,
                     [type |-> "P2P_TIME", id |-> r.id, source |-> r.source, target |-> w,
                      phase |-> "RECV"])]
           ELSE /\ worker' = [worker EXCEPT ![w].received[r.id] = "REJECTED",
                                            ![r.source].check = Reply(r, "REJECTED")]
                /\ UNCHANGED toMaster
  BY Zenon DEF StartReceive
<1>2. /\ worker[w].receiving = <<>> /\ UNCHANGED <<master, toWorker, faults>>
      /\ verdict = "running" /\ verdict' = verdict
  BY DEF StartReceive
<1>3. CASE HasRoom(worker[w], Len(r.tasks))
  <2>1. worker' = [worker EXCEPT ![w] = AcceptingState(worker[w], r)]
    <3>1. DOMAIN worker = Worker
      BY CheckedWorker
    <3>2. worker' = [worker EXCEPT
                       ![w].incoming = @ + Len(r.tasks),
                       ![w].received[r.id] = "UNKNOWN",
                       ![w].receiving = <<[request |-> r, timed |-> FALSE]>>]
      BY <1>1, <1>3, Zenon
    <3> QED
      BY <3>1, <3>2, Zenon DEF AcceptingState
  <2>2. toMaster' = Put(toMaster, w, TimeOf(r.id, r.source, w, "RECV"))
    BY <1>1, <1>3, Zenon DEF Put, TimeOf
  <2>3. AcceptStep(w, r)
    <3>1. requests' = Without(requests, r)
      BY <1>1 DEF Without
    <3> QED
      BY <1>2, <1>3, <2>1, <2>2, <3>1 DEF AcceptStep
  <2>4. Calm'
    BY <1>1, <2>3, AcceptCalm
  <2> QED
    BY <1>2, <2>4, Going
<1>4. CASE ~HasRoom(worker[w], Len(r.tasks))
  <2>1. /\ worker' = [worker EXCEPT ![w].received[r.id] = "REJECTED", ![r.source].check = Reply(r, "REJECTED")]
        /\ UNCHANGED toMaster
    BY <1>1, <1>4, Zenon
  <2>2. RefuseStep(w, r)
    <3>1. requests' = Without(requests, r)
      BY <1>1 DEF Without
    <3> QED
      BY <1>2, <2>1, <3>1 DEF RefuseStep
  <2>3. Calm'
    BY <1>1, <2>2, RefuseCalm
  <2> QED
    BY <1>2, <2>3, Going
<1> QED
  BY <1>3, <1>4

(* The slots promised to the tasks that arrive are free. *)
LEMMA RoomKept ==
  ASSUME NEW v, NEW u \in Worker, WorkerOK(v, u), v.receiving # <<>>, NEW r, r = v.receiving[1].request
  PROVE  ~(Len(v.queue) + Len(r.tasks) > QueueSize)
<1> DEFINE a == Len(v.queue)
           b == Cardinality(v.accepted)
           n == v.incoming
<1>1. v \in Workers /\ IsFiniteSet(v.accepted) /\ a + b + n <= QueueSize /\ n = Len(r.tasks)
  BY DEF WorkerOK
<1>2. a \in Nat /\ b \in Nat /\ n \in Nat
  BY <1>1, WorkerFields, FS_CardinalityType
<1>3. QueueSize \in Nat
  OBVIOUS
<1>4. ~(a + n > QueueSize)
  <2>1. a + b + n <= QueueSize
    BY <1>1
  <2> HIDE DEF a, b, n
  <2> QED
    BY <1>2, <1>3, <2>1
<1> QED
  BY <1>1, <1>4

LEMMA FinishReceiveCalm ==
  ASSUME Checked, Checked', Calm, NEW u \in Worker, FinishReceive(u)
  PROVE  Calm' /\ NoFalseAlarm'
<1> DEFINE v == worker[u]
           at == v.receiving[1]
           r == at.request
           c == r.id
           w == r.source
           count == Len(r.tasks)
           v2 == FinishedState(v, r)
           k == Heard(worker[w].check, c, "ACCEPTED")
           s2 == HeardState(worker[w], c, "ACCEPTED")
           ms == ReceivedStatuses(v.queue, count)
           up2 == Sends(toMaster, u, ms)
<1>1. v.receiving # <<>> /\ at.timed /\ verdict = "running"
  BY Zenon DEF FinishReceive
<1>2. /\ v \in Workers /\ WorkerOK(v, u) /\ v.queue \in Seq(TaskRec) /\ DOMAIN worker = Worker
      /\ toMaster \in [Worker -> Seq(Up)] /\ CalmAt(master, toMaster[u], v, u, faults)
  BY CheckedWorker, WiresUnchanged, CalmOf
<1>3. /\ worker' = [worker EXCEPT ![u] = v2, ![w].check = k] /\ toMaster' = up2
      /\ UNCHANGED <<master, toWorker, requests, faults, verdict>>
  <2>1. Reply(r, "ACCEPTED") = k
    BY DEF Reply, Heard, Knows
  <2> DEFINE raw == [v EXCEPT !.queue = @ \o r.tasks, !.incoming = @ - count,
                              !.received[r.id] = "ACCEPTED", !.receiving = <<>>]
             told == [toMaster EXCEPT ![u] = @ \o
                 [i \in 1..count |-> [type |-> "QUEUE_STATUS", size |-> Len(v.queue) + i, confirms |-> {}]]]
  <2>2. raw = v2
    BY DEF FinishedState
  <2>3. up2 = told
    BY DEF Sends, ReceivedStatuses
  <2>4. IF Len(v.queue) + count > QueueSize THEN Raise("error")
        ELSE /\ worker' = [worker EXCEPT ![u] = raw, ![w].check = Reply(r, "ACCEPTED")]
             /\ toMaster' = told
             /\ UNCHANGED <<master, toWorker, requests, faults, verdict>>
    BY Zenon DEF FinishReceive
  <2>5. ~(Len(v.queue) + count > QueueSize)
    BY <1>1, <1>2, RoomKept
  <2>6. /\ worker' = [worker EXCEPT ![u] = raw, ![w].check = Reply(r, "ACCEPTED")] /\ toMaster' = told
        /\ UNCHANGED <<master, toWorker, requests, faults, verdict>>
    BY <2>4, <2>5, Zenon
  <2> HIDE DEF v2, k, up2, count, r, w, raw, told
  <2> QED
    BY <2>1, <2>2, <2>3, <2>6
<1>4. c \in Check /\ count \in Nat /\ Receiving(v, c)
  <2>1. PICK a \in Receptions : v.receiving = <<a>>
    BY <1>1, <1>2 DEF Workers
  <2>2. r \in Requests
    BY <2>1 DEF Receptions
  <2>3. r.tasks \in Seq(TaskRec) /\ r.id \in Check
    BY <2>2 DEF Requests
  <2> QED
    BY <1>1, <2>3, LenProperties DEF Receiving
<1>5. PICK s \in Worker : /\ Asking(master, toWorker, toMaster, worker, requests, c, s, u)
                          /\ Arriving(master, toWorker, toMaster, worker, requests, c, s, u)
  <2>1. TransferOK(master, toWorker, toMaster, worker, requests, c)
    BY <1>4 DEF Checked, SystemOK, TransfersOK
  <2> HIDE DEF c
  <2> QED
    BY <1>4, <2>1, ReceptionSays
<1>6. s = w
  BY <1>5, Zenon DEF Arriving
<1>7. w \in Worker /\ u # w /\ c \notin master.transfers /\ master.transfers \in SUBSET Check
  <2>1. u # s /\ c \notin master.transfers
    <3> HIDE DEF c, w
    <3> QED
      BY <1>5 DEF Asking, Owns
  <2> QED
    BY <1>5, <1>6, <2>1, CheckedParts, Fields
<1>8. /\ v2.check = v.check
      /\ v2.stored = v.stored /\ v2.failures = v.failures /\ v2.reassigned = v.reassigned
      /\ v2.accepted = v.accepted /\ v2.events = v.events /\ v2.current = v.current
  <2> HIDE DEF r, c, w, count
  <2> QED
    BY <1>2 DEF Workers, FinishedState
<1>9. v2.received = [v.received EXCEPT ![c] = "ACCEPTED"]
  <2> HIDE DEF r, w, count
  <2> QED
    BY <1>2 DEF Workers, FinishedState
<1>10. \A d \in master.transfers : d # c => v2.received[d] = v.received[d]
  <2> HIDE DEF v2, c
  <2> QED
    BY <1>2, <1>4, <1>7, <1>9, WorkerFields
<1>11. Plain(ms, faults) /\ ms \in Seq(Up)
  <2>1. ms \in Seq(Up)
    <3>1. ~(Len(v.queue) + count > QueueSize)
      BY <1>1, <1>2, RoomKept
    <3>2. Len(v.queue) \in Nat
      BY <1>2, LenProperties
    <3>3. Len(v.queue) + count <= QueueSize
      <4> DEFINE a == Len(v.queue)
      <4>1. QueueSize \in Nat /\ a \in Nat /\ ~(a + count > QueueSize)
        BY <3>1, <3>2
      <4> HIDE DEF a, count
      <4>2. a + count <= QueueSize
        BY <1>4, <4>1
      <4> QED
        BY <4>2 DEF a
    <3> HIDE DEF count
    <3> QED
      BY <1>2, <1>4, <3>3, ReceivedUp
  <2>2. \A i \in DOMAIN ms : ms[i].type = "QUEUE_STATUS"
    BY DEF ReceivedStatuses
  <2> HIDE DEF ms
  <2> QED
    BY <2>1, <2>2 DEF Plain, Range
<1>12. WithCheck(worker[w], k) = s2
  BY DEF HeardState
<1>13. s2 = HeardState(worker[w], c, "ACCEPTED")
  OBVIOUS
<1>14. toMaster'[u] = toMaster[u] \o ms /\ \A z \in Worker : z # u => toMaster'[z] = toMaster[z]
  <2>1. toMaster' = Sends(toMaster, u, ms)
    BY <1>3, Zenon
  <2>2. DOMAIN toMaster = Worker
    BY <1>2
  <2> HIDE DEF ms
  <2> QED
    BY <2>1, <2>2 DEF Sends
<1> HIDE DEF v2, c, r, w, k, count, up2, ms, s2, at
<1>15. /\ worker'[u] = v2 /\ worker'[w] = [worker[w] EXCEPT !.check = k]
       /\ \A z \in Worker : z # u /\ z # w => worker'[z] = worker[z]
  BY <1>2, <1>3, <1>7
<1>16. worker'[w] = s2
  BY <1>12, <1>15 DEF WithCheck
<1>17. CheckOK(s2.check, faults) /\ BooksOK(master, s2, w)
  BY <1>4, <1>7, <1>13, HeardCalm
<1>18. BooksOK(master, v, u) /\ CheckOK(v.check, faults) /\ ReportsOK(toMaster[u], master, u, faults)
  BY <1>2 DEF CalmAt
<1> HIDE DEF v
<1>19. BooksOK(master, v2, u)
  BY <1>7, <1>8, <1>10, <1>18, ReceivedBooks
<1>20. CheckOK(v2.check, faults)
  BY <1>8, <1>18
<1>21. ReportsOK(toMaster'[u], master, u, faults)
  <2>1. toMaster[u] \in Seq(Up)
    BY <1>2
  <2> QED
    BY <1>11, <1>14, <1>18, <2>1, ReportsSent
<1>22. UNCHANGED <<master, toWorker, faults>> /\ verdict' = verdict
  BY <1>3
<1>23. CheckOK(worker'[u].check, faults) /\ BooksOK(master, worker'[u], u)
       /\ CheckOK(worker'[w].check, faults) /\ BooksOK(master, worker'[w], w)
  BY <1>15, <1>16, <1>17, <1>19, <1>20
<1>24. Calm'
  BY <1>7, <1>14, <1>15, <1>21, <1>22, <1>23, TwoCalm
<1> QED
  BY <1>1, <1>22, <1>24, Going

LEMMA PeerCalm ==
  ASSUME Checked, Checked', Tokens', Calm, NEW w \in Worker, PeerStep(w)
  PROVE  Calm' /\ NoFalseAlarm'
  BY BeginCheckCalm, QueryPeerCalm, ChooseAndReserveCalm, AskStatusCalm, ConcludeCalm, StartReceiveCalm,
     FinishReceiveCalm, Zenon DEF PeerStep

-----------------------------------------------------------------------------
(* The specification *)

LEMMA StepCalm ==
  ASSUME Checked, Checked', Tokens, Tokens', Calm, Next
  PROVE  Calm' /\ NoFalseAlarm'
<1>1. ASSUME NEW w \in Worker, HandleMessage(w) \/ WorkerStep(w) \/ PeerStep(w) PROVE Calm' /\ NoFalseAlarm'
  BY <1>1, MessageCalm, WorkerCalm, PeerCalm, Zenon
<1>2. ASSUME NEW w \in Worker, Timeout(w) PROVE Calm' /\ NoFalseAlarm'
  BY <1>2, TimeoutCalm
<1> QED
  BY <1>1, <1>2, Zenon DEF Next, SystemStep

LEMMA StutterCalm ==
  ASSUME Calm, NoFalseAlarm, UNCHANGED vars
  PROVE  Calm' /\ NoFalseAlarm'
<1>1. Calm'
  BY DEF Calm, vars
<1>2. NoFalseAlarm'
  BY DEF NoFalseAlarm, vars
<1> QED
  BY <1>1, <1>2

LEMMA InitCalm ==
  ASSUME Init
  PROVE  Calm /\ NoFalseAlarm
<1>1. /\ master.active = [w \in Worker |-> None] /\ ~master.stopping /\ master.transfers = {}
      /\ master.tally = [w \in Worker |-> [success |-> 0, failures |-> 0, moved |-> 0, reassigned |-> 0]]
      /\ master.task = [k \in Key |-> NewTask]
  BY DEF Init
<1>2. /\ worker = [w \in Worker |-> NewWorker] /\ toWorker = [w \in Worker |-> <<[type |-> "PEERS"]>>]
      /\ toMaster = [w \in Worker |-> <<>>] /\ faults = 0 /\ verdict = "running"
  BY DEF Init
<1>3. ActiveOK(master)
  BY <1>1 DEF ActiveOK
<1>4. StopsOK(master, toWorker)
  <2>1. ASSUME NEW w \in Worker PROVE StopsLast(toWorker[w], master)
    BY <1>2 DEF StopsLast
  <2> QED
    BY <1>1, <2>1 DEF StopsOK
<1>5. \A w \in Worker : ReportsOK(toMaster[w], master, w, faults)
  <2>1. \A w \in Worker : toMaster[w] = <<>>
    BY <1>2
  <2>2. Range(<<>>) = {} /\ DOMAIN <<>> = {}
    BY DEF Range
  <2> QED
    BY <2>1, <2>2 DEF ReportsOK, Ordered, Agrees, Excused
<1>6. \A w \in Worker : CheckOK(worker[w].check, faults)
  BY <1>2 DEF CheckOK, NewWorker, Idle
<1>7. \A w \in Worker : BooksOK(master, worker[w], w)
  <2> SUFFICES ASSUME NEW w \in Worker PROVE BooksOK(master, NewWorker, w)
    BY <1>2
  <2> DEFINE v == NewWorker
             t == master.tally[w]
  <2>1. /\ t.success = 0 /\ t.failures = 0 /\ t.moved = 0 /\ t.reassigned = 0
        /\ \A k \in Key : master.task[k].state = "WAITING"
    BY <1>1 DEF NewTask
  <2>2. v.stored = {} /\ v.failures = 0 /\ v.reassigned = {}
    BY DEF NewWorker
  <2>3. CountedAt(master, v) = {} /\ FailedAt(master, v, w) = {} /\ RepeatedAt(master, v) = {}
    BY <2>1, <2>2 DEF CountedAt, FailedAt, Failing, RepeatedAt, Repeating
  <2>4. MovedAt(master, v) = {}
    BY <1>1 DEF MovedAt
  <2>5. Cardinality({}) = 0
    BY FS_EmptySet
  <2>6. TallyOK(t, master, v, w)
    BY <2>1, <2>2, <2>3, <2>4, <2>5 DEF TallyOK
  <2>7. SettledOK(master, v)
    BY <2>2 DEF SettledOK
  <2> QED
    BY <2>6, <2>7 DEF BooksOK
<1>8. Calm
  BY <1>3, <1>4, <1>5, <1>6, <1>7 DEF Calm, CalmOK
<1>9. NoFalseAlarm
  BY <1>2 DEF NoFalseAlarm
<1> QED
  BY <1>8, <1>9

(* NoFalseAlarm of every run.  No exception is raised, whatever the threads, the
   FIFO wires and the lost answers do: a promised slot of the ready queue is
   free when the tasks arrive (p2p.py), no report finds the master in a state
   that refuses it, and in stop_ack the worker's statistics equal the master's
   (master.py).  The run is given up, P2P_FAILURE, only if an answer was lost. *)
THEOREM AlarmsAreReal == Spec => []NoFalseAlarm
<1> DEFINE Inv == Checked /\ Tokens /\ Calm /\ NoFalseAlarm
<1>1. Init => Inv
  BY InitChecked, InitTokens, InitCalm
<1>2. Inv /\ [Next]_vars => Inv'
  <2>1. SUFFICES ASSUME Checked, Tokens, Calm, NoFalseAlarm, [Next]_vars
                 PROVE  Checked' /\ Tokens' /\ Calm' /\ NoFalseAlarm'
    OBVIOUS
  <2>2. Checked'
    BY <2>1, StepKeeps, StutterKeeps
  <2>3. Tokens'
    BY <2>1, <2>2, StepKeepsTokens, StutterKeepsTokens
  <2> QED
    BY <2>1, <2>2, <2>3, StepCalm, StutterCalm
<1>3. Inv => NoFalseAlarm
  OBVIOUS
<1> QED
  BY <1>1, <1>2, <1>3, PTL DEF Spec

=============================================================================
