-------------------------- MODULE TaskTokens_proofs --------------------------
(***************************************************************************)
(* HW1: where a task is.  Every task waits at the master, is on its way to *)
(* or from its owner, is held by it, or is reserved for a transfer.        *)
(***************************************************************************)
EXTENDS TaskTransfer_proofs

USE TransferAssumption

-----------------------------------------------------------------------------
(* What the wires and a worker know of task k *)
TaskTypes == {"TASK", "TASK_CONFIRMED", "PROCESS_ACK", "TASK_ACK", "PROCESS_START", "RESULT"}
Speaks(x, k) == x.type \in TaskTypes /\ x.task.key = k
Of(q, k) == {x \in Range(q) : Speaks(x, k)}
Single(q) == \A i, j \in DOMAIN q : q[i] = q[j] /\ q[i].type \in TaskTypes => i = j
With(set, k) == {t \in set : t.key = k}
Queued(v, k) == With(Tasks(v), k)
Accepted(v, k) == With(v.accepted, k)
Current(v, k) == With(Range(v.current), k)

Unqueued(d, u, v, k) ==
  /\ Of(d, k) = {} /\ Of(u, k) = {} /\ Accepted(v, k) = {} /\ Current(v, k) = {} /\ k \notin v.stored
Blank(d, u, v, k) == Unqueued(d, u, v, k) /\ Queued(v, k) = {}

(* Its owner's wires d and u, and its owner v, when t is what the master knows of
   k: the task is handed over, judged, confirmed, may run, is started, runs, is
   finished and is stored. *)
Fits(x, t) == x.attempt = t.attempt
Handed(d, u, v, k, t) == \E x \in Of(d, k) :
  /\ t.state = "SENT" /\ Fits(x.task, t) /\ (x.task.failed <=> t.failedAt # None) /\ x.type = "TASK"
  /\ Of(d, k) = {x} /\ Of(u, k) = {} /\ Accepted(v, k) = {} /\ Queued(v, k) = {} /\ Current(v, k) = {}
  /\ k \notin v.stored
Judged(d, u, v, k, t) == \E x \in Of(u, k) :
  /\ t.state = "SENT" /\ Fits(x.task, t) /\ (x.task.failed <=> t.failedAt # None) /\ x.type = "TASK_ACK"
  /\ Of(u, k) = {x} /\ Of(d, k) = {} /\ Queued(v, k) = {} /\ Current(v, k) = {}
  /\ Accepted(v, k) = (IF x.accepted THEN {x.task} ELSE {})
  /\ k \notin v.stored
Confirmed(d, u, v, k, t) == \E x \in Of(d, k) :
  /\ t.state = "ACCEPTED" /\ Fits(x.task, t) /\ x.type = "TASK_CONFIRMED"
  /\ Of(d, k) = {x} /\ Of(u, k) = {} /\ Accepted(v, k) = {x.task} /\ Queued(v, k) = {} /\ Current(v, k) = {}
  /\ k \notin v.stored
Startable(d, u, v, k, t) == \E y \in Queued(v, k) :
  /\ t.state = "ACCEPTED" /\ Fits(y, t) /\ y.held = None
  /\ Queued(v, k) = {y} /\ Unqueued(d, u, v, k)
Started(d, u, v, k, t) == \E x \in Of(u, k) :
  /\ t.state = "ACCEPTED" /\ Fits(x.task, t) /\ x.type = "PROCESS_START"
  /\ Of(u, k) = {x} /\ Of(d, k) = {} /\ Accepted(v, k) = {} /\ Queued(v, k) = {} /\ Current(v, k) = {x.task}
  /\ k \notin v.stored
Running(d, u, v, k, t) == \E x \in Of(d, k) :
  /\ t.state = "PROCESSING" /\ Fits(x.task, t) /\ x.type = "PROCESS_ACK"
  /\ Of(d, k) = {x} /\ Of(u, k) = {} /\ Accepted(v, k) = {} /\ Queued(v, k) = {} /\ Current(v, k) = {x.task}
  /\ k \notin v.stored
Finished(d, u, v, k, t) == \E x \in Of(u, k) :
  /\ t.state = "PROCESSING" /\ Fits(x.task, t) /\ x.type = "RESULT"
  /\ Of(u, k) = {x} /\ Of(d, k) = {} /\ Accepted(v, k) = {} /\ Queued(v, k) = {} /\ Current(v, k) = {}
  /\ (x.success <=> k \in v.stored)
Stored(d, u, v, k, t) ==
  /\ t.state = "DONE" /\ k \in v.stored
  /\ Of(u, k) = {} /\ Of(d, k) = {} /\ Accepted(v, k) = {} /\ Queued(v, k) = {} /\ Current(v, k) = {}
Place(d, u, v, k, t) ==
  \/ Handed(d, u, v, k, t) \/ Judged(d, u, v, k, t) \/ Confirmed(d, u, v, k, t) \/ Startable(d, u, v, k, t)
  \/ Started(d, u, v, k, t) \/ Running(d, u, v, k, t) \/ Finished(d, u, v, k, t) \/ Stored(d, u, v, k, t)

Unassigned(m, down, up, wk, k) ==
  /\ m.task[k].state = "WAITING" /\ m.task[k].owner = None
  /\ \A z \in Worker : Blank(down[z], up[z], wk[z], k)
Owned(m, down, up, wk, k, o) ==
  /\ m.task[k].owner = o /\ Place(down[o], up[o], wk[o], k, m.task[k])
  /\ \A z \in Worker : z # o => Blank(down[z], up[z], wk[z], k)
(* y is reserved, and queued by some workers; o counts as the owner: the source,
   or the target that the master has told. *)
InTransfer(m, down, up, wk, k, o, y) ==
  /\ m.task[k].owner = o /\ m.task[k].state = "ACCEPTED" /\ Fits(y, m.task[k]) /\ y.held # None
  /\ \A z \in Worker : Unqueued(down[z], up[z], wk[z], k) /\ Queued(wk[z], k) \subseteq {y}
  /\ m.check[o] = y.held \/ (y.held \in m.transfers /\ y \in Queued(wk[o], k))
TaskOK(m, down, up, wk, k) ==
  \/ Unassigned(m, down, up, wk, k)
  \/ \E o \in Worker : Owned(m, down, up, wk, k, o)
  \/ \E o, h \in Worker : \E y \in Queued(wk[h], k) : InTransfer(m, down, up, wk, k, o, y)

(* The master's queues hold the tasks that wait, each once. *)
Once(q) == \A i, j \in DOMAIN q : q[i] = q[j] => i = j
WaitingOK(m) ==
  /\ Once(m.retry) /\ Once(m.fresh) /\ \A k \in Key : ~(k \in Range(m.retry) /\ k \in Range(m.fresh))
  /\ \A k \in Key : m.task[k].state = "WAITING" <=> k \in Range(m.retry) \/ k \in Range(m.fresh)
(* No task is twice in a queue, or in a list that is handed over. *)
Lists(v) == Apart(v.queue) /\ (v.receiving # <<>> => Apart(v.receiving[1].request.tasks))
ListsOK(up, wk, rq) ==
  /\ \A r \in rq : Apart(r.tasks)
  /\ \A w \in Worker : Lists(wk[w]) /\ \A x \in Range(up[w]) : x.type = "P2P_TRANSFER" => Apart(x.tasks)
TokensOK(m, down, up, wk, rq) ==
  /\ WaitingOK(m) /\ ListsOK(up, wk, rq)
  /\ \A w \in Worker : Single(down[w]) /\ Single(up[w])
  /\ \A k \in Key : TaskOK(m, down, up, wk, k)

-----------------------------------------------------------------------------
(* Messages about tasks *)

LEMMA TaskTaken ==
  ASSUME NEW S, NEW q \in Seq(S), q # <<>>, Single(q)
  PROVE  Single(Tail(q)) /\ \A k : Of(Tail(q), k) = Of(q, k) \ {Head(q)}
<1>1. \A i \in DOMAIN Tail(q) : i \in Nat /\ i + 1 \in DOMAIN q /\ i + 1 # 1 /\ Tail(q)[i] = q[i + 1]
  BY MessageTaken
<1>2. Single(Tail(q))
  BY <1>1 DEF Single
<1>3. ASSUME Head(q).type \in TaskTypes PROVE Head(q) \notin Range(Tail(q))
  BY <1>1, <1>3, MessageTaken DEF Single, Range
<1> QED
  BY <1>2, <1>3, MessageTaken DEF Of, Speaks

LEMMA TaskSent ==
  ASSUME NEW S, NEW q \in Seq(S), NEW x \in S, Single(q), x.type \in TaskTypes => x \notin Of(q, x.task.key)
  PROVE  Single(Append(q, x))
<1>1. \A i \in DOMAIN Append(q, x) : i \in DOMAIN q \/ i = Len(q) + 1
  BY MessageSent
<1>2. \A i \in DOMAIN q : q[i] \in Range(q) /\ Append(q, x)[i] = q[i]
  BY MessageSent DEF Range
<1>3. x.type \in TaskTypes => x \notin Range(q)
  BY DEF Of, Speaks
<1> SUFFICES ASSUME NEW i \in DOMAIN Append(q, x), NEW j \in DOMAIN Append(q, x),
                    Append(q, x)[i] = Append(q, x)[j], Append(q, x)[i].type \in TaskTypes
             PROVE  i = j
  BY DEF Single
<1> QED
  BY <1>1, <1>2, <1>3, MessageSent DEF Single

(* The task messages of all wires of one direction are distinct. *)
Distinct(f) == \A z \in Worker : Single(f[z])
SameOf(f, g, k) == \A z \in Worker : Of(g[z], k) = Of(f[z], k)
HeadOf(f, w) == Head(f[w])
Minus(set, x) == set \ {x}
Plus(set, x) == set \cup {x}
Only(set, x) == set = {x}

LEMMA TaskWireTaken ==
  ASSUME NEW S, NEW f \in [Worker -> Seq(S)], NEW w \in Worker, f[w] # <<>>, Distinct(f)
  PROVE  /\ Took(f, w) \in [Worker -> Seq(S)] /\ Distinct(Took(f, w))
         /\ \A z \in Worker : z # w => Took(f, w)[z] = f[z]
         /\ HeadOf(f, w) \in S /\ HeadOf(f, w) \in Range(f[w])
         /\ \A k : Of(Took(f, w)[w], k) = Minus(Of(f[w], k), HeadOf(f, w))
         /\ \A k : ~Speaks(HeadOf(f, w), k) => SameOf(f, Took(f, w), k)
         /\ \A z \in Worker : Range(Took(f, w)[z]) \subseteq Range(f[z])
<1>1. f[w] \in Seq(S) /\ Single(f[w])
  BY DEF Distinct
<1>2. /\ Took(f, w)[w] = Tail(f[w]) /\ \A z \in Worker : z # w => Took(f, w)[z] = f[z]
      /\ Took(f, w) \in [Worker -> Seq(S)]
  BY <1>1, MessageTaken DEF Took
<1>3. Single(Tail(f[w])) /\ \A k : Of(Tail(f[w]), k) = Of(f[w], k) \ {Head(f[w])}
  BY <1>1, TaskTaken
<1>4. HeadOf(f, w) \in S /\ HeadOf(f, w) \in Range(f[w]) /\ Range(Tail(f[w])) \subseteq Range(f[w])
  BY <1>1, MessageTaken DEF HeadOf
<1>5. Distinct(Took(f, w))
  BY <1>2, <1>3 DEF Distinct
<1>6. \A k : Of(Took(f, w)[w], k) = Minus(Of(f[w], k), HeadOf(f, w))
  BY <1>2, <1>3 DEF Minus, HeadOf
<1>7. ASSUME NEW k, ~Speaks(HeadOf(f, w), k) PROVE SameOf(f, Took(f, w), k)
  <2>1. HeadOf(f, w) \notin Of(f[w], k)
    BY <1>7 DEF Of
  <2> QED
    BY <1>2, <1>6, <2>1 DEF SameOf, Minus
<1> QED
  BY <1>2, <1>4, <1>5, <1>6, <1>7

LEMMA TaskWireSent ==
  ASSUME NEW S, NEW f \in [Worker -> Seq(S)], NEW w \in Worker, NEW x \in S, Distinct(f),
         x.type \in TaskTypes => Of(f[w], x.task.key) = {}
  PROVE  /\ Put(f, w, x) \in [Worker -> Seq(S)] /\ Distinct(Put(f, w, x))
         /\ \A z \in Worker : z # w => Put(f, w, x)[z] = f[z]
         /\ \A k : Speaks(x, k) => Only(Of(Put(f, w, x)[w], k), x)
         /\ \A k : ~Speaks(x, k) => SameOf(f, Put(f, w, x), k)
         /\ Range(Put(f, w, x)[w]) = Plus(Range(f[w]), x)
<1>1. f[w] \in Seq(S) /\ Single(f[w])
  BY DEF Distinct
<1>2. /\ Put(f, w, x)[w] = Append(f[w], x) /\ \A z \in Worker : z # w => Put(f, w, x)[z] = f[z]
      /\ Put(f, w, x) \in [Worker -> Seq(S)]
  BY <1>1, MessageSent DEF Put
<1>3. Single(Append(f[w], x))
  BY <1>1, TaskSent
<1>4. Range(Append(f[w], x)) = Range(f[w]) \cup {x}
  BY <1>1, MessageSent
<1>5. \A k : Speaks(x, k) => Of(Append(f[w], x), k) = {x}
  <2>1. \A k : Speaks(x, k) => Of(f[w], k) = {}
    BY DEF Speaks
  <2> QED
    BY <1>4, <2>1 DEF Of
<1>6. \A k : ~Speaks(x, k) => Of(Append(f[w], x), k) = Of(f[w], k)
  BY <1>4 DEF Of
<1>7. Distinct(Put(f, w, x))
  BY <1>2, <1>3 DEF Distinct
<1>8. \A k : ~Speaks(x, k) => SameOf(f, Put(f, w, x), k)
  BY <1>2, <1>6 DEF SameOf
<1> QED
  BY <1>2, <1>4, <1>5, <1>7, <1>8 DEF Plus, Only

(* Messages that are not about tasks. *)
NoTasks(ms) == \A x \in Range(ms) : x.type \notin TaskTypes

LEMMA QuietMessages ==
  ASSUME NEW f \in [Worker -> Seq(Up)], NEW w \in Worker, NEW ms \in Seq(Up), Distinct(f), NoTasks(ms)
  PROVE  /\ Sends(f, w, ms) \in [Worker -> Seq(Up)] /\ Distinct(Sends(f, w, ms))
         /\ \A z \in Worker : z # w => Sends(f, w, ms)[z] = f[z]
         /\ \A k : SameOf(f, Sends(f, w, ms), k)
         /\ \A x \in Range(Sends(f, w, ms)[w]) : x \in Range(f[w]) \/ x \in Range(ms)
<1> DEFINE q == f[w]
           p == q \o ms
<1>1. q \in Seq(Up) /\ Single(q)
  BY DEF Distinct
<1>2. p \in Seq(Up) /\ Range(p) = Range(q) \cup Range(ms)
  BY <1>1, TasksQueued
<1>3. Sends(f, w, ms)[w] = p /\ Sends(f, w, ms) \in [Worker -> Seq(Up)]
      /\ \A z \in Worker : z # w => Sends(f, w, ms)[z] = f[z]
  BY <1>2 DEF Sends
<1> HIDE DEF q
<1>4. \A i \in DOMAIN p : (i \in DOMAIN q /\ p[i] = q[i]) \/ p[i].type \notin TaskTypes
  <2>1. /\ Len(q) \in Nat /\ Len(ms) \in Nat /\ DOMAIN q = 1..Len(q) /\ DOMAIN ms = 1..Len(ms)
        /\ DOMAIN p = 1..(Len(q) + Len(ms))
        /\ \A i \in 1..(Len(q) + Len(ms)) : p[i] = IF i <= Len(q) THEN q[i] ELSE ms[i - Len(q)]
    BY <1>1, <1>2, ConcatProperties, LenProperties
  <2>2. \A i \in DOMAIN ms : ms[i].type \notin TaskTypes
    BY DEF NoTasks, Range
  <2> HIDE DEF p
  <2>3. \A i \in DOMAIN p : i \in DOMAIN q \/ (i - Len(q) \in DOMAIN ms /\ p[i] = ms[i - Len(q)])
    BY <2>1
  <2> QED
    BY <2>1, <2>2, <2>3
<1> HIDE DEF p
<1>5. Single(p)
  BY <1>1, <1>4 DEF Single
<1>6. \A k : Of(p, k) = Of(q, k)
  BY <1>2 DEF Of, Speaks, NoTasks
<1> QED
  BY <1>2, <1>3, <1>5, <1>6 DEF Distinct, SameOf, q

-----------------------------------------------------------------------------
(* What a step leaves alone *)

SameHeld(v, v2, k) ==
  /\ Accepted(v2, k) = Accepted(v, k) /\ Queued(v2, k) = Queued(v, k) /\ Current(v2, k) = Current(v, k)
  /\ k \in v2.stored <=> k \in v.stored
SameHolders(wk, wk2, k) == \A z \in Worker : SameHeld(wk[z], wk2[z], k)
(* The master keeps what a transfer of task k depends on. *)
SameClaims(m, m2, wk, k) ==
  /\ m2.task[k] = m.task[k]
  /\ \A o, h \in Worker : \A y \in Queued(wk[h], k) :
       /\ y.held # None /\ m.check[o] = y.held => m2.check[o] = y.held
       /\ y.held \in m.transfers => y.held \in m2.transfers

LEMMA BlankKept ==
  ASSUME NEW d, NEW u, NEW v, NEW d2, NEW u2, NEW v2, NEW k,
         Of(d2, k) = Of(d, k), Of(u2, k) = Of(u, k), SameHeld(v, v2, k)
  PROVE  /\ Blank(d, u, v, k) => Blank(d2, u2, v2, k)
         /\ Unqueued(d, u, v, k) => Unqueued(d2, u2, v2, k)
BY DEF Blank, Unqueued, SameHeld

LEMMA PlaceKept ==
  ASSUME NEW d, NEW u, NEW v, NEW d2, NEW u2, NEW v2, NEW k, NEW t, Place(d, u, v, k, t),
         Of(d2, k) = Of(d, k), Of(u2, k) = Of(u, k), SameHeld(v, v2, k)
  PROVE  Place(d2, u2, v2, k, t)
<1>1. /\ Accepted(v2, k) = Accepted(v, k) /\ Queued(v2, k) = Queued(v, k) /\ Current(v2, k) = Current(v, k)
      /\ k \in v2.stored <=> k \in v.stored
  BY DEF SameHeld
<1>2. CASE Handed(d, u, v, k, t)
  BY <1>1, <1>2 DEF Handed, Place
<1>3. CASE Judged(d, u, v, k, t)
  BY <1>1, <1>3 DEF Judged, Place
<1>4. CASE Confirmed(d, u, v, k, t)
  BY <1>1, <1>4 DEF Confirmed, Place
<1>5. CASE Startable(d, u, v, k, t)
  BY <1>1, <1>5, BlankKept DEF Startable, Place
<1>6. CASE Started(d, u, v, k, t)
  BY <1>1, <1>6 DEF Started, Place
<1>7. CASE Running(d, u, v, k, t)
  BY <1>1, <1>7 DEF Running, Place
<1>8. CASE Finished(d, u, v, k, t)
  BY <1>1, <1>8 DEF Finished, Place
<1>9. CASE Stored(d, u, v, k, t)
  BY <1>1, <1>9 DEF Stored, Place
<1> QED
  BY <1>2, <1>3, <1>4, <1>5, <1>6, <1>7, <1>8, <1>9 DEF Place

LEMMA TaskKept ==
  ASSUME NEW m, NEW down, NEW up, NEW wk, NEW m2, NEW down2, NEW up2, NEW wk2, NEW k,
         TaskOK(m, down, up, wk, k), SameClaims(m, m2, wk, k),
         SameOf(down, down2, k), SameOf(up, up2, k), SameHolders(wk, wk2, k)
  PROVE  TaskOK(m2, down2, up2, wk2, k)
<1>1. m2.task[k] = m.task[k]
  BY DEF SameClaims
<1>2. \A z \in Worker : /\ Of(down2[z], k) = Of(down[z], k) /\ Of(up2[z], k) = Of(up[z], k)
                        /\ SameHeld(wk[z], wk2[z], k) /\ Queued(wk2[z], k) = Queued(wk[z], k)
  BY DEF SameOf, SameHolders, SameHeld
<1>3. \A z \in Worker :
        /\ Blank(down[z], up[z], wk[z], k) => Blank(down2[z], up2[z], wk2[z], k)
        /\ Unqueued(down[z], up[z], wk[z], k) => Unqueued(down2[z], up2[z], wk2[z], k)
  BY <1>2, BlankKept
<1>4. CASE Unassigned(m, down, up, wk, k)
  BY <1>1, <1>3, <1>4 DEF Unassigned, TaskOK
<1>5. ASSUME NEW o \in Worker, Owned(m, down, up, wk, k, o) PROVE Owned(m2, down2, up2, wk2, k, o)
  <2>1. Place(down2[o], up2[o], wk2[o], k, m2.task[k])
    BY <1>1, <1>2, <1>5, PlaceKept DEF Owned
  <2> QED
    BY <1>1, <1>3, <1>5, <2>1 DEF Owned
<1>6. ASSUME NEW o \in Worker, NEW h \in Worker, NEW y \in Queued(wk[h], k), InTransfer(m, down, up, wk, k, o, y)
      PROVE  InTransfer(m2, down2, up2, wk2, k, o, y) /\ y \in Queued(wk2[h], k)
  <2>1. m2.check[o] = y.held \/ (y.held \in m2.transfers /\ y \in Queued(wk2[o], k))
    BY <1>2, <1>6 DEF InTransfer, SameClaims
  <2> QED
    BY <1>1, <1>2, <1>3, <1>6, <2>1 DEF InTransfer
<1> QED
  BY <1>4, <1>5, <1>6 DEF TaskOK

(* Only tasks in K may have changed. *)
LEMMA TokensElsewhere ==
  ASSUME NEW m, NEW down, NEW up, NEW wk, NEW rq, TokensOK(m, down, up, wk, rq),
         NEW m2, NEW down2, NEW up2, NEW wk2, NEW rq2, NEW K,
         WaitingOK(m2), ListsOK(up2, wk2, rq2), Distinct(down2), Distinct(up2),
         \A k \in Key \cap K : TaskOK(m2, down2, up2, wk2, k),
         \A k \in Key \ K : SameClaims(m, m2, wk, k),
         \A k \in Key \ K : SameOf(down, down2, k),
         \A k \in Key \ K : SameOf(up, up2, k),
         \A k \in Key \ K : SameHolders(wk, wk2, k)
  PROVE  TokensOK(m2, down2, up2, wk2, rq2)
<1>1. ASSUME NEW k \in Key, k \notin K PROVE TaskOK(m2, down2, up2, wk2, k)
  <2>1. TaskOK(m, down, up, wk, k)
    BY DEF TokensOK
  <2> QED
    BY <1>1, <2>1, TaskKept
<1> QED
  BY <1>1 DEF TokensOK, Distinct

LEMMA NothingMoved ==
  ASSUME NEW m, NEW f, NEW wk, NEW k
  PROVE  SameClaims(m, m, wk, k) /\ SameOf(f, f, k) /\ SameHolders(wk, wk, k)
BY DEF SameClaims, SameOf, SameHolders, SameHeld

(* What a message about a task says. *)
LEMMA DownTask ==
  ASSUME NEW m, NEW down, NEW up, NEW wk, NEW k \in Key, NEW w \in Worker, TaskOK(m, down, up, wk, k),
         NEW x, x \in Of(down[w], k)
  PROVE  /\ Owned(m, down, up, wk, k, w) /\ x.task.key = k
         /\ x.type = "TASK" => Handed(down[w], up[w], wk[w], k, m.task[k])
         /\ x.type = "TASK_CONFIRMED" => Confirmed(down[w], up[w], wk[w], k, m.task[k])
         /\ x.type = "PROCESS_ACK" => Running(down[w], up[w], wk[w], k, m.task[k])
         /\ x.type \in {"TASK", "TASK_CONFIRMED", "PROCESS_ACK"}
<1>1. ~Blank(down[w], up[w], wk[w], k) /\ ~Unqueued(down[w], up[w], wk[w], k) /\ x.task.key = k
  BY DEF Blank, Unqueued, Of, Speaks
<1>2. Owned(m, down, up, wk, k, w)
  BY <1>1 DEF TaskOK, Unassigned, Owned, InTransfer
<1>3. Place(down[w], up[w], wk[w], k, m.task[k])
  BY <1>2 DEF Owned
<1>4. /\ ~Judged(down[w], up[w], wk[w], k, m.task[k]) /\ ~Startable(down[w], up[w], wk[w], k, m.task[k])
      /\ ~Started(down[w], up[w], wk[w], k, m.task[k]) /\ ~Finished(down[w], up[w], wk[w], k, m.task[k])
      /\ ~Stored(down[w], up[w], wk[w], k, m.task[k])
  BY <1>1 DEF Judged, Startable, Started, Finished, Stored
<1>5. CASE Handed(down[w], up[w], wk[w], k, m.task[k])
  BY <1>1, <1>2, <1>5 DEF Handed
<1>6. CASE Confirmed(down[w], up[w], wk[w], k, m.task[k])
  BY <1>1, <1>2, <1>6 DEF Confirmed
<1>7. CASE Running(down[w], up[w], wk[w], k, m.task[k])
  BY <1>1, <1>2, <1>7 DEF Running
<1> QED
  BY <1>3, <1>4, <1>5, <1>6, <1>7 DEF Place

LEMMA UpTask ==
  ASSUME NEW m, NEW down, NEW up, NEW wk, NEW k \in Key, NEW w \in Worker, TaskOK(m, down, up, wk, k),
         NEW x, x \in Of(up[w], k)
  PROVE  /\ Owned(m, down, up, wk, k, w) /\ x.task.key = k
         /\ x.type = "TASK_ACK" => Judged(down[w], up[w], wk[w], k, m.task[k])
         /\ x.type = "PROCESS_START" => Started(down[w], up[w], wk[w], k, m.task[k])
         /\ x.type = "RESULT" => Finished(down[w], up[w], wk[w], k, m.task[k])
         /\ x.type \in {"TASK_ACK", "PROCESS_START", "RESULT"}
<1>1. ~Blank(down[w], up[w], wk[w], k) /\ ~Unqueued(down[w], up[w], wk[w], k) /\ x.task.key = k
  BY DEF Blank, Unqueued, Of, Speaks
<1>2. Owned(m, down, up, wk, k, w)
  BY <1>1 DEF TaskOK, Unassigned, Owned, InTransfer
<1>3. Place(down[w], up[w], wk[w], k, m.task[k])
  BY <1>2 DEF Owned
<1>4. /\ ~Handed(down[w], up[w], wk[w], k, m.task[k]) /\ ~Startable(down[w], up[w], wk[w], k, m.task[k])
      /\ ~Confirmed(down[w], up[w], wk[w], k, m.task[k]) /\ ~Running(down[w], up[w], wk[w], k, m.task[k])
      /\ ~Stored(down[w], up[w], wk[w], k, m.task[k])
  BY <1>1 DEF Handed, Startable, Confirmed, Running, Stored
<1>5. CASE Judged(down[w], up[w], wk[w], k, m.task[k])
  BY <1>1, <1>2, <1>5 DEF Judged
<1>6. CASE Started(down[w], up[w], wk[w], k, m.task[k])
  BY <1>1, <1>2, <1>6 DEF Started
<1>7. CASE Finished(down[w], up[w], wk[w], k, m.task[k])
  BY <1>1, <1>2, <1>7 DEF Finished
<1> QED
  BY <1>3, <1>4, <1>5, <1>6, <1>7 DEF Place

-----------------------------------------------------------------------------
(* A round of the master *)

LEMMA OnceTail ==
  ASSUME NEW S, NEW q \in Seq(S), q # <<>>, Once(q)
  PROVE  /\ Once(Tail(q)) /\ Head(q) \in Range(q)
         /\ \A x : x \in Range(Tail(q)) <=> x \in Range(q) /\ x # Head(q)
<1>1. \A i \in DOMAIN Tail(q) : i \in Nat /\ i + 1 \in DOMAIN q /\ i + 1 # 1 /\ Tail(q)[i] = q[i + 1]
  BY MessageTaken
<1>2. Once(Tail(q))
  BY <1>1 DEF Once
<1>3. Head(q) \notin Range(Tail(q))
  BY <1>1, MessageTaken DEF Once, Range
<1> QED
  BY <1>2, <1>3, MessageTaken

LEMMA OnceAppend ==
  ASSUME NEW S, NEW q \in Seq(S), NEW x \in S, Once(q), x \notin Range(q)
  PROVE  /\ Append(q, x) \in Seq(S) /\ Once(Append(q, x))
         /\ \A y : y \in Range(Append(q, x)) <=> y \in Range(q) \/ y = x
<1>1. \A i \in DOMAIN Append(q, x) : i \in DOMAIN q \/ i = Len(q) + 1
  BY MessageSent
<1>2. \A i \in DOMAIN q : q[i] \in Range(q) /\ Append(q, x)[i] = q[i]
  BY MessageSent DEF Range
<1>3. Once(Append(q, x))
  <2> SUFFICES ASSUME NEW i \in DOMAIN Append(q, x), NEW j \in DOMAIN Append(q, x),
                      Append(q, x)[i] = Append(q, x)[j]
               PROVE  i = j
    BY DEF Once
  <2> QED
    BY <1>1, <1>2, MessageSent DEF Once
<1> QED
  BY <1>3, MessageSent

LEMMA FirstWaiting ==
  ASSUME NEW m \in Masters, Waiting(m) # <<>>
  PROVE  /\ Head(Waiting(m)) \in Key
         /\ m.retry # <<>> => Head(Waiting(m)) = Head(m.retry)
         /\ m.retry = <<>> => m.fresh # <<>> /\ Head(Waiting(m)) = Head(m.fresh)
<1>1. m.retry \in Seq(Key) /\ m.fresh \in Seq(Key) /\ Waiting(m) = m.retry \o m.fresh
  BY Fields DEF Waiting
<1>2. Waiting(m) \in Seq(Key)
  BY <1>1, ConcatProperties
<1>3. Head(Waiting(m)) \in Key /\ Head(Waiting(m)) = Waiting(m)[1]
  BY <1>2, MessageTaken
<1>4. ASSUME m.retry # <<>> PROVE Head(Waiting(m)) = Head(m.retry)
  <2>1. Len(m.retry) \in Nat \ {0} /\ Head(m.retry) = m.retry[1]
    BY <1>1, <1>4, MessageTaken
  <2>2. Waiting(m)[1] = m.retry[1]
    <3> DEFINE a == m.retry
               b == m.fresh
    <3>1. Len(b) \in Nat /\ \A i \in 1..(Len(a) + Len(b)) : (a \o b)[i] = IF i <= Len(a) THEN a[i] ELSE b[i - Len(a)]
      BY <1>1, ConcatProperties, LenProperties, ZenonT(40)
    <3> HIDE DEF a, b
    <3>2. 1 \in 1..(Len(a) + Len(b)) /\ 1 <= Len(a)
      BY <2>1, <3>1 DEF a
    <3>3. (a \o b)[1] = a[1]
      BY <3>1, <3>2
    <3> QED
      BY <1>1, <3>3 DEF a, b
  <2> QED
    BY <1>3, <2>1, <2>2
<1>5. ASSUME m.retry = <<>> PROVE m.fresh # <<>> /\ Head(Waiting(m)) = Head(m.fresh)
  <2>1. Waiting(m) = m.fresh
    BY <1>1, <1>5, ConcatEmptySeq
  <2> QED
    BY <2>1
<1> QED
  BY <1>3, <1>4, <1>5

(* The first task that waits is assigned to w. *)
AssignedTask(t, w) == [t EXCEPT !.state = "SENT", !.owner = w, !.attempt = @ + 1]
AssignState(m, k, w) ==
  [m EXCEPT !.retry = IF @ = <<>> THEN @ ELSE Tail(@),
            !.fresh = IF m.retry = <<>> THEN Tail(@) ELSE @,
            !.task[k] = AssignedTask(m.task[k], w),
            !.pending[w] = @ \cup {k},
            !.last = w]
AssignMessage(m, k) ==
  [type |-> "TASK", task |-> [key |-> k, attempt |-> m.task[k].attempt + 1,
                              failed |-> m.task[k].failedAt # None, held |-> None]]
Assigned(s, k, w) ==
  [m |-> AssignState(s.m, k, w), wire |-> Put(s.wire, w, AssignMessage(s.m, k))]

LEMMA SendShape ==
  ASSUME NEW m, NEW wire, NEW w, NEW x
  PROVE  Send([m |-> m, wire |-> wire], w, x) = [m |-> m, wire |-> Put(wire, w, x)]
<1> DEFINE s == [m |-> m, wire |-> wire]
           f == Put(wire, w, x)
<1>1. s.wire = wire
  OBVIOUS
<1>2. Send(s, w, x) = [s EXCEPT !.wire = Put(s.wire, w, x)]
  BY Zenon DEF Send, Put
<1>3. Put(s.wire, w, x) = f
  BY <1>1, Zenon
<1>4. Send(s, w, x) = [s EXCEPT !.wire = f]
  BY <1>2, <1>3, Zenon
<1> HIDE DEF f
<1>5. [s EXCEPT !.wire = f] = [m |-> m, wire |-> f]
  OBVIOUS
<1> QED
  BY <1>4, <1>5, Zenon DEF f

LEMMA AssignShape ==
  ASSUME NEW s \in [m : Masters, wire : [Worker -> Seq(Down)]], AssignNext(s) # s
  PROVE  /\ Waiting(s.m) # <<>>
         /\ \E w \in Worker : AssignNext(s) = Assigned(s, Head(Waiting(s.m)), w)
<1> DEFINE m == s.m
           k == Head(Waiting(m))
           t == m.task[k]
           w == ChooseWorker(m, t.failedAt)
           task == [key |-> k, attempt |-> t.attempt + 1, failed |-> t.failedAt # None, held |-> None]
           x == [type |-> "TASK", task |-> task]
           m2 == [m EXCEPT
             !.retry = IF @ = <<>> THEN @ ELSE Tail(@),
             !.fresh = IF m.retry = <<>> THEN Tail(@) ELSE @,
             !.task[k] = [t EXCEPT !.state = "SENT", !.owner = w, !.attempt = @ + 1],
             !.pending[w] = @ \cup {k},
             !.last = w]
<1>1. Waiting(m) # <<>> /\ Candidates(m, t.failedAt) # {}
  BY Zenon DEF AssignNext
<1>2. w \in Worker
  BY <1>1, WorkerChosen DEF Candidates
<1>3. AssignNext(s) = Send([m |-> m2, wire |-> s.wire], w, x)
  BY <1>1, Zenon DEF AssignNext
<1>4. Send([m |-> m2, wire |-> s.wire], w, x) = [m |-> m2, wire |-> Put(s.wire, w, x)]
  BY SendShape
<1>5. m2 = AssignState(s.m, k, w) /\ x = AssignMessage(s.m, k)
  BY Zenon DEF AssignState, AssignedTask, AssignMessage
<1>6. AssignNext(s) = Assigned(s, k, w)
  <2> HIDE DEF m2, k, w, x, m
  <2> QED
    BY <1>3, <1>4, <1>5, Zenon DEF Assigned, m
<1> QED
  BY <1>1, <1>2, <1>6

LEMMA AssignFields ==
  ASSUME NEW m \in Masters, Waiting(m) # <<>>, NEW k, k = Head(Waiting(m)), NEW w \in Worker
  PROVE  LET m2 == AssignState(m, k, w)
         IN  /\ m2 \in Masters /\ m2.check = m.check /\ m2.transfers = m.transfers
             /\ \A j \in Key : j # k => m2.task[j] = m.task[j]
             /\ m2.task[k].state = "SENT" /\ m2.task[k].owner = w
             /\ m2.task[k].attempt = m.task[k].attempt + 1 /\ m2.task[k].failedAt = m.task[k].failedAt
             /\ m2.retry = (IF m.retry = <<>> THEN m.retry ELSE Tail(m.retry))
             /\ m2.fresh = (IF m.retry = <<>> THEN Tail(m.fresh) ELSE m.fresh)
<1> DEFINE a == AssignedTask(m.task[k], w)
           b == [m.task EXCEPT ![k] = a]
           p == [m.pending EXCEPT ![w] = @ \cup {k}]
           r == IF m.retry = <<>> THEN m.retry ELSE Tail(m.retry)
           f == IF m.retry = <<>> THEN Tail(m.fresh) ELSE m.fresh
           m2 == [m EXCEPT !.retry = r, !.fresh = f, !.task = b, !.pending = p, !.last = w]
<1>1. k \in Key /\ m.task \in [Key -> TaskState] /\ m.retry \in Seq(Key) /\ m.fresh \in Seq(Key)
  BY FirstWaiting, Fields
<1>2. m.task[k] \in TaskState /\ m.task[k].attempt + 1 \in Nat
  BY <1>1 DEF TaskState
<1>3. /\ a \in TaskState /\ a.state = "SENT" /\ a.owner = w
      /\ a.attempt = m.task[k].attempt + 1 /\ a.failedAt = m.task[k].failedAt
  BY <1>2 DEF TaskState, AssignedTask
<1> HIDE DEF a
<1>4. b \in [Key -> TaskState] /\ b[k] = a /\ \A j \in Key : j # k => b[j] = m.task[j]
  BY <1>1, <1>3
<1>5. p \in [Worker -> SUBSET Key]
  BY <1>1 DEF Masters
<1>6. r \in Seq(Key) /\ f \in Seq(Key)
  BY <1>1, FirstWaiting, MessageTaken
<1>7. AssignState(m, k, w) = m2
  BY DEF AssignState, a
<1> HIDE DEF b, p, r, f
<1>8. /\ m2 \in Masters /\ m2.check = m.check /\ m2.transfers = m.transfers /\ m2.task = b
      /\ m2.retry = r /\ m2.fresh = f
  BY <1>4, <1>5, <1>6 DEF Masters
<1> HIDE DEF m2
<1> QED
  BY <1>3, <1>4, <1>7, <1>8 DEF r, f

LEMMA AssignQueues ==
  ASSUME NEW m \in Masters, Waiting(m) # <<>>, NEW k, k = Head(Waiting(m)), NEW w \in Worker, WaitingOK(m)
  PROVE  WaitingOK(AssignState(m, k, w)) /\ m.task[k].state = "WAITING"
<1> DEFINE m2 == AssignState(m, k, w)
<1>1. k \in Key /\ m.retry \in Seq(Key) /\ m.fresh \in Seq(Key)
  BY FirstWaiting, Fields
<1>2. /\ \A j \in Key : j # k => m2.task[j] = m.task[j]
      /\ m2.task[k].state = "SENT"
      /\ m2.retry = (IF m.retry = <<>> THEN m.retry ELSE Tail(m.retry))
      /\ m2.fresh = (IF m.retry = <<>> THEN Tail(m.fresh) ELSE m.fresh)
  BY AssignFields
<1> HIDE DEF m2
<1>3. /\ Once(m.retry) /\ Once(m.fresh) /\ \A j \in Key : ~(j \in Range(m.retry) /\ j \in Range(m.fresh))
      /\ \A j \in Key : m.task[j].state = "WAITING" <=> j \in Range(m.retry) \/ j \in Range(m.fresh)
  BY DEF WaitingOK
<1>4. ASSUME m.retry # <<>> PROVE WaitingOK(m2) /\ m.task[k].state = "WAITING"
  <2>1. /\ Once(Tail(m.retry)) /\ k \in Range(m.retry)
        /\ \A x : x \in Range(Tail(m.retry)) <=> x \in Range(m.retry) /\ x # k
    BY <1>1, <1>3, <1>4, OnceTail, FirstWaiting
  <2> QED
    BY <1>1, <1>2, <1>3, <1>4, <2>1 DEF WaitingOK
<1>5. ASSUME m.retry = <<>> PROVE WaitingOK(m2) /\ m.task[k].state = "WAITING"
  <2>1. /\ Once(Tail(m.fresh)) /\ k \in Range(m.fresh)
        /\ \A x : x \in Range(Tail(m.fresh)) <=> x \in Range(m.fresh) /\ x # k
    BY <1>1, <1>3, <1>5, OnceTail, FirstWaiting
  <2> QED
    BY <1>1, <1>2, <1>3, <1>5, <2>1 DEF WaitingOK
<1> QED
  BY <1>4, <1>5 DEF m2

LEMMA WaitingMeans ==
  ASSUME NEW m, NEW down, NEW up, NEW wk, NEW k, TaskOK(m, down, up, wk, k), m.task[k].state = "WAITING"
  PROVE  Unassigned(m, down, up, wk, k)
<1>1. ASSUME NEW o, Owned(m, down, up, wk, k, o) PROVE FALSE
  BY <1>1 DEF Owned, Place, Handed, Judged, Confirmed, Startable, Started, Running, Finished, Stored
<1>2. ASSUME NEW o, NEW y, InTransfer(m, down, up, wk, k, o, y) PROVE FALSE
  BY <1>2 DEF InTransfer
<1> QED
  BY <1>1, <1>2 DEF TaskOK

(* What the master may have done, when the tasks are in order. *)
Turns(up, wk, rq) ==
  {s \in [m : Masters, wire : [Worker -> Seq(Down)]] : TokensOK(s.m, s.wire, up, wk, rq)}

(* The master's queues, its messages and what it knows of the tasks in K change. *)
LEMMA MasterTurn ==
  ASSUME NEW up, NEW wk, NEW rq, NEW s \in Turns(up, wk, rq),
         NEW m2 \in Masters, NEW down2 \in [Worker -> Seq(Down)], NEW K, WaitingOK(m2), Distinct(down2),
         \A k \in Key \cap K : TaskOK(m2, down2, up, wk, k),
         \A k \in Key \ K : SameClaims(s.m, m2, wk, k),
         \A k \in Key \ K : SameOf(s.wire, down2, k)
  PROVE  [m |-> m2, wire |-> down2] \in Turns(up, wk, rq)
<1>1. TokensOK(s.m, s.wire, up, wk, rq) /\ ListsOK(up, wk, rq) /\ Distinct(up)
  BY DEF Turns, TokensOK, Distinct
<1>2. \A k : SameOf(up, up, k) /\ SameHolders(wk, wk, k)
  BY NothingMoved
<1>3. TokensOK(m2, down2, up, wk, rq)
  BY <1>1, <1>2, TokensElsewhere
<1> QED
  BY <1>3 DEF Turns

LEMMA ToHanded ==
  ASSUME NEW d, NEW u, NEW v, NEW k, NEW t, NEW d2, NEW x, Blank(d, u, v, k), Only(Of(d2, k), x),
         x.type = "TASK", t.state = "SENT", Fits(x.task, t), x.task.failed <=> t.failedAt # None
  PROVE  Handed(d2, u, v, k, t)
BY DEF Handed, Blank, Unqueued, Only

LEMMA AssignTokens ==
  ASSUME NEW up, NEW wk, NEW rq, NEW s \in Turns(up, wk, rq)
  PROVE  AssignNext(s) \in Turns(up, wk, rq)
<1> SUFFICES ASSUME AssignNext(s) # s PROVE AssignNext(s) \in Turns(up, wk, rq)
  OBVIOUS
<1> DEFINE m == s.m
           k == Head(Waiting(m))
<1>1. /\ s \in [m : Masters, wire : [Worker -> Seq(Down)]] /\ m \in Masters /\ s.wire \in [Worker -> Seq(Down)]
      /\ TokensOK(m, s.wire, up, wk, rq)
  BY DEF Turns
<1>2. Waiting(m) # <<>> /\ \E w \in Worker : AssignNext(s) = Assigned(s, k, w)
  BY <1>1, AssignShape
<1>3. PICK w \in Worker : AssignNext(s) = Assigned(s, k, w)
  BY <1>2
<1> DEFINE m2 == AssignState(m, k, w)
           x == AssignMessage(m, k)
           down2 == Put(s.wire, w, x)
<1>4. k \in Key /\ m.task \in [Key -> TaskState]
  BY <1>1, <1>2, FirstWaiting, Fields
<1>5. /\ x \in Down /\ x.type = "TASK" /\ x.task.key = k /\ x.task.attempt = m.task[k].attempt + 1
      /\ (x.task.failed <=> m.task[k].failedAt # None) /\ Speaks(x, k) /\ \A j : j # k => ~Speaks(x, j)
  <2>1. m.task[k].attempt + 1 \in Nat
    BY <1>4 DEF TaskState
  <2>2. x.task \in FreeTask
    BY <1>4, <2>1 DEF AssignMessage, FreeTask, TaskRec
  <2>3. x \in Down
    BY <2>2 DEF Down, AssignMessage
  <2>4. x.type = "TASK" /\ x.task.key = k /\ x.task.attempt = m.task[k].attempt + 1
        /\ (x.task.failed <=> m.task[k].failedAt # None)
    BY DEF AssignMessage
  <2> QED
    BY <2>3, <2>4 DEF Speaks, TaskTypes
<1> HIDE DEF x
<1>6. WaitingOK(m) /\ TaskOK(m, s.wire, up, wk, k) /\ Distinct(s.wire)
  BY <1>1, <1>4 DEF TokensOK, Distinct
<1>7. WaitingOK(m2) /\ m.task[k].state = "WAITING"
  BY <1>1, <1>2, <1>6, AssignQueues
<1>8. /\ m2 \in Masters /\ m2.check = m.check /\ m2.transfers = m.transfers
      /\ \A j \in Key : j # k => m2.task[j] = m.task[j]
      /\ m2.task[k].state = "SENT" /\ m2.task[k].owner = w
      /\ m2.task[k].attempt = m.task[k].attempt + 1 /\ m2.task[k].failedAt = m.task[k].failedAt
  BY <1>1, <1>2, AssignFields
<1> HIDE DEF m2, k
<1>9. \A z \in Worker : Blank(s.wire[z], up[z], wk[z], k)
  BY <1>6, <1>7, WaitingMeans DEF Unassigned
<1>10. /\ down2 \in [Worker -> Seq(Down)] /\ Distinct(down2)
       /\ \A z \in Worker : z # w => down2[z] = s.wire[z]
       /\ Only(Of(down2[w], k), x) /\ \A j : j # k => SameOf(s.wire, down2, j)
  <2>1. Of(s.wire[w], x.task.key) = {}
    BY <1>5, <1>9 DEF Blank, Unqueued
  <2> DEFINE f == s.wire
  <2>2. f \in [Worker -> Seq(Down)] /\ Distinct(f) /\ Of(f[w], x.task.key) = {}
    BY <1>1, <1>6, <2>1
  <2> HIDE DEF f
  <2>3. /\ Put(f, w, x) \in [Worker -> Seq(Down)] /\ Distinct(Put(f, w, x))
        /\ \A z \in Worker : z # w => Put(f, w, x)[z] = f[z]
        /\ \A j : Speaks(x, j) => Only(Of(Put(f, w, x)[w], j), x)
        /\ \A j : ~Speaks(x, j) => SameOf(f, Put(f, w, x), j)
    BY <1>5, <2>2, TaskWireSent
  <2> QED
    BY <1>5, <2>3 DEF f
<1> HIDE DEF down2
<1>11. TaskOK(m2, down2, up, wk, k)
  <2>1. Handed(down2[w], up[w], wk[w], k, m2.task[k])
    BY <1>5, <1>8, <1>9, <1>10, ToHanded DEF Fits
  <2>2. Owned(m2, down2, up, wk, k, w)
    BY <1>8, <1>9, <1>10, <2>1 DEF Owned, Place
  <2> QED
    BY <2>2 DEF TaskOK
<1>12. \A j \in Key \ {k} : SameClaims(m, m2, wk, j)
  BY <1>8 DEF SameClaims
<1>13. [m |-> m2, wire |-> down2] \in Turns(up, wk, rq)
  <2>1. \A j \in Key \cap {k} : TaskOK(m2, down2, up, wk, j)
    BY <1>11
  <2>2. \A j \in Key \ {k} : SameOf(s.wire, down2, j)
    BY <1>10
  <2> QED
    BY <1>7, <1>8, <1>10, <1>12, <2>1, <2>2, MasterTurn
<1> QED
  BY <1>3, <1>13, Zenon DEF Assigned, m2, down2, x

LEMMA DistributeTokens ==
  ASSUME NEW up, NEW wk, NEW rq, NEW s \in Turns(up, wk, rq)
  PROVE  Distribute(s) \in Turns(up, wk, rq)
<1> DEFINE A == Turns(up, wk, rq)
<1>1. s.m.retry \in Seq(Key) /\ s.m.fresh \in Seq(Key)
  BY DEF Turns, Masters
<1>2. Len(Waiting(s.m)) \in Nat
  BY <1>1, ConcatProperties, LenProperties DEF Waiting
<1>3. \A z \in A : AssignNext(z) \in A
  BY AssignTokens
<1> HIDE DEF A
<1>4. s \in A => Distribute(s) \in A
  BY <1>2, <1>3, DistributeKeeps
<1> QED
  BY <1>4 DEF A

LEMMA TaskWiresAdded ==
  ASSUME NEW f \in [Worker -> Seq(Down)], NEW A, NEW x \in [Worker -> Down], Distinct(f),
         \A w \in Worker : x[w].type \notin TaskTypes
  PROVE  /\ Added(f, A, x) \in [Worker -> Seq(Down)] /\ Distinct(Added(f, A, x))
         /\ \A k : SameOf(f, Added(f, A, x), k)
<1> DEFINE g == Added(f, A, x)
<1>1. ASSUME NEW z \in Worker PROVE g[z] \in Seq(Down) /\ Single(g[z]) /\ \A k : Of(g[z], k) = Of(f[z], k)
  <2>0. g[z] = IF z \in A THEN Append(f[z], x[z]) ELSE f[z]
    BY DEF Added
  <2> HIDE DEF g
  <2>1. f[z] \in Seq(Down) /\ x[z] \in Down /\ Single(f[z])
    BY DEF Distinct
  <2>2. Single(Append(f[z], x[z])) /\ Append(f[z], x[z]) \in Seq(Down)
        /\ Range(Append(f[z], x[z])) = Range(f[z]) \cup {x[z]}
    BY <2>1, TaskSent, MessageSent
  <2>3. \A k : Of(Append(f[z], x[z]), k) = Of(f[z], k)
    BY <2>2 DEF Of, Speaks
  <2> QED
    BY <2>0, <2>1, <2>2, <2>3
<1>2. DOMAIN g = Worker /\ g = [z \in Worker |-> g[z]]
  BY DEF Added
<1> HIDE DEF g
<1>3. g \in [Worker -> Seq(Down)]
  BY <1>1, <1>2
<1> QED
  BY <1>1, <1>3 DEF g, Distinct, SameOf

(* The master neither assigns a task nor forgets a transfer. *)
LEMMA QuietTurn ==
  ASSUME NEW up, NEW wk, NEW rq, NEW s \in Turns(up, wk, rq), NEW m2 \in Masters, NEW down2 \in [Worker -> Seq(Down)],
         Distinct(down2), \A k : SameOf(s.wire, down2, k),
         m2.task = s.m.task, m2.retry = s.m.retry, m2.fresh = s.m.fresh, m2.transfers = s.m.transfers,
         m2.check = s.m.check \/ NoCheck(s.m)
  PROVE  [m |-> m2, wire |-> down2] \in Turns(up, wk, rq)
<1>1. WaitingOK(s.m)
  BY DEF Turns, TokensOK
<1>2. WaitingOK(m2)
  BY <1>1 DEF WaitingOK
<1> DEFINE K == {}
<1>3. \A k \in Key \ K : SameClaims(s.m, m2, wk, k)
  BY DEF SameClaims, NoCheck
<1>4. \A k \in Key \cap K : TaskOK(m2, down2, up, wk, k)
  OBVIOUS
<1> HIDE DEF K
<1> QED
  BY <1>2, <1>3, <1>4, MasterTurn

LEMMA FinishTokens ==
  ASSUME NEW up, NEW wk, NEW rq, NEW s \in Turns(up, wk, rq)
  PROVE  FinishIfReady(s) \in Turns(up, wk, rq)
<1> DEFINE x == [w \in Worker |-> [type |-> "STOP"]]
           m2 == [s.m EXCEPT !.stopping = TRUE]
           g == Added(s.wire, Worker, x)
<1>1. s.m \in Masters /\ s.wire \in [Worker -> Seq(Down)] /\ Distinct(s.wire)
  BY DEF Turns, TokensOK, Distinct
<1>2. FinishIfReady(s) = s \/ FinishIfReady(s) = [m |-> m2, wire |-> g]
  <2>1. g = [w \in Worker |-> Append(s.wire[w], [type |-> "STOP"])]
    BY DEF Added
  <2> HIDE DEF g
  <2> QED
    BY <2>1 DEF FinishIfReady
<1>3. x \in [Worker -> Down] /\ \A w \in Worker : x[w].type \notin TaskTypes
  BY DEF Down, TaskTypes
<1>4. /\ m2 \in Masters /\ m2.task = s.m.task /\ m2.retry = s.m.retry /\ m2.fresh = s.m.fresh
      /\ m2.transfers = s.m.transfers /\ m2.check = s.m.check
  BY <1>1 DEF Masters
<1> HIDE DEF x, m2
<1>5. g \in [Worker -> Seq(Down)] /\ Distinct(g) /\ \A k : SameOf(s.wire, g, k)
  BY <1>1, <1>3, TaskWiresAdded
<1> HIDE DEF g
<1>6. [m |-> m2, wire |-> g] \in Turns(up, wk, rq)
  BY <1>4, <1>5, QuietTurn
<1> QED
  BY <1>2, <1>6

LEMMA QuietTokens ==
  ASSUME NEW m, NEW down, NEW up, NEW wk, NEW rq, TokensOK(m, down, up, wk, rq),
         NEW m2, NEW down2, Distinct(down2), \A k : SameOf(down, down2, k),
         m2.task = m.task, m2.retry = m.retry, m2.fresh = m.fresh, m2.transfers = m.transfers,
         m2.check = m.check \/ NoCheck(m)
  PROVE  TokensOK(m2, down2, up, wk, rq)
<1>1. WaitingOK(m) /\ ListsOK(up, wk, rq) /\ Distinct(up)
  BY DEF TokensOK, Distinct
<1>2. WaitingOK(m2)
  BY <1>1 DEF WaitingOK
<1> DEFINE K == {}
<1>3. \A k \in Key \ K : SameClaims(m, m2, wk, k)
  BY DEF SameClaims, NoCheck
<1>4. \A k \in Key \cap K : TaskOK(m2, down2, up, wk, k)
  OBVIOUS
<1>5. \A k \in Key \ K : SameOf(up, up, k) /\ SameHolders(wk, wk, k)
  BY NothingMoved
<1> HIDE DEF K
<1> QED
  BY <1>1, <1>2, <1>3, <1>4, <1>5, TokensElsewhere

LEMMA TaskAppended ==
  ASSUME NEW S, NEW q \in Seq(S), NEW x, x.type \notin TaskTypes, Single(q)
  PROVE  Single(Append(q, x)) /\ \A k : Of(Append(q, x), k) = Of(q, k)
<1> DEFINE S2 == S \cup {x}
<1>1. q \in Seq(S2) /\ x \in S2
  OBVIOUS
<1> HIDE DEF S2
<1>2. Range(Append(q, x)) = Range(q) \cup {x} /\ Single(Append(q, x))
  BY <1>1, TaskSent, MessageSent
<1> QED
  BY <1>2 DEF Of, Speaks

LEMMA AskTokens ==
  ASSUME NEW m, NEW down \in [Worker -> Seq(Down)], NEW up, NEW wk, NEW rq, TokensOK(m, down, up, wk, rq),
         NoCheck(m), NEW asked, m \in Masters
  PROVE  TokensOK(AskMaster(m, asked), Added(down, asked, AskMessages(m, asked)), up, wk, rq)
<1> DEFINE x == AskMessages(m, asked)
           g == Added(down, asked, x)
           m2 == AskMaster(m, asked)
<1>1. ASSUME NEW z \in Worker PROVE Single(g[z]) /\ \A k : Of(g[z], k) = Of(down[z], k)
  <2>1. g[z] = IF z \in asked THEN Append(down[z], x[z]) ELSE down[z]
    BY DEF Added
  <2>2. x[z].type \notin TaskTypes
    BY DEF AskMessages, TaskTypes
  <2> HIDE DEF g, x
  <2>3. Single(down[z])
    BY DEF TokensOK
  <2>4. Single(Append(down[z], x[z])) /\ \A k : Of(Append(down[z], x[z]), k) = Of(down[z], k)
    BY <2>2, <2>3, TaskAppended
  <2> QED
    BY <2>1, <2>3, <2>4
<1> HIDE DEF g
<1>2. Distinct(g) /\ \A k : SameOf(down, g, k)
  BY <1>1 DEF Distinct, SameOf
<1>3. m2.task = m.task /\ m2.retry = m.retry /\ m2.fresh = m.fresh /\ m2.transfers = m.transfers
  BY DEF AskMaster, Masters
<1> HIDE DEF m2
<1>4. TokensOK(m2, g, up, wk, rq)
  BY <1>2, <1>3, QuietTokens
<1> QED
  BY <1>4 DEF g, m2, x

Tokens == TokensOK(master, toWorker, toMaster, worker, requests)

LEMMA RoundTokens ==
  ASSUME NEW w \in Worker, NEW s \in Turns(Took(toMaster, w), worker, requests), EndOfRound(w, s)
  PROVE  Tokens'
<1> DEFINE up == Took(toMaster, w)
           A == Turns(up, worker, requests)
           d == IF s.m.stopping THEN s ELSE FinishIfReady(Distribute(s))
<1>1. d \in A
  BY DistributeTokens, FinishTokens
<1>2. /\ toMaster' = up /\ UNCHANGED <<worker, requests, faults, verdict>>
      /\ \E ticks \in SUBSET Due(d.m) :
           /\ Cardinality(ticks) <= Left
           /\ master' = CheckLoad(Tick(d, ticks)).m /\ toWorker' = CheckLoad(Tick(d, ticks)).wire
  BY DEF EndOfRound, Took
<1>3. PICK ticks \in SUBSET Due(d.m) :
           /\ master' = CheckLoad(Tick(d, ticks)).m /\ toWorker' = CheckLoad(Tick(d, ticks)).wire
  BY <1>2
<1>4. ticks \subseteq Worker
  BY DEF Due
<1> HIDE DEF d
<1> DEFINE m1 == [d.m EXCEPT !.due = @ \cup ticks]
<1>5. Tick(d, ticks) = [m |-> m1, wire |-> d.wire]
  BY DEF Tick
<1>6. d.m \in Masters /\ d.wire \in [Worker -> Seq(Down)] /\ TokensOK(d.m, d.wire, up, worker, requests)
  BY <1>1 DEF Turns
<1>7. /\ m1 \in Masters /\ m1.check = d.m.check /\ m1.transfers = d.m.transfers
      /\ m1.task = d.m.task /\ m1.retry = d.m.retry /\ m1.fresh = d.m.fresh
  BY <1>4, <1>6 DEF Masters
<1> HIDE DEF m1
<1>8. Distinct(d.wire) /\ \A k : SameOf(d.wire, d.wire, k)
  BY <1>6 DEF TokensOK, Distinct, SameOf
<1>9. TokensOK(m1, d.wire, up, worker, requests)
  BY <1>6, <1>7, <1>8, QuietTokens
<1> DEFINE s1 == [m |-> m1, wire |-> d.wire]
           s2 == CheckLoad(s1)
<1>10. TokensOK(s2.m, s2.wire, up, worker, requests)
  <2>0. s1.m = m1 /\ s1.wire = d.wire
    OBVIOUS
  <2> HIDE DEF s1
  <2>1. CASE s2 = s1
    BY <1>9, <2>0, <2>1
  <2>2. ASSUME NoCheck(s1.m), NEW asked \in SUBSET s1.m.due,
               s2 = [m |-> AskMaster(s1.m, asked),
                     wire |-> Added(s1.wire, asked, AskMessages(s1.m, asked))]
        PROVE  TokensOK(s2.m, s2.wire, up, worker, requests)
    <3>1. TokensOK(AskMaster(m1, asked), Added(d.wire, asked, AskMessages(m1, asked)), up, worker, requests)
      BY <1>6, <1>7, <1>9, <2>0, <2>2, AskTokens
    <3>2. s2.m = AskMaster(m1, asked) /\ s2.wire = Added(d.wire, asked, AskMessages(m1, asked))
      BY <2>0, <2>2
    <3> QED
      BY <3>1, <3>2
  <2> QED
    BY <2>1, <2>2, LoadShape
<1>11. master' = s2.m /\ toWorker' = s2.wire
  BY <1>3, <1>5
<1> HIDE DEF s2, up
<1> QED
  BY <1>2, <1>10, <1>11 DEF Tokens

-----------------------------------------------------------------------------
(* The master's handlers *)

LEMMA TokenParts ==
  ASSUME Checked, Tokens, NEW w \in Worker
  PROVE  /\ master \in Masters /\ toWorker \in [Worker -> Seq(Down)] /\ toMaster \in [Worker -> Seq(Up)]
         /\ Distinct(toWorker) /\ Distinct(toMaster) /\ WaitingOK(master)
         /\ ListsOK(toMaster, worker, requests) /\ worker[w] \in Workers /\ WorkerOK(worker[w], w)
         /\ requests \in SUBSET Requests
         /\ \A k \in Key : TaskOK(master, toWorker, toMaster, worker, k)
<1>1. TypesOK(master, toWorker, toMaster, worker, requests)
  BY DEF Checked, SystemOK
<1>2. TokensOK(master, toWorker, toMaster, worker, requests)
  BY DEF Tokens
<1> QED
  BY <1>1, <1>2 DEF TypesOK, MasterOK, WorkerOK, TokensOK, Distinct

LEMMA RaiseTokens ==
  ASSUME Tokens, NEW reason, Raise(reason)
  PROVE  Tokens'
BY DEF Tokens, Raise

(* A message of w has been taken. *)
LEMMA UpTurn ==
  ASSUME Checked, Tokens, NEW w \in Worker, toMaster[w] # <<>>,
         NEW m2 \in Masters, NEW down2 \in [Worker -> Seq(Down)], NEW K, WaitingOK(m2), Distinct(down2),
         \A k \in Key \ K : ~Speaks(HeadOf(toMaster, w), k),
         \A k \in Key \cap K : TaskOK(m2, down2, Took(toMaster, w), worker, k),
         \A k \in Key \ K : SameClaims(master, m2, worker, k),
         \A k \in Key \ K : SameOf(toWorker, down2, k)
  PROVE  [m |-> m2, wire |-> down2] \in Turns(Took(toMaster, w), worker, requests)
<1> DEFINE up == Took(toMaster, w)
<1>1. TokensOK(master, toWorker, toMaster, worker, requests)
  BY DEF Tokens
<1>2. toMaster \in [Worker -> Seq(Up)] /\ Distinct(toMaster) /\ ListsOK(toMaster, worker, requests)
  BY TokenParts
<1>3. /\ Distinct(up) /\ \A k : ~Speaks(HeadOf(toMaster, w), k) => SameOf(toMaster, up, k)
      /\ \A z \in Worker : Range(up[z]) \subseteq Range(toMaster[z])
  BY <1>2, TaskWireTaken
<1> HIDE DEF up
<1>4. ListsOK(up, worker, requests)
  BY <1>2, <1>3 DEF ListsOK
<1>5. \A k \in Key \ K : SameOf(toMaster, up, k) /\ SameHolders(worker, worker, k)
  BY <1>3, NothingMoved
<1>6. TokensOK(m2, down2, up, worker, requests)
  BY <1>1, <1>3, <1>4, <1>5, TokensElsewhere DEF up
<1> QED
  BY <1>6 DEF Turns, up

LEMMA QuietUp ==
  ASSUME Checked, Tokens, NEW w \in Worker, toMaster[w] # <<>>, Head(toMaster[w]).type \notin TaskTypes,
         NEW m2 \in Masters, m2.retry = master.retry, m2.fresh = master.fresh, m2.task = master.task,
         \A k \in Key : SameClaims(master, m2, worker, k)
  PROVE  Now(m2) \in Turns(Took(toMaster, w), worker, requests)
<1> DEFINE K == {}
<1>1. toWorker \in [Worker -> Seq(Down)] /\ Distinct(toWorker) /\ WaitingOK(master)
  BY TokenParts
<1>2. WaitingOK(m2)
  BY <1>1 DEF WaitingOK
<1>3. \A k \in Key \ K : ~Speaks(HeadOf(toMaster, w), k)
  BY DEF Speaks, HeadOf
<1>4. \A k \in Key \ K : SameOf(toWorker, toWorker, k)
  BY NothingMoved
<1>5. \A k \in Key \cap K : TaskOK(m2, toWorker, Took(toMaster, w), worker, k)
  OBVIOUS
<1>6. \A k \in Key \ K : SameClaims(master, m2, worker, k)
  OBVIOUS
<1> HIDE DEF K
<1>7. [m |-> m2, wire |-> toWorker] \in Turns(Took(toMaster, w), worker, requests)
  BY <1>1, <1>2, <1>3, <1>4, <1>5, <1>6, UpTurn
<1> QED
  BY <1>7 DEF Now

LEMMA QuietDown ==
  ASSUME NEW up, NEW wk, NEW rq, NEW s \in Turns(up, wk, rq), NEW w \in Worker, NEW x \in Down,
         x.type \notin TaskTypes
  PROVE  Send(s, w, x) \in Turns(up, wk, rq)
<1>1. s \in [m : Masters, wire : [Worker -> Seq(Down)]] /\ TokensOK(s.m, s.wire, up, wk, rq)
  BY DEF Turns
<1> DEFINE a == s.m
           f == s.wire
           g == Put(f, w, x)
<1>2. Send(s, w, x) = [m |-> a, wire |-> g]
  <2>1. s = [m |-> a, wire |-> f]
    BY <1>1
  <2> HIDE DEF a, f
  <2>2. Send([m |-> a, wire |-> f], w, x) = [m |-> a, wire |-> Put(f, w, x)]
    BY SendShape
  <2> QED
    BY <2>1, <2>2
<1>3. f \in [Worker -> Seq(Down)] /\ Distinct(f) /\ a \in Masters
  BY <1>1 DEF TokensOK, Distinct
<1> HIDE DEF f
<1>4. /\ Put(f, w, x) \in [Worker -> Seq(Down)] /\ Distinct(Put(f, w, x))
      /\ \A k : ~Speaks(x, k) => SameOf(f, Put(f, w, x), k)
  BY <1>3, TaskWireSent
<1>5. \A k : SameOf(s.wire, g, k)
  BY <1>4 DEF Speaks, f
<1> HIDE DEF g
<1>6. [m |-> s.m, wire |-> g] \in Turns(up, wk, rq)
  <2>1. g \in [Worker -> Seq(Down)] /\ Distinct(g)
    BY <1>4 DEF g
  <2> QED
    BY <1>3, <1>5, <2>1, QuietTurn
<1> QED
  BY <1>2, <1>6

(* The rest of the round begins with state s, after a message of w was handled. *)
Turning(w, s) == s \in Turns(Took(toMaster, w), worker, requests) /\ EndOfRound(w, s)
(* The handler leaves the tasks and the statistics alone. *)
Aside(m2) ==
  /\ m2.task = master.task /\ m2.tally = master.tally /\ m2.active = master.active
  /\ m2.transfers = master.transfers /\ m2.stopping = master.stopping
  /\ \A z \in Worker : m2.check[z] \in {master.check[z], None}
AsideTurn(w) == \E m2 : Aside(m2) /\ Turning(w, Now(m2))

LEMMA ReadyTurn ==
  ASSUME Checked, Tokens, NEW w \in Worker, Ready(w)
  PROVE  AsideTurn(w)
<1> DEFINE m2 == [master EXCEPT !.ready = @ \cup {w}]
<1>1. toMaster[w] # <<>> /\ Head(toMaster[w]).type \notin TaskTypes /\ EndOfRound(w, Now(m2))
  BY DEF Ready, FromWorker, TaskTypes
<1>2. master \in Masters
  BY TokenParts
<1>3. /\ m2 \in Masters /\ m2.retry = master.retry /\ m2.fresh = master.fresh /\ m2.task = master.task
      /\ m2.check = master.check /\ m2.transfers = master.transfers /\ Aside(m2)
  BY <1>2 DEF Masters, Aside
<1> HIDE DEF m2
<1>4. \A k \in Key : SameClaims(master, m2, worker, k)
  BY <1>3 DEF SameClaims
<1> QED
  BY <1>1, <1>3, <1>4, QuietUp DEF AsideTurn, Turning

LEMMA QueueStatusTurn ==
  ASSUME Checked, Tokens, NEW w \in Worker, QueueStatus(w)
  PROVE  AsideTurn(w)
<1> DEFINE x == Head(toMaster[w])
           m2 == UpdateQueue(master, w, x)
<1>1. toMaster[w] # <<>> /\ x.type = "QUEUE_STATUS" /\ x.type \notin TaskTypes /\ EndOfRound(w, Now(m2))
  BY DEF QueueStatus, FromWorker, TaskTypes
<1>2. x \in Up /\ MasterOK(master)
  BY <1>1, CheckedParts
<1> HIDE DEF x
<1>3. x.size \in Size
  BY <1>1, <1>2, UpShape
<1>4. Aside(m2) /\ Similar(master, m2) /\ m2 \in Masters /\ m2.retry = master.retry /\ m2.fresh = master.fresh /\ m2.task = master.task
  BY <1>2, <1>3, UpdateSimilar DEF Aside, Similar
<1> HIDE DEF m2
<1>5. \A k \in Key : SameClaims(master, m2, worker, k)
  BY <1>4 DEF SameClaims, Similar
<1> QED
  BY <1>1, <1>4, <1>5, QuietUp DEF x, AsideTurn, Turning

(* The master changes what it knows of task k only. *)
OneTask(m, m2, k) ==
  /\ m2.check = m.check /\ m2.transfers = m.transfers /\ m2.fresh = m.fresh
  /\ \A j \in Key : j # k => m2.task[j] = m.task[j]
Becomes(m, m2, k, state, owner) ==
  /\ OneTask(m, m2, k) /\ m2.task[k].state = state /\ m2.task[k].owner = owner
  /\ m2.task[k].attempt = m.task[k].attempt

AcceptMaster(m, k, w, n) ==
  [m EXCEPT !.task[k].state = "ACCEPTED", !.tally[w].reassigned = @ + n]
RejectMaster(m, k, w, t) ==
  [m EXCEPT
    !.task[k] = [t EXCEPT !.state = "WAITING", !.owner = None],
    !.pending[w] = @ \ {k}, !.retry = Append(@, k)]
StartMaster(m, k, w) ==
  [m EXCEPT !.task[k].state = "PROCESSING", !.active[w] = k]
SuccessMaster(m, k, w) ==
  [m EXCEPT !.active[w] = None, !.task[k].state = "DONE", !.tally[w].success = @ + 1]
FailureMaster(m, k, w, t) ==
  [m EXCEPT
    !.active[w] = None, !.tally[w].failures = @ + 1,
    !.task[k] = [t EXCEPT !.state = "WAITING", !.owner = None, !.failedAt = w],
    !.retry = Append(@, k)]

LEMMA AcceptBecomes ==
  ASSUME NEW m \in Masters, NEW w \in Worker, NEW k \in Key, NEW n \in Nat
  PROVE  LET m2 == AcceptMaster(m, k, w, n)
         IN  Becomes(m, m2, k, "ACCEPTED", m.task[k].owner) /\ m2.retry = m.retry /\ (MasterOK(m) => m2 \in Masters)
<1> DEFINE t2 == [m.task[k] EXCEPT !.state = "ACCEPTED"]
           a == [m.task EXCEPT ![k] = t2]
           b == [m.tally EXCEPT ![w].reassigned = @ + n]
           m2 == [m EXCEPT !.task = a, !.tally = b]
<1>1. m.task \in [Key -> TaskState] /\ m.task[k] \in TaskState
  BY Fields
<1>2. t2.state = "ACCEPTED" /\ t2.owner = m.task[k].owner /\ t2.attempt = m.task[k].attempt
  BY <1>1 DEF TaskState
<1> HIDE DEF t2
<1>3. a[k] = t2 /\ \A j \in Key : j # k => a[j] = m.task[j]
  BY <1>1
<1>4. AcceptMaster(m, k, w, n) = m2
  BY DEF t2, AcceptMaster
<1> HIDE DEF a, b
<1>5. m2.task = a /\ m2.check = m.check /\ m2.transfers = m.transfers /\ m2.fresh = m.fresh /\ m2.retry = m.retry
  BY DEF Masters
<1> HIDE DEF m2
<1>6. MasterOK(m) => AcceptMaster(m, k, w, n) \in Masters
  <2>1. MasterOK(m) => Similar(m, AcceptMaster(m, k, w, n))
    BY <1>1, AcceptSimilar, Zenon DEF AcceptMaster
  <2> QED
    BY <2>1 DEF Similar, MasterOK
<1> QED
  BY <1>2, <1>3, <1>4, <1>5, <1>6 DEF Becomes, OneTask

LEMMA RejectBecomes ==
  ASSUME NEW m \in Masters, NEW w \in Worker, NEW k \in Key, NEW t, t = m.task[k]
  PROVE  LET m2 == RejectMaster(m, k, w, t)
         IN  Becomes(m, m2, k, "WAITING", None) /\ m2.retry = Append(m.retry, k) /\ (MasterOK(m) => m2 \in Masters)
<1> DEFINE t2 == [t EXCEPT !.state = "WAITING", !.owner = None]
           a == [m.task EXCEPT ![k] = t2]
           b == [m.pending EXCEPT ![w] = @ \ {k}]
           r == Append(m.retry, k)
           m2 == [m EXCEPT !.task = a, !.pending = b, !.retry = r]
<1>1. m.task \in [Key -> TaskState] /\ t \in TaskState
  BY Fields
<1>2. t2.state = "WAITING" /\ t2.owner = None /\ t2.attempt = m.task[k].attempt
  BY <1>1 DEF TaskState
<1> HIDE DEF t2
<1>3. a[k] = t2 /\ \A j \in Key : j # k => a[j] = m.task[j]
  BY <1>1
<1>4. RejectMaster(m, k, w, t) = m2
  BY DEF t2, RejectMaster
<1> HIDE DEF a, b, r
<1>5. m2.task = a /\ m2.check = m.check /\ m2.transfers = m.transfers /\ m2.fresh = m.fresh /\ m2.retry = r
  BY DEF Masters
<1> HIDE DEF m2
<1>6. MasterOK(m) => RejectMaster(m, k, w, t) \in Masters
  <2>1. MasterOK(m) => Similar(m, RejectMaster(m, k, w, t))
    BY <1>1, RejectSimilar, Zenon DEF RejectMaster
  <2> QED
    BY <2>1 DEF Similar, MasterOK
<1> QED
  BY <1>2, <1>3, <1>4, <1>5, <1>6 DEF Becomes, OneTask, r

LEMMA StartBecomes ==
  ASSUME NEW m \in Masters, NEW w \in Worker, NEW k \in Key
  PROVE  LET m2 == StartMaster(m, k, w)
         IN  Becomes(m, m2, k, "PROCESSING", m.task[k].owner) /\ m2.retry = m.retry /\ (MasterOK(m) => m2 \in Masters)
<1> DEFINE t2 == [m.task[k] EXCEPT !.state = "PROCESSING"]
           a == [m.task EXCEPT ![k] = t2]
           b == [m.active EXCEPT ![w] = k]
           m2 == [m EXCEPT !.task = a, !.active = b]
<1>1. m.task \in [Key -> TaskState] /\ m.task[k] \in TaskState
  BY Fields
<1>2. t2.state = "PROCESSING" /\ t2.owner = m.task[k].owner /\ t2.attempt = m.task[k].attempt
  BY <1>1 DEF TaskState
<1> HIDE DEF t2
<1>3. a[k] = t2 /\ \A j \in Key : j # k => a[j] = m.task[j]
  BY <1>1
<1>4. StartMaster(m, k, w) = m2
  BY DEF t2, StartMaster
<1> HIDE DEF a, b
<1>5. m2.task = a /\ m2.check = m.check /\ m2.transfers = m.transfers /\ m2.fresh = m.fresh /\ m2.retry = m.retry
  BY DEF Masters
<1> HIDE DEF m2
<1>6. MasterOK(m) => StartMaster(m, k, w) \in Masters
  <2>1. MasterOK(m) => Similar(m, StartMaster(m, k, w))
    BY <1>1, StartSimilar, Zenon DEF StartMaster
  <2> QED
    BY <2>1 DEF Similar, MasterOK
<1> QED
  BY <1>2, <1>3, <1>4, <1>5, <1>6 DEF Becomes, OneTask

LEMMA SuccessBecomes ==
  ASSUME NEW m \in Masters, NEW w \in Worker, NEW k \in Key
  PROVE  LET m2 == SuccessMaster(m, k, w)
         IN  Becomes(m, m2, k, "DONE", m.task[k].owner) /\ m2.retry = m.retry /\ (MasterOK(m) => m2 \in Masters)
<1> DEFINE t2 == [m.task[k] EXCEPT !.state = "DONE"]
           a == [m.task EXCEPT ![k] = t2]
           b == [m.active EXCEPT ![w] = None]
           d == [m.tally EXCEPT ![w].success = @ + 1]
           m2 == [m EXCEPT !.active = b, !.task = a, !.tally = d]
<1>1. m.task \in [Key -> TaskState] /\ m.task[k] \in TaskState
  BY Fields
<1>2. t2.state = "DONE" /\ t2.owner = m.task[k].owner /\ t2.attempt = m.task[k].attempt
  BY <1>1 DEF TaskState
<1> HIDE DEF t2
<1>3. a[k] = t2 /\ \A j \in Key : j # k => a[j] = m.task[j]
  BY <1>1
<1>4. SuccessMaster(m, k, w) = m2
  BY DEF t2, SuccessMaster
<1> HIDE DEF a, b, d
<1>5. m2.task = a /\ m2.check = m.check /\ m2.transfers = m.transfers /\ m2.fresh = m.fresh /\ m2.retry = m.retry
  BY DEF Masters
<1> HIDE DEF m2
<1>6. MasterOK(m) => SuccessMaster(m, k, w) \in Masters
  <2>1. MasterOK(m) => Similar(m, SuccessMaster(m, k, w))
    BY <1>1, SuccessSimilar, Zenon DEF SuccessMaster
  <2> QED
    BY <2>1 DEF Similar, MasterOK
<1> QED
  BY <1>2, <1>3, <1>4, <1>5, <1>6 DEF Becomes, OneTask

LEMMA FailureBecomes ==
  ASSUME NEW m \in Masters, NEW w \in Worker, NEW k \in Key, NEW t, t = m.task[k]
  PROVE  LET m2 == FailureMaster(m, k, w, t)
         IN  Becomes(m, m2, k, "WAITING", None) /\ m2.retry = Append(m.retry, k) /\ (MasterOK(m) => m2 \in Masters)
<1> DEFINE t2 == [t EXCEPT !.state = "WAITING", !.owner = None, !.failedAt = w]
           a == [m.task EXCEPT ![k] = t2]
           b == [m.active EXCEPT ![w] = None]
           d == [m.tally EXCEPT ![w].failures = @ + 1]
           r == Append(m.retry, k)
           m2 == [m EXCEPT !.active = b, !.tally = d, !.task = a, !.retry = r]
<1>1. m.task \in [Key -> TaskState] /\ t \in TaskState
  BY Fields
<1>2. t2.state = "WAITING" /\ t2.owner = None /\ t2.attempt = m.task[k].attempt
  BY <1>1 DEF TaskState
<1> HIDE DEF t2
<1>3. a[k] = t2 /\ \A j \in Key : j # k => a[j] = m.task[j]
  BY <1>1
<1>4. FailureMaster(m, k, w, t) = m2
  BY DEF t2, FailureMaster
<1> HIDE DEF a, b, d, r
<1>5. m2.task = a /\ m2.check = m.check /\ m2.transfers = m.transfers /\ m2.fresh = m.fresh /\ m2.retry = r
  BY DEF Masters
<1> HIDE DEF m2
<1>6. MasterOK(m) => FailureMaster(m, k, w, t) \in Masters
  <2>1. MasterOK(m) => Similar(m, FailureMaster(m, k, w, t))
    BY <1>1, FailureSimilar, Zenon DEF FailureMaster
  <2> QED
    BY <2>1 DEF Similar, MasterOK
<1> QED
  BY <1>2, <1>3, <1>4, <1>5, <1>6 DEF Becomes, OneTask, r

LEMMA KeptWaiting ==
  ASSUME NEW m, NEW m2, NEW k \in Key, WaitingOK(m), OneTask(m, m2, k), m2.retry = m.retry,
         m.task[k].state # "WAITING", m2.task[k].state # "WAITING"
  PROVE  WaitingOK(m2)
<1>1. \A j \in Key : m2.task[j].state = "WAITING" <=> m.task[j].state = "WAITING"
  BY DEF OneTask
<1>2. m2.fresh = m.fresh
  BY DEF OneTask
<1> QED
  BY <1>1, <1>2 DEF WaitingOK

LEMMA BackWaiting ==
  ASSUME NEW m \in Masters, NEW m2, NEW k \in Key, WaitingOK(m), OneTask(m, m2, k), m2.retry = Append(m.retry, k),
         m.task[k].state # "WAITING", m2.task[k].state = "WAITING"
  PROVE  WaitingOK(m2)
<1>1. \A j \in Key : m2.task[j].state = "WAITING" <=> m.task[j].state = "WAITING" \/ j = k
  BY DEF OneTask
<1>2. m2.fresh = m.fresh
  BY DEF OneTask
<1>3. /\ Once(m.retry) /\ Once(m.fresh) /\ \A j \in Key : ~(j \in Range(m.retry) /\ j \in Range(m.fresh))
      /\ \A j \in Key : m.task[j].state = "WAITING" <=> j \in Range(m.retry) \/ j \in Range(m.fresh)
  BY DEF WaitingOK
<1>4. m.retry \in Seq(Key) /\ k \notin Range(m.retry) /\ k \notin Range(m.fresh)
  BY <1>3, Fields
<1>5. /\ Once(m2.retry) /\ \A j : j \in Range(m2.retry) <=> j \in Range(m.retry) \/ j = k
  BY <1>3, <1>4, OnceAppend
<1> QED
  BY <1>1, <1>2, <1>3, <1>4, <1>5 DEF WaitingOK

(* A message about task k has been taken. *)
LEMMA TaskTurn ==
  ASSUME Checked, Tokens, NEW w \in Worker, toMaster[w] # <<>>, NEW k \in Key, Speaks(HeadOf(toMaster, w), k),
         NEW m2 \in Masters, NEW down2 \in [Worker -> Seq(Down)], WaitingOK(m2), Distinct(down2),
         OneTask(master, m2, k), \A j : j # k => SameOf(toWorker, down2, j),
         TaskOK(m2, down2, Took(toMaster, w), worker, k)
  PROVE  [m |-> m2, wire |-> down2] \in Turns(Took(toMaster, w), worker, requests)
<1> DEFINE K == {k}
<1>1. \A j \in Key \cap K : TaskOK(m2, down2, Took(toMaster, w), worker, j)
  OBVIOUS
<1>2. \A j \in Key \ K : j # k
  OBVIOUS
<1> HIDE DEF K
<1>3. \A j \in Key \ K : ~Speaks(HeadOf(toMaster, w), j)
  BY <1>2 DEF Speaks
<1>4. \A j \in Key \ K : SameClaims(master, m2, worker, j)
  BY <1>2 DEF SameClaims, OneTask
<1>5. \A j \in Key \ K : SameOf(toWorker, down2, j)
  BY <1>2
<1> QED
  BY <1>1, <1>3, <1>4, <1>5, UpTurn

LEMMA FirstUp ==
  ASSUME Checked, Tokens, NEW w \in Worker, toMaster[w] # <<>>
  PROVE  /\ \A z \in Worker : z # w => Took(toMaster, w)[z] = toMaster[z]
         /\ HeadOf(toMaster, w) \in Up /\ HeadOf(toMaster, w) \in Range(toMaster[w])
         /\ \A j : Of(Took(toMaster, w)[w], j) = Minus(Of(toMaster[w], j), HeadOf(toMaster, w))
<1>1. toMaster \in [Worker -> Seq(Up)] /\ Distinct(toMaster)
  BY TokenParts
<1> QED
  BY <1>1, TaskWireTaken, ZenonT(40)

(* What the first message of w says when it is about a task. *)
LEMMA TaskSaid ==
  ASSUME Checked, Tokens, NEW w \in Worker, toMaster[w] # <<>>,
         Head(toMaster[w]).type \in {"TASK_ACK", "PROCESS_START", "RESULT"},
         NEW x, x = Head(toMaster[w]), NEW k, k = x.task.key, NEW t, t = master.task[k],
         NEW up, up = Took(toMaster, w)
  PROVE  /\ x \in Up /\ Speaks(HeadOf(toMaster, w), k) /\ x \in Of(toMaster[w], k)
         /\ k \in Key /\ x.task \in FreeTask /\ x.size \in Size
         /\ Owned(master, toWorker, toMaster, worker, k, w)
         /\ x.type = "TASK_ACK" => Judged(toWorker[w], toMaster[w], worker[w], k, t) /\ x.accepted \in BOOLEAN
         /\ x.type = "PROCESS_START" => Started(toWorker[w], toMaster[w], worker[w], k, t)
         /\ x.type = "RESULT" => Finished(toWorker[w], toMaster[w], worker[w], k, t)
         /\ Of(up[w], k) = Minus(Of(toMaster[w], k), x) /\ \A z \in Worker : z # w => up[z] = toMaster[z]
<1>1. \A j \in Key : TaskOK(master, toWorker, toMaster, worker, j)
  BY TokenParts
<1>2. /\ \A z \in Worker : z # w => up[z] = toMaster[z]
      /\ HeadOf(toMaster, w) \in Up /\ HeadOf(toMaster, w) \in Range(toMaster[w])
      /\ \A j : Of(up[w], j) = Minus(Of(toMaster[w], j), HeadOf(toMaster, w))
  BY FirstUp
<1>3. x = HeadOf(toMaster, w)
  BY DEF HeadOf
<1>4. x.type \in {"TASK_ACK", "PROCESS_START", "RESULT"}
  OBVIOUS
<1>5. x \in Up /\ x.task \in FreeTask /\ x.size \in Size /\ (x.type = "TASK_ACK" => x.accepted \in BOOLEAN)
  BY <1>2, <1>3, <1>4, UpShape
<1>6. k \in Key
  BY <1>5 DEF FreeTask, TaskRec
<1>7. Speaks(x, k)
  BY <1>4 DEF Speaks, TaskTypes
<1>8. x \in Of(toMaster[w], k)
  BY <1>2, <1>3, <1>7 DEF Of
<1>9. /\ Owned(master, toWorker, toMaster, worker, k, w)
      /\ x.type = "TASK_ACK" => Judged(toWorker[w], toMaster[w], worker[w], k, master.task[k])
      /\ x.type = "PROCESS_START" => Started(toWorker[w], toMaster[w], worker[w], k, master.task[k])
      /\ x.type = "RESULT" => Finished(toWorker[w], toMaster[w], worker[w], k, master.task[k])
  BY <1>1, <1>6, <1>8, UpTask
<1>10. Of(up[w], k) = Minus(Of(toMaster[w], k), x) /\ \A z \in Worker : z # w => up[z] = toMaster[z]
  BY <1>2, <1>3
<1> QED
  BY <1>3, <1>5, <1>6, <1>7, <1>8, <1>9, <1>10

LEMMA AckSays ==
  ASSUME NEW d, NEW u, NEW v, NEW k, NEW t, NEW x, x \in Of(u, k), Judged(d, u, v, k, t),
         NEW u2, Of(u2, k) = Minus(Of(u, k), x)
  PROVE  /\ t.state = "SENT" /\ t.attempt = x.task.attempt
         /\ Of(u2, k) = {} /\ Of(d, k) = {} /\ Queued(v, k) = {} /\ Current(v, k) = {}
         /\ Accepted(v, k) = (IF x.accepted THEN {x.task} ELSE {}) /\ k \notin v.stored
<1>1. /\ t.state = "SENT" /\ Fits(x.task, t) /\ Of(u, k) = {x} /\ Of(d, k) = {} /\ Queued(v, k) = {} /\ Current(v, k) = {}
      /\ Accepted(v, k) = (IF x.accepted THEN {x.task} ELSE {}) /\ k \notin v.stored
  BY DEF Judged
<1> QED
  BY <1>1 DEF Minus, Fits

LEMMA AckConfirms ==
  ASSUME NEW d, NEW u, NEW v, NEW k, NEW t, NEW x, x \in Of(u, k), Judged(d, u, v, k, t), x.accepted,
         NEW u2, Of(u2, k) = Minus(Of(u, k), x), NEW d2, NEW y, Only(Of(d2, k), y), y.type = "TASK_CONFIRMED",
         y.task = x.task, NEW t2, t2.state = "ACCEPTED", t2.attempt = t.attempt
  PROVE  Confirmed(d2, u2, v, k, t2)
BY AckSays DEF Confirmed, Only, Fits

LEMMA AckRejects ==
  ASSUME NEW d, NEW u, NEW v, NEW k, NEW t, NEW x, x \in Of(u, k), Judged(d, u, v, k, t), ~x.accepted,
         NEW u2, Of(u2, k) = Minus(Of(u, k), x)
  PROVE  Blank(d, u2, v, k)
BY AckSays DEF Blank, Unqueued

LEMMA StartSteps ==
  ASSUME NEW d, NEW u, NEW v, NEW k, NEW t, NEW x, x \in Of(u, k), Started(d, u, v, k, t),
         NEW u2, Of(u2, k) = Minus(Of(u, k), x), NEW d2, NEW y, Only(Of(d2, k), y), y.type = "PROCESS_ACK", y.task = x.task,
         NEW t2, t2.state = "PROCESSING", t2.attempt = t.attempt
  PROVE  t.state = "ACCEPTED" /\ Running(d2, u2, v, k, t2)
<1>1. /\ t.state = "ACCEPTED" /\ Fits(x.task, t) /\ x.type = "PROCESS_START"
      /\ Of(u, k) = {x} /\ Of(d, k) = {} /\ Queued(v, k) = {} /\ Current(v, k) = {x.task}
      /\ Accepted(v, k) = {} /\ k \notin v.stored
  BY DEF Started
<1>2. Of(u2, k) = {}
  BY <1>1 DEF Minus
<1> QED
  BY <1>1, <1>2 DEF Running, Only, Fits

LEMMA ResultSays ==
  ASSUME NEW d, NEW u, NEW v, NEW k, NEW t, NEW x, x \in Of(u, k), Finished(d, u, v, k, t),
         NEW u2, Of(u2, k) = Minus(Of(u, k), x)
  PROVE  /\ t.state = "PROCESSING" /\ t.attempt = x.task.attempt
         /\ x.success => \A t2 : t2.state = "DONE" => Stored(d, u2, v, k, t2)
         /\ ~x.success => Blank(d, u2, v, k)
<1>1. /\ t.state = "PROCESSING" /\ Fits(x.task, t) /\ x.type = "RESULT"
      /\ Of(u, k) = {x} /\ Of(d, k) = {} /\ Queued(v, k) = {} /\ Current(v, k) = {}
      /\ Accepted(v, k) = {} /\ (x.success <=> k \in v.stored)
  BY DEF Finished
<1>2. Of(u2, k) = {}
  BY <1>1 DEF Minus
<1>3. x.success => \A t2 : t2.state = "DONE" => Stored(d, u2, v, k, t2)
  BY <1>1, <1>2 DEF Stored
<1>4. ~x.success => Blank(d, u2, v, k)
  BY <1>1, <1>2 DEF Blank, Unqueued
<1> QED
  BY <1>1, <1>3, <1>4 DEF Fits

(* The task's owner stays, or it has none. *)
LEMMA StaysOwned ==
  ASSUME NEW m, NEW down, NEW up, NEW wk, NEW k, NEW w \in Worker, Owned(m, down, up, wk, k, w),
         NEW m2, NEW down2, NEW up2, m2.task[k].owner = w, Place(down2[w], up2[w], wk[w], k, m2.task[k]),
         \A z \in Worker : z # w => down2[z] = down[z] /\ up2[z] = up[z]
  PROVE  TaskOK(m2, down2, up2, wk, k)
<1>1. \A z \in Worker : z # w => Blank(down2[z], up2[z], wk[z], k)
  BY DEF Owned
<1> QED
  BY <1>1 DEF Owned, TaskOK

LEMMA GivenUp ==
  ASSUME NEW m, NEW down, NEW up, NEW wk, NEW k, NEW w \in Worker, Owned(m, down, up, wk, k, w),
         NEW m2, NEW up2, m2.task[k].owner = None, m2.task[k].state = "WAITING", Blank(down[w], up2[w], wk[w], k),
         \A z \in Worker : z # w => up2[z] = up[z]
  PROVE  TaskOK(m2, down, up2, wk, k)
<1>1. \A z \in Worker : z # w => Blank(down[z], up2[z], wk[z], k)
  BY DEF Owned
<1> QED
  BY <1>1 DEF Unassigned, TaskOK

(* The wires to the workers when the master answers w about task k. *)
LEMMA TaskAnswered ==
  ASSUME Checked, Tokens, NEW w \in Worker, NEW y \in Down, NEW k, y.type \in TaskTypes, y.task.key = k,
         Of(toWorker[w], k) = {}
  PROVE  LET down2 == Put(toWorker, w, y)
         IN  /\ down2 \in [Worker -> Seq(Down)] /\ Distinct(down2)
             /\ \A z \in Worker : z # w => down2[z] = toWorker[z]
             /\ Only(Of(down2[w], k), y) /\ \A j : j # k => SameOf(toWorker, down2, j)
<1>1. toWorker \in [Worker -> Seq(Down)] /\ Distinct(toWorker)
  BY TokenParts
<1>2. Speaks(y, k) /\ \A j : j # k => ~Speaks(y, j)
  BY DEF Speaks
<1>3. /\ Put(toWorker, w, y) \in [Worker -> Seq(Down)] /\ Distinct(Put(toWorker, w, y))
      /\ \A z \in Worker : z # w => Put(toWorker, w, y)[z] = toWorker[z]
      /\ \A j : Speaks(y, j) => Only(Of(Put(toWorker, w, y)[w], j), y)
      /\ \A j : ~Speaks(y, j) => SameOf(toWorker, Put(toWorker, w, y), j)
  BY <1>1, TaskWireSent
<1> QED
  BY <1>2, <1>3

AckState(w, x) ==
  LET m == UpdateQueue(master, w, x)
      k == x.task.key
      t == master.task[k]
      n == IF t.failedAt # None THEN 1 ELSE 0
  IN  IF x.accepted THEN Send(Now(AcceptMaster(m, k, w, n)), w, [type |-> "TASK_CONFIRMED", task |-> x.task])
                    ELSE Now(RejectMaster(m, k, w, t))
StartState(w, x) ==
  Send(Now(StartMaster(UpdateQueue(master, w, x), x.task.key, w)), w, [type |-> "PROCESS_ACK", task |-> x.task])
ResultState(w, x) ==
  LET m == UpdateQueue(master, w, x)
      k == x.task.key
  IN  Now(IF x.success THEN SuccessMaster(m, k, w) ELSE FailureMaster(m, k, w, master.task[k]))

LEMMA TaskAckTurn ==
  ASSUME Checked, Tokens, NEW w \in Worker, TaskAck(w)
  PROVE  Turning(w, AckState(w, Head(toMaster[w])))
<1> DEFINE x == Head(toMaster[w])
           m == UpdateQueue(master, w, x)
           k == x.task.key
           t == master.task[k]
           n == IF t.failedAt # None THEN 1 ELSE 0
           m1 == AcceptMaster(m, k, w, n)
           y == [type |-> "TASK_CONFIRMED", task |-> x.task]
           m2 == RejectMaster(m, k, w, t)
           up2 == Took(toMaster, w)
           down2 == Put(toWorker, w, y)
<1>a. x = Head(toMaster[w])
  OBVIOUS
<1>b. k = x.task.key
  OBVIOUS
<1>c. t = master.task[k]
  OBVIOUS
<1>d. up2 = Took(toMaster, w)
  OBVIOUS
<1>f. AckState(w, x) = IF x.accepted THEN Send(Now(m1), w, y) ELSE Now(m2)
  BY Zenon DEF AckState
<1>1. /\ toMaster[w] # <<>> /\ Head(toMaster[w]).type = "TASK_ACK"
      /\ t.owner # w \/ t.attempt # x.task.attempt \/ t.state # "SENT"
           \/ (x.accepted /\ EndOfRound(w, Send(Now(m1), w, y))) \/ (~x.accepted /\ EndOfRound(w, Now(m2)))
  <2>1. FromWorker(w, "TASK_ACK") /\ EndOfRound(w,
           IF t.owner # w \/ t.attempt # x.task.attempt \/ t.state # "SENT" THEN Now(m)
           ELSE IF x.accepted THEN Send(Now(m1), w, y) ELSE Now(m2))
    BY Zenon DEF TaskAck, AcceptMaster, RejectMaster
  <2> HIDE DEF m, m1, m2, y, t, k, x
  <2>2. toMaster[w] # <<>> /\ Head(toMaster[w]).type = "TASK_ACK"
    BY <2>1 DEF FromWorker
  <2> QED
    BY <2>1, <2>2
<1>e. toMaster[w] # <<>> /\ Head(toMaster[w]).type \in {"TASK_ACK", "PROCESS_START", "RESULT"} /\ Head(toMaster[w]).type = "TASK_ACK"
  <2> HIDE DEF x, k, t, up2, m, n, m1, m2, y, down2
  <2> QED
    BY <1>1
<1> HIDE DEF x, k, t, up2
<1>2. /\ x \in Up /\ Speaks(HeadOf(toMaster, w), k) /\ x \in Of(toMaster[w], k)
      /\ k \in Key /\ x.task \in FreeTask /\ x.size \in Size
      /\ Owned(master, toWorker, toMaster, worker, k, w)
      /\ Judged(toWorker[w], toMaster[w], worker[w], k, t) /\ x.accepted \in BOOLEAN
      /\ Of(up2[w], k) = Minus(Of(toMaster[w], k), x) /\ \A z \in Worker : z # w => up2[z] = toMaster[z]
  BY <1>a, <1>b, <1>c, <1>d, <1>e, TaskSaid
<1>3. MasterOK(master) /\ master \in Masters
  BY CheckedParts
<1>4. WaitingOK(master) /\ toWorker \in [Worker -> Seq(Down)] /\ Distinct(toWorker)
  BY TokenParts
<1>5. /\ m \in Masters /\ m.task = master.task /\ m.retry = master.retry /\ m.fresh = master.fresh
      /\ Similar(master, m) /\ MasterOK(m)
  BY <1>2, <1>3, UpdateSimilar DEF Similar
<1>6. m.check = master.check /\ m.transfers = master.transfers
  BY <1>5 DEF Similar
<1> HIDE DEF m
<1>7. n \in Nat /\ t = m.task[k]
  BY <1>c, <1>5
<1> HIDE DEF n
<1>8. /\ t.state = "SENT" /\ t.attempt = x.task.attempt /\ t.owner = w
      /\ Of(toWorker[w], k) = {}
  <2>1. t.owner = w
    BY <1>c, <1>2 DEF Owned
  <2> QED
    BY <1>2, <2>1, AckSays
<1>9. ASSUME x.accepted PROVE Send(Now(m1), w, y) \in Turns(up2, worker, requests)
  <2>1. Becomes(m, m1, k, "ACCEPTED", m.task[k].owner) /\ m1.retry = m.retry /\ m1 \in Masters
    BY <1>2, <1>5, <1>7, AcceptBecomes
  <2> HIDE DEF m1
  <2>3. /\ OneTask(master, m1, k) /\ m1.task[k].state = "ACCEPTED" /\ m1.task[k].owner = w
        /\ m1.task[k].attempt = t.attempt /\ m1.retry = master.retry
    BY <1>5, <1>6, <1>7, <1>8, <2>1 DEF Becomes, OneTask
  <2>4. WaitingOK(m1)
    BY <1>c, <1>2, <1>4, <1>8, <2>3, KeptWaiting
  <2>5. y \in Down /\ y.type = "TASK_CONFIRMED" /\ y.type \in TaskTypes /\ y.task = x.task /\ y.task.key = k
    BY <1>b, <1>2 DEF Down, TaskTypes
  <2> HIDE DEF y
  <2>6. /\ down2 \in [Worker -> Seq(Down)] /\ Distinct(down2)
        /\ \A z \in Worker : z # w => down2[z] = toWorker[z]
        /\ Only(Of(down2[w], k), y) /\ \A j : j # k => SameOf(toWorker, down2, j)
    BY <1>8, <2>5, TaskAnswered
  <2>7. Send(Now(m1), w, y) = [m |-> m1, wire |-> down2]
    BY SendShape DEF Now
  <2> HIDE DEF down2
  <2>8. Place(down2[w], up2[w], worker[w], k, m1.task[k])
    <3>1. Confirmed(down2[w], up2[w], worker[w], k, m1.task[k])
      BY <1>2, <1>9, <2>3, <2>5, <2>6, AckConfirms
    <3> QED
      BY <3>1 DEF Place
  <2>9. TaskOK(m1, down2, up2, worker, k)
    BY <1>2, <2>3, <2>6, <2>8, StaysOwned
  <2>10. [m |-> m1, wire |-> down2] \in Turns(Took(toMaster, w), worker, requests)
    BY <1>d, <1>1, <1>2, <2>1, <2>3, <2>4, <2>6, <2>9, TaskTurn
  <2> QED
    BY <1>d, <2>7, <2>10
<1>10. ASSUME ~x.accepted PROVE Now(m2) \in Turns(up2, worker, requests)
  <2>1. Becomes(m, m2, k, "WAITING", None) /\ m2.retry = Append(m.retry, k) /\ m2 \in Masters
    BY <1>2, <1>5, <1>7, RejectBecomes
  <2> HIDE DEF m2
  <2>3. /\ OneTask(master, m2, k) /\ m2.task[k].state = "WAITING" /\ m2.task[k].owner = None
        /\ m2.retry = Append(master.retry, k)
    BY <1>5, <1>6, <2>1 DEF Becomes, OneTask
  <2>4. WaitingOK(m2)
    BY <1>c, <1>2, <1>3, <1>4, <1>8, <2>3, BackWaiting
  <2>5. Blank(toWorker[w], up2[w], worker[w], k)
    BY <1>2, <1>10, AckRejects
  <2>6. TaskOK(m2, toWorker, up2, worker, k)
    BY <1>2, <2>3, <2>5, GivenUp
  <2>7. \A j : j # k => SameOf(toWorker, toWorker, j)
    BY NothingMoved
  <2>8. [m |-> m2, wire |-> toWorker] \in Turns(Took(toMaster, w), worker, requests)
    BY <1>d, <1>1, <1>2, <1>4, <2>1, <2>3, <2>4, <2>6, <2>7, TaskTurn
  <2> QED
    BY <1>d, <2>8 DEF Now
<1> HIDE DEF m1, m2, y
<1> QED
  BY <1>a, <1>d, <1>f, <1>1, <1>2, <1>8, <1>9, <1>10 DEF Turning

LEMMA ProcessingStartTurn ==
  ASSUME Checked, Tokens, NEW w \in Worker, ProcessingStart(w)
  PROVE  Raise("error") \/ Turning(w, StartState(w, Head(toMaster[w])))
<1> DEFINE x == Head(toMaster[w])
           m == UpdateQueue(master, w, x)
           k == x.task.key
           t == master.task[k]
           m1 == StartMaster(m, k, w)
           y == [type |-> "PROCESS_ACK", task |-> x.task]
           up2 == Took(toMaster, w)
           down2 == Put(toWorker, w, y)
<1>a. x = Head(toMaster[w])
  OBVIOUS
<1>b. k = x.task.key
  OBVIOUS
<1>c. t = master.task[k]
  OBVIOUS
<1>d. up2 = Took(toMaster, w)
  OBVIOUS
<1>f. StartState(w, x) = Send(Now(m1), w, y)
  BY Zenon DEF StartState
<1>1. /\ toMaster[w] # <<>> /\ Head(toMaster[w]).type = "PROCESS_START"
      /\ Raise("error") \/ EndOfRound(w, Send(Now(m1), w, y))
  BY DEF ProcessingStart, FromWorker, StartMaster
<1>e. toMaster[w] # <<>> /\ Head(toMaster[w]).type \in {"TASK_ACK", "PROCESS_START", "RESULT"} /\ Head(toMaster[w]).type = "PROCESS_START"
  <2> HIDE DEF x, k, t, up2, m, m1, y, down2
  <2> QED
    BY <1>1
<1> HIDE DEF x, k, t, up2
<1>2. /\ x \in Up /\ Speaks(HeadOf(toMaster, w), k) /\ x \in Of(toMaster[w], k)
      /\ k \in Key /\ x.task \in FreeTask /\ x.size \in Size
      /\ Owned(master, toWorker, toMaster, worker, k, w)
      /\ Started(toWorker[w], toMaster[w], worker[w], k, t)
      /\ Of(up2[w], k) = Minus(Of(toMaster[w], k), x) /\ \A z \in Worker : z # w => up2[z] = toMaster[z]
  BY <1>a, <1>b, <1>c, <1>d, <1>e, TaskSaid
<1>3. MasterOK(master) /\ master \in Masters
  BY CheckedParts
<1>4. WaitingOK(master) /\ toWorker \in [Worker -> Seq(Down)] /\ Distinct(toWorker)
  BY TokenParts
<1>5. /\ m \in Masters /\ m.task = master.task /\ m.retry = master.retry /\ m.fresh = master.fresh
      /\ Similar(master, m) /\ MasterOK(m)
  BY <1>2, <1>3, UpdateSimilar DEF Similar
<1>6. m.check = master.check /\ m.transfers = master.transfers
  BY <1>5 DEF Similar
<1> HIDE DEF m
<1>7. t = m.task[k]
  BY <1>c, <1>5
<1>8. t.owner = w /\ t.state = "ACCEPTED" /\ Of(toWorker[w], k) = {}
  <2>1. t.owner = w
    BY <1>c, <1>2 DEF Owned
  <2> QED
    BY <1>2, <2>1 DEF Started
<1>9. Send(Now(m1), w, y) \in Turns(up2, worker, requests)
  <2>1. Becomes(m, m1, k, "PROCESSING", m.task[k].owner) /\ m1.retry = m.retry /\ m1 \in Masters
    BY <1>2, <1>5, <1>7, StartBecomes
  <2> HIDE DEF m1
  <2>3. /\ OneTask(master, m1, k) /\ m1.task[k].state = "PROCESSING" /\ m1.task[k].owner = w
        /\ m1.task[k].attempt = t.attempt /\ m1.retry = master.retry
    BY <1>5, <1>6, <1>7, <1>8, <2>1 DEF Becomes, OneTask
  <2>4. WaitingOK(m1)
    BY <1>c, <1>2, <1>4, <1>8, <2>3, KeptWaiting
  <2>5. y \in Down /\ y.type = "PROCESS_ACK" /\ y.type \in TaskTypes /\ y.task = x.task /\ y.task.key = k
    BY <1>b, <1>2 DEF Down, TaskTypes
  <2> HIDE DEF y
  <2>6. /\ down2 \in [Worker -> Seq(Down)] /\ Distinct(down2)
        /\ \A z \in Worker : z # w => down2[z] = toWorker[z]
        /\ Only(Of(down2[w], k), y) /\ \A j : j # k => SameOf(toWorker, down2, j)
    BY <1>8, <2>5, TaskAnswered
  <2>7. Send(Now(m1), w, y) = [m |-> m1, wire |-> down2]
    BY SendShape DEF Now
  <2> HIDE DEF down2
  <2>8. Place(down2[w], up2[w], worker[w], k, m1.task[k])
    <3>1. Running(down2[w], up2[w], worker[w], k, m1.task[k])
      BY <1>2, <2>3, <2>5, <2>6, StartSteps
    <3> QED
      BY <3>1 DEF Place
  <2>9. TaskOK(m1, down2, up2, worker, k)
    BY <1>2, <2>3, <2>6, <2>8, StaysOwned
  <2>10. [m |-> m1, wire |-> down2] \in Turns(Took(toMaster, w), worker, requests)
    BY <1>d, <1>e, <1>2, <2>1, <2>3, <2>4, <2>6, <2>9, TaskTurn
  <2> QED
    BY <1>d, <2>7, <2>10
<1> HIDE DEF m1, y
<1> QED
  BY <1>a, <1>d, <1>f, <1>1, <1>9 DEF Turning

LEMMA TaskResultTurn ==
  ASSUME Checked, Tokens, NEW w \in Worker, TaskResult(w)
  PROVE  Raise("error") \/ Turning(w, ResultState(w, Head(toMaster[w])))
<1> DEFINE x == Head(toMaster[w])
           m == UpdateQueue(master, w, x)
           k == x.task.key
           t == master.task[k]
           m1 == SuccessMaster(m, k, w)
           m2 == FailureMaster(m, k, w, t)
           up2 == Took(toMaster, w)
<1>a. x = Head(toMaster[w])
  OBVIOUS
<1>b. k = x.task.key
  OBVIOUS
<1>c. t = master.task[k]
  OBVIOUS
<1>d. up2 = Took(toMaster, w)
  OBVIOUS
<1>f. ResultState(w, x) = Now(IF x.success THEN m1 ELSE m2)
  BY Zenon DEF ResultState
<1>1. /\ toMaster[w] # <<>> /\ Head(toMaster[w]).type = "RESULT"
      /\ \/ t.attempt # x.task.attempt \/ t.state \in {"DONE", "WAITING"} \/ Raise("error")
         \/ (x.success /\ EndOfRound(w, Now(m1))) \/ (~x.success /\ EndOfRound(w, Now(m2)))
  <2>1. FromWorker(w, "RESULT") /\
         IF t.attempt # x.task.attempt \/ t.state \in {"DONE", "WAITING"}
         THEN EndOfRound(w, Now(m))
         ELSE IF t.owner # w THEN Raise("error")
         ELSE EndOfRound(w, IF x.success THEN Now(m1) ELSE Now(m2))
    BY Zenon DEF TaskResult, SuccessMaster, FailureMaster
  <2> HIDE DEF m, m1, m2, x, t, k
  <2>2. toMaster[w] # <<>> /\ Head(toMaster[w]).type = "RESULT"
    BY <2>1 DEF FromWorker
  <2> QED
    BY <2>1, <2>2
<1>e. toMaster[w] # <<>> /\ Head(toMaster[w]).type \in {"TASK_ACK", "PROCESS_START", "RESULT"} /\ Head(toMaster[w]).type = "RESULT"
  <2> HIDE DEF x, k, t, up2, m, m1, m2
  <2> QED
    BY <1>1
<1> HIDE DEF x, k, t, up2
<1>2. /\ x \in Up /\ Speaks(HeadOf(toMaster, w), k) /\ x \in Of(toMaster[w], k)
      /\ k \in Key /\ x.task \in FreeTask /\ x.size \in Size
      /\ Owned(master, toWorker, toMaster, worker, k, w)
      /\ Finished(toWorker[w], toMaster[w], worker[w], k, t)
      /\ Of(up2[w], k) = Minus(Of(toMaster[w], k), x) /\ \A z \in Worker : z # w => up2[z] = toMaster[z]
  BY <1>a, <1>b, <1>c, <1>d, <1>e, TaskSaid
<1>3. MasterOK(master) /\ master \in Masters
  BY CheckedParts
<1>4. WaitingOK(master) /\ toWorker \in [Worker -> Seq(Down)] /\ Distinct(toWorker)
  BY TokenParts
<1>5. /\ m \in Masters /\ m.task = master.task /\ m.retry = master.retry /\ m.fresh = master.fresh
      /\ Similar(master, m) /\ MasterOK(m)
  BY <1>2, <1>3, UpdateSimilar DEF Similar
<1>6. m.check = master.check /\ m.transfers = master.transfers
  BY <1>5 DEF Similar
<1> HIDE DEF m
<1>7. t = m.task[k]
  BY <1>c, <1>5
<1>8. t.owner = w /\ t.state = "PROCESSING" /\ t.attempt = x.task.attempt
  <2>1. t.owner = w
    BY <1>c, <1>2 DEF Owned
  <2> QED
    BY <1>2, <2>1, ResultSays
<1>9. ASSUME x.success PROVE Now(m1) \in Turns(up2, worker, requests)
  <2>1. Becomes(m, m1, k, "DONE", m.task[k].owner) /\ m1.retry = m.retry /\ m1 \in Masters
    BY <1>2, <1>5, <1>7, SuccessBecomes
  <2> HIDE DEF m1
  <2>3. /\ OneTask(master, m1, k) /\ m1.task[k].state = "DONE" /\ m1.task[k].owner = w
        /\ m1.retry = master.retry
    BY <1>5, <1>6, <1>7, <1>8, <2>1 DEF Becomes, OneTask
  <2>4. WaitingOK(m1)
    BY <1>c, <1>2, <1>4, <1>8, <2>3, KeptWaiting
  <2>5. Stored(toWorker[w], up2[w], worker[w], k, m1.task[k])
    BY <1>2, <1>9, <2>3, ResultSays
  <2>6. TaskOK(m1, toWorker, up2, worker, k)
    BY <1>2, <2>3, <2>5, StaysOwned DEF Place
  <2>7. \A j : j # k => SameOf(toWorker, toWorker, j)
    BY NothingMoved
  <2>8. [m |-> m1, wire |-> toWorker] \in Turns(Took(toMaster, w), worker, requests)
    BY <1>d, <1>e, <1>2, <1>4, <2>1, <2>3, <2>4, <2>6, <2>7, TaskTurn
  <2> QED
    BY <1>d, <2>8 DEF Now
<1>10. ASSUME ~x.success PROVE Now(m2) \in Turns(up2, worker, requests)
  <2>1. Becomes(m, m2, k, "WAITING", None) /\ m2.retry = Append(m.retry, k) /\ m2 \in Masters
    BY <1>2, <1>5, <1>7, FailureBecomes
  <2> HIDE DEF m2
  <2>3. /\ OneTask(master, m2, k) /\ m2.task[k].state = "WAITING" /\ m2.task[k].owner = None
        /\ m2.retry = Append(master.retry, k)
    BY <1>5, <1>6, <2>1 DEF Becomes, OneTask
  <2>4. WaitingOK(m2)
    BY <1>c, <1>2, <1>3, <1>4, <1>8, <2>3, BackWaiting
  <2>5. Blank(toWorker[w], up2[w], worker[w], k)
    BY <1>2, <1>10, ResultSays
  <2>6. TaskOK(m2, toWorker, up2, worker, k)
    BY <1>2, <2>3, <2>5, GivenUp
  <2>7. \A j : j # k => SameOf(toWorker, toWorker, j)
    BY NothingMoved
  <2>8. [m |-> m2, wire |-> toWorker] \in Turns(Took(toMaster, w), worker, requests)
    BY <1>d, <1>e, <1>2, <1>4, <2>1, <2>3, <2>4, <2>6, <2>7, TaskTurn
  <2> QED
    BY <1>d, <2>8 DEF Now
<1> HIDE DEF m1, m2
<1> QED
  BY <1>a, <1>d, <1>f, <1>1, <1>8, <1>9, <1>10 DEF Turning

TimeTurn(w) == \E m2, y :
  /\ Aside(m2) /\ m2.check = master.check /\ y \in Down /\ y.type = "TIME_ACK"
  /\ Turning(w, Send(Now(m2), w, y))

LEMMA TransferTimeTurn ==
  ASSUME Checked, Tokens, NEW w \in Worker, TransferTime(w)
  PROVE  Raise("error") \/ TimeTurn(w)
<1> DEFINE x == Head(toMaster[w])
           known == {k \in master.times : k.id = x.id}
           r == [id |-> x.id, source |-> x.source, target |-> x.target, arrived |-> x.phase = "RECV"]
           m2 == [master EXCEPT !.times = (@ \ known) \cup {r}]
           y == [type |-> "TIME_ACK", id |-> x.id, phase |-> x.phase]
<1>1. /\ toMaster[w] # <<>> /\ x.type = "P2P_TIME" /\ x.type \notin TaskTypes /\ x.type \in TransferTypes
      /\ Raise("error") \/ EndOfRound(w, Send(Now(m2), w, y))
  BY DEF TransferTime, FromWorker, TaskTypes, TransferTypes
<1>2. x \in Up /\ master \in Masters
  BY <1>1, Handling, TokenParts
<1> HIDE DEF x
<1>3. x.id \in Check /\ x.source \in Worker /\ x.target \in Worker /\ x.phase \in Phases
  BY <1>1, <1>2, UpShape
<1>4. y \in Down /\ y.type = "TIME_ACK" /\ y.type \notin TaskTypes
  BY <1>3 DEF Down, TaskTypes
<1>5. r \in Times
  BY <1>3 DEF Times
<1>6. master.times \subseteq Times
  BY <1>2, Fields
<1> HIDE DEF y, r, known
<1>7. /\ m2 \in Masters /\ m2.retry = master.retry /\ m2.fresh = master.fresh /\ m2.task = master.task
      /\ m2.check = master.check /\ m2.transfers = master.transfers /\ Aside(m2)
  BY <1>2, <1>5, <1>6 DEF Masters, Aside
<1> HIDE DEF m2
<1>8. \A k \in Key : SameClaims(master, m2, worker, k)
  BY <1>7 DEF SameClaims
<1>9. Now(m2) \in Turns(Took(toMaster, w), worker, requests)
  BY <1>1, <1>7, <1>8, QuietUp DEF x
<1>10. Send(Now(m2), w, y) \in Turns(Took(toMaster, w), worker, requests)
  BY <1>4, <1>9, QuietDown
<1> QED
  BY <1>1, <1>4, <1>7, <1>10 DEF TimeTurn, Turning

LEMMA StopAckTokens ==
  ASSUME Checked, Tokens, NEW w \in Worker, StopAck(w)
  PROVE  Tokens'
<1>1. CASE Raise("error")
  BY <1>1, RaiseTokens
<1>2. CASE ~Raise("error")
  <2> DEFINE m2 == [master EXCEPT !.stopped = @ \cup {w}]
  <2>1. /\ toMaster[w] # <<>> /\ Head(toMaster[w]).type \notin TaskTypes
        /\ master' = m2 /\ toMaster' = Took(toMaster, w) /\ UNCHANGED <<worker, toWorker, requests, faults>>
    BY <1>2 DEF StopAck, FromWorker, TaskTypes, Took
  <2>2. master \in Masters
    BY TokenParts
  <2>3. /\ m2 \in Masters /\ m2.retry = master.retry /\ m2.fresh = master.fresh /\ m2.task = master.task
        /\ m2.check = master.check /\ m2.transfers = master.transfers
    BY <2>2 DEF Masters
  <2> HIDE DEF m2
  <2>4. \A k \in Key : SameClaims(master, m2, worker, k)
    BY <2>3 DEF SameClaims
  <2>5. Now(m2) \in Turns(Took(toMaster, w), worker, requests)
    BY <2>1, <2>3, <2>4, QuietUp
  <2>6. TokensOK(m2, toWorker, Took(toMaster, w), worker, requests)
    BY <2>5 DEF Turns, Now
  <2> QED
    BY <2>1, <2>6 DEF Tokens
<1> QED
  BY <1>1, <1>2

LEMMA TransferFailureTokens ==
  ASSUME Tokens, NEW w \in Worker, TransferFailure(w)
  PROVE  Tokens'
<1>1. \E reason : Raise(reason)
  BY DEF TransferFailure
<1> QED
  BY <1>1, RaiseTokens

LEMMA PeerCostTurn ==
  ASSUME Checked, Tokens, NEW w \in Worker, PeerCost(w)
  PROVE  Raise("error") \/ AsideTurn(w)
<1> DEFINE x == Head(toMaster[w])
           c == x.id
           m2 == EndMaster(master, c, w, x.cancels)
<1>1. /\ toMaster[w] # <<>> /\ x.type = "P2P_COST" /\ x.type \in TransferTypes /\ x.type \notin TaskTypes
      /\ Raise("error") \/ EndOfRound(w, Now(m2))
  BY DEF PeerCost, FromWorker, TransferTypes, TaskTypes, EndMaster, Known
<1>2. /\ x \in Up /\ c \in Check /\ x \in About(toMaster[w], c)
      /\ TransferOK(master, toWorker, toMaster, worker, requests, c)
  BY <1>1, Handling
<1> HIDE DEF x, m2
<1>3. x.cancels \in BOOLEAN /\ x = NoTransfer(c, x.cancels)
  BY <1>1, <1>2, UpShape
<1>4. PICK v \in Worker : UpMeans(master, toWorker, toMaster, worker, requests, c, w, x, v)
  BY <1>2, UpSays
<1>5. Dropped(master, toWorker, toMaster, worker, requests, c, w, v)
  <2>1. /\ x # TimeOf(c, w, v, "SEND") /\ x # TimeOf(c, v, w, "RECV")
        /\ x # [type |-> "P2P_FAILURE", id |-> c, target |-> v] /\ x.type # "P2P_TRANSFER"
    BY <1>1 DEF TimeOf
  <2> HIDE DEF c
  <2> QED
    BY <2>1, <1>4 DEF UpMeans
<1> HIDE DEF c
<1>6. master.check[w] = c /\ \A h \in Worker : Held(worker[h], c) = {}
  BY <1>5 DEF Dropped, Owns, Outside
<1>7. master \in Masters /\ c # None
  BY <1>2, TokenParts, HeldChecks
<1>8. /\ m2.retry = master.retry /\ m2.fresh = master.fresh /\ m2.task = master.task
      /\ m2.transfers = master.transfers /\ \A z \in Worker : z # w => m2.check[z] = master.check[z]
  BY <1>7 DEF m2, EndMaster, Masters
<1>9. m2 \in Masters
  <2>1. Owns(master, w, c)
    BY <1>5 DEF Dropped
  <2> QED
    BY <1>2, <1>3, <2>1, EndKeeps DEF m2, MasterOK
<1>10. \A k \in Key : SameClaims(master, m2, worker, k)
  <2>1. \A k \in Key, h \in Worker : \A z \in Queued(worker[h], k) : z.held # c
    BY <1>6 DEF Queued, With, Held
  <2> QED
    BY <1>6, <1>8, <2>1 DEF SameClaims
<1>11. Now(m2) \in Turns(Took(toMaster, w), worker, requests)
  BY <1>1, <1>8, <1>9, <1>10, QuietUp DEF x
<1>12. Aside(m2)
  <2>1. /\ m2.tally = master.tally /\ m2.active = master.active /\ m2.stopping = master.stopping
        /\ \A z \in Worker : m2.check[z] \in {master.check[z], None}
    BY <1>7 DEF m2, EndMaster, Masters
  <2> QED
    BY <1>8, <2>1 DEF Aside
<1> QED
  BY <1>1, <1>11, <1>12 DEF AsideTurn, Turning

(* A queued task that is reserved is being transferred. *)
LEMMA HeldMeans ==
  ASSUME NEW m, NEW down, NEW up, NEW wk, NEW k, TaskOK(m, down, up, wk, k),
         NEW h \in Worker, NEW y \in Queued(wk[h], k), y.held # None
  PROVE  \E o \in Worker : InTransfer(m, down, up, wk, k, o, y)
<1>1. ~Unassigned(m, down, up, wk, k)
  BY DEF Unassigned, Blank
<1>2. ASSUME NEW o \in Worker, Owned(m, down, up, wk, k, o) PROVE FALSE
  <2>1. o = h
    BY <1>2 DEF Owned, Blank
  <2>2. Queued(wk[o], k) # {} /\ Place(down[o], up[o], wk[o], k, m.task[k])
    BY <1>2, <2>1 DEF Owned
  <2>3. Startable(down[o], up[o], wk[o], k, m.task[k])
    BY <2>2 DEF Place, Handed, Judged, Confirmed, Started, Running, Finished, Stored
  <2> QED
    BY <2>1, <2>3 DEF Startable
<1>3. PICK o \in Worker, g \in Worker : \E z \in Queued(wk[g], k) : InTransfer(m, down, up, wk, k, o, z)
  BY <1>1, <1>2 DEF TaskOK
<1>4. PICK z \in Queued(wk[g], k) : InTransfer(m, down, up, wk, k, o, z)
  BY <1>3
<1>5. z = y
  BY <1>4 DEF InTransfer
<1> QED
  BY <1>4, <1>5

(* The tasks of a transfer that the source has reported. *)
LEMMA MovedTokens ==
  ASSUME Checked, Tokens, NEW w \in Worker, toMaster[w] # <<>>, Head(toMaster[w]).type \notin TaskTypes,
         NEW u \in Worker, NEW c \in Check, Given(master, toWorker, toMaster, worker, requests, c, w, u),
         NEW moved, moved = {t.key : t \in Held(worker[u], c)}, NEW tally \in [Worker -> Tallies]
  PROVE  Now(MoveMaster(master, c, w, u, tally, MoveTask(master, u, moved)))
           \in Turns(Took(toMaster, w), worker, requests)
<1> DEFINE task == MoveTask(master, u, moved)
           m2 == MoveMaster(master, c, w, u, tally, task)
<1>1. /\ master \in Masters /\ toWorker \in [Worker -> Seq(Down)] /\ Distinct(toWorker) /\ WaitingOK(master)
      /\ \A k \in Key : TaskOK(master, toWorker, toMaster, worker, k)
  BY TokenParts
<1>2. /\ master.check[w] = c /\ (\A z \in Worker : master.check[z] = c => z = w) /\ c \notin master.transfers
      /\ c # None
  BY HeldChecks DEF Given, Owns
<1>3. \A z \in Worker : z # u => Held(worker[z], c) = {}
  BY DEF Given, Others, Outside
<1>4. task \in [Key -> TaskState]
  BY <1>1, MoveTypes
<1>5. \A k \in Key : /\ k \notin moved => task[k] = master.task[k]
                     /\ k \in moved => task[k] = [master.task[k] EXCEPT !.owner = u]
  BY DEF MoveTask
<1>6. \A k \in Key : master.task[k] \in TaskState
  BY <1>1, Fields
<1>7. \A k \in Key : k \in moved => /\ task[k].owner = u /\ task[k].state = master.task[k].state
                                    /\ task[k].attempt = master.task[k].attempt
  BY <1>5, <1>6, ZenonT(40) DEF TaskState
<1>8. MasterOK(m2)
  BY <1>4, MoveKeeps
<1> HIDE DEF task
<1>9. /\ m2.task = task /\ m2.retry = master.retry /\ m2.fresh = master.fresh /\ c \in m2.transfers
      /\ (\A d \in master.transfers : d \in m2.transfers)
      /\ \A z \in Worker : z # w => m2.check[z] = master.check[z]
  BY <1>1 DEF MoveMaster, Masters
<1> HIDE DEF m2
<1>10. m2 \in Masters
  BY <1>8 DEF MasterOK
<1>11. WaitingOK(m2)
  <2>1. \A k \in Key : m2.task[k].state = master.task[k].state
    BY <1>5, <1>7, <1>9
  <2> QED
    BY <1>1, <1>9, <2>1 DEF WaitingOK
<1> DEFINE K == moved
<1>12. ASSUME NEW k \in Key \cap K PROVE TaskOK(m2, toWorker, Took(toMaster, w), worker, k)
  <2> DEFINE up2 == Took(toMaster, w)
  <2>1. PICK y \in Held(worker[u], c) : y.key = k
    BY <1>12
  <2>2. y.held = c /\ y \in Queued(worker[u], k)
    BY <2>1 DEF Held, Queued, With
  <2>3. PICK o \in Worker : InTransfer(master, toWorker, toMaster, worker, k, o, y)
    BY <1>1, <1>2, <2>2, HeldMeans
  <2>4. SameOf(toMaster, up2, k)
    <3>1. toMaster \in [Worker -> Seq(Up)] /\ Distinct(toMaster) /\ ~Speaks(HeadOf(toMaster, w), k)
      BY TokenParts DEF Speaks, HeadOf
    <3> QED
      BY <3>1, TaskWireTaken
  <2> HIDE DEF up2
  <2>5. \A z \in Worker : Unqueued(toWorker[z], up2[z], worker[z], k) /\ Queued(worker[z], k) \subseteq {y}
    <3>1. \A z \in Worker : Unqueued(toWorker[z], toMaster[z], worker[z], k) /\ Queued(worker[z], k) \subseteq {y}
      BY <2>3 DEF InTransfer
    <3> QED
      BY <2>4, <3>1 DEF Unqueued, SameOf
  <2>6. m2.task[k].owner = u /\ m2.task[k].state = "ACCEPTED" /\ Fits(y, m2.task[k]) /\ y.held # None
    BY <1>2, <1>7, <1>9, <2>2, <2>3 DEF InTransfer, Fits
  <2>7. InTransfer(m2, toWorker, up2, worker, k, u, y)
    BY <1>9, <2>2, <2>5, <2>6 DEF InTransfer
  <2> QED
    BY <2>2, <2>7 DEF TaskOK, up2
<1>13. ASSUME NEW k \in Key \ K PROVE SameClaims(master, m2, worker, k)
  <2>1. \A h \in Worker : \A y \in Queued(worker[h], k) : y.held # c
    <3>1. \A y \in Held(worker[u], c) : y.key # k
      BY <1>13
    <3> QED
      BY <1>3, <3>1 DEF Queued, With, Held
  <2> QED
    BY <1>2, <1>5, <1>9, <2>1 DEF SameClaims
<1>14. \A k \in Key \ K : ~Speaks(HeadOf(toMaster, w), k)
  BY DEF Speaks, HeadOf
<1>15. \A k \in Key \ K : SameOf(toWorker, toWorker, k)
  BY NothingMoved
<1> HIDE DEF K
<1>16. [m |-> m2, wire |-> toWorker] \in Turns(Took(toMaster, w), worker, requests)
  BY <1>1, <1>10, <1>11, <1>12, <1>13, <1>14, <1>15, UpTurn
<1>17. Now(m2) \in Turns(Took(toMaster, w), worker, requests)
  BY <1>16 DEF Now
<1> QED
  BY <1>17 DEF m2, task

MoveState(w, x) ==
  LET moved == {t.key : t \in Range(x.tasks)}
      m2 == MoveMaster(master, x.id, w, x.target, MoveTally(master, w, x.target),
                       MoveTask(master, x.target, moved))
  IN  Send(Send(Now(m2), w, Recorded(x.id)), x.target, Recorded(x.id))

LEMMA TransferResultTurn ==
  ASSUME Checked, Tokens, NEW w \in Worker, TransferResult(w)
  PROVE  (\E reason : Raise(reason)) \/ Turning(w, MoveState(w, Head(toMaster[w])))
<1> DEFINE x == Head(toMaster[w])
           c == x.id
           u == x.target
           moved == {t.key : t \in Range(x.tasks)}
           tally == MoveTally(master, w, u)
           m2 == MoveMaster(master, c, w, u, tally, MoveTask(master, u, moved))
           y == Recorded(c)
           A == Turns(Took(toMaster, w), worker, requests)
<1>b. MoveState(w, x) = Send(Send(Now(m2), w, y), u, y)
  BY Zenon DEF MoveState
<1>1. toMaster[w] # <<>> /\ x.type = "P2P_TRANSFER" /\ x.type \in TransferTypes /\ x.type \notin TaskTypes
  BY DEF TransferResult, FromWorker, TransferTypes, TaskTypes
<1>2. /\ x \in Up /\ c \in Check /\ x \in About(toMaster[w], c)
      /\ TransferOK(master, toWorker, toMaster, worker, requests, c)
  BY <1>1, Handling
<1>3. /\ Given(master, toWorker, toMaster, worker, requests, c, w, u) /\ u \in Worker
      /\ Range(x.tasks) = Held(worker[u], c)
  <2>1. PICK v \in Worker : UpMeans(master, toWorker, toMaster, worker, requests, c, w, x, v)
    BY <1>2, UpSays
  <2>2. /\ x # TimeOf(c, w, v, "SEND") /\ x # TimeOf(c, v, w, "RECV")
        /\ x # [type |-> "P2P_FAILURE", id |-> c, target |-> v] /\ x \notin {NoTransfer(c, FALSE), NoTransfer(c, TRUE)}
    BY <1>1 DEF TimeOf, NoTransfer
  <2> HIDE DEF c, x
  <2> QED
    BY <2>1, <2>2 DEF UpMeans
<1>4. c \notin master.transfers
  BY <1>3 DEF Given, Owns
<1>5. \/ \E reason : Raise(reason)
      \/ EndOfRound(w, Send(Send(Now(m2), w, y), u, y))
  BY <1>4 DEF TransferResult, MoveMaster, MoveTally, MoveTask, Recorded, Record, Zenon
<1>6. tally \in [Worker -> Tallies]
  BY <1>3, MoveTypes, TokenParts
<1>7. moved = {t.key : t \in Held(worker[u], c)}
  BY <1>3
<1>8. y \in Down /\ y.type \notin TaskTypes
  BY <1>2 DEF Recorded, Down, TaskTypes
<1>a. toMaster[w] # <<>> /\ Head(toMaster[w]).type \notin TaskTypes
  BY <1>1
<1> HIDE DEF tally, moved, x, c, u, y
<1>9. Now(m2) \in A
  BY <1>a, <1>2, <1>3, <1>6, <1>7, MovedTokens
<1> HIDE DEF m2
<1>10. Send(Now(m2), w, y) \in A
  BY <1>8, <1>9, QuietDown
<1> DEFINE s == Send(Now(m2), w, y)
<1>11. s \in A
  BY <1>10
<1> HIDE DEF s
<1>12. Send(s, u, y) \in A
  BY <1>3, <1>8, <1>11, QuietDown
<1> QED
  BY <1>b, <1>5, <1>12 DEF s, x, Turning

LEMMA MessageTokens ==
  ASSUME Checked, Tokens, NEW w \in Worker, HandleMessage(w)
  PROVE  Tokens'
<1>1. ASSUME NEW s, Turning(w, s) PROVE Tokens'
  BY <1>1, RoundTokens DEF Turning
<1>2. ASSUME NEW reason, Raise(reason) PROVE Tokens'
  BY <1>2, RaiseTokens
<1>3. AsideTurn(w) \/ TimeTurn(w) => Tokens'
  BY <1>1 DEF AsideTurn, TimeTurn
<1> QED
  BY <1>1, <1>2, <1>3, ReadyTurn, QueueStatusTurn, TaskAckTurn, ProcessingStartTurn, TaskResultTurn, TransferTimeTurn,
     TransferResultTurn, PeerCostTurn, TransferFailureTokens, StopAckTokens, Zenon DEF HandleMessage

-----------------------------------------------------------------------------
(* The workers: one of them, and its wires, change. *)

LEMMA WorkerTokens ==
  ASSUME NEW m, NEW down, NEW up, NEW wk, NEW rq, TokensOK(m, down, up, wk, rq), NEW w \in Worker,
         NEW down2, NEW up2, NEW wk2, NEW rq2, NEW K, ListsOK(up2, wk2, rq2), Distinct(down2), Distinct(up2),
         \A z \in Worker : z # w => wk2[z] = wk[z],
         \A k \in Key \cap K : TaskOK(m, down2, up2, wk2, k),
         \A k \in Key \ K : SameOf(down, down2, k),
         \A k \in Key \ K : SameOf(up, up2, k),
         \A k \in Key \ K : SameHeld(wk[w], wk2[w], k)
  PROVE  TokensOK(m, down2, up2, wk2, rq2)
<1>1. WaitingOK(m)
  BY DEF TokensOK
<1>2. \A k \in Key \ K : SameClaims(m, m, wk, k)
  BY NothingMoved
<1>3. \A k \in Key \ K : SameHolders(wk, wk2, k)
  BY DEF SameHolders, SameHeld
<1> QED
  BY <1>1, <1>2, <1>3, TokensElsewhere

LEMMA MovesOn ==
  ASSUME NEW m, NEW down, NEW up, NEW wk, NEW k, NEW w \in Worker, Owned(m, down, up, wk, k, w),
         NEW down2, NEW up2, NEW wk2, Place(down2[w], up2[w], wk2[w], k, m.task[k]),
         \A z \in Worker : z # w => down2[z] = down[z] /\ up2[z] = up[z] /\ wk2[z] = wk[z]
  PROVE  TaskOK(m, down2, up2, wk2, k)
<1>1. \A z \in Worker : z # w => Blank(down2[z], up2[z], wk2[z], k)
  BY DEF Owned
<1> QED
  BY <1>1 DEF Owned, TaskOK

(* A queued task that is not reserved may be started. *)
LEMMA FreeMeans ==
  ASSUME NEW m, NEW down, NEW up, NEW wk, NEW k, TaskOK(m, down, up, wk, k),
         NEW h \in Worker, NEW y \in Queued(wk[h], k), y.held = None
  PROVE  /\ Owned(m, down, up, wk, k, h) /\ Startable(down[h], up[h], wk[h], k, m.task[k])
         /\ m.task[k].state = "ACCEPTED" /\ Fits(y, m.task[k])
         /\ Only(Queued(wk[h], k), y) /\ Unqueued(down[h], up[h], wk[h], k)
<1>1. ~Unassigned(m, down, up, wk, k)
  BY DEF Unassigned, Blank
<1>2. \A o, g \in Worker : \A z \in Queued(wk[g], k) : ~InTransfer(m, down, up, wk, k, o, z)
  BY DEF InTransfer
<1>3. PICK o \in Worker : Owned(m, down, up, wk, k, o)
  BY <1>1, <1>2 DEF TaskOK
<1>4. o = h
  BY <1>3 DEF Owned, Blank
<1>5. Queued(wk[h], k) # {} /\ Place(down[h], up[h], wk[h], k, m.task[k])
  BY <1>3, <1>4 DEF Owned
<1>6. Startable(down[h], up[h], wk[h], k, m.task[k])
  BY <1>5 DEF Place, Handed, Judged, Confirmed, Started, Running, Finished, Stored
<1> QED
  BY <1>3, <1>4, <1>6 DEF Startable, Only

LEMMA StartTokens ==
  ASSUME NEW m, NEW down, NEW up \in [Worker -> Seq(Up)], NEW wk, NEW rq, TokensOK(m, down, up, wk, rq),
         NEW w \in Worker, DOMAIN wk = Worker, wk[w] \in Workers, CanStart(wk[w]), StartOf(wk[w]) \in Up
  PROVE  TokensOK(m, down, Put(up, w, StartOf(wk[w])), [wk EXCEPT ![w] = Starting(wk[w])], rq)
<1> DEFINE v == wk[w]
           p == Pick(v.queue, DOMAIN v.queue \ {NextIndex(v.queue)})
           t == v.queue[NextIndex(v.queue)]
           k == t.key
           y == StartOf(v)
           v2 == Starting(v)
           up2 == Put(up, w, y)
           wk2 == [wk EXCEPT ![w] = Starting(v)]
<1>1. /\ v.queue \in Seq(TaskRec) /\ Free(v.queue) # {} /\ v.current = <<>>
      /\ Distinct(up) /\ Distinct(down) /\ ListsOK(up, wk, rq) /\ Apart(v.queue)
      /\ \A j \in Key : TaskOK(m, down, up, wk, j)
  BY WorkerFields DEF CanStart, TokensOK, Distinct, ListsOK, Lists
<1>2. /\ t \in TaskRec /\ t.held = None /\ t \in Range(v.queue)
      /\ Apart(p) /\ Range(p) = Range(v.queue) \ {t} /\ \A s \in Range(p) : s.key # k
  BY <1>1, NextTaken
<1>3. k \in Key /\ t \in Queued(v, k)
  BY <1>2 DEF TaskRec, Queued, With, Tasks
<1>4. y.type = "PROCESS_START" /\ y.task = t /\ y \in Up
  BY DEF StartOf
<1>5. v2 = [v EXCEPT !.queue = p, !.current = <<t>>]
  BY DEF Starting
<1>6. v \in Workers /\ wk2[w] = v2 /\ \A z \in Worker : z # w => wk2[z] = wk[z]
  OBVIOUS
<1> HIDE DEF v, p, t, y, v2, wk2, up2
<1>7. /\ v2.queue = p /\ v2.current = <<t>> /\ v2.accepted = v.accepted /\ v2.stored = v.stored
      /\ v2.receiving = v.receiving
  BY <1>5, <1>6 DEF Workers
<1>8. /\ Owned(m, down, up, wk, k, w) /\ Fits(t, m.task[k]) /\ m.task[k].state = "ACCEPTED"
      /\ Only(Queued(v, k), t) /\ Unqueued(down[w], up[w], v, k)
  BY <1>1, <1>2, <1>3, FreeMeans DEF v
<1>9. Of(down[w], k) = {} /\ Of(up[w], k) = {} /\ Accepted(v, k) = {} /\ k \notin v.stored
  BY <1>8 DEF Unqueued
<1>10. Speaks(y, k) /\ \A j : j # k => ~Speaks(y, j)
  BY <1>4 DEF Speaks, TaskTypes
<1>11. /\ Distinct(up2) /\ \A z \in Worker : z # w => up2[z] = up[z]
       /\ Only(Of(up2[w], k), y) /\ \A j : j # k => SameOf(up, up2, j)
       /\ Range(up2[w]) = Plus(Range(up[w]), y)
  <2>1. Of(up[w], y.task.key) = {}
    BY <1>4, <1>9
  <2> QED
    BY <1>1, <1>4, <1>10, <2>1, TaskWireSent DEF up2
<1>12. Range(v2.current) = {t}
  BY <1>7 DEF Range
<1>13. Started(down[w], up2[w], v2, k, m.task[k])
  <2>1. Queued(v2, k) = {} /\ Current(v2, k) = {t} /\ Accepted(v2, k) = {} /\ k \notin v2.stored
    BY <1>2, <1>7, <1>9, <1>12 DEF Queued, With, Tasks, Current, Accepted
  <2> QED
    BY <1>4, <1>8, <1>9, <1>11, <2>1 DEF Started, Only
<1>14. TaskOK(m, down, up2, wk2, k)
  <2>1. Place(down[w], up2[w], wk2[w], k, m.task[k])
    BY <1>6, <1>13 DEF Place
  <2> QED
    BY <1>6, <1>8, <1>11, <2>1, MovesOn
<1>15. ASSUME NEW j \in Key, j # k PROVE SameHeld(v, v2, j)
  <2>1. Range(v.current) = {}
    BY <1>1 DEF Range
  <2>2. Current(v2, j) = {} /\ Current(v, j) = {}
    BY <1>12, <1>15, <2>1 DEF Current, With
  <2>3. Queued(v2, j) = Queued(v, j)
    BY <1>2, <1>7, <1>15 DEF Queued, With, Tasks
  <2> QED
    BY <1>7, <2>2, <2>3 DEF SameHeld, Accepted
<1>16. ListsOK(up2, wk2, rq)
  <2>1. Lists(v2)
    BY <1>1, <1>2, <1>7 DEF ListsOK, Lists, v
  <2>2. y.type # "P2P_TRANSFER"
    BY <1>4
  <2> QED
    BY <1>1, <1>6, <1>11, <2>1, <2>2 DEF ListsOK, Plus
<1> DEFINE K == {k}
<1>17. \A j \in Key \cap K : TaskOK(m, down, up2, wk2, j)
  BY <1>14
<1>18. \A j \in Key \ K : SameOf(up, up2, j)
  BY <1>11
<1>18a. \A j \in Key \ K : SameOf(down, down, j)
  BY NothingMoved
<1>18b. \A j \in Key \ K : SameHeld(wk[w], wk2[w], j)
  BY <1>6, <1>15 DEF v
<1> HIDE DEF K
<1>19a. Distinct(down) /\ Distinct(up2)
  BY <1>1, <1>11
<1>19b. \A z \in Worker : z # w => wk2[z] = wk[z]
  BY <1>6
<1>19. TokensOK(m, down, up2, wk2, rq)
  BY <1>16, <1>17, <1>18, <1>18a, <1>18b, <1>19a, <1>19b, WorkerTokens
<1> QED
  BY <1>19 DEF up2, wk2, y, v

(* The messages are well-formed, since the next state is. *)
LEMMA SentUp ==
  ASSUME toMaster \in [Worker -> Seq(Up)], toMaster' \in [Worker -> Seq(Up)], NEW w \in Worker, NEW v,
         NEW S, NEW ms \in Seq(S), SendAndStart(w, v, ms)
  PROVE  /\ ms \in Seq(Up) /\ Sends(toMaster, w, ms) \in [Worker -> Seq(Up)]
         /\ CanStart(v) => StartOf(v) \in Up
<1> DEFINE y == StartOf(v)
           S2 == S \cup {y} \cup Up
           q == toMaster[w]
           more == Append(ms, y)
           l == IF CanStart(v) THEN more ELSE ms
           n == Len(q)
<1>1. q \in Seq(Up) /\ toMaster'[w] \in Seq(Up)
  OBVIOUS
<1>2. ms \in Seq(S2) /\ q \in Seq(S2) /\ y \in S2
  BY <1>1
<1>3. toMaster'[w] = q \o l
  BY DEF SendAndStart, StartOf
<1> HIDE DEF y, S2, q
<1>4. more \in Seq(S2) /\ Range(more) = Range(ms) \cup {y}
  BY <1>2, MessageSent
<1>5. l \in Seq(S2)
  BY <1>2, <1>4
<1> DEFINE p == q \o l
<1>6. p \in Seq(Up)
  BY <1>1, <1>3
<1> HIDE DEF l, more
<1>7. n \in Nat /\ Len(l) \in Nat /\ DOMAIN l = 1..Len(l) /\ DOMAIN p = 1..(n + Len(l))
      /\ \A i \in 1..(n + Len(l)) : p[i] = IF i <= n THEN q[i] ELSE l[i - n]
  BY <1>2, <1>5, ConcatProperties, LenProperties
<1>8. \A i \in DOMAIN p : p[i] \in Up
  BY <1>6
<1> HIDE DEF p, n
<1>9. ASSUME NEW i \in DOMAIN l PROVE l[i] \in Up
  <2>1. i + n \in 1..(n + Len(l)) /\ ~(i + n <= n) /\ i + n - n = i
    BY <1>7
  <2>2. p[i + n] = l[i]
    BY <1>7, <2>1
  <2> QED
    BY <1>7, <1>8, <2>1, <2>2
<1>10. Range(l) \subseteq Up
  BY <1>9 DEF Range
<1>11. Range(ms) \subseteq Up /\ (CanStart(v) => y \in Up)
  BY <1>4, <1>10 DEF l
<1>12. ms \in Seq(Up)
  <2>1. \A i \in DOMAIN ms : ms[i] \in Up
    BY <1>11 DEF Range
  <2>2. Len(ms) \in Nat /\ DOMAIN ms = 1..Len(ms) /\ ms \in [1..Len(ms) -> S]
    BY LenProperties
  <2>3. ms \in [1..Len(ms) -> Up]
    BY <2>1, <2>2
  <2> QED
    BY <2>2, <2>3, SeqDef, SMTT(40)
<1>13. q \o ms \in Seq(Up)
  BY <1>1, <1>12, ConcatProperties
<1> QED
  BY <1>11, <1>12, <1>13 DEF y, q, Sends

LEMMA StartedTokens ==
  ASSUME NEW m, NEW down, NEW rq, NEW w \in Worker, NEW v \in Workers, NEW ms \in Seq(Up),
         toMaster \in [Worker -> Seq(Up)], DOMAIN worker = Worker, SendAndStart(w, v, ms),
         CanStart(v) => StartOf(v) \in Up, Sends(toMaster, w, ms) \in [Worker -> Seq(Up)],
         TokensOK(m, down, Sends(toMaster, w, ms), [worker EXCEPT ![w] = v], rq)
  PROVE  TokensOK(m, down, toMaster', worker', rq)
<1> DEFINE up == Sends(toMaster, w, ms)
           wk == [worker EXCEPT ![w] = v]
<1>1. /\ wk[w] = v
      /\ IF CanStart(v) THEN /\ worker' = [wk EXCEPT ![w] = Starting(v)]
                             /\ toMaster' = Put(up, w, StartOf(v))
                        ELSE worker' = wk /\ toMaster' = up
  BY StartShape
<1>2. DOMAIN wk = Worker
  OBVIOUS
<1>2a. TokensOK(m, down, up, wk, rq) /\ up \in [Worker -> Seq(Up)]
  OBVIOUS
<1> HIDE DEF up, wk
<1>3. CASE ~CanStart(v)
  BY <1>1, <1>3 DEF up, wk
<1>4. CASE CanStart(v)
  <2>1. StartOf(wk[w]) \in Up
    BY <1>1, <1>4
  <2>2. TokensOK(m, down, Put(up, w, StartOf(wk[w])), [wk EXCEPT ![w] = Starting(wk[w])], rq)
    <3>1. wk[w] \in Workers /\ CanStart(wk[w])
      BY <1>1, <1>4
    <3> QED
      BY <1>2, <1>2a, <2>1, <3>1, StartTokens
  <2> QED
    BY <1>1, <1>4, <2>2
<1> QED
  BY <1>3, <1>4

(* Messages were sent, and the next task may start. *)
LEMMA StepTokens ==
  ASSUME Checked, Checked', Tokens, NEW w \in Worker, NEW v \in Workers, Lists(v), NEW S, NEW ms \in Seq(S),
         NEW down2, Distinct(down2), NEW up2 \in [Worker -> Seq(Up)], up2 = Sends(toMaster, w, ms), Distinct(up2),
         \A x \in Range(up2[w]) : x \in Range(toMaster[w]) \/ x \in Range(ms),
         \A x \in Range(ms) : x.type = "P2P_TRANSFER" => Apart(x.tasks),
         NEW rq2, \A r \in rq2 : Apart(r.tasks), NEW K,
         \A k \in Key \cap K : TaskOK(master, down2, up2, [worker EXCEPT ![w] = v], k),
         \A k \in Key \ K : SameOf(toWorker, down2, k),
         \A k \in Key \ K : SameOf(toMaster, up2, k),
         \A k \in Key \ K : SameHeld(worker[w], v, k),
         SendAndStart(w, v, ms), master' = master, toWorker' = down2, requests' = rq2
  PROVE  Tokens'
<1> DEFINE wk2 == [worker EXCEPT ![w] = v]
<1>1. /\ toMaster \in [Worker -> Seq(Up)] /\ ListsOK(toMaster, worker, requests)
      /\ TokensOK(master, toWorker, toMaster, worker, requests)
  BY TokenParts DEF Tokens
<1>2. DOMAIN worker = Worker
  BY CheckedWorker
<1>3. wk2[w] = v /\ \A z \in Worker : z # w => wk2[z] = worker[z]
  BY <1>2
<1>4. \A z \in Worker : z # w => up2[z] = toMaster[z]
  BY <1>1 DEF Sends
<1>5. \A k \in Key \cap K : TaskOK(master, down2, up2, wk2, k)
  OBVIOUS
<1>6. SendAndStart(w, v, ms) /\ up2 = Sends(toMaster, w, ms) /\ Sends(toMaster, w, ms) \in [Worker -> Seq(Up)]
  OBVIOUS
<1>6a. ms \in Seq(Up) /\ (CanStart(v) => StartOf(v) \in Up)
  <2>1. toMaster' \in [Worker -> Seq(Up)]
    BY DEF Checked, SystemOK, TypesOK
  <2> QED
    BY <1>1, <1>6, <2>1, SentUp
<1> HIDE DEF wk2
<1>7. ListsOK(up2, wk2, rq2)
  BY <1>1, <1>3, <1>4 DEF ListsOK
<1>8. \A k \in Key \ K : SameHeld(worker[w], wk2[w], k)
  BY <1>3
<1>9. TokensOK(master, down2, up2, wk2, rq2)
  BY <1>1, <1>3, <1>5, <1>7, <1>8, WorkerTokens
<1>10. TokensOK(master, down2, Sends(toMaster, w, ms), wk2, rq2)
  BY <1>9
<1>11. TokensOK(master, down2, toMaster', worker', rq2)
  BY <1>1, <1>2, <1>6, <1>10, <1>6a, StartedTokens DEF wk2
<1> QED
  BY <1>11 DEF Tokens

LEMMA FirstDown ==
  ASSUME Checked, Tokens, NEW w \in Worker, toWorker[w] # <<>>
  PROVE  /\ Took(toWorker, w) \in [Worker -> Seq(Down)] /\ Distinct(Took(toWorker, w))
         /\ \A z \in Worker : z # w => Took(toWorker, w)[z] = toWorker[z]
         /\ HeadOf(toWorker, w) \in Down /\ HeadOf(toWorker, w) \in Range(toWorker[w])
         /\ \A j : Of(Took(toWorker, w)[w], j) = Minus(Of(toWorker[w], j), HeadOf(toWorker, w))
         /\ \A j : ~Speaks(HeadOf(toWorker, w), j) => SameOf(toWorker, Took(toWorker, w), j)
<1> DEFINE f == toWorker
<1>1. f \in [Worker -> Seq(Down)] /\ Distinct(f) /\ f[w] # <<>>
  BY TokenParts
<1> HIDE DEF f
<1>2. /\ Took(f, w) \in [Worker -> Seq(Down)] /\ Distinct(Took(f, w))
      /\ \A z \in Worker : z # w => Took(f, w)[z] = f[z]
      /\ HeadOf(f, w) \in Down /\ HeadOf(f, w) \in Range(f[w])
  BY <1>1, TaskWireTaken
<1>3. \A j : Of(Took(f, w)[w], j) = Minus(Of(f[w], j), HeadOf(f, w))
  BY <1>1, TaskWireTaken
<1>4. \A j : ~Speaks(HeadOf(f, w), j) => SameOf(f, Took(f, w), j)
  BY <1>1, TaskWireTaken
<1> QED
  BY <1>2, <1>3, <1>4 DEF f

(* The messages and the answers are not about tasks; what w holds of the tasks in
   K may change. *)
LEMMA QuietAnswer ==
  ASSUME Checked, Checked', Tokens, NEW w \in Worker, toWorker[w] # <<>>, Head(toWorker[w]).type \notin TaskTypes,
         NEW v \in Workers, Lists(v), NEW S, NEW ms \in Seq(S), NoTasks(ms),
         \A x \in Range(ms) : x.type # "P2P_TRANSFER", Answer(w, v, ms),
         \A r \in requests' : Apart(r.tasks), NEW K,
         \A k \in Key \cap K : TaskOK(master, Took(toWorker, w), Sends(toMaster, w, ms), [worker EXCEPT ![w] = v], k),
         \A k \in Key \ K : SameHeld(worker[w], v, k)
  PROVE  Tokens'
<1> DEFINE down2 == Took(toWorker, w)
           up2 == Sends(toMaster, w, ms)
           rq2 == requests'
<1>1. toMaster \in [Worker -> Seq(Up)] /\ Distinct(toMaster)
  BY TokenParts
<1>1a. ms \in Seq(Up)
  <2>1. toMaster' \in [Worker -> Seq(Up)] /\ SendAndStart(w, v, ms)
    BY DEF Checked, SystemOK, TypesOK, Answer
  <2> QED
    BY <1>1, <2>1, SentUp
<1>2. /\ up2 \in [Worker -> Seq(Up)] /\ Distinct(up2) /\ \A k : SameOf(toMaster, up2, k)
      /\ \A x \in Range(up2[w]) : x \in Range(toMaster[w]) \/ x \in Range(ms)
  <2>1. Distinct(toMaster) /\ NoTasks(ms) /\ toMaster \in [Worker -> Seq(Up)] /\ ms \in Seq(Up)
    BY <1>1, <1>1a
  <2>2. Sends(toMaster, w, ms) \in [Worker -> Seq(Up)] /\ Distinct(Sends(toMaster, w, ms))
    BY <2>1, QuietMessages
  <2>3. \A k : SameOf(toMaster, Sends(toMaster, w, ms), k)
    BY <2>1, QuietMessages
  <2>4. \A x \in Range(Sends(toMaster, w, ms)[w]) : x \in Range(toMaster[w]) \/ x \in Range(ms)
    BY <2>1, QuietMessages
  <2> QED
    BY <2>2, <2>3, <2>4
<1>3. \A j : ~Speaks(HeadOf(toWorker, w), j)
  BY DEF Speaks, HeadOf
<1>4. Distinct(down2) /\ \A j : SameOf(toWorker, down2, j)
  BY <1>3, FirstDown
<1>5. SendAndStart(w, v, ms) /\ master' = master /\ toWorker' = down2 /\ requests' = rq2
  BY DEF Answer, Took
<1>6. \A r \in rq2 : Apart(r.tasks)
  OBVIOUS
<1>7. \A k \in Key \cap K : TaskOK(master, down2, up2, [worker EXCEPT ![w] = v], k)
  OBVIOUS
<1>8. up2 = Sends(toMaster, w, ms)
  OBVIOUS
<1> HIDE DEF down2, up2, rq2
<1> QED
  BY <1>2, <1>4, <1>5, <1>6, <1>7, <1>8, StepTokens

(* A message about task k is answered by y, which is about k, too. *)
LEMMA TaskAnswer ==
  ASSUME Checked, Checked', Tokens, NEW w \in Worker, toWorker[w] # <<>>, NEW k \in Key,
         Speaks(HeadOf(toWorker, w), k), Owned(master, toWorker, toMaster, worker, k, w),
         NEW v \in Workers, Lists(v), \A j \in Key : j # k => SameHeld(worker[w], v, j),
         NEW y, y.type # "P2P_TRANSFER", y.type \in TaskTypes => y.task.key = k /\ Of(toMaster[w], k) = {},
         Place(Took(toWorker, w)[w], Put(toMaster, w, y)[w], v, k, master.task[k]),
         Answer(w, v, <<y>>), requests' = requests
  PROVE  Tokens'
<1> DEFINE down2 == Took(toWorker, w)
           up2 == Put(toMaster, w, y)
           ms == <<y>>
           wk2 == [worker EXCEPT ![w] = v]
<1>1. /\ toMaster \in [Worker -> Seq(Up)] /\ Distinct(toMaster) /\ ListsOK(toMaster, worker, requests)
      /\ DOMAIN worker = Worker
  BY TokenParts, CheckedWorker
<1>1a. y \in Up
  <2>1. toMaster' \in [Worker -> Seq(Up)] /\ SendAndStart(w, v, <<y>>)
    BY DEF Checked, SystemOK, TypesOK, Answer
  <2>2. <<y>> \in Seq({y})
    OBVIOUS
  <2>3. <<y>> \in Seq(Up)
    BY <1>1, <2>1, <2>2, SentUp
  <2>4. Len(<<y>>) = 1 /\ <<y>>[1] = y
    OBVIOUS
  <2> QED
    BY <2>3, <2>4
<1>2. /\ up2 \in [Worker -> Seq(Up)] /\ Distinct(up2) /\ \A z \in Worker : z # w => up2[z] = toMaster[z]
      /\ \A j : ~Speaks(y, j) => SameOf(toMaster, up2, j)
      /\ Range(up2[w]) = Plus(Range(toMaster[w]), y)
  <2>1. y.type \in TaskTypes => Of(toMaster[w], y.task.key) = {}
    OBVIOUS
  <2> QED
    BY <1>1, <1>1a, <2>1, TaskWireSent
<1>3. \A j : j # k => ~Speaks(HeadOf(toWorker, w), j) /\ ~Speaks(y, j)
  BY DEF Speaks
<1>4. /\ Distinct(down2) /\ \A j : j # k => SameOf(toWorker, down2, j)
      /\ \A z \in Worker : z # w => down2[z] = toWorker[z]
  BY <1>3, FirstDown
<1>5. up2 = Sends(toMaster, w, ms) /\ ms \in Seq(Up) /\ Range(ms) = {y}
  <2>1. <<y>> \in Seq(Up) /\ Range(<<y>>) = {y}
    BY <1>1a DEF Range
  <2> QED
    BY <1>1, <1>1a, <2>1, OneSent
<1>6. SendAndStart(w, v, ms) /\ master' = master /\ toWorker' = down2 /\ requests' = requests
  BY DEF Answer, Took
<1>7. wk2[w] = v /\ \A z \in Worker : z # w => wk2[z] = worker[z]
  BY <1>1
<1>8. Place(down2[w], up2[w], v, k, master.task[k])
  OBVIOUS
<1> HIDE DEF down2, up2, ms, wk2
<1>9. TaskOK(master, down2, up2, wk2, k)
  BY <1>2, <1>4, <1>7, <1>8, MovesOn
<1> DEFINE K == {k}
<1>10. \A j \in Key \cap K : TaskOK(master, down2, up2, [worker EXCEPT ![w] = v], j)
  BY <1>9 DEF wk2
<1>11. \A j \in Key \ K : SameOf(toWorker, down2, j)
  BY <1>4
<1>12. \A j \in Key \ K : SameOf(toMaster, up2, j)
  BY <1>2, <1>3
<1>13. \A j \in Key \ K : SameHeld(worker[w], v, j)
  OBVIOUS
<1> HIDE DEF K
<1>14. (\A x \in Range(up2[w]) : x \in Range(toMaster[w]) \/ x \in Range(ms)) /\ \A x \in Range(ms) : x.type # "P2P_TRANSFER"
  BY <1>2, <1>5 DEF Plus
<1>15. \A r \in requests : Apart(r.tasks)
  BY <1>1 DEF ListsOK
<1> QED
  BY <1>2, <1>4, <1>5, <1>6, <1>10, <1>11, <1>12, <1>13, <1>14, <1>15, StepTokens

LEMMA QuietOne ==
  ASSUME Checked, Checked', Tokens, NEW w \in Worker, toWorker[w] # <<>>, Head(toWorker[w]).type \notin TaskTypes,
         NEW v \in Workers, Lists(v), NEW y, y.type \notin TaskTypes, y.type # "P2P_TRANSFER",
         Answer(w, v, <<y>>), requests' = requests, \A k \in Key : SameHeld(worker[w], v, k)
  PROVE  Tokens'
<1> DEFINE K == {}
           ms == <<y>>
<1>1. ms \in Seq({y}) /\ NoTasks(ms) /\ \A x \in Range(ms) : x.type # "P2P_TRANSFER"
  BY DEF NoTasks, Range
<1>2. \A r \in requests' : Apart(r.tasks)
  BY TokenParts DEF ListsOK
<1>3. \A k \in Key \cap K : TaskOK(master, Took(toWorker, w), Sends(toMaster, w, ms), [worker EXCEPT ![w] = v], k)
  OBVIOUS
<1>4. \A k \in Key \ K : SameHeld(worker[w], v, k)
  OBVIOUS
<1>5. Answer(w, v, ms)
  OBVIOUS
<1> HIDE DEF K, ms
<1> QED
  BY <1>1, <1>2, <1>3, <1>4, <1>5, QuietAnswer

LEMMA HeldKept ==
  ASSUME Tokens, NEW w \in Worker, NEW v, v.queue = worker[w].queue, v.accepted = worker[w].accepted,
         v.current = worker[w].current, v.stored = worker[w].stored
  PROVE  /\ \A k : SameHeld(worker[w], v, k)
         /\ v.receiving = worker[w].receiving => Lists(v)
<1>1. Lists(worker[w])
  BY DEF Tokens, TokensOK, ListsOK
<1>2. v.receiving = worker[w].receiving => Lists(v)
  BY <1>1 DEF Lists
<1> QED
  BY <1>2 DEF SameHeld, Queued, Tasks, Accepted, Current, With

LEMMA PeersTokens ==
  ASSUME Checked, Checked', Tokens, NEW w \in Worker, HandlePeers(w)
  PROVE  Tokens'
<1> DEFINE v == worker[w]
           v2 == [v EXCEPT !.ready = TRUE]
           y == [type |-> "READY"]
<1>1. v \in Workers
  BY CheckedWorker
<1>2. /\ toWorker[w] # <<>> /\ Head(toWorker[w]).type \notin TaskTypes
      /\ Answer(w, v2, <<y>>) /\ requests' = requests
  BY DEF HandlePeers, FromMaster, TaskTypes
<1>3. y.type \notin TaskTypes /\ y.type # "P2P_TRANSFER"
  BY DEF TaskTypes
<1> HIDE DEF v, y
<1>4. /\ v2 \in Workers /\ v2.receiving = v.receiving
      /\ v2.queue = v.queue /\ v2.accepted = v.accepted /\ v2.current = v.current /\ v2.stored = v.stored
  BY <1>1 DEF Workers
<1> HIDE DEF v2
<1>5. Lists(v2) /\ \A k \in Key : SameHeld(worker[w], v2, k)
  BY <1>4, HeldKept DEF v
<1> QED
  BY <1>2, <1>3, <1>4, <1>5, QuietOne

LEMMA StopTokens ==
  ASSUME Checked, Checked', Tokens, NEW w \in Worker, HandleStop(w)
  PROVE  Tokens'
<1> DEFINE v == worker[w]
           v2 == [v EXCEPT !.stopping = TRUE]
           y == [type |-> "STOP_ACK", stats |-> Statistics(v)]
<1>1. v \in Workers
  BY CheckedWorker
<1>2. /\ toWorker[w] # <<>> /\ Head(toWorker[w]).type \notin TaskTypes
      /\ Answer(w, v2, <<y>>) /\ requests' = requests
  BY DEF HandleStop, FromMaster, TaskTypes
<1>3. y.type \notin TaskTypes /\ y.type # "P2P_TRANSFER"
  BY DEF TaskTypes
<1> HIDE DEF v, y
<1>4. /\ v2 \in Workers /\ v2.receiving = v.receiving
      /\ v2.queue = v.queue /\ v2.accepted = v.accepted /\ v2.current = v.current /\ v2.stored = v.stored
  BY <1>1 DEF Workers
<1> HIDE DEF v2
<1>5. Lists(v2) /\ \A k \in Key : SameHeld(worker[w], v2, k)
  BY <1>4, HeldKept DEF v
<1> QED
  BY <1>2, <1>3, <1>4, <1>5, QuietOne

(* What the first message to w says when it is about a task. *)
LEMMA TaskTold ==
  ASSUME Checked, Tokens, NEW w \in Worker, toWorker[w] # <<>>,
         Head(toWorker[w]).type \in {"TASK", "TASK_CONFIRMED", "PROCESS_ACK"},
         NEW x, x = Head(toWorker[w]), NEW k, k = x.task.key, NEW t, t = master.task[k],
         NEW v, v = worker[w], NEW d2, d2 = Took(toWorker, w)[w]
  PROVE  /\ x \in Down /\ Speaks(HeadOf(toWorker, w), k) /\ x \in Of(toWorker[w], k)
         /\ k \in Key /\ x.task \in FreeTask /\ Owned(master, toWorker, toMaster, worker, k, w)
         /\ x.type = "TASK" => Handed(toWorker[w], toMaster[w], v, k, t)
         /\ x.type = "TASK_CONFIRMED" => Confirmed(toWorker[w], toMaster[w], v, k, t)
         /\ x.type = "PROCESS_ACK" => Running(toWorker[w], toMaster[w], v, k, t)
         /\ Of(d2, k) = Minus(Of(toWorker[w], k), x)
<1>1. \A j \in Key : TaskOK(master, toWorker, toMaster, worker, j)
  BY TokenParts
<1>2. /\ HeadOf(toWorker, w) \in Down /\ HeadOf(toWorker, w) \in Range(toWorker[w])
      /\ \A j : Of(d2, j) = Minus(Of(toWorker[w], j), HeadOf(toWorker, w))
  BY FirstDown
<1>3. x = HeadOf(toWorker, w)
  BY DEF HeadOf
<1>4. x.type \in {"TASK", "TASK_CONFIRMED", "PROCESS_ACK"}
  OBVIOUS
<1>5. x \in Down /\ x.task \in FreeTask
  BY <1>2, <1>3, <1>4, DownShape
<1>6. k \in Key
  BY <1>5 DEF FreeTask, TaskRec
<1>7. Speaks(x, k)
  BY <1>4 DEF Speaks, TaskTypes
<1>8. x \in Of(toWorker[w], k)
  BY <1>2, <1>3, <1>7 DEF Of
<1>9. /\ Owned(master, toWorker, toMaster, worker, k, w)
      /\ x.type = "TASK" => Handed(toWorker[w], toMaster[w], worker[w], k, master.task[k])
      /\ x.type = "TASK_CONFIRMED" => Confirmed(toWorker[w], toMaster[w], worker[w], k, master.task[k])
      /\ x.type = "PROCESS_ACK" => Running(toWorker[w], toMaster[w], worker[w], k, master.task[k])
  BY <1>1, <1>6, <1>8, DownTask
<1>10. Of(d2, k) = Minus(Of(toWorker[w], k), x)
  BY <1>2, <1>3
<1> QED
  BY <1>3, <1>5, <1>6, <1>7, <1>8, <1>9, <1>10

(* w's answer about task k. *)
LEMMA AnswerAbout ==
  ASSUME Checked, Tokens, NEW w \in Worker, NEW y
  PROVE  LET u2 == Put(toMaster, w, y)[w]
         IN  /\ \A k : Speaks(y, k) /\ Of(toMaster[w], k) = {} => Only(Of(u2, k), y)
             /\ \A k : ~Speaks(y, k) => Of(u2, k) = Of(toMaster[w], k)
<1> DEFINE S == Up \cup {y}
           q == toMaster[w]
<1>1. toMaster \in [Worker -> Seq(Up)] /\ q \in Seq(S) /\ y \in S
  BY TokenParts
<1>2. Put(toMaster, w, y)[w] = Append(q, y)
  BY <1>1 DEF Put
<1> HIDE DEF S, q
<1>3. Range(Append(q, y)) = Range(q) \cup {y}
  BY <1>1, MessageSent
<1> QED
  BY <1>2, <1>3 DEF Of, Only, q

LEMMA TaskJudged ==
  ASSUME NEW d, NEW u, NEW v, NEW k, NEW t, NEW x, x \in Of(d, k), Handed(d, u, v, k, t),
         NEW d2, Of(d2, k) = Minus(Of(d, k), x), NEW u2, NEW y, Only(Of(u2, k), y),
         y.type = "TASK_ACK", y.task = x.task, NEW v2,
         Queued(v2, k) = Queued(v, k), Current(v2, k) = Current(v, k), k \in v2.stored <=> k \in v.stored,
         y.accepted => Only(Accepted(v2, k), x.task), ~y.accepted => Accepted(v2, k) = {}
  PROVE  Place(d2, u2, v2, k, t)
<1>1. /\ t.state = "SENT" /\ Fits(x.task, t) /\ (x.task.failed <=> t.failedAt # None)
      /\ Of(d, k) = {x} /\ Queued(v, k) = {} /\ Current(v, k) = {} /\ k \notin v.stored
  BY DEF Handed
<1>2. Of(d2, k) = {} /\ Of(u2, k) = {y}
  BY <1>1 DEF Minus, Only
<1>3. Accepted(v2, k) = IF y.accepted THEN {y.task} ELSE {}
  BY DEF Only
<1>4. Judged(d2, u2, v2, k, t)
  BY <1>1, <1>2, <1>3 DEF Judged
<1> QED
  BY <1>4 DEF Place

LEMMA TaskTokens ==
  ASSUME Checked, Checked', Tokens, NEW w \in Worker, HandleTask(w)
  PROVE  Tokens'
<1> DEFINE x == Head(toWorker[w])
           v == worker[w]
           task == x.task
           k == task.key
           t == master.task[k]
           room == HasRoom(v, 1)
           y == [type |-> "TASK_ACK", task |-> task, accepted |-> room, size |-> Len(v.queue), confirms |-> {}]
           v2 == IF room THEN [v EXCEPT !.accepted = @ \cup {task}] ELSE v
           d == toWorker[w]
           u == toMaster[w]
           d2 == Took(toWorker, w)[w]
           u2 == Put(toMaster, w, y)[w]
<1>1. toWorker[w] # <<>> /\ x.type = "TASK" /\ Answer(w, v2, <<y>>) /\ requests' = requests
  BY DEF HandleTask, FromMaster
<1>2. /\ Speaks(HeadOf(toWorker, w), k) /\ x \in Of(d, k)
      /\ k \in Key /\ task \in FreeTask /\ Owned(master, toWorker, toMaster, worker, k, w)
      /\ Handed(d, u, v, k, t) /\ Of(d2, k) = Minus(Of(d, k), x)
  BY <1>1, TaskTold
<1>4. v \in Workers /\ v.accepted \in SUBSET FreeTask /\ Lists(v)
  BY CheckedWorker, TokenParts DEF ListsOK
<1>5. y.type = "TASK_ACK" /\ y.type # "P2P_TRANSFER" /\ y.task = task /\ y.accepted = room
  OBVIOUS
<1>6. Speaks(y, k)
  BY DEF Speaks, TaskTypes
<1>8. k = task.key /\ task = x.task
  OBVIOUS
<1> HIDE DEF x, v, task, k, t, y, d, u, d2, u2
<1>3. Of(u, k) = {} /\ Accepted(v, k) = {}
  BY <1>2 DEF Handed
<1>7. Only(Of(u2, k), y)
  BY <1>3, <1>6, AnswerAbout DEF u, u2
<1>9. /\ v2 \in Workers /\ v2.queue = v.queue /\ v2.current = v.current /\ v2.stored = v.stored
      /\ v2.receiving = v.receiving /\ v2.accepted = IF room THEN v.accepted \cup {task} ELSE v.accepted
  BY <1>2, <1>4 DEF Workers
<1> HIDE DEF room, v2
<1>10. /\ Lists(v2) /\ \A j : Queued(v2, j) = Queued(v, j) /\ Current(v2, j) = Current(v, j)
  BY <1>4, <1>9 DEF Lists, Queued, Tasks, Current
<1>11. /\ room => Only(Accepted(v2, k), task)
       /\ ~room => Accepted(v2, k) = {}
       /\ \A j : j # k => Accepted(v2, j) = Accepted(v, j)
  BY <1>3, <1>8, <1>9 DEF Accepted, With, Only
<1>12. \A j \in Key : j # k => SameHeld(v, v2, j)
  BY <1>9, <1>10, <1>11 DEF SameHeld
<1>13. Place(d2, u2, v2, k, t)
  <2>1. k \in v2.stored <=> k \in v.stored
    BY <1>9
  <2>2. y.accepted => Only(Accepted(v2, k), x.task)
    BY <1>5, <1>8, <1>11
  <2>3. ~y.accepted => Accepted(v2, k) = {}
    BY <1>5, <1>11
  <2>4. y.task = x.task
    BY <1>5, <1>8
  <2> QED
    BY <1>2, <1>5, <1>7, <1>10, <2>1, <2>2, <2>3, <2>4, TaskJudged
<1>14. y.task.key = k /\ Of(toMaster[w], k) = {}
  BY <1>3, <1>5, <1>8 DEF u
<1>15. Place(Took(toWorker, w)[w], Put(toMaster, w, y)[w], v2, k, master.task[k])
  BY <1>13 DEF d2, u2, t
<1>16. \A j \in Key : j # k => SameHeld(worker[w], v2, j)
  BY <1>12 DEF v
<1> QED
  BY <1>1, <1>2, <1>5, <1>9, <1>10, <1>14, <1>15, <1>16, TaskAnswer

LEMMA TaskStartable ==
  ASSUME NEW d, NEW u, NEW v, NEW k, NEW t, NEW x, x \in Of(d, k), Confirmed(d, u, v, k, t), x.task.held = None,
         NEW d2, Of(d2, k) = Minus(Of(d, k), x), NEW u2, Of(u2, k) = Of(u, k), NEW v2,
         Only(Queued(v2, k), x.task), Current(v2, k) = Current(v, k), k \in v2.stored <=> k \in v.stored,
         Accepted(v2, k) = {}
  PROVE  Place(d2, u2, v2, k, t)
<1>1. /\ t.state = "ACCEPTED" /\ Fits(x.task, t) /\ Of(u, k) = {}
      /\ Of(d, k) = {x} /\ Current(v, k) = {} /\ k \notin v.stored
  BY DEF Confirmed
<1>2. Unqueued(d2, u2, v2, k)
  BY <1>1 DEF Minus, Unqueued
<1>3. Startable(d2, u2, v2, k, t)
  BY <1>1, <1>2 DEF Startable, Only
<1> QED
  BY <1>3 DEF Place

LEMMA TaskConfirmedTokens ==
  ASSUME Checked, Checked', Tokens, NEW w \in Worker, HandleTaskConfirmed(w)
  PROVE  Tokens'
<1> DEFINE x == Head(toWorker[w])
           v == worker[w]
           task == x.task
           k == task.key
           t == master.task[k]
           again == IF task.failed THEN v.reassigned \cup {<<task.key, task.attempt>>} ELSE v.reassigned
           q == Append(v.queue, task)
           v2 == [v EXCEPT !.queue = q, !.accepted = @ \ {task}, !.reassigned = again]
           y == Status(v2, {task.key})
           d == toWorker[w]
           u == toMaster[w]
           d2 == Took(toWorker, w)[w]
           u2 == Put(toMaster, w, y)[w]
<1>1. /\ toWorker[w] # <<>> /\ x.type = "TASK_CONFIRMED"
      /\ Raise("error") \/ (Answer(w, v2, <<y>>) /\ requests' = requests)
  BY DEF HandleTaskConfirmed, FromMaster
<1> SUFFICES ASSUME Answer(w, v2, <<y>>), requests' = requests PROVE Tokens'
  BY <1>1, RaiseTokens
<1>2. /\ Speaks(HeadOf(toWorker, w), k) /\ x \in Of(d, k)
      /\ k \in Key /\ task \in FreeTask /\ Owned(master, toWorker, toMaster, worker, k, w)
      /\ Confirmed(d, u, v, k, t) /\ Of(d2, k) = Minus(Of(d, k), x)
  BY <1>1, TaskTold, SMTT(40)
<1>3. v \in Workers /\ v.accepted \in SUBSET FreeTask /\ Lists(v) /\ v.queue \in Seq(TaskRec)
  BY CheckedWorker, TokenParts DEF ListsOK
<1>4. y.type = "QUEUE_STATUS"
  BY DEF Status
<1>5. k = task.key /\ task = x.task
  OBVIOUS
<1> HIDE DEF x, v, task, k, t, y, d, u, d2, u2
<1>6. again \in SUBSET (Key \X Nat)
  <2>1. task.key \in Key /\ task.attempt \in Nat
    BY <1>2 DEF FreeTask, TaskRec
  <2>2. v.reassigned \in SUBSET (Key \X Nat)
    BY <1>3, WorkerFields
  <2> QED
    BY <2>1, <2>2
<1> HIDE DEF again
<1>7. Accepted(v, k) = {task} /\ Queued(v, k) = {} /\ Of(u, k) = {}
  BY <1>2, <1>5 DEF Confirmed
<1>8. task \in TaskRec /\ task.held = None
  BY <1>2 DEF FreeTask
<1>9. q \in Seq(TaskRec) /\ Range(q) = Range(v.queue) \cup {task}
  BY <1>3, <1>8, MessageSent
<1>10. Apart(q)
  <2>1. Away(k, Range(v.queue))
    BY <1>7 DEF Away, Queued, With, Tasks
  <2> QED
    BY <1>3, <1>5, <1>8, <2>1, TaskQueued DEF Lists
<1> HIDE DEF q
<1>11. /\ v2 \in Workers /\ v2.queue = q /\ v2.current = v.current /\ v2.stored = v.stored
       /\ v2.receiving = v.receiving /\ v2.accepted = v.accepted \ {task}
  BY <1>3, <1>6, <1>9 DEF Workers
<1> HIDE DEF v2
<1>12. /\ Lists(v2) /\ \A j : Current(v2, j) = Current(v, j)
       /\ Only(Queued(v2, k), task) /\ Accepted(v2, k) = {}
  BY <1>3, <1>5, <1>7, <1>9, <1>10, <1>11 DEF Lists, Queued, With, Tasks, Current, Accepted, Only
<1>13. \A j \in Key : j # k => SameHeld(v, v2, j)
  BY <1>5, <1>9, <1>11, <1>12 DEF SameHeld, Queued, With, Tasks, Accepted
<1>14. Of(u2, k) = Of(u, k)
  <2>1. ~Speaks(y, k)
    BY <1>4 DEF Speaks, TaskTypes
  <2> QED
    BY <2>1, AnswerAbout DEF u, u2
<1>15. Place(d2, u2, v2, k, t)
  <2>1. k \in v2.stored <=> k \in v.stored
    BY <1>11
  <2>2. Current(v2, k) = Current(v, k) /\ Only(Queued(v2, k), x.task) /\ x.task.held = None
    BY <1>5, <1>8, <1>12
  <2> QED
    BY <1>2, <1>12, <1>14, <2>1, <2>2, TaskStartable
<1>16. y.type \notin TaskTypes /\ y.type # "P2P_TRANSFER"
  BY <1>4 DEF TaskTypes
<1>17. Place(Took(toWorker, w)[w], Put(toMaster, w, y)[w], v2, k, master.task[k])
  BY <1>15 DEF d2, u2, t
<1>18. \A j \in Key : j # k => SameHeld(worker[w], v2, j)
  BY <1>13 DEF v
<1> QED
  BY <1>1, <1>2, <1>11, <1>12, <1>16, <1>17, <1>18, TaskAnswer

LEMMA TaskFinished ==
  ASSUME NEW d, NEW u, NEW v, NEW k, NEW t, NEW x, x \in Of(d, k), Running(d, u, v, k, t),
         NEW d2, Of(d2, k) = Minus(Of(d, k), x), NEW u2, NEW y, Only(Of(u2, k), y),
         y.type = "RESULT", y.task = x.task, NEW v2,
         Queued(v2, k) = Queued(v, k), Accepted(v2, k) = Accepted(v, k), Current(v2, k) = {},
         k \in v2.stored <=> y.success
  PROVE  Place(d2, u2, v2, k, t)
<1>1. /\ t.state = "PROCESSING" /\ Fits(x.task, t) /\ Of(d, k) = {x} /\ Queued(v, k) = {} /\ Accepted(v, k) = {}
  BY DEF Running
<1>2. Of(d2, k) = {} /\ Of(u2, k) = {y}
  BY <1>1 DEF Minus, Only
<1>3. Finished(d2, u2, v2, k, t)
  BY <1>1, <1>2 DEF Finished
<1> QED
  BY <1>3 DEF Place

LEMMA ProcessAckTokens ==
  ASSUME Checked, Checked', Tokens, NEW w \in Worker, HandleProcessAck(w)
  PROVE  Tokens'
<1>1. CASE Raise("error")
  BY <1>1, RaiseTokens
<1>2. CASE ~Raise("error")
  <2> DEFINE x == Head(toWorker[w])
             v == worker[w]
             task == x.task
             k == task.key
             t == master.task[k]
             d == toWorker[w]
             u == toMaster[w]
             d2 == Took(toWorker, w)[w]
  <2>1. PICK success \in BOOLEAN :
          /\ toWorker[w] # <<>> /\ Head(toWorker[w]).type = "PROCESS_ACK"
          /\ worker[w].current = <<Head(toWorker[w]).task>>
          /\ Answer(w, [worker[w] EXCEPT !.current = <<>>,
                          !.stored = IF success THEN @ \cup {Head(toWorker[w]).task.key} ELSE @,
                          !.failures = IF success THEN @ ELSE @ + 1],
                     <<[type |-> "RESULT", task |-> Head(toWorker[w]).task, success |-> success,
                        size |-> Len(worker[w].queue), confirms |-> {}]>>)
          /\ requests' = requests
    BY <1>2, Zenon DEF HandleProcessAck, FromMaster
  <2> DEFINE st == IF success THEN v.stored \cup {task.key} ELSE v.stored
             n == IF success THEN v.failures ELSE v.failures + 1
             v2 == [v EXCEPT !.current = <<>>, !.stored = st, !.failures = n]
             y == [type |-> "RESULT", task |-> task, success |-> success, size |-> Len(v.queue), confirms |-> {}]
             u2 == Put(toMaster, w, y)[w]
  <2>2. Answer(w, v2, <<y>>) /\ requests' = requests /\ v.current = <<task>> /\ toWorker[w] # <<>>
    BY <2>1
  <2>3. /\ Speaks(HeadOf(toWorker, w), k) /\ x \in Of(d, k)
        /\ k \in Key /\ task \in FreeTask /\ Owned(master, toWorker, toMaster, worker, k, w)
        /\ Running(d, u, v, k, t) /\ Of(d2, k) = Minus(Of(d, k), x)
    BY <2>1, TaskTold
  <2>4. v \in Workers /\ Lists(v)
    BY CheckedWorker, TokenParts DEF ListsOK
  <2>5. y.type = "RESULT" /\ y.task = task /\ y.success = success
    OBVIOUS
  <2>6. k = task.key /\ task = x.task
    OBVIOUS
  <2> HIDE DEF x, v, task, k, t, d, u, d2, y, u2
  <2>7. st \in SUBSET Key /\ n \in Nat
    BY <2>3, <2>4, <2>6, WorkerFields
  <2>8. st = IF success THEN v.stored \cup {k} ELSE v.stored
    BY <2>6
  <2> HIDE DEF st, n
  <2>9. /\ v2 \in Workers /\ v2.queue = v.queue /\ v2.current = <<>> /\ v2.stored = st
        /\ v2.receiving = v.receiving /\ v2.accepted = v.accepted
    BY <2>4, <2>7 DEF Workers
  <2> HIDE DEF v2
  <2>10. Of(u, k) = {} /\ k \notin v.stored
    BY <2>3 DEF Running
  <2>11. /\ Lists(v2) /\ \A j : Queued(v2, j) = Queued(v, j) /\ Accepted(v2, j) = Accepted(v, j)
         /\ \A j : Current(v2, j) = {}
    <3>1. Range(v2.current) = {}
      BY <2>9 DEF Range
    <3> QED
      BY <2>4, <2>9, <3>1 DEF Lists, Queued, With, Tasks, Current, Accepted
  <2>12. \A j : j # k => Current(v, j) = {}
    <3>1. Range(v.current) = {task}
      BY <2>2 DEF Range
    <3> QED
      BY <2>6, <3>1 DEF Current, With
  <2>13. \A j \in Key : j # k => SameHeld(v, v2, j)
    BY <2>8, <2>9, <2>11, <2>12 DEF SameHeld
  <2>14. Only(Of(u2, k), y)
    <3>1. Speaks(y, k)
      BY <2>5, <2>6 DEF Speaks, TaskTypes
    <3> QED
      BY <2>10, <3>1, AnswerAbout DEF u, u2
  <2>15. Place(d2, u2, v2, k, t)
    <3>1. k \in v2.stored <=> y.success
      BY <2>5, <2>8, <2>9, <2>10
    <3>2. y.task = x.task
      BY <2>5, <2>6
    <3> QED
      BY <2>3, <2>5, <2>11, <2>14, <3>1, <3>2, TaskFinished
  <2>16. y.type # "P2P_TRANSFER" /\ y.task.key = k /\ Of(toMaster[w], k) = {}
    BY <2>5, <2>6, <2>10 DEF u
  <2>17. Place(Took(toWorker, w)[w], Put(toMaster, w, y)[w], v2, k, master.task[k])
    BY <2>15 DEF d2, u2, t
  <2>18. \A j \in Key : j # k => SameHeld(worker[w], v2, j)
    BY <2>13 DEF v
  <2> QED
    BY <2>2, <2>3, <2>9, <2>11, <2>16, <2>17, <2>18, TaskAnswer
<1> QED
  BY <1>1, <1>2

-----------------------------------------------------------------------------
(* Reserved tasks: they may be started again when the transfer is over. *)

Freed(y) == [y EXCEPT !.held = None]
NotFor(v, k, c) == \A t \in Queued(v, k) : t.held # c
SameQueued(v, v2, k) == Queued(v2, k) = Queued(v, k)

LEMMA CancelQueued ==
  ASSUME NEW v, v.queue \in Seq(TaskRec), NEW c, NEW v2, v2.queue = CancelTransfer(v.queue, c)
  PROVE  /\ v2.queue \in Seq(TaskRec) /\ (Apart(v.queue) => Apart(v2.queue))
         /\ \A k : NotFor(v, k, c) => SameQueued(v, v2, k)
         /\ \A k, y : Only(Queued(v, k), y) /\ y.held = c => Only(Queued(v2, k), Freed(y))
<1> DEFINE q == v.queue
           p == CancelTransfer(q, c)
<1>1. /\ p \in Seq(TaskRec) /\ DOMAIN p = DOMAIN q
      /\ \A i \in DOMAIN q : p[i] = IF q[i].held = c THEN [q[i] EXCEPT !.held = None] ELSE q[i]
      /\ Apart(q) => Apart(p)
  BY CancelledTasks
<1>2. \A i \in DOMAIN q : q[i] \in TaskRec
  BY LenProperties
<1>3. \A i \in DOMAIN q : q[i].key = p[i].key
  BY <1>1, <1>2 DEF TaskRec
<1>4. v2.queue = p /\ \A i \in DOMAIN q : p[i] = IF q[i].held = c THEN Freed(q[i]) ELSE q[i]
  BY <1>1 DEF Freed
<1> HIDE DEF q, p
<1>5. ASSUME NEW k, NotFor(v, k, c) PROVE SameQueued(v, v2, k)
  <2>1. \A i \in DOMAIN q : q[i].key = k => p[i] = q[i]
    BY <1>4, <1>5 DEF NotFor, Queued, With, Tasks, Range, q
  <2> QED
    BY <1>1, <1>3, <1>4, <2>1 DEF SameQueued, Queued, With, Tasks, Range, q
<1>6. ASSUME NEW k, NEW y, Only(Queued(v, k), y), y.held = c PROVE Only(Queued(v2, k), Freed(y))
  <2>1. \A i \in DOMAIN q : q[i].key = k => q[i] = y
    BY <1>6 DEF Queued, With, Tasks, Range, q, Only
  <2>2. PICK i \in DOMAIN q : q[i] = y /\ y.key = k
    BY <1>6 DEF Queued, With, Tasks, Range, q, Only
  <2>3. \A j \in DOMAIN q : p[j].key = k => p[j] = Freed(y)
    BY <1>3, <1>4, <1>6, <2>1
  <2>4. p[i] = Freed(y) /\ p[i].key = k
    BY <1>3, <1>4, <1>6, <2>2
  <2> QED
    BY <1>1, <1>4, <2>2, <2>3, <2>4 DEF Queued, With, Tasks, Range, Only
<1> QED
  BY <1>1, <1>4, <1>5, <1>6 DEF q

(* Only w holds the tasks of check c. *)
SoleHolder(m, wk, w, c) ==
  (\A z \in Worker : z # w => Held(wk[z], c) = {}) /\ \A o \in Worker : m.check[o] = c => o = w

LEMMA HeldAlone ==
  ASSUME Checked, Tokens, NEW w \in Worker, NEW c \in Check, SoleHolder(master, worker, w, c),
         NEW k \in Key, NEW y \in Queued(worker[w], k), y.held = c
  PROVE  /\ master.task[k].owner = w /\ master.task[k].state = "ACCEPTED" /\ Fits(y, master.task[k])
         /\ Only(Queued(worker[w], k), y) /\ Unqueued(toWorker[w], toMaster[w], worker[w], k)
         /\ \A z \in Worker : z # w => Blank(toWorker[z], toMaster[z], worker[z], k)
<1>1. TaskOK(master, toWorker, toMaster, worker, k) /\ y.held # None
  BY TokenParts, HeldChecks
<1>2. PICK o \in Worker : InTransfer(master, toWorker, toMaster, worker, k, o, y)
  BY <1>1, HeldMeans
<1>3. \A z \in Worker : z # w => Queued(worker[z], k) = {}
  <2>1. \A z \in Worker : z # w => y \notin Queued(worker[z], k)
    BY DEF SoleHolder, Queued, With, Held
  <2> QED
    BY <1>2, <2>1 DEF InTransfer
<1>4. o = w
  BY <1>2, <1>3 DEF InTransfer, SoleHolder
<1> QED
  BY <1>2, <1>3, <1>4 DEF InTransfer, Only, Blank

KeysOf(v, c) == {t.key : t \in Held(v, c)}
Regained(v, v2, down2, up2, wk2, K) ==
  /\ Lists(v2) /\ \A k \in Key \cap K : TaskOK(master, down2, up2, wk2, k)
  /\ \A k \in Key \ K : SameHeld(v, v2, k)

(* w may start the tasks it has held for c. *)
LEMMA FreedTokens ==
  ASSUME Checked, Tokens, NEW w \in Worker, NEW c \in Check, SoleHolder(master, worker, w, c),
         NEW v2, v2.queue = CancelTransfer(worker[w].queue, c), v2.accepted = worker[w].accepted,
         v2.current = worker[w].current, v2.stored = worker[w].stored, v2.receiving = worker[w].receiving,
         NEW down2, NEW up2, \A k : SameOf(toWorker, down2, k), \A k : SameOf(toMaster, up2, k),
         NEW wk2, wk2[w] = v2, \A z \in Worker : z # w => wk2[z] = worker[z],
         NEW K, K = KeysOf(worker[w], c)
  PROVE  Regained(worker[w], v2, down2, up2, wk2, K)
<1> DEFINE v == worker[w]
<1>1. v.queue \in Seq(TaskRec) /\ Lists(v)
  BY CheckedWorker, TokenParts DEF ListsOK
<1>1a. /\ v2.accepted = v.accepted /\ v2.current = v.current
       /\ v2.stored = v.stored /\ v2.receiving = v.receiving /\ K = {t.key : t \in Held(v, c)}
  BY DEF KeysOf
<1>1b. worker[w].queue \in Seq(TaskRec)
  BY <1>1
<1> HIDE DEF v
<1>2c. v2.queue \in Seq(TaskRec) /\ (Apart(worker[w].queue) => Apart(v2.queue))
  BY <1>1b, CancelQueued
<1>2d. \A k : NotFor(worker[w], k, c) => SameQueued(worker[w], v2, k)
  BY <1>1b, CancelQueued
<1>2e. \A k, y : Only(Queued(worker[w], k), y) /\ y.held = c => Only(Queued(v2, k), Freed(y))
  BY <1>1b, CancelQueued
<1>2. v2.queue \in Seq(TaskRec) /\ (Apart(v.queue) => Apart(v2.queue))
  BY <1>2c DEF v
<1>2b. \A k : NotFor(v, k, c) => SameQueued(v, v2, k)
  BY <1>2d DEF v
<1>2a. \A k, y : Only(Queued(v, k), y) /\ y.held = c => Only(Queued(v2, k), Freed(y))
  BY <1>2e DEF v
<1>3. Lists(v2)
  BY <1>1, <1>1a, <1>2 DEF Lists
<1>4. ASSUME NEW k \in Key, k \notin K PROVE SameHeld(v, v2, k)
  <2>1. NotFor(v, k, c)
    BY <1>1a, <1>4 DEF NotFor, Queued, With, Held
  <2> QED
    BY <1>1a, <1>2b, <2>1 DEF SameHeld, SameQueued, Accepted, Current
<1>5. ASSUME NEW k \in Key, k \in K PROVE TaskOK(master, down2, up2, wk2, k)
  <2>1. PICK y \in Held(v, c) : y.key = k
    BY <1>1a, <1>5
  <2>2. y \in Queued(v, k) /\ y.held = c /\ y \in TaskRec
    <3>1. \A i \in DOMAIN v.queue : v.queue[i] \in TaskRec
      BY <1>1, LenProperties
    <3> QED
      BY <2>1, <3>1 DEF Queued, With, Held, Tasks, Range
  <2>3. /\ master.task[k].owner = w /\ master.task[k].state = "ACCEPTED" /\ Fits(y, master.task[k])
        /\ Only(Queued(v, k), y) /\ Unqueued(toWorker[w], toMaster[w], v, k)
        /\ \A z \in Worker : z # w => Blank(toWorker[z], toMaster[z], worker[z], k)
    BY <2>2, HeldAlone DEF v
  <2>4. Only(Queued(v2, k), Freed(y))
    BY <1>2a, <2>2, <2>3
  <2>5. Freed(y).held = None /\ Freed(y).attempt = y.attempt
    BY <2>2 DEF Freed, TaskRec
  <2>6. Unqueued(down2[w], up2[w], v2, k)
    BY <2>3 DEF Unqueued, Accepted, Current, SameOf, v
  <2>7. Startable(down2[w], up2[w], v2, k, master.task[k])
    BY <2>3, <2>4, <2>5, <2>6 DEF Startable, Only, Fits
  <2>8. \A z \in Worker : z # w => Blank(down2[z], up2[z], wk2[z], k)
    BY <2>3 DEF Blank, Unqueued, SameOf
  <2>9. Owned(master, down2, up2, wk2, k, w)
    BY <2>3, <2>7, <2>8 DEF Owned, Place
  <2> QED
    BY <2>9 DEF TaskOK
<1> QED
  BY <1>3, <1>4, <1>5 DEF v, Regained

LEMMA QuietNone ==
  ASSUME Checked, Checked', Tokens, NEW w \in Worker, toWorker[w] # <<>>, Head(toWorker[w]).type \notin TaskTypes,
         NEW v \in Workers, Lists(v), Answer(w, v, <<>>), \A r \in requests' : Apart(r.tasks),
         \A k \in Key : SameHeld(worker[w], v, k)
  PROVE  Tokens'
<1> DEFINE K == {}
           ms == <<>>
<1>1. ms \in Seq(Up) /\ NoTasks(ms) /\ \A x \in Range(ms) : x.type # "P2P_TRANSFER"
  BY DEF NoTasks, Range
<1>3. \A k \in Key \cap K : TaskOK(master, Took(toWorker, w), Sends(toMaster, w, ms), [worker EXCEPT ![w] = v], k)
  OBVIOUS
<1>4. \A k \in Key \ K : SameHeld(worker[w], v, k)
  OBVIOUS
<1>5. Answer(w, v, ms)
  OBVIOUS
<1> HIDE DEF K, ms
<1> QED
  BY <1>1, <1>3, <1>4, <1>5, QuietAnswer

LEMMA TimeAckTokens ==
  ASSUME Checked, Checked', Tokens, NEW w \in Worker, HandleTimeAck(w)
  PROVE  Tokens'
<1> DEFINE x == Head(toWorker[w])
           c == x.id
           v == worker[w]
           k == [v.check EXCEPT !.pc = "transfer"]
<1>1. /\ toWorker[w] # <<>> /\ x.type = "TIME_ACK" /\ x.type \in TransferTypes /\ x.type \notin TaskTypes
  BY DEF HandleTimeAck, FromMaster, TransferTypes, TaskTypes
<1>2. \/ /\ Answer(w, WithCheck(v, k), <<>>)
         /\ requests' = requests \cup {Asked(c, w, v.check.target, v.queue)}
      \/ x.phase # "SEND" /\ Answer(w, TimedState(v), <<>>) /\ requests' = requests
  BY DEF HandleTimeAck, TimedState, Asked, WithCheck
<1>3. /\ x \in Down /\ c \in Check /\ HeadConcerns(toWorker, w, c) /\ x \in About(toWorker[w], c)
      /\ TransferOK(master, toWorker, toMaster, worker, requests, c)
  BY <1>1, Receiving1
<1>4. x = TimeAck(c, x.phase) /\ x.phase \in Phases
  BY <1>1, <1>3, DownShape
<1>5. PICK u \in Worker : DownMeans(master, toWorker, toMaster, worker, requests, c, w, x, u)
  BY <1>3, DownSays
<1>6. x = TimeAck(c, "SEND") \/ Arriving(master, toWorker, toMaster, worker, requests, c, u, w)
  <2>1. x # [type |-> "P2P_CHECK", id |-> c] /\ x # Recorded(c)
    BY <1>1 DEF Recorded
  <2> HIDE DEF c, x
  <2> QED
    BY <1>5, <2>1 DEF DownMeans
<1>7. v.check \in CheckRec /\ v \in Workers /\ WorkerOK(v, w) /\ v.queue \in Seq(TaskRec) /\ Lists(v)
      /\ \A r \in requests : Apart(r.tasks)
  BY CheckedWorker, WorkerFields, TokenParts DEF ListsOK
<1>8. TimeAck(c, "SEND").phase = "SEND"
  BY DEF TimeAck
<1>9. k \in CheckRec
  BY <1>7 DEF CheckRec, Pcs
<1> HIDE DEF c, k
<1>10. CASE x.phase # "SEND" /\ Answer(w, TimedState(v), <<>>) /\ requests' = requests
  <2> DEFINE v2 == TimedState(v)
  <2>1. Receiving(v, c)
    BY <1>6, <1>8, <1>10 DEF Arriving
  <2>2. v.receiving # <<>>
    BY <2>1 DEF Receiving
  <2>3. WorkerOK(v2, w) /\ v2.receiving[1].request = v.receiving[1].request /\ v2.queue = v.queue
    BY <1>3, <1>7, <2>1, <2>2, TimedReception
  <2>4. v2.accepted = v.accepted /\ v2.current = v.current /\ v2.stored = v.stored
    BY <1>7 DEF TimedState, Workers
  <2>5. Answer(w, v2, <<>>) /\ requests' = requests
    BY <1>10
  <2> HIDE DEF v2
  <2>6. v2 \in Workers /\ Lists(v2)
    BY <1>7, <2>2, <2>3 DEF WorkerOK, Lists
  <2>7. \A j \in Key : SameHeld(worker[w], v2, j)
    BY <2>3, <2>4, HeldKept
  <2>8. \A r \in requests' : Apart(r.tasks)
    BY <1>7, <2>5
  <2> QED
    BY <1>1, <2>5, <2>6, <2>7, <2>8, QuietNone
<1>11. CASE /\ Answer(w, WithCheck(v, k), <<>>)
            /\ requests' = requests \cup {Asked(c, w, v.check.target, v.queue)}
  <2> DEFINE v2 == WithCheck(v, k)
             r == Asked(c, w, v.check.target, v.queue)
             rs == ReservedFor(v.queue, c)
  <2>1. /\ v2 \in Workers /\ v2.receiving = v.receiving
        /\ v2.queue = v.queue /\ v2.accepted = v.accepted /\ v2.current = v.current /\ v2.stored = v.stored
    BY <1>7, <1>9 DEF Workers, WithCheck
  <2>2. r.tasks = rs
    BY DEF Asked
  <2>3. Apart(rs)
    BY <1>7, ReservedTasks DEF Lists
  <2>4. Answer(w, v2, <<>>) /\ requests' = requests \cup {r}
    BY <1>11
  <2> HIDE DEF v2, r, rs
  <2>5. \A s \in requests' : Apart(s.tasks)
    BY <1>7, <2>2, <2>3, <2>4
  <2>6. Lists(v2) /\ \A j \in Key : SameHeld(worker[w], v2, j)
    BY <2>1, HeldKept
  <2> QED
    BY <1>1, <2>1, <2>4, <2>5, <2>6, QuietNone
<1> QED
  BY <1>2, <1>10, <1>11

LEMMA TransferConfirmedTokens ==
  ASSUME Checked, Checked', Tokens, NEW w \in Worker, HandleTransferConfirmed(w)
  PROVE  Tokens'
<1> DEFINE x == Head(toWorker[w])
           c == x.id
           v == worker[w]
           v2 == Released(v, c)
           y == Status(v2, {})
<1>1. /\ toWorker[w] # <<>> /\ x.type = "TRANSFER_CONFIRMED" /\ x.type \in TransferTypes /\ x.type \notin TaskTypes
  BY DEF HandleTransferConfirmed, FromMaster, TransferTypes, TaskTypes
<1>2. /\ x \in Down /\ c \in Check /\ HeadConcerns(toWorker, w, c) /\ x \in About(toWorker[w], c)
      /\ TransferOK(master, toWorker, toMaster, worker, requests, c)
  BY <1>1, Receiving1
<1>3. PICK u \in Worker : DownMeans(master, toWorker, toMaster, worker, requests, c, w, x, u)
  BY <1>2, DownSays
<1>4. \/ c \in v.sent
      \/ Done(master, toWorker, toMaster, worker, requests, c, u, w)
  <2>1. x # TimeAck(c, "SEND") /\ x # TimeAck(c, "RECV") /\ x # [type |-> "P2P_CHECK", id |-> c]
    BY <1>1 DEF TimeAck
  <2> HIDE DEF c, x
  <2> QED
    BY <1>3, <2>1 DEF DownMeans
<1>5. \/ c \in v.sent /\ Answer(w, Forgotten(v, c), <<>>) /\ requests' = requests
      \/ c \notin v.sent /\ Answer(w, v2, <<y>>) /\ requests' = requests
      \/ Raise("error")
  BY DEF HandleTransferConfirmed, Forgotten, Released
<1>6. v \in Workers /\ WorkerOK(v, w) /\ \A r \in requests : Apart(r.tasks)
  BY CheckedWorker, TokenParts DEF ListsOK
<1> HIDE DEF c
<1>7. CASE c \in v.sent /\ Answer(w, Forgotten(v, c), <<>>) /\ requests' = requests
  <2> DEFINE v3 == Forgotten(v, c)
  <2>1. /\ v3 \in Workers /\ v3.receiving = v.receiving
        /\ v3.queue = v.queue /\ v3.accepted = v.accepted /\ v3.current = v.current /\ v3.stored = v.stored
    BY <1>6 DEF Workers, Forgotten
  <2>2. Answer(w, v3, <<>>) /\ requests' = requests
    BY <1>7
  <2> HIDE DEF v3
  <2>3. Lists(v3) /\ \A j \in Key : SameHeld(worker[w], v3, j)
    BY <2>1, HeldKept
  <2>4. \A r \in requests' : Apart(r.tasks)
    BY <1>6, <2>2
  <2> QED
    BY <1>1, <2>1, <2>2, <2>3, <2>4, QuietNone
<1>8. CASE c \notin v.sent /\ Answer(w, v2, <<y>>) /\ requests' = requests
  <2> DEFINE ms == <<y>>
             K == KeysOf(worker[w], c)
             down2 == Took(toWorker, w)
             up2 == Sends(toMaster, w, ms)
             wk2 == [worker EXCEPT ![w] = v2]
  <2>1. Done(master, toWorker, toMaster, worker, requests, c, u, w)
    BY <1>4, <1>8
  <2>2. SoleHolder(master, worker, w, c)
    BY <2>1 DEF Done, SoleHolder, Others, Outside
  <2>3. WorkerOK(v2, w) /\ v2.receiving = v.receiving /\ y \in Up
    BY <1>2, <1>6, ReleasedOK
  <2>4. /\ v2.queue = CancelTransfer(worker[w].queue, c) /\ v2.accepted = v.accepted
        /\ v2.current = v.current /\ v2.stored = v.stored
    BY <1>6 DEF Released, Workers
  <2>5. y.type = "QUEUE_STATUS"
    BY DEF Status
  <2>6. y.type # "P2P_TRANSFER" /\ y.type \notin TaskTypes
    BY <2>5 DEF TaskTypes
  <2>7. ms \in Seq(Up) /\ Range(ms) = {y}
    BY <2>3 DEF Range
  <2>8. wk2[w] = v2 /\ \A z \in Worker : z # w => wk2[z] = worker[z]
    BY CheckedWorker
  <2>9. Answer(w, v2, ms) /\ requests' = requests /\ v2 \in Workers
    BY <1>8, <2>3 DEF WorkerOK
  <2>10. K = KeysOf(worker[w], c) /\ wk2 = [worker EXCEPT ![w] = v2]
    OBVIOUS
  <2> HIDE DEF v2, y, K
  <2>11. NoTasks(ms) /\ \A z \in Range(ms) : z.type # "P2P_TRANSFER"
    BY <2>6, <2>7 DEF NoTasks
  <2> HIDE DEF ms
  <2>12. \A k : SameOf(toWorker, down2, k)
    <3>1. \A j : ~Speaks(HeadOf(toWorker, w), j)
      BY <1>1 DEF Speaks, HeadOf
    <3> QED
      BY <1>1, <3>1, FirstDown
  <2>13. \A k : SameOf(toMaster, up2, k)
    BY <2>7, <2>11, QuietMessages, TokenParts
  <2> HIDE DEF wk2, up2, down2
  <2>14a. /\ v2.accepted = worker[w].accepted /\ v2.current = worker[w].current
          /\ v2.stored = worker[w].stored /\ v2.receiving = worker[w].receiving
    BY <2>3, <2>4
  <2> HIDE DEF v
  <2>14b. Regained(worker[w], v2, down2, up2, wk2, K)
    BY <1>2, <2>2, <2>4, <2>8, <2>10, <2>12, <2>13, <2>14a, FreedTokens
  <2>14. Lists(v2) /\ \A k \in Key \ K : SameHeld(worker[w], v2, k)
    BY <2>14b DEF Regained
  <2>15. \A k \in Key \cap K : TaskOK(master, Took(toWorker, w), Sends(toMaster, w, ms), [worker EXCEPT ![w] = v2], k)
    BY <2>14b DEF down2, up2, wk2, Regained
  <2>16. \A r \in requests' : Apart(r.tasks)
    BY <1>6, <2>9
  <2> QED
    BY <1>1, <2>7, <2>9, <2>11, <2>14, <2>15, <2>16, QuietAnswer
<1> QED
  BY <1>5, <1>7, <1>8, RaiseTokens

-----------------------------------------------------------------------------
(* The check thread *)

(* Nothing that is about tasks has changed. *)
LEMMA QuietStep ==
  ASSUME Tokens, master' = master, Distinct(toWorker'), Distinct(toMaster'),
         ListsOK(toMaster', worker', requests'), \A k : SameOf(toWorker, toWorker', k),
         \A k : SameOf(toMaster, toMaster', k), \A k \in Key : SameHolders(worker, worker', k)
  PROVE  Tokens'
<1> DEFINE m2 == master'
           down2 == toWorker'
           up2 == toMaster'
           wk2 == worker'
           rq2 == requests'
           K == {}
<1>1. TokensOK(master, toWorker, toMaster, worker, requests)
  BY DEF Tokens
<1>2. WaitingOK(m2) /\ \A k \in Key \ K : SameClaims(master, m2, worker, k)
  BY <1>1, NothingMoved DEF TokensOK
<1>3. \A k \in Key \cap K : TaskOK(m2, down2, up2, wk2, k)
  OBVIOUS
<1>4. /\ Distinct(down2) /\ Distinct(up2) /\ ListsOK(up2, wk2, rq2)
      /\ \A k \in Key \ K : SameOf(toWorker, down2, k)
  OBVIOUS
<1>5. \A k \in Key \ K : SameOf(toMaster, up2, k)
  OBVIOUS
<1>6. \A k \in Key \ K : SameHolders(worker, wk2, k)
  OBVIOUS
<1> HIDE DEF m2, down2, up2, wk2, rq2, K
<1>7. TokensOK(m2, down2, up2, wk2, rq2)
  BY <1>1, <1>2, <1>3, <1>4, <1>5, <1>6, TokensElsewhere
<1> QED
  BY <1>7 DEF Tokens, m2, down2, up2, wk2, rq2

LEMMA CheckHeld ==
  ASSUME Checked, Tokens, NEW w \in Worker, NEW k, NEW wk2,
         wk2 = [worker EXCEPT ![w] = WithCheck(worker[w], k)]
  PROVE  /\ \A j : SameHolders(worker, wk2, j)
         /\ \A z \in Worker : Lists(wk2[z])
<1> DEFINE v2 == WithCheck(worker[w], k)
<1>1. worker[w] \in Workers /\ DOMAIN worker = Worker
  BY CheckedWorker
<1>2. /\ v2.queue = worker[w].queue /\ v2.accepted = worker[w].accepted /\ v2.current = worker[w].current
      /\ v2.stored = worker[w].stored /\ v2.receiving = worker[w].receiving
  BY <1>1 DEF WithCheck, Workers
<1>3. wk2[w] = v2 /\ \A z \in Worker : z # w => wk2[z] = worker[z]
  BY <1>1
<1> HIDE DEF v2
<1>4. Lists(v2) /\ \A j : SameHeld(worker[w], v2, j)
  BY <1>2, HeldKept
<1>5. \A z \in Worker : Lists(worker[z])
  BY TokenParts DEF ListsOK
<1>6. \A z \in Worker : \A j : SameHeld(worker[z], wk2[z], j)
  BY <1>3, <1>4 DEF SameHeld
<1> QED
  BY <1>3, <1>4, <1>5, <1>6 DEF SameHolders

(* Only the record of the check changes. *)
LEMMA CheckTokens ==
  ASSUME Checked, Tokens, NEW w \in Worker, NEW k, worker' = [worker EXCEPT ![w] = WithCheck(worker[w], k)],
         UNCHANGED <<master, toMaster>>, Distinct(toWorker'), \A j : SameOf(toWorker, toWorker', j),
         requests' \subseteq requests
  PROVE  Tokens'
<1> DEFINE wk2 == worker'
<1>1. wk2 = [worker EXCEPT ![w] = WithCheck(worker[w], k)]
  OBVIOUS
<1> HIDE DEF wk2
<1>2. (\A j : SameHolders(worker, wk2, j)) /\ \A z \in Worker : Lists(wk2[z])
  BY <1>1, CheckHeld
<1>3. ListsOK(toMaster, worker, requests) /\ Distinct(toMaster) /\ \A j : SameOf(toMaster, toMaster, j)
  BY TokenParts, NothingMoved
<1>4. ListsOK(toMaster, wk2, requests')
  BY <1>2, <1>3 DEF ListsOK
<1>5. (\A j \in Key : SameHolders(worker, worker', j)) /\ ListsOK(toMaster', worker', requests')
  BY <1>2, <1>4 DEF wk2
<1>6. Distinct(toMaster') /\ \A j : SameOf(toMaster, toMaster', j)
  BY <1>3
<1> QED
  BY <1>5, <1>6, QuietStep

LEMMA P2PCheckTokens ==
  ASSUME Checked, Tokens, NEW w \in Worker, HandleP2PCheck(w)
  PROVE  Tokens'
<1> DEFINE k == [Idle EXCEPT !.pc = "begin", !.id = Head(toWorker[w]).id]
<1>1. /\ toWorker[w] # <<>> /\ Head(toWorker[w]).type = "P2P_CHECK"
      /\ \/ Raise("error")
         \/ /\ worker' = [worker EXCEPT ![w] = WithCheck(worker[w], k)] /\ toWorker' = Took(toWorker, w)
            /\ UNCHANGED <<master, toMaster, requests>>
  BY DEF HandleP2PCheck, FromMaster, WithCheck, Took
<1> HIDE DEF k
<1>2. \A j : ~Speaks(HeadOf(toWorker, w), j)
  BY <1>1 DEF Speaks, HeadOf, TaskTypes
<1>3. Distinct(Took(toWorker, w)) /\ \A j : SameOf(toWorker, Took(toWorker, w), j)
  BY <1>1, <1>2, FirstDown
<1> QED
  BY <1>1, <1>3, CheckTokens, RaiseTokens

LEMMA OnlyCheckTokens ==
  ASSUME Checked, Tokens, NEW w \in Worker, NEW k, worker' = [worker EXCEPT ![w] = WithCheck(worker[w], k)],
         UNCHANGED <<master, toMaster, toWorker>>, requests' \subseteq requests
  PROVE  Tokens'
<1>1. Distinct(toWorker') /\ \A j : SameOf(toWorker, toWorker', j)
  BY TokenParts, NothingMoved
<1> QED
  BY <1>1, CheckTokens

LEMMA QueryPeerTokens ==
  ASSUME Checked, Tokens, NEW w \in Worker, QueryPeer(w)
  PROVE  Tokens'
<1>1. UNCHANGED <<master, toMaster, toWorker, requests>> /\ \E k : worker' = [worker EXCEPT ![w] = WithCheck(worker[w], k)]
  BY DEF QueryPeer, WithCheck
<1> QED
  BY <1>1, OnlyCheckTokens

LEMMA AskStatusTokens ==
  ASSUME Checked, Tokens, NEW w \in Worker, AskStatus(w)
  PROVE  Tokens'
<1>1. UNCHANGED <<master, toMaster, toWorker, requests>> /\ \E k : worker' = [worker EXCEPT ![w] = WithCheck(worker[w], k)]
  BY DEF AskStatus, WithCheck
<1> QED
  BY <1>1, OnlyCheckTokens

LEMMA TimeoutTokens ==
  ASSUME Checked, Tokens, NEW w \in Worker, Timeout(w)
  PROVE  Tokens'
<1>1. /\ UNCHANGED <<master, toMaster, toWorker>> /\ requests' \subseteq requests
      /\ \/ worker' = [worker EXCEPT ![w].check.pc = "status"]
         \/ worker' = [worker EXCEPT ![w].check = NoAnswer(@)]
  BY DEF Timeout
<1>2. \E k : worker' = [worker EXCEPT ![w] = WithCheck(worker[w], k)]
  <2>1. CASE worker' = [worker EXCEPT ![w].check.pc = "status"]
    <3> DEFINE k == [worker[w].check EXCEPT !.pc = "status"]
    <3>1. worker' = [worker EXCEPT ![w] = WithCheck(worker[w], k)]
      BY <2>1 DEF WithCheck
    <3> QED
      BY <3>1
  <2>2. CASE worker' = [worker EXCEPT ![w].check = NoAnswer(@)]
    <3> DEFINE k == NoAnswer(worker[w].check)
    <3>1. worker' = [worker EXCEPT ![w] = WithCheck(worker[w], k)]
      BY <2>2 DEF WithCheck
    <3> QED
      BY <3>1
  <2> QED
    BY <1>1, <2>1, <2>2
<1> QED
  BY <1>1, <1>2, OnlyCheckTokens

-----------------------------------------------------------------------------
(* The check thread reports the outcome. *)

SameTasks(v, v2) ==
  /\ v2.queue = v.queue /\ v2.accepted = v.accepted /\ v2.current = v.current /\ v2.stored = v.stored
  /\ v2.receiving = v.receiving
NoTransferOf(ms) == \A x \in Range(ms) : x.type = "P2P_TRANSFER" => Apart(x.tasks)

LEMMA EndedTasks ==
  ASSUME NEW v \in Workers, NEW b \in BOOLEAN
  PROVE  SameTasks(v, Ended(v, b)) /\ Ended(v, b) \in Workers
<1>1. Idle \in CheckRec
  BY DEF Idle, CheckRec, Pcs, Statuses
<1> HIDE DEF Idle
<1> QED
  BY <1>1 DEF Ended, Workers, SameTasks

LEMMA SameTasksHeld ==
  ASSUME NEW v, NEW v2, SameTasks(v, v2)
  PROVE  (Lists(v) => Lists(v2)) /\ \A k : SameHeld(v, v2, k)
BY DEF SameTasks, SameHeld, Queued, Tasks, Accepted, Current, With, Lists

LEMMA EndedTokens ==
  ASSUME Checked, Checked', Tokens, NEW w \in Worker, NEW v \in Workers, Lists(v), NEW ms \in Seq(Up),
         NoTasks(ms), NoTransferOf(ms), SendAndStart(w, v, ms), UNCHANGED <<master, toWorker, requests>>,
         NEW up2, up2 = Sends(toMaster, w, ms), NEW wk2, wk2 = [worker EXCEPT ![w] = v], NEW K,
         \A k \in Key \cap K : TaskOK(master, toWorker, up2, wk2, k),
         \A k \in Key \ K : SameHeld(worker[w], v, k)
  PROVE  Tokens'
<1> DEFINE down2 == toWorker
           rq2 == requests
<1>1. /\ toMaster \in [Worker -> Seq(Up)] /\ Distinct(toMaster) /\ Distinct(down2) /\ \A r \in rq2 : Apart(r.tasks)
      /\ \A k : SameOf(toWorker, down2, k)
  BY TokenParts, NothingMoved DEF ListsOK
<1>2. /\ up2 \in [Worker -> Seq(Up)] /\ Distinct(up2) /\ \A k : SameOf(toMaster, up2, k)
      /\ \A x \in Range(up2[w]) : x \in Range(toMaster[w]) \/ x \in Range(ms)
  BY <1>1, QuietMessages
<1>3. \A x \in Range(ms) : x.type = "P2P_TRANSFER" => Apart(x.tasks)
  BY DEF NoTransferOf
<1>4. \A k \in Key \cap K : TaskOK(master, down2, up2, [worker EXCEPT ![w] = v], k)
  OBVIOUS
<1>5. master' = master /\ toWorker' = down2 /\ requests' = rq2
  OBVIOUS
<1> HIDE DEF down2, rq2
<1> QED
  BY <1>1, <1>2, <1>3, <1>4, <1>5, StepTokens

(* The report x, after at most one other message, of what w has become. *)
Reports(w, v, ms, x) == ms \in Seq(Up) /\ x \in Up /\ NoTasks(ms) /\ NoTransferOf(ms) /\ FinishCheck(w, v, ms, x)
Outcome(w, v, ms, x, K) ==
  /\ x.type \notin TaskTypes /\ (x.type = "P2P_TRANSFER" => Apart(x.tasks))
  /\ Lists(v) /\ \A k \in Key \ K : SameHeld(worker[w], v, k)
LaterOK(w, v, K) == \A up2, wk2 :
  /\ \A k : SameOf(toMaster, up2, k)
  /\ SameTasks(v, wk2[w]) /\ \A z \in Worker : z # w => wk2[z] = worker[z]
  => \A k \in Key \cap K : TaskOK(master, toWorker, up2, wk2, k)

LEMMA ReportTokens ==
  ASSUME Checked, Checked', Tokens, NEW w \in Worker, NEW v \in Workers, NEW ms, NEW x, NEW K,
         Reports(w, v, ms, x), Outcome(w, v, ms, x, K), LaterOK(w, v, K)
  PROVE  Tokens'
<1> DEFINE b == x.type = "P2P_FAILURE"
           v2 == Ended(v, b)
           all == Append(ms, x)
           up2 == Sends(toMaster, w, all)
           wk2 == [worker EXCEPT ![w] = v2]
<1>1. SendAndStart(w, v2, all) /\ UNCHANGED <<master, toWorker, requests>>
  BY DEF Reports, FinishCheck, Ended
<1>2. SameTasks(v, v2) /\ v2 \in Workers
  BY EndedTasks
<1>3. all \in Seq(Up) /\ Range(all) = Range(ms) \cup {x}
  BY MessageSent DEF Reports
<1>4. wk2[w] = v2 /\ \A z \in Worker : z # w => wk2[z] = worker[z]
  BY CheckedWorker
<1>5. up2 = Sends(toMaster, w, all) /\ wk2 = [worker EXCEPT ![w] = v2]
  OBVIOUS
<1> HIDE DEF v2, all, up2, wk2
<1>6. NoTasks(all) /\ NoTransferOf(all)
  BY <1>3 DEF Reports, Outcome, NoTasks, NoTransferOf
<1>7. \A k : SameOf(toMaster, up2, k)
  BY <1>3, <1>5, <1>6, QuietMessages, TokenParts
<1>8. \A k \in Key \cap K : TaskOK(master, toWorker, up2, wk2, k)
  BY <1>2, <1>4, <1>7 DEF LaterOK
<1>9. Lists(v2) /\ \A k : SameHeld(v, v2, k)
  BY <1>2, SameTasksHeld DEF Outcome
<1>10. \A k \in Key \ K : SameHeld(worker[w], v2, k)
  BY <1>9 DEF Outcome, SameHeld
<1> QED
  BY <1>1, <1>2, <1>3, <1>5, <1>6, <1>8, <1>9, <1>10, EndedTokens

LEMMA QuietReport ==
  ASSUME Checked, Checked', Tokens, NEW w \in Worker, NEW x \in Up, x.type \notin TaskTypes,
         x.type # "P2P_TRANSFER", FinishCheck(w, worker[w], <<>>, x)
  PROVE  Tokens'
<1> DEFINE ms == <<>>
           K == {}
           v == worker[w]
<1>1. v \in Workers /\ Lists(worker[w])
  BY TokenParts DEF ListsOK
<1>2. Reports(w, worker[w], ms, x)
  BY DEF Reports, NoTasks, NoTransferOf, Range
<1>3. \A k : SameHeld(worker[w], worker[w], k)
  BY DEF SameHeld
<1>4. Outcome(w, worker[w], ms, x, K)
  BY <1>1, <1>3 DEF Outcome
<1>5. LaterOK(w, worker[w], K)
  BY DEF LaterOK
<1> HIDE DEF ms, K
<1> QED
  BY <1>1, <1>2, <1>4, <1>5, ReportTokens

LEMMA NoTransferTokens ==
  ASSUME Checked, Checked', Tokens, NEW w \in Worker, NEW c \in Check,
         FinishCheck(w, worker[w], <<>>, NoTransfer(c, FALSE))
  PROVE  Tokens'
<1> DEFINE x == NoTransfer(c, FALSE)
<1>1. x \in Up /\ x.type \notin TaskTypes /\ x.type # "P2P_TRANSFER" /\ FinishCheck(w, worker[w], <<>>, x)
  BY DEF NoTransfer, Up, TaskTypes
<1> HIDE DEF x
<1> QED
  BY <1>1, QuietReport

LEMMA BeginCheckTokens ==
  ASSUME Checked, Checked', Tokens, NEW w \in Worker, BeginCheck(w)
  PROVE  Tokens'
<1> DEFINE v == worker[w]
           c == v.check.id
           k == [v.check EXCEPT !.pc = "query", !.size = Len(v.queue), !.left = Worker \ {w}]
<1>1. /\ v.check.pc = "begin"
      /\ \/ FinishCheck(w, v, <<>>, NoTransfer(c, FALSE))
         \/ /\ worker' = [worker EXCEPT ![w] = WithCheck(v, k)]
            /\ UNCHANGED <<master, toWorker, toMaster, requests, faults>>
  BY DEF BeginCheck, At, WithCheck
<1>2. c \in Check
  BY <1>1, CheckingOK
<1> HIDE DEF k, c
<1>3. CASE FinishCheck(w, v, <<>>, NoTransfer(c, FALSE))
  BY <1>2, <1>3, NoTransferTokens
<1>4. CASE ~FinishCheck(w, v, <<>>, NoTransfer(c, FALSE))
  <2>1. worker' = [worker EXCEPT ![w] = WithCheck(worker[w], k)] /\ UNCHANGED <<master, toMaster, toWorker>>
        /\ requests' \subseteq requests
    BY <1>1, <1>4
  <2> QED
    BY <2>1, OnlyCheckTokens
<1> QED
  BY <1>3, <1>4

LEMMA StatusOnly ==
  ASSUME NEW v, NEW ms, ms = <<Status(v, {})>>, NEW w \in Worker, WorkerOK(v, w)
  PROVE  ms \in Seq(Up) /\ NoTasks(ms) /\ NoTransferOf(ms)
<1> DEFINE y == Status(v, {})
<1>1. y \in Up /\ y.type \notin TaskTypes /\ y.type # "P2P_TRANSFER"
  BY StatusUp DEF Status, TaskTypes
<1>2. ms = <<y>>
  OBVIOUS
<1> HIDE DEF y
<1>3. ms \in Seq(Up) /\ Range(ms) = {y}
  BY <1>1, <1>2 DEF Range
<1> QED
  BY <1>1, <1>3 DEF NoTasks, NoTransferOf

LEMMA RefusalTokens ==
  ASSUME Checked, Checked', Tokens, NEW w \in Worker, NEW u \in Worker, NEW c \in Check, worker[w].check.id = c,
         Asking(master, toWorker, toMaster, worker, requests, c, w, u),
         worker[u].received[c] = "REJECTED", NEW v, v = DroppedState(worker[w], c),
         NEW ms, ms = <<Status(v, {})>>, FinishCheck(w, v, ms, NoTransfer(c, TRUE))
  PROVE  Tokens'
<1> DEFINE x == NoTransfer(c, TRUE)
           K == KeysOf(worker[w], c)
           wk2 == [worker EXCEPT ![w] = v]
<1>1. WorkerOK(v, w) /\ v.receiving = worker[w].receiving /\ v \in Workers
  <2>1. WorkerOK(v, w) /\ v.receiving = worker[w].receiving
    BY CheckedWorker, DroppedOK
  <2> QED
    BY <2>1 DEF WorkerOK
<1>2. /\ v.queue = CancelTransfer(worker[w].queue, c) /\ v.accepted = worker[w].accepted
      /\ v.current = worker[w].current /\ v.stored = worker[w].stored
  BY CheckedWorker DEF DroppedState, MovedState, Workers
<1>3. SoleHolder(master, worker, w, c)
  BY DEF Asking, Offered, Arriving, Answered, Owns, Others, Outside, SoleHolder
<1>4. x \in Up /\ x.type \notin TaskTypes /\ x.type # "P2P_TRANSFER" /\ FinishCheck(w, v, ms, x)
  BY DEF NoTransfer, Up, TaskTypes
<1>5. ms \in Seq(Up) /\ NoTasks(ms) /\ NoTransferOf(ms)
  BY <1>1, StatusOnly
<1>6. wk2[w] = v /\ \A z \in Worker : z # w => wk2[z] = worker[z]
  BY CheckedWorker
<1>7. K = KeysOf(worker[w], c)
  OBVIOUS
<1> HIDE DEF x, K, wk2
<1>8. (\A k : SameOf(toWorker, toWorker, k)) /\ \A k : SameOf(toMaster, toMaster, k)
  BY NothingMoved
<1>9. Regained(worker[w], v, toWorker, toMaster, wk2, K)
  BY <1>1, <1>2, <1>3, <1>6, <1>7, <1>8, FreedTokens
<1>10. Outcome(w, v, ms, x, K)
  BY <1>4, <1>9 DEF Regained, Outcome
<1>11. LaterOK(w, v, K)
  <2> SUFFICES ASSUME NEW up3, NEW wk3, \A k : SameOf(toMaster, up3, k), SameTasks(v, wk3[w]),
                      \A z \in Worker : z # w => wk3[z] = worker[z]
               PROVE  \A k \in Key \cap K : TaskOK(master, toWorker, up3, wk3, k)
    BY DEF LaterOK
  <2> DEFINE v3 == wk3[w]
  <2>1. /\ v3.queue = CancelTransfer(worker[w].queue, c) /\ v3.accepted = worker[w].accepted
        /\ v3.current = worker[w].current /\ v3.stored = worker[w].stored /\ v3.receiving = worker[w].receiving
    BY <1>1, <1>2 DEF SameTasks
  <2>2. wk3[w] = v3
    OBVIOUS
  <2> HIDE DEF v3
  <2>3. Regained(worker[w], v3, toWorker, up3, wk3, K)
    BY <1>3, <1>7, <1>8, <2>1, <2>2, FreedTokens
  <2> QED
    BY <2>3 DEF Regained
<1>12. Reports(w, v, ms, x)
  BY <1>4, <1>5 DEF Reports
<1> QED
  BY <1>1, <1>10, <1>11, <1>12, ReportTokens

Shortened(v, v2, c) ==
  /\ Apart(v.queue) => Apart(v2.queue)
  /\ \A k : Queued(v2, k) \subseteq Queued(v, k)
  /\ \A k : NotFor(v, k, c) => SameQueued(v, v2, k)

LEMMA GivenQueue ==
  ASSUME NEW v \in Workers, NEW c, NEW v2, v2.queue = ConfirmTransfer(v.queue, c)
  PROVE  Shortened(v, v2, c)
<1> DEFINE q == v.queue
<1>1. q \in Seq(TaskRec)
  BY WorkerFields
<1>2. v2.queue = ConfirmTransfer(q, c)
  OBVIOUS
<1> HIDE DEF q
<1>3. Range(v2.queue) = {t \in Range(q) : t.held # c} /\ (Apart(q) => Apart(v2.queue))
  BY <1>1, <1>2, ConfirmedTasks
<1>4. \A k : Queued(v2, k) \subseteq Queued(v, k)
  BY <1>3 DEF Queued, With, Tasks, q
<1>5. \A k : NotFor(v, k, c) => SameQueued(v, v2, k)
  BY <1>3 DEF Queued, With, Tasks, q, NotFor, SameQueued
<1> QED
  BY <1>3, <1>4, <1>5 DEF q, Shortened

LEMMA GiveTokens ==
  ASSUME Checked, Checked', Tokens, NEW w \in Worker, NEW u \in Worker, NEW c \in Check, worker[w].check.id = c,
         Asking(master, toWorker, toMaster, worker, requests, c, w, u),
         worker[u].received[c] = "ACCEPTED", NEW v, v = GivenState(worker[w], c),
         NEW ms, ms = <<Status(v, {})>>, NEW x, x = TransferOf(c, u, ReservedFor(worker[w].queue, c)),
         FinishCheck(w, v, ms, x)
  PROVE  Tokens'
<1> DEFINE tasks == ReservedFor(worker[w].queue, c)
           K == KeysOf(worker[w], c)
<1>1. WorkerOK(v, w) /\ v.receiving = worker[w].receiving /\ v \in Workers
  <2>1. WorkerOK(v, w) /\ v.receiving = worker[w].receiving
    BY CheckedWorker, GivenOK
  <2> QED
    BY <2>1 DEF WorkerOK
<1>2. /\ v.queue = ConfirmTransfer(worker[w].queue, c) /\ v.accepted = worker[w].accepted
      /\ v.current = worker[w].current /\ v.stored = worker[w].stored
  BY CheckedWorker DEF GivenState, MovedState, Workers
<1>3. worker[w] \in Workers /\ Lists(worker[w]) /\ worker[w].queue \in Seq(TaskRec)
  BY CheckedWorker, TokenParts DEF ListsOK
<1>4. /\ Held(worker[u], c) = Held(worker[w], c) /\ u # w /\ c \notin master.transfers
  BY DEF Asking, Offered, Arriving, Answered, Owns
<1>5. tasks \in Seq(TaskRec) /\ Apart(tasks)
  BY <1>3, ReservedTasks DEF Lists
<1>6. x = TransferOf(c, u, tasks) /\ K = {t.key : t \in Held(worker[w], c)}
  BY DEF KeysOf
<1> HIDE DEF tasks, K
<1>7. x \in Up /\ x.type = "P2P_TRANSFER" /\ x.type \notin TaskTypes /\ x.tasks = tasks
  BY <1>5, <1>6 DEF TransferOf, Up, TaskTypes
<1>8. ms \in Seq(Up) /\ NoTasks(ms) /\ NoTransferOf(ms)
  BY <1>1, StatusOnly
<1>9. Reports(w, v, ms, x)
  BY <1>7, <1>8 DEF Reports
<1>10. /\ Apart(worker[w].queue) => Apart(v.queue)
       /\ \A k : Queued(v, k) \subseteq Queued(worker[w], k)
       /\ \A k : NotFor(worker[w], k, c) => SameQueued(worker[w], v, k)
  <2>1. Shortened(worker[w], v, c)
    BY <1>2, <1>3, GivenQueue
  <2> QED
    BY <2>1 DEF Shortened
<1>11. Outcome(w, v, ms, x, K)
  <2>1. Lists(v)
    BY <1>1, <1>3, <1>10 DEF Lists
  <2>2. ASSUME NEW k \in Key \ K PROVE SameHeld(worker[w], v, k)
    <3>1. NotFor(worker[w], k, c)
      BY <1>6, <2>2 DEF NotFor, Queued, With, Held
    <3> QED
      BY <1>2, <1>10, <3>1 DEF SameHeld, SameQueued, Accepted, Current
  <2> QED
    BY <1>5, <1>7, <2>1, <2>2 DEF Outcome
<1>12. LaterOK(w, v, K)
  <2> SUFFICES ASSUME NEW up3, NEW wk3, \A k : SameOf(toMaster, up3, k), SameTasks(v, wk3[w]),
                      \A z \in Worker : z # w => wk3[z] = worker[z], NEW k \in Key, k \in K
               PROVE  TaskOK(master, toWorker, up3, wk3, k)
    BY DEF LaterOK
  <2>1. PICK y \in Held(worker[w], c) : y.key = k
    BY <1>6
  <2>2. y \in Queued(worker[w], k) /\ y \in Queued(worker[u], k) /\ y.held = c
    BY <1>4, <2>1 DEF Queued, With, Held
  <2>3. PICK o \in Worker : InTransfer(master, toWorker, toMaster, worker, k, o, y)
    BY <2>2, HeldMeans, HeldChecks, TokenParts
  <2>4. \A z \in Worker : Accepted(wk3[z], k) = Accepted(worker[z], k) /\ Current(wk3[z], k) = Current(worker[z], k)
                          /\ wk3[z].stored = worker[z].stored /\ Queued(wk3[z], k) \subseteq Queued(worker[z], k)
    <3>1. /\ Accepted(wk3[w], k) = Accepted(worker[w], k) /\ Current(wk3[w], k) = Current(worker[w], k)
          /\ wk3[w].stored = worker[w].stored /\ Queued(wk3[w], k) = Queued(v, k)
      BY <1>2 DEF SameTasks, Accepted, Current, Queued, Tasks
    <3> QED
      BY <1>10, <3>1
  <2>5. \A z \in Worker : Unqueued(toWorker[z], up3[z], wk3[z], k) /\ Queued(wk3[z], k) \subseteq {y}
    BY <2>3, <2>4 DEF InTransfer, Unqueued, SameOf
  <2>6. InTransfer(master, toWorker, up3, wk3, k, o, y)
    BY <1>4, <2>2, <2>3, <2>5 DEF InTransfer
  <2>7. y \in Queued(wk3[u], k)
    BY <1>4, <2>2
  <2> QED
    BY <2>6, <2>7 DEF TaskOK
<1> QED
  BY <1>1, <1>9, <1>11, <1>12, ReportTokens

LEMMA ConcludeTokens ==
  ASSUME Checked, Checked', Tokens, NEW w \in Worker, Conclude(w)
  PROVE  Tokens'
<1> DEFINE v == worker[w]
           c == v.check.id
           u == v.check.target
           given == GivenState(v, c)
           dropped == DroppedState(v, c)
           ms1 == <<Status(given, {})>>
           x1 == TransferOf(c, u, ReservedFor(v.queue, c))
           ms2 == <<Status(dropped, {})>>
           x3 == FailureOf(c, u)
<1>0. v.check.pc = "known" /\ v \in Workers
  BY CheckedWorker DEF Conclude, At
<1>1. /\ c \in Check /\ u \in Worker /\ worker[w].check.id = c
      /\ Asking(master, toWorker, toMaster, worker, requests, c, w, u)
  BY <1>0, WaitingAsks
<1>2. [v EXCEPT !.queue = ConfirmTransfer(@, c), !.events = @ \cup {c}, !.sent = @ \cup {c}] = given
  BY DEF GivenState, MovedState
<1>3. [v EXCEPT !.queue = CancelTransfer(@, c)] = dropped
  BY <1>0 DEF DroppedState, MovedState, Workers
<1>4. CASE v.check.answer = "ACCEPTED"
  <2>1. FinishCheck(w, given, ms1, x1)
    BY <1>2, <1>4, Zenon DEF Conclude, TransferOf
  <2>2. worker[u].received[c] = "ACCEPTED"
    BY <1>0, <1>1, <1>4 DEF Asking
  <2>3. given = GivenState(v, c) /\ ms1 = <<Status(given, {})>> /\ x1 = TransferOf(c, u, ReservedFor(v.queue, c))
    OBVIOUS
  <2> HIDE DEF given, ms1, x1, c, u
  <2> QED
    BY <1>1, <2>1, <2>2, <2>3, GiveTokens
<1>5. CASE v.check.answer = "REJECTED"
  <2>1. FinishCheck(w, dropped, ms2, NoTransfer(c, TRUE))
    <3>1. ~(v.check.answer = "ACCEPTED")
      BY <1>5
    <3> QED
      BY <1>3, <1>5, <3>1, Zenon DEF Conclude
  <2>2. worker[u].received[c] = "REJECTED"
    BY <1>0, <1>1, <1>5 DEF Asking
  <2>3. dropped = DroppedState(v, c) /\ ms2 = <<Status(dropped, {})>>
    OBVIOUS
  <2> HIDE DEF dropped, ms2, c, u
  <2> QED
    BY <1>1, <2>1, <2>2, <2>3, RefusalTokens
<1>6. CASE v.check.answer \notin {"ACCEPTED", "REJECTED"}
  <2>1. FinishCheck(w, v, <<>>, x3)
    <3>1. ~(v.check.answer = "ACCEPTED") /\ ~(v.check.answer = "REJECTED")
      BY <1>6
    <3> QED
      BY <3>1, Zenon DEF Conclude, FailureOf
  <2>2. x3.type \notin TaskTypes /\ x3.type # "P2P_TRANSFER" /\ x3 \in Up
    BY <1>1 DEF FailureOf, Up, TaskTypes
  <2> HIDE DEF x3, c, u
  <2> QED
    BY <2>1, <2>2, QuietReport
<1> QED
  BY <1>4, <1>5, <1>6

-----------------------------------------------------------------------------
(* The check thread reserves tasks. *)

Marked(y, c) == [y EXCEPT !.held = c]
Taking(v, v2, k, c) ==
  \/ SameQueued(v, v2, k)
  \/ \E y \in Queued(v, k) : y.held = None /\ Only(Queued(v2, k), Marked(y, c))

LEMMA ReserveTakes ==
  ASSUME NEW v \in Workers, Apart(v.queue), NEW c \in Check, NEW count \in Nat \ {0}, Free(v.queue) # {},
         NEW v2, v2.queue = Reserve(v.queue, c, count)
  PROVE  Apart(v2.queue) /\ \A k : Taking(v, v2, k, c)
<1> DEFINE q == v.queue
           p == v2.queue
<1>1. q \in Seq(TaskRec)
  BY WorkerFields
<1>2. /\ DOMAIN p = DOMAIN q /\ Apart(p)
      /\ \A i \in DOMAIN q : p[i] = q[i] \/ (q[i].held = None /\ p[i] = Marked(q[i], c))
  BY <1>1, TasksReserved DEF Marked
<1>3. \A i \in DOMAIN q : q[i] \in TaskRec
  BY <1>1, LenProperties
<1>4. \A i \in DOMAIN q : Marked(q[i], c).key = q[i].key
  BY <1>3 DEF TaskRec, Marked
<1>5. Apart(q) /\ \A k : Queued(v, k) = {t \in Range(q) : t.key = k} /\ Queued(v2, k) = {t \in Range(p) : t.key = k}
  BY DEF Queued, With, Tasks
<1> HIDE DEF q, p
<1>6. ASSUME NEW k PROVE Taking(v, v2, k, c)
  <2>1. CASE \A i \in DOMAIN q : q[i].key = k => p[i] = q[i]
    <3>1. \A i \in DOMAIN q : p[i].key = q[i].key
      BY <1>2, <1>4
    <3>2. \A e : e \in Queued(v, k) <=> \E i \in DOMAIN q : q[i].key = k /\ e = q[i]
      BY <1>5 DEF Range
    <3>3. \A e : e \in Queued(v2, k) <=> \E i \in DOMAIN q : p[i].key = k /\ e = p[i]
      BY <1>2, <1>5 DEF Range
    <3>4. \A e : e \in Queued(v2, k) <=> e \in Queued(v, k)
      BY <2>1, <3>1, <3>2, <3>3
    <3>5. Queued(v2, k) = Queued(v, k)
      BY <3>4
    <3> QED
      BY <3>5 DEF Taking, SameQueued
  <2>2. ASSUME NEW i \in DOMAIN q, q[i].key = k, p[i] # q[i] PROVE Taking(v, v2, k, c)
    <3>1. q[i].held = None /\ p[i] = Marked(q[i], c) /\ p[i].key = k
      BY <1>2, <1>4, <2>2
    <3>2. \A j \in DOMAIN p : p[j].key = k => j = i
      BY <1>2, <3>1 DEF Apart
    <3>3. Queued(v2, k) = {p[i]}
      BY <1>2, <1>5, <3>1, <3>2 DEF Range
    <3>4. q[i] \in Queued(v, k)
      BY <1>5, <2>2 DEF Range
    <3> QED
      BY <3>1, <3>3, <3>4 DEF Taking, Only
  <2> QED
    BY <2>1, <2>2
<1> QED
  BY <1>2, <1>6 DEF p

LEMMA MarkedTask ==
  ASSUME Checked, Tokens, NEW w \in Worker, NEW c \in Check, master.check[w] = c, NEW k \in Key,
         NEW y \in Queued(worker[w], k), y.held = None, NEW v2, Only(Queued(v2, k), Marked(y, c)),
         v2.accepted = worker[w].accepted, v2.current = worker[w].current, v2.stored = worker[w].stored,
         NEW up2, SameOf(toMaster, up2, k), NEW wk2, wk2[w] = v2, \A z \in Worker : z # w => wk2[z] = worker[z]
  PROVE  TaskOK(master, toWorker, up2, wk2, k)
<1> DEFINE t == Marked(y, c)
<1>1. /\ Owned(master, toWorker, toMaster, worker, k, w) /\ master.task[k].state = "ACCEPTED"
      /\ Fits(y, master.task[k]) /\ Unqueued(toWorker[w], toMaster[w], worker[w], k)
  BY FreeMeans, TokenParts
<1>2. y \in TaskRec
  <2>1. worker[w].queue \in Seq(TaskRec)
    BY CheckedWorker
  <2>2. \A i \in DOMAIN worker[w].queue : worker[w].queue[i] \in TaskRec
    BY <2>1, LenProperties
  <2> QED
    BY <2>2 DEF Queued, With, Tasks, Range
<1>3. t.held = c /\ t.attempt = y.attempt /\ c # None
  BY <1>2, HeldChecks DEF Marked, TaskRec
<1> HIDE DEF t
<1>4. Queued(v2, k) = {t}
  BY DEF Only, t
<1>5. Unqueued(toWorker[w], up2[w], wk2[w], k)
  BY <1>1 DEF Unqueued, SameOf, Accepted, Current
<1>6. \A z \in Worker : z # w => Blank(toWorker[z], up2[z], wk2[z], k)
  BY <1>1 DEF Owned, Blank, Unqueued, SameOf
<1>7. \A z \in Worker : Unqueued(toWorker[z], up2[z], wk2[z], k) /\ Queued(wk2[z], k) \subseteq {t}
  BY <1>4, <1>5, <1>6 DEF Blank
<1>8. InTransfer(master, toWorker, up2, wk2, k, w, t)
  BY <1>1, <1>3, <1>7 DEF InTransfer, Owned, Fits
<1> QED
  BY <1>4, <1>8 DEF TaskOK

LEMMA ReserveTokens ==
  ASSUME Checked, Tokens, NEW w \in Worker, NEW u \in Worker, NEW c \in Check,
         Early(master, toWorker, toMaster, worker, requests, c, w),
         NEW count \in Nat \ {0}, NEW v2, ReserveStep(w, u, c, count, v2)
  PROVE  Tokens'
<1> DEFINE v == worker[w]
           y == Status(v2, {})
           x == TimeOf(c, w, u, "SEND")
           ms == <<y, x>>
           wk2 == [worker EXCEPT ![w] = v2]
           up2 == Sends(toMaster, w, ms)
           K == {k \in Key : ~SameQueued(worker[w], v2, k)}
<1>1. /\ v \in Workers /\ Lists(v) /\ v.queue \in Seq(TaskRec) /\ Len(v.queue) \in Size /\ DOMAIN worker = Worker
  BY CheckedWorker, TokenParts DEF ListsOK
<1>2. Free(v.queue) # {} /\ v2 = Reserved(v, Reserve(v.queue, c, count), Waits(c, u))
  BY DEF ReserveStep
<1>3. /\ v2.queue = Reserve(v.queue, c, count) /\ v2.accepted = v.accepted /\ v2.current = v.current
      /\ v2.stored = v.stored /\ v2.receiving = v.receiving
  BY <1>1, <1>2 DEF Reserved, Workers
<1>4. Apart(v2.queue) /\ \A k : Taking(worker[w], v2, k, c)
  BY <1>1, <1>2, <1>3, ReserveTakes DEF Lists
<1>5. ms \in Seq(Up) /\ NoTasks(ms) /\ \A z \in Range(ms) : z.type # "P2P_TRANSFER"
  <2>1. y \in Up /\ y.type = "QUEUE_STATUS"
    <3>1. Len(v2.queue) \in Size
      BY <1>1, <1>2, <1>3, TasksReserved
    <3> HIDE DEF v
    <3> QED
      BY <3>1 DEF Status, Up
  <2>2. x \in Up /\ x.type = "P2P_TIME"
    BY DEF TimeOf, Up, Phases
  <2> HIDE DEF x, y
  <2>3. ms \in Seq(Up) /\ Range(ms) = {y, x}
    BY <2>1, <2>2 DEF Range
  <2> QED
    BY <2>1, <2>2, <2>3 DEF NoTasks, TaskTypes
<1>6. /\ toMaster' = up2 /\ worker' = wk2 /\ UNCHANGED <<master, toWorker, requests>>
      /\ wk2[w] = v2 /\ \A z \in Worker : z # w => wk2[z] = worker[z]
  BY <1>1 DEF ReserveStep
<1>7. K = {k \in Key : ~SameQueued(worker[w], v2, k)}
  OBVIOUS
<1>7a. up2 = Sends(toMaster, w, ms)
  OBVIOUS
<1>8. /\ TokensOK(master, toWorker, toMaster, worker, requests) /\ Distinct(toWorker) /\ Distinct(toMaster)
      /\ toMaster \in [Worker -> Seq(Up)] /\ ListsOK(toMaster, worker, requests)
  BY TokenParts DEF Tokens
<1> HIDE DEF v, ms, wk2, up2, K
<1>9a. Distinct(up2) /\ \A z \in Worker : z # w => up2[z] = toMaster[z]
  <2>1. Distinct(up2)
    BY <1>5, <1>7a, <1>8, QuietMessages
  <2>2. \A z \in Worker : z # w => up2[z] = toMaster[z]
    BY <1>7a, <1>8 DEF Sends
  <2> QED
    BY <2>1, <2>2
<1>9b. \A z \in Range(up2[w]) : z \in Range(toMaster[w]) \/ z \in Range(ms)
  BY <1>5, <1>7a, <1>8, QuietMessages
<1>10. \A k : SameOf(toMaster, up2, k)
  BY <1>5, <1>7a, <1>8, QuietMessages
<1>11. ListsOK(up2, wk2, requests)
  <2>1. Lists(v2)
    BY <1>1, <1>3, <1>4 DEF Lists
  <2> QED
    BY <1>5, <1>6, <1>8, <1>9a, <1>9b, <2>1 DEF ListsOK
<1>12. \A k \in Key \ K : SameHeld(worker[w], wk2[w], k)
  BY <1>3, <1>6, <1>7 DEF SameHeld, SameQueued, Accepted, Current, v
<1>13. ASSUME NEW k \in Key \cap K PROVE TaskOK(master, toWorker, up2, wk2, k)
  <2>1. PICK z \in Queued(worker[w], k) : z.held = None /\ Only(Queued(v2, k), Marked(z, c))
    BY <1>4, <1>7, <1>13 DEF Taking
  <2>2. master.check[w] = c
    BY DEF Early, Owns
  <2>3. /\ v2.accepted = worker[w].accepted /\ v2.current = worker[w].current /\ v2.stored = worker[w].stored
    BY <1>3 DEF v
  <2> QED
    BY <1>6, <1>10, <2>1, <2>2, <2>3, MarkedTask
<1>14. \A k \in Key \ K : SameOf(toWorker, toWorker, k)
  BY NothingMoved
<1>15. TokensOK(master, toWorker, up2, wk2, requests)
  <2>1. \A k \in Key \cap K : TaskOK(master, toWorker, up2, wk2, k)
    BY <1>13
  <2>2. \A k \in Key \ K : SameOf(toMaster, up2, k)
    BY <1>10
  <2>3. \A z \in Worker : z # w => wk2[z] = worker[z]
    BY <1>6
  <2>4. TokensOK(master, toWorker, toMaster, worker, requests) /\ Distinct(toWorker) /\ Distinct(up2)
    BY <1>8, <1>9a
  <2> QED
    BY <1>11, <1>12, <1>14, <2>1, <2>2, <2>3, <2>4, WorkerTokens
<1> QED
  BY <1>6, <1>15 DEF Tokens

LEMMA ChooseAndReserveTokens ==
  ASSUME Checked, Checked', Tokens, NEW w \in Worker, ChooseAndReserve(w)
  PROVE  Tokens'
<1> DEFINE v == worker[w]
           c == v.check.id
           target == FindTarget(v.check.seen)
           u == target.peer
           count == Min({(v.check.size - target.size) \div 2, QueueSize - target.size,
                         (Len(v.queue) - target.size) \div 2})
           v2 == Reserved(v, Reserve(v.queue, c, count), Waits(c, u))
<1>1. /\ v.check.pc = "reserve"
      /\ \/ FinishCheck(w, v, <<>>, NoTransfer(c, FALSE))
         \/ v.check.seen # {} /\ ~(count <= 0) /\ ReserveStep(w, u, c, count, v2)
  BY Zenon DEF ChooseAndReserve, At, Reserved, Waits, Sends, TimeOf, ReserveStep
<1>2. c \in Check /\ TransferOK(master, toWorker, toMaster, worker, requests, c) /\ v.check \in CheckRec
  BY <1>1, CheckingOK
<1>3. Early(master, toWorker, toMaster, worker, requests, c, w)
  BY <1>1, <1>2, CheckSays, SMTT(40)
<1>4. CASE FinishCheck(w, v, <<>>, NoTransfer(c, FALSE))
  <2> HIDE DEF c
  <2> QED
    BY <1>2, <1>4, NoTransferTokens
<1>5. CASE ~FinishCheck(w, v, <<>>, NoTransfer(c, FALSE))
  <2>0. v.check.seen # {} /\ ~(count <= 0) /\ ReserveStep(w, u, c, count, v2)
    BY <1>1, <1>5, Zenon
  <2>1. /\ v.check.seen \subseteq [peer : Worker, size : Nat] /\ v.check.size \in Nat /\ Len(v.queue) \in Nat
    <3>1. Len(v.queue) \in Nat
      BY CheckedWorker
    <3> HIDE DEF v
    <3> QED
      BY <1>2, <3>1 DEF CheckRec
  <2>2. target \in v.check.seen
    BY <2>0, <2>1, TargetFound
  <2> HIDE DEF target
  <2>3. u \in Worker /\ target.size \in Nat
    BY <2>1, <2>2
  <2>4. count \in Int
    <3> DEFINE a == (v.check.size - target.size) \div 2
               b == QueueSize - target.size
               d == (Len(v.queue) - target.size) \div 2
    <3>1. a \in Int /\ b \in Int /\ d \in Int
      BY <2>1, <2>3, Half
    <3> HIDE DEF a, b, d
    <3>2. Min({a, b, d}) \in Int
      BY <3>1, LeastOfThree
    <3> QED
      BY <3>2 DEF a, b, d
  <2> DEFINE n == count
             e == u
             c2 == c
             v3 == v2
  <2>5. n \in Nat \ {0}
    <3> HIDE DEF count
    <3> QED
      BY <2>0, <2>4
  <2>6. /\ ReserveStep(w, e, c2, n, v3)
        /\ e \in Worker /\ c2 \in Check
        /\ Early(master, toWorker, toMaster, worker, requests, c2, w)
    BY <1>2, <1>3, <2>0, <2>3, Zenon
  <2> HIDE DEF n, e, c2, v3
  <2> QED
    BY <2>5, <2>6, ReserveTokens
<1> QED
  BY <1>4, <1>5

-----------------------------------------------------------------------------
(* The peer threads *)

LEMMA AcceptTokens ==
  ASSUME Checked, Tokens, NEW u \in Worker, NEW r \in requests, r.target = u, AcceptStep(u, r)
  PROVE  Tokens'
<1> DEFINE v == worker[u]
           v2 == AcceptingState(v, r)
           x == TimeOf(r.id, r.source, u, "RECV")
           up2 == Put(toMaster, u, x)
           wk2 == [worker EXCEPT ![u] = v2]
           rq2 == Without(requests, r)
<1>1. /\ v \in Workers /\ Lists(v) /\ DOMAIN worker = Worker /\ ListsOK(toMaster, worker, requests)
      /\ Distinct(toWorker) /\ Distinct(toMaster) /\ toMaster \in [Worker -> Seq(Up)]
  BY CheckedWorker, TokenParts DEF ListsOK
<1>2. r.id \in Check /\ r.source \in Worker /\ r \in Requests
  BY RequestTaken
<1>3. x \in Up /\ x.type \notin TaskTypes /\ x.type # "P2P_TRANSFER"
  BY <1>2 DEF TimeOf, Up, Phases, TaskTypes
<1>4. /\ worker' = wk2 /\ toMaster' = up2 /\ requests' = rq2 /\ UNCHANGED <<master, toWorker>>
      /\ wk2[u] = v2 /\ \A z \in Worker : z # u => wk2[z] = worker[z]
  BY <1>1 DEF AcceptStep
<1>5. /\ v2.queue = v.queue /\ v2.accepted = v.accepted /\ v2.current = v.current /\ v2.stored = v.stored
      /\ v2.receiving = <<[request |-> r, timed |-> FALSE]>>
  BY <1>1 DEF AcceptingState, Workers
<1>6. rq2 \subseteq requests /\ up2 = Put(toMaster, u, x)
  BY DEF Without
<1> HIDE DEF v2, x, up2, wk2, rq2
<1>7. Lists(v2)
  <2>1. v2.receiving[1].request = r
    BY <1>5
  <2>2. Apart(r.tasks)
    BY <1>1 DEF ListsOK
  <2> QED
    BY <1>1, <1>5, <2>1, <2>2 DEF Lists
<1>8. /\ Distinct(up2) /\ (\A z \in Worker : z # u => up2[z] = toMaster[z])
      /\ Range(up2[u]) = Plus(Range(toMaster[u]), x)
  BY <1>1, <1>3, <1>6, TaskWireSent
<1>9. \A k : SameOf(toMaster, up2, k)
  <2>1. \A k : ~Speaks(x, k)
    BY <1>3 DEF Speaks
  <2>2. \A k : ~Speaks(x, k) => SameOf(toMaster, Put(toMaster, u, x), k)
    <3>1. x.type \in TaskTypes => Of(toMaster[u], x.task.key) = {}
      BY <1>3
    <3> QED
      BY <1>1, <1>3, <3>1, TaskWireSent
  <2> QED
    BY <1>6, <2>1, <2>2
<1>10. ListsOK(up2, wk2, rq2)
  BY <1>1, <1>3, <1>4, <1>6, <1>7, <1>8 DEF ListsOK, Plus
<1>11. ASSUME NEW k \in Key PROVE SameHolders(worker, wk2, k)
  <2>1. SameHeld(v, v2, k)
    BY <1>5 DEF SameHeld, Queued, Tasks, Accepted, Current
  <2> QED
    BY <1>4, <2>1 DEF SameHolders, SameHeld
<1>12. \A k : SameOf(toWorker, toWorker, k)
  BY NothingMoved
<1>13. /\ master' = master /\ Distinct(toWorker') /\ Distinct(toMaster') /\ ListsOK(toMaster', worker', requests')
       /\ \A k : SameOf(toWorker, toWorker', k)
  BY <1>1, <1>4, <1>8, <1>10, <1>12
<1>14. \A k : SameOf(toMaster, toMaster', k)
  BY <1>4, <1>9
<1>15. \A k \in Key : SameHolders(worker, worker', k)
  BY <1>4, <1>11
<1> QED
  BY <1>13, <1>14, <1>15, QuietStep

LEMMA RefuseTokens ==
  ASSUME Checked, Tokens, NEW u \in Worker, NEW r \in requests, r.target = u, RefuseStep(u, r)
  PROVE  Tokens'
<1> DEFINE c == r.id
           w == r.source
           v2 == RefusingState(worker[u], c)
           k == Heard(worker[w].check, c, "REJECTED")
           v3 == WithCheck(worker[w], k)
           rq2 == Without(requests, r)
<1>1. /\ worker[u] \in Workers /\ DOMAIN worker = Worker /\ ListsOK(toMaster, worker, requests)
      /\ Distinct(toWorker) /\ Distinct(toMaster)
  BY CheckedWorker, TokenParts
<1>2. w \in Worker /\ Asking(master, toWorker, toMaster, worker, requests, c, w, u)
  BY RequestTaken
<1>3. /\ requests' = rq2 /\ rq2 \subseteq requests /\ UNCHANGED <<master, toWorker, toMaster>>
      /\ worker' = [worker EXCEPT ![u].received[c] = "REJECTED", ![w].check = k]
  <2>1. Reply(r, "REJECTED") = k
    BY DEF Reply, Heard, Knows
  <2> HIDE DEF k
  <2> QED
    BY <2>1 DEF RefuseStep, Without
<1>4. u # w
  BY <1>2 DEF Asking
<1> HIDE DEF c, w, k, rq2
<1>5. BothChange(worker', u, v2, w, v3)
  BY <1>2, <1>3, <1>4, TwoChange
<1>6. SameTasks(worker[u], v2) /\ SameTasks(worker[w], v3)
  <2>1. worker[w] \in Workers
    BY <1>2, CheckedWorker
  <2> QED
    BY <1>1, <2>1 DEF RefusingState, WithCheck, Workers, SameTasks
<1> HIDE DEF v2, v3
<1> DEFINE wk2 == worker'
<1>7. \A z \in Worker : SameTasks(worker[z], wk2[z])
  BY <1>5, <1>6 DEF BothChange, SameTasks
<1> HIDE DEF wk2
<1>8. \A z \in Worker : \A j : SameHeld(worker[z], wk2[z], j)
  BY <1>7, SameTasksHeld
<1>9. \A z \in Worker : Lists(wk2[z])
  BY <1>1, <1>7, SameTasksHeld DEF ListsOK
<1>10. ListsOK(toMaster, wk2, rq2)
  BY <1>1, <1>3, <1>9 DEF ListsOK
<1>11. \A j \in Key : SameHolders(worker, wk2, j)
  BY <1>8 DEF SameHolders
<1>12. (\A j : SameOf(toWorker, toWorker, j)) /\ \A j : SameOf(toMaster, toMaster, j)
  BY NothingMoved
<1>13. /\ master' = master /\ Distinct(toWorker') /\ Distinct(toMaster') /\ ListsOK(toMaster', worker', requests')
       /\ \A j : SameOf(toWorker, toWorker', j)
  BY <1>1, <1>3, <1>10, <1>12 DEF wk2
<1>14. (\A j : SameOf(toMaster, toMaster', j)) /\ \A j \in Key : SameHolders(worker, worker', j)
  BY <1>3, <1>11, <1>12 DEF wk2
<1> QED
  BY <1>13, <1>14, QuietStep

LEMMA StartReceiveTokens ==
  ASSUME Checked, Tokens, NEW w \in Worker, StartReceive(w)
  PROVE  Tokens'
<1>1. PICK r \in requests :
        /\ r.target = w /\ requests' = requests \ {r}
        /\ IF HasRoom(worker[w], Len(r.tasks))
           THEN /\ worker' = [worker EXCEPT
                     ![w].incoming = @ + Len(r.tasks),
                     ![w].received[r.id] = "UNKNOWN",
                     ![w].receiving = <<[request |-> r, timed |-> FALSE]>>]
                /\ toMaster' = [toMaster EXCEPT ![w] = Append(@,
                     [type |-> "P2P_TIME", id |-> r.id, source |-> r.source, target |-> w,
                      phase |-> "RECV"])]
           ELSE /\ worker' = [worker EXCEPT ![w].received[r.id] = "REJECTED",
                                            ![r.source].check = Reply(r, "REJECTED")]
                /\ UNCHANGED toMaster
  BY Zenon DEF StartReceive
<1>2. worker[w].receiving = <<>> /\ UNCHANGED <<master, toWorker, faults>>
  BY DEF StartReceive
<1>2a. requests' = Without(requests, r)
  BY <1>1 DEF Without
<1>3. CASE HasRoom(worker[w], Len(r.tasks))
  <2>1. worker' = [worker EXCEPT ![w] = AcceptingState(worker[w], r)]
    <3>1. DOMAIN worker = Worker
      BY CheckedWorker
    <3>2. worker' = [worker EXCEPT
                       ![w].incoming = @ + Len(r.tasks),
                       ![w].received[r.id] = "UNKNOWN",
                       ![w].receiving = <<[request |-> r, timed |-> FALSE]>>]
      BY <1>1, <1>3, Zenon
    <3> QED
      BY <3>1, <3>2, Zenon DEF AcceptingState
  <2>2. toMaster' = Put(toMaster, w, TimeOf(r.id, r.source, w, "RECV"))
    BY <1>1, <1>3, Zenon DEF Put, TimeOf
  <2>3. AcceptStep(w, r)
    BY <1>2, <1>2a, <1>3, <2>1, <2>2 DEF AcceptStep
  <2> QED
    BY <1>1, <2>3, AcceptTokens
<1>4. CASE ~HasRoom(worker[w], Len(r.tasks))
  <2>1. /\ worker' = [worker EXCEPT ![w].received[r.id] = "REJECTED", ![r.source].check = Reply(r, "REJECTED")]
        /\ UNCHANGED toMaster
    BY <1>1, <1>4, Zenon
  <2>2. RefuseStep(w, r)
    BY <1>2, <1>2a, <2>1 DEF RefuseStep
  <2> QED
    BY <1>1, <2>2, RefuseTokens
<1> QED
  BY <1>3, <1>4

(* u has received what w holds for c. *)
LEMMA ArrivedTask ==
  ASSUME Checked, Tokens, NEW u \in Worker, NEW w \in Worker, u # w, NEW c \in Check,
         NEW v2, Tasks(v2) = Tasks(worker[u]) \cup Held(worker[w], c), v2.accepted = worker[u].accepted,
         v2.current = worker[u].current, v2.stored = worker[u].stored,
         NEW wk2, wk2[u] = v2, SameTasks(worker[w], wk2[w]),
         \A z \in Worker : z # u /\ z # w => wk2[z] = worker[z],
         NEW up2, \A k : SameOf(toMaster, up2, k), NEW k \in Key
  PROVE  /\ k \in KeysOf(worker[w], c) => TaskOK(master, toWorker, up2, wk2, k)
         /\ k \notin KeysOf(worker[w], c) => SameHolders(worker, wk2, k)
<1>1. \A z \in Worker : z # u => SameHeld(worker[z], wk2[z], k)
  BY SameTasksHeld DEF SameHeld
<1>2. \A z \in Worker : /\ Accepted(wk2[z], k) = Accepted(worker[z], k)
                        /\ Current(wk2[z], k) = Current(worker[z], k)
                        /\ k \in wk2[z].stored <=> k \in worker[z].stored
  BY <1>1 DEF SameHeld, Accepted, Current
<1>3. ASSUME k \notin KeysOf(worker[w], c) PROVE SameHolders(worker, wk2, k)
  <2>1. Queued(v2, k) = Queued(worker[u], k)
    BY <1>3 DEF KeysOf, Queued, With
  <2> QED
    BY <1>1, <1>2, <2>1 DEF SameHolders, SameHeld
<1>4. ASSUME k \in KeysOf(worker[w], c) PROVE TaskOK(master, toWorker, up2, wk2, k)
  <2>1. PICK y \in Held(worker[w], c) : y.key = k
    BY <1>4 DEF KeysOf
  <2>2. y \in Queued(worker[w], k) /\ y.held = c /\ y.held # None
    BY <2>1, HeldChecks DEF Held, Queued, With
  <2>3. TaskOK(master, toWorker, toMaster, worker, k)
    BY TokenParts
  <2>4. PICK o \in Worker : InTransfer(master, toWorker, toMaster, worker, k, o, y)
    BY <2>2, <2>3, HeldMeans
  <2>5. \A z \in Worker : Queued(worker[z], k) \subseteq Queued(wk2[z], k)
    <3>1. Queued(worker[u], k) \subseteq Queued(v2, k)
      BY DEF Queued, With
    <3> QED
      BY <1>1, <3>1 DEF SameHeld
  <2>6. \A z \in Worker : Queued(wk2[z], k) \subseteq {y}
    <3>1. \A z \in Worker : Queued(worker[z], k) \subseteq {y}
      BY <2>4 DEF InTransfer
    <3>2. \A t \in Queued(v2, k) : t \in Queued(worker[u], k) \/ t \in Queued(worker[w], k)
      BY DEF Queued, With, Held
    <3> QED
      BY <1>1, <3>1, <3>2 DEF SameHeld
  <2>7. \A z \in Worker : Unqueued(toWorker[z], up2[z], wk2[z], k)
    <3>1. \A z \in Worker : Unqueued(toWorker[z], toMaster[z], worker[z], k)
      BY <2>4 DEF InTransfer
    <3>2. \A z \in Worker : Of(up2[z], k) = Of(toMaster[z], k)
      BY DEF SameOf
    <3> QED
      BY <1>2, <3>1, <3>2 DEF Unqueued
  <2>8. InTransfer(master, toWorker, up2, wk2, k, o, y)
    BY <2>4, <2>5, <2>6, <2>7 DEF InTransfer
  <2>9. y \in Queued(wk2[w], k)
    BY <2>2, <2>5
  <2> QED
    BY <2>8, <2>9 DEF TaskOK
<1> QED
  BY <1>3, <1>4

(* What u has queued is not among the tasks that w holds for c. *)
LEMMA ArrivedApart ==
  ASSUME Checked, Tokens, NEW u \in Worker, NEW w \in Worker, NEW c \in Check, Held(worker[u], c) = {},
         NEW t \in Tasks(worker[u])
  PROVE  Away(t.key, Held(worker[w], c))
<1> SUFFICES ASSUME NEW y \in Held(worker[w], c), y.key = t.key PROVE FALSE
  BY DEF Away
<1>1. t.key \in Key
  <2>1. worker[u].queue \in Seq(TaskRec)
    BY CheckedWorker
  <2>2. t \in TaskRec
    BY <2>1 DEF Tasks, Range
  <2> QED
    BY <2>2 DEF TaskRec
<1>2. y \in Queued(worker[w], t.key) /\ y.held = c /\ y.held # None /\ t \in Queued(worker[u], t.key)
  BY HeldChecks DEF Held, Queued, With
<1>3. TaskOK(master, toWorker, toMaster, worker, t.key)
  BY <1>1, TokenParts
<1>4. PICK o \in Worker : InTransfer(master, toWorker, toMaster, worker, t.key, o, y)
  BY <1>2, <1>3, HeldMeans
<1>5. t = y
  BY <1>2, <1>4 DEF InTransfer
<1> QED
  BY <1>2, <1>5 DEF Held

LEMMA StatusesQuiet ==
  ASSUME NEW q \in Seq(TaskRec), NEW count \in Nat, Len(q) + count <= QueueSize,
         NEW ms, ms = ReceivedStatuses(q, count)
  PROVE  ms \in Seq(Up) /\ NoTasks(ms) /\ NoTransferOf(ms)
<1>1. ms \in Seq(Up)
  BY ReceivedUp
<1>2. \A x \in Range(ms) : x.type = "QUEUE_STATUS"
  BY DEF ReceivedStatuses, Range
<1> QED
  BY <1>1, <1>2 DEF NoTasks, NoTransferOf, TaskTypes

LEMMA FinishReceiveTokens ==
  ASSUME Checked, Tokens, NEW u \in Worker, FinishReceive(u)
  PROVE  Tokens'
<1> DEFINE v == worker[u]
           at == v.receiving[1]
           r == at.request
           c == r.id
           w == r.source
           count == Len(r.tasks)
           v2 == FinishedState(v, r)
           k == Heard(worker[w].check, c, "ACCEPTED")
           ms == ReceivedStatuses(v.queue, count)
           up2 == Sends(toMaster, u, ms)
<1>1. v.receiving # <<>> /\ at.timed
  BY Zenon DEF FinishReceive
<1>2. \/ Raise("error")
      \/ /\ Len(v.queue) + count <= QueueSize
         /\ worker' = [worker EXCEPT ![u] = v2, ![w].check = k] /\ toMaster' = up2
         /\ UNCHANGED <<master, toWorker, requests, faults>>
  <2>1. Reply(r, "ACCEPTED") = k
    BY DEF Reply, Heard, Knows
  <2> DEFINE raw == [v EXCEPT !.queue = @ \o r.tasks, !.incoming = @ - count,
                              !.received[r.id] = "ACCEPTED", !.receiving = <<>>]
             told == [toMaster EXCEPT ![u] = @ \o
                 [i \in 1..count |-> [type |-> "QUEUE_STATUS", size |-> Len(v.queue) + i, confirms |-> {}]]]
  <2>2. raw = v2
    BY DEF FinishedState
  <2>2a. up2 = told
    BY DEF Sends, ReceivedStatuses
  <2>3. IF Len(v.queue) + count > QueueSize THEN Raise("error")
        ELSE /\ worker' = [worker EXCEPT ![u] = raw, ![w].check = Reply(r, "ACCEPTED")]
             /\ toMaster' = told
             /\ UNCHANGED <<master, toWorker, requests, faults, verdict>>
    BY Zenon DEF FinishReceive
  <2>4. Len(v.queue) + count \in Int
    <3>1. Len(v.queue) \in Nat /\ v \in Workers /\ WorkerOK(v, u)
      BY CheckedWorker
    <3>2. v.incoming = count /\ v.incoming \in Nat
      BY <1>1, <3>1, WorkerFields DEF WorkerOK
    <3> QED
      BY <3>1, <3>2
  <2>5. CASE Len(v.queue) + count > QueueSize
    BY <2>3, <2>5, Zenon
  <2>6. CASE ~(Len(v.queue) + count > QueueSize)
    <3>1. Len(v.queue) + count <= QueueSize
      <4> HIDE DEF count
      <4> QED
        BY <2>4, <2>6
    <3>2. /\ worker' = [worker EXCEPT ![u] = raw, ![w].check = Reply(r, "ACCEPTED")] /\ toMaster' = told
          /\ UNCHANGED <<master, toWorker, requests, faults, verdict>>
      BY <2>3, <2>6, Zenon
    <3> HIDE DEF v2, k, up2, count, r, w, raw, told
    <3> QED
      BY <2>1, <2>2, <2>2a, <3>1, <3>2
  <2> HIDE DEF v2, k, up2, count, r, w, raw, told
  <2> QED
    BY <2>5, <2>6
<1>3. CASE Raise("error")
  BY <1>3, RaiseTokens
<1>4. CASE /\ Len(v.queue) + count <= QueueSize
           /\ worker' = [worker EXCEPT ![u] = v2, ![w].check = k] /\ toMaster' = up2
           /\ UNCHANGED <<master, toWorker, requests, faults>>
  <2>0. v \in Workers /\ v.queue \in Seq(TaskRec) /\ Lists(v)
    BY CheckedWorker, TokenParts DEF ListsOK
  <2>1. c \in Check /\ count \in Nat /\ Receiving(v, c) /\ r.tasks \in Seq(TaskRec)
    <3>1. PICK a \in Receptions : v.receiving = <<a>>
      BY <1>1, <2>0 DEF Workers
    <3>2. r \in Requests
      BY <3>1 DEF Receptions
    <3>3. r.tasks \in Seq(TaskRec) /\ r.id \in Check
      BY <3>2 DEF Requests
    <3> QED
      BY <1>1, <3>3, LenProperties DEF Receiving
  <2>2. PICK s \in Worker : /\ Asking(master, toWorker, toMaster, worker, requests, c, s, u)
                            /\ Arriving(master, toWorker, toMaster, worker, requests, c, s, u)
    <3>1. TransferOK(master, toWorker, toMaster, worker, requests, c)
      BY <2>1 DEF Checked, SystemOK, TransfersOK
    <3> HIDE DEF c
    <3> QED
      BY <2>1, <3>1, ReceptionSays
  <2>3. s = w /\ Range(r.tasks) = Held(worker[w], c) /\ Held(v, c) = {} /\ u # w
    <3>1. s = w
      BY <2>2, Zenon DEF Arriving
    <3> HIDE DEF c, w
    <3> QED
      BY <1>1, <2>2, <3>1 DEF Arriving, Asking
  <2>4. /\ v2.queue = v.queue \o r.tasks /\ v2.receiving = <<>>
        /\ v2.accepted = v.accepted /\ v2.current = v.current /\ v2.stored = v.stored
    BY <2>0 DEF FinishedState, Workers
  <2>4a. Apart(r.tasks)
    BY <1>1, <2>0 DEF Lists
  <2>5. ms \in Seq(Up) /\ NoTasks(ms) /\ NoTransferOf(ms)
    <3>1. ms = ReceivedStatuses(v.queue, count)
      OBVIOUS
    <3>2. Len(v.queue) + count <= QueueSize
      BY <1>4, Zenon
    <3>3. v.queue \in Seq(TaskRec) /\ count \in Nat
      BY <2>0, <2>1, Zenon
    <3> HIDE DEF v, count, ms, v2, k, up2, r, c, w
    <3> QED
      BY <3>1, <3>2, <3>3, StatusesQuiet
  <2>5a. up2 = Sends(toMaster, u, ms)
    OBVIOUS
  <2> HIDE DEF v2, c, r, w, k, count, up2, ms
  <2>6. BothChange(worker', u, v2, w, WithCheck(worker[w], k))
    <3>1. DOMAIN worker = Worker /\ w \in Worker /\ u # w
      BY <2>2, <2>3, CheckedWorker
    <3>2. /\ DOMAIN worker' = Worker /\ worker'[w] = [worker[w] EXCEPT !.check = k]
          /\ worker'[u] = v2 /\ \A z \in Worker : z # u /\ z # w => worker'[z] = worker[z]
      BY <1>4, <3>1
    <3> QED
      BY <3>2 DEF BothChange, WithCheck
  <2>7. SameTasks(worker[w], WithCheck(worker[w], k))
    <3>1. worker[w] \in Workers
      BY <2>2, <2>3, CheckedWorker
    <3> QED
      BY <3>1 DEF SameTasks, WithCheck, Workers
  <2>8. w \in Worker
    BY <2>2, <2>3
  <2> DEFINE wk2 == worker'
             K == KeysOf(worker[w], c)
  <2>9. /\ wk2[u] = v2 /\ SameTasks(worker[w], wk2[w])
        /\ \A z \in Worker : z # u /\ z # w => wk2[z] = worker[z]
    BY <2>6, <2>7 DEF BothChange
  <2> HIDE DEF wk2
  <2>10. Tasks(v2) = Tasks(v) \cup Held(worker[w], c)
    BY <2>0, <2>1, <2>3, <2>4, TasksQueued DEF Tasks
  <2>11. Lists(v2)
    <3>1. \A t \in Tasks(worker[u]) : Away(t.key, Held(worker[w], c))
      BY <2>1, <2>3, <2>8, ArrivedApart
    <3>2. \A t \in Range(v.queue) : Away(t.key, Range(r.tasks))
      BY <2>3, <3>1 DEF Tasks
    <3>3. Apart(v.queue)
      BY <2>0 DEF Lists
    <3>4. Apart(v.queue \o r.tasks)
      BY <2>0, <2>1, <2>4a, <3>2, <3>3, TasksQueued
    <3> QED
      BY <2>4, <3>4 DEF Lists
  <2>12. /\ Distinct(up2) /\ (\A j : SameOf(toMaster, up2, j))
         /\ (\A z \in Worker : z # u => up2[z] = toMaster[z])
         /\ \A x \in Range(up2[u]) : x \in Range(toMaster[u]) \/ x \in Range(ms)
    <3>1. toMaster \in [Worker -> Seq(Up)] /\ Distinct(toMaster)
      BY TokenParts
    <3>2. \A j : SameOf(toMaster, Sends(toMaster, u, ms), j)
      BY <2>5, <3>1, QuietMessages
    <3>3. \A j : SameOf(toMaster, up2, j)
      BY <2>5a, <3>2, Zenon
    <3>4. /\ Distinct(Sends(toMaster, u, ms))
          /\ \A z \in Worker : z # u => Sends(toMaster, u, ms)[z] = toMaster[z]
      BY <2>5, <3>1, QuietMessages
    <3>5. \A x \in Range(Sends(toMaster, u, ms)[u]) : x \in Range(toMaster[u]) \/ x \in Range(ms)
      BY <2>5, <3>1, QuietMessages
    <3> QED
      BY <2>5a, <3>3, <3>4, <3>5, Zenon
  <2>13. ListsOK(up2, wk2, requests)
    <3>1. ListsOK(toMaster, worker, requests)
      BY TokenParts
    <3>2. \A z \in Worker : Lists(wk2[z])
      BY <2>9, <2>11, <3>1, SameTasksHeld DEF ListsOK
    <3>3. \A z \in Worker : \A x \in Range(up2[z]) : x.type = "P2P_TRANSFER" => Apart(x.tasks)
      BY <2>5, <2>12, <3>1 DEF ListsOK, NoTransferOf
    <3> QED
      BY <3>1, <3>2, <3>3 DEF ListsOK
  <2>14. \A j \in Key : /\ j \in K => TaskOK(master, toWorker, up2, wk2, j)
                        /\ j \notin K => SameHolders(worker, wk2, j)
    BY <2>1, <2>3, <2>4, <2>8, <2>9, <2>10, <2>12, ArrivedTask
  <2> HIDE DEF K
  <2>15. WaitingOK(master) /\ Distinct(toWorker)
    BY TokenParts
  <2>16. (\A j : SameClaims(master, master, worker, j)) /\ \A j : SameOf(toWorker, toWorker, j)
    BY NothingMoved
  <2>17. TokensOK(master, toWorker, up2, wk2, requests)
    <3>1. TokensOK(master, toWorker, toMaster, worker, requests)
      BY DEF Tokens
    <3> QED
      BY <2>12, <2>13, <2>14, <2>15, <2>16, <3>1, TokensElsewhere
  <2> QED
    BY <1>4, <2>17 DEF Tokens, wk2
<1> HIDE DEF v2, c, r, w, k, count, up2, ms
<1> QED
  BY <1>2, <1>3, <1>4

-----------------------------------------------------------------------------
(* The specification *)

LEMMA StepKeepsTokens ==
  ASSUME Checked, Checked', Tokens, Next
  PROVE  Tokens'
<1>1. ASSUME NEW w \in Worker, WorkerStep(w) PROVE Tokens'
  BY <1>1, PeersTokens, TaskTokens, TaskConfirmedTokens, ProcessAckTokens, P2PCheckTokens,
     TimeAckTokens, TransferConfirmedTokens, StopTokens DEF WorkerStep
<1>2. ASSUME NEW w \in Worker, PeerStep(w) PROVE Tokens'
  BY <1>2, BeginCheckTokens, QueryPeerTokens, ChooseAndReserveTokens, AskStatusTokens, ConcludeTokens,
     StartReceiveTokens, FinishReceiveTokens DEF PeerStep
<1>3. ASSUME NEW w \in Worker, HandleMessage(w) PROVE Tokens'
  BY <1>3, MessageTokens
<1>4. ASSUME NEW w \in Worker, Timeout(w) PROVE Tokens'
  BY <1>4, TimeoutTokens
<1> QED
  BY <1>1, <1>2, <1>3, <1>4 DEF Next, SystemStep

LEMMA StutterKeepsTokens ==
  ASSUME Tokens, UNCHANGED vars
  PROVE  Tokens'
BY DEF Tokens, vars

LEMMA InitTokens ==
  ASSUME Init
  PROVE  Tokens
<1>1. /\ master.retry = <<>> /\ master.fresh = [i \in Key |-> i] /\ master.task = [k \in Key |-> NewTask]
      /\ worker = [w \in Worker |-> NewWorker] /\ requests = {}
      /\ toWorker = [w \in Worker |-> <<[type |-> "PEERS"]>>] /\ toMaster = [w \in Worker |-> <<>>]
  BY DEF Init
<1>2. Range(<<>>) = {} /\ Range(<<[type |-> "PEERS"]>>) = {[type |-> "PEERS"]}
  BY SingleTask
<1>3. NewTask.state = "WAITING" /\ NewTask.owner = None
  BY DEF NewTask
<1>4. WaitingOK(master)
  <2>1. Range(master.fresh) = Key /\ Range(master.retry) = {}
    BY <1>1, <1>2 DEF Range
  <2>2. Once(master.retry) /\ Once(master.fresh)
    BY <1>1 DEF Once
  <2> QED
    BY <1>1, <1>3, <2>1, <2>2 DEF WaitingOK
<1>5. /\ NewWorker.queue = <<>> /\ NewWorker.accepted = {} /\ NewWorker.current = <<>>
      /\ NewWorker.stored = {} /\ NewWorker.receiving = <<>>
  BY DEF NewWorker
<1>6. Lists(NewWorker)
  BY <1>5 DEF Lists, Apart
<1>7. ListsOK(toMaster, worker, requests)
  BY <1>1, <1>2, <1>6 DEF ListsOK
<1>8. Distinct(toWorker) /\ Distinct(toMaster)
  <2>1. Single(<<>>) /\ Single(<<[type |-> "PEERS"]>>)
    BY DEF Single
  <2> QED
    BY <1>1, <2>1 DEF Distinct
<1>9. ASSUME NEW k \in Key PROVE TaskOK(master, toWorker, toMaster, worker, k)
  <2>1. Of(<<>>, k) = {} /\ Of(<<[type |-> "PEERS"]>>, k) = {}
    BY <1>2 DEF Of, Speaks, TaskTypes
  <2>2. /\ Queued(NewWorker, k) = {} /\ Accepted(NewWorker, k) = {} /\ Current(NewWorker, k) = {}
        /\ k \notin NewWorker.stored
    BY <1>2, <1>5 DEF Queued, Tasks, Accepted, Current, With
  <2>3. Blank(<<[type |-> "PEERS"]>>, <<>>, NewWorker, k)
    BY <2>1, <2>2 DEF Blank, Unqueued
  <2>4. \A z \in Worker : Blank(toWorker[z], toMaster[z], worker[z], k)
    BY <1>1, <2>3
  <2>5. master.task[k] = NewTask
    BY <1>1
  <2> QED
    BY <1>3, <2>4, <2>5 DEF Unassigned, TaskOK
<1> QED
  BY <1>4, <1>7, <1>8, <1>9 DEF Tokens, TokensOK, Distinct

LEMMA TokensOneRunner ==
  ASSUME Tokens
  PROVE  OneRunner
<1> SUFFICES ASSUME NEW w \in Worker, NEW k \in Key, Runnable(w, k) PROVE master.task[k].owner = w
  BY DEF OneRunner
<1>1. TaskOK(master, toWorker, toMaster, worker, k)
  BY DEF Tokens, TokensOK
<1>2. (\E t \in Queued(worker[w], k) : t.held = None) \/ Current(worker[w], k) # {}
  BY DEF Runnable, Free, Queued, Current, With, Tasks, Range
<1>3. ~Blank(toWorker[w], toMaster[w], worker[w], k)
  BY <1>2 DEF Blank, Unqueued
<1>4. ~\E o, h \in Worker : \E y \in Queued(worker[h], k) :
         InTransfer(master, toWorker, toMaster, worker, k, o, y)
  BY <1>2 DEF InTransfer, Unqueued
<1> QED
  BY <1>1, <1>3, <1>4 DEF TaskOK, Unassigned, Owned

(* A queued task that is reserved is queued by its owner, or its transfer is on
   the way to the master. *)
LEMMA ReservedMeans ==
  ASSUME Checked, Tokens, NEW k \in Key, NEW o \in Worker, NEW h \in Worker, NEW y \in Queued(worker[h], k),
         InTransfer(master, toWorker, toMaster, worker, k, o, y)
  PROVE  InQueue(o, k) \/ Moving(o, k)
<1>1. \A z \in Worker : y \in Queued(worker[z], k) => InQueue(z, k)
  BY DEF Queued, With, Tasks, Range, InQueue
<1>2. CASE y \in Queued(worker[o], k)
  BY <1>1, <1>2
<1>3. CASE y \notin Queued(worker[o], k)
  <2> DEFINE c == y.held
  <2>1. master.check[o] = c /\ c # None /\ h # o
    BY <1>3 DEF InTransfer
  <2>2. c \in Check
    <3>1. worker[h].queue \in Seq(TaskRec)
      BY CheckedWorker
    <3>2. y \in TaskRec
      BY <3>1 DEF Queued, With, Tasks, Range
    <3> QED
      BY <2>1, <3>2 DEF TaskRec
  <2>3. \A z \in Worker : y \in Held(worker[z], c) <=> y \in Queued(worker[z], k)
    BY DEF Held, Queued, With
  <2> HIDE DEF c
  <2>4. TransferOK(master, toWorker, toMaster, worker, requests, c)
    BY <2>2 DEF Checked, SystemOK, TransfersOK
  <2>5. y \in Held(worker[h], c) /\ y \notin Held(worker[o], c)
    BY <1>3, <2>3
  <2>6. ~Off(master, toWorker, toMaster, worker, requests, c)
    BY <2>1 DEF Off
  <2>7. PICK w \in Worker, u \in Worker :
          \/ Early(master, toWorker, toMaster, worker, requests, c, w)
          \/ Timing(master, toWorker, toMaster, worker, requests, c, w, u)
          \/ Asking(master, toWorker, toMaster, worker, requests, c, w, u)
          \/ Given(master, toWorker, toMaster, worker, requests, c, w, u)
          \/ Dropped(master, toWorker, toMaster, worker, requests, c, w, u)
          \/ Done(master, toWorker, toMaster, worker, requests, c, w, u)
    BY <2>4, <2>6 DEF TransferOK
  <2>8. ~Early(master, toWorker, toMaster, worker, requests, c, w)
    BY <2>5 DEF Early, Others, Outside
  <2>9. ~Timing(master, toWorker, toMaster, worker, requests, c, w, u)
    BY <2>1, <2>5 DEF Timing, Owns, Others, Outside
  <2>10. ~Asking(master, toWorker, toMaster, worker, requests, c, w, u)
    <3> SUFFICES ASSUME Asking(master, toWorker, toMaster, worker, requests, c, w, u) PROVE FALSE
      OBVIOUS
    <3>1. w = o /\ h = u
      BY <2>1, <2>5 DEF Asking, Owns, Others, Outside
    <3>2. Held(worker[u], c) = {} \/ Held(worker[u], c) = Held(worker[w], c)
      BY DEF Asking, Offered, Arriving, Answered
    <3> QED
      BY <2>5, <3>1, <3>2
  <2>11. ~Dropped(master, toWorker, toMaster, worker, requests, c, w, u)
    BY <2>5 DEF Dropped, Outside
  <2>12. ~Done(master, toWorker, toMaster, worker, requests, c, w, u)
    BY <2>1 DEF Done
  <2>13. Given(master, toWorker, toMaster, worker, requests, c, w, u)
    BY <2>7, <2>8, <2>9, <2>10, <2>11, <2>12
  <2>14. w = o /\ h = u
    BY <2>1, <2>5, <2>13 DEF Given, Owns, Others, Outside
  <2>15. PICK x \in About(toMaster[o], c) : x.type = "P2P_TRANSFER" /\ x.target = u /\ Range(x.tasks) = Held(worker[u], c)
    BY <2>13, <2>14 DEF Given
  <2>16. PICK i \in DOMAIN toMaster[o] : toMaster[o][i] = x
    BY DEF About, Range
  <2>17. \E t \in Range(x.tasks) : t.key = k
    BY <2>5, <2>14, <2>15 DEF Queued, With
  <2>18. InQueue(u, k)
    BY <1>1, <2>14
  <2>19. ~Runnable(u, k)
    <3>1. \A t \in Queued(worker[u], k) : t.held # None
      BY DEF InTransfer
    <3>2. Current(worker[u], k) = {}
      BY DEF InTransfer, Unqueued
    <3> QED
      BY <3>1, <3>2 DEF Runnable, Free, Queued, Current, With, Tasks, Range
  <2>20. Moving(o, k)
    BY <2>15, <2>16, <2>17, <2>18, <2>19 DEF Moving
  <2> QED
    BY <2>20
<1> QED
  BY <1>2, <1>3

(* A task that waits has one place in the master's queues. *)
LEMMA WaitsOnce ==
  ASSUME NEW r \in Seq(Key), NEW f \in Seq(Key), Once(r), Once(f), NEW k,
         ~(k \in Range(r) /\ k \in Range(f)), k \in Range(r) \/ k \in Range(f)
  PROVE  Cardinality({i \in DOMAIN (r \o f) : (r \o f)[i] = k}) = 1
<1> DEFINE q == r \o f
           S == {i \in DOMAIN q : q[i] = k}
<1>1. /\ Len(r) \in Nat /\ Len(f) \in Nat /\ DOMAIN r = 1..Len(r) /\ DOMAIN f = 1..Len(f)
      /\ DOMAIN q = 1..(Len(r) + Len(f))
      /\ \A i \in 1..(Len(r) + Len(f)) : q[i] = IF i <= Len(r) THEN r[i] ELSE f[i - Len(r)]
  <2>1. q \in Seq(Key)
    OBVIOUS
  <2> QED
    BY <2>1, ConcatProperties, LenProperties
<1> HIDE DEF q
<1>2. \A i \in DOMAIN r : i \in DOMAIN q /\ q[i] = r[i]
  BY <1>1
<1>3. \A i \in DOMAIN f : i + Len(r) \in DOMAIN q /\ q[i + Len(r)] = f[i]
  BY <1>1
<1>4. \A i \in DOMAIN q : \/ i \in DOMAIN r /\ q[i] = r[i]
                          \/ i - Len(r) \in DOMAIN f /\ q[i] = f[i - Len(r)]
  BY <1>1
<1>5. \E i \in DOMAIN q : q[i] = k
  BY <1>2, <1>3 DEF Range
<1>6. \A i, j \in DOMAIN q : q[i] = k /\ q[j] = k => i = j
  <2> SUFFICES ASSUME NEW i \in DOMAIN q, NEW j \in DOMAIN q, q[i] = k, q[j] = k PROVE i = j
    OBVIOUS
  <2>1. (i \in DOMAIN r /\ r[i] = k) \/ (i - Len(r) \in DOMAIN f /\ f[i - Len(r)] = k)
    BY <1>4
  <2>2. (j \in DOMAIN r /\ r[j] = k) \/ (j - Len(r) \in DOMAIN f /\ f[j - Len(r)] = k)
    BY <1>4
  <2>3. ~((\E a \in DOMAIN r : r[a] = k) /\ \E b \in DOMAIN f : f[b] = k)
    BY DEF Range
  <2>4. CASE i \in DOMAIN r /\ r[i] = k /\ j \in DOMAIN r /\ r[j] = k
    BY <2>4 DEF Once
  <2>5. CASE /\ i - Len(r) \in DOMAIN f /\ f[i - Len(r)] = k
             /\ j - Len(r) \in DOMAIN f /\ f[j - Len(r)] = k
    <3>1. i - Len(r) = j - Len(r)
      BY <2>5 DEF Once
    <3> QED
      BY <1>1, <3>1
  <2> QED
    BY <2>1, <2>2, <2>3, <2>4, <2>5
<1>7. PICK i \in DOMAIN q : q[i] = k
  BY <1>5
<1>8. S = {i}
  BY <1>6, <1>7
<1>9. Cardinality({i}) = 1
  BY FS_Singleton, Zenon
<1> QED
  BY <1>8, <1>9 DEF q

LEMMA OnWireMeans ==
  ASSUME NEW q, NEW type \in TaskTypes, NEW k
  PROVE  OnWire(q, type, k) <=> \E x \in Of(q, k) : x.type = type
BY DEF OnWire, Of, Speaks, Range, TaskTypes

LEMMA TokensNothingLost ==
  ASSUME Checked, Tokens
  PROVE  NothingLost
<1> SUFFICES ASSUME NEW k \in Key
    PROVE  LET t == master.task[k]
               w == t.owner
           IN  CASE t.state = "WAITING" ->
                      Cardinality({i \in DOMAIN Waiting(master) : Waiting(master)[i] = k}) = 1
                 [] t.state = "SENT" -> OnWire(toWorker[w], "TASK", k) # OnWire(toMaster[w], "TASK_ACK", k)
                 [] t.state = "ACCEPTED" ->
                      \/ \E x \in worker[w].accepted : x.key = k
                      \/ InQueue(w, k) \/ OnWire(toMaster[w], "PROCESS_START", k) \/ Moving(w, k)
                 [] t.state = "PROCESSING" ->
                      \/ \E i \in DOMAIN worker[w].current : worker[w].current[i].key = k
                      \/ OnWire(toMaster[w], "RESULT", k)
                 [] OTHER -> Cardinality({u \in Worker : k \in worker[u].stored}) = 1
  BY Zenon DEF NothingLost
<1> DEFINE t == master.task[k]
           o == t.owner
           d == toWorker[o]
           u == toMaster[o]
           v == worker[o]
<1>1. TaskOK(master, toWorker, toMaster, worker, k) /\ WaitingOK(master)
  BY DEF Tokens, TokensOK
<1>2. master \in Masters
  BY DEF Checked, SystemOK, TypesOK, MasterOK
<1>3. t \in TaskState /\ master.retry \in Seq(Key) /\ master.fresh \in Seq(Key)
  BY <1>2, Fields
<1>4. t.state \in {"WAITING", "SENT", "ACCEPTED", "PROCESSING", "DONE"}
  BY <1>3 DEF TaskState
<1>5. ASSUME t.state # "WAITING" PROVE
        \/ o \in Worker /\ Owned(master, toWorker, toMaster, worker, k, o)
        \/ /\ o \in Worker
           /\ \E h \in Worker : \E y \in Queued(worker[h], k) :
                InTransfer(master, toWorker, toMaster, worker, k, o, y)
  BY <1>1, <1>5 DEF TaskOK, Unassigned, Owned, InTransfer
<1>6. \A z, y : InTransfer(master, toWorker, toMaster, worker, k, z, y) => t.state = "ACCEPTED"
  BY DEF InTransfer
<1>7. ASSUME t.state # "WAITING", t.state # "ACCEPTED"
      PROVE  o \in Worker /\ Owned(master, toWorker, toMaster, worker, k, o) /\ Place(d, u, v, k, t)
  BY <1>5, <1>6, <1>7 DEF Owned
<1>8. CASE t.state = "WAITING"
  <2>1. ~(k \in Range(master.retry) /\ k \in Range(master.fresh))
        /\ (k \in Range(master.retry) \/ k \in Range(master.fresh))
    BY <1>1, <1>8 DEF WaitingOK
  <2>2. Cardinality({i \in DOMAIN Waiting(master) : Waiting(master)[i] = k}) = 1
    <3> DEFINE r == master.retry
               f == master.fresh
    <3>1. r \in Seq(Key) /\ f \in Seq(Key) /\ Once(r) /\ Once(f)
      BY <1>1, <1>3 DEF WaitingOK
    <3>2. ~(k \in Range(r) /\ k \in Range(f)) /\ (k \in Range(r) \/ k \in Range(f))
      BY <2>1
    <3>3. Waiting(master) = r \o f
      BY DEF Waiting
    <3> HIDE DEF r, f
    <3>4. Cardinality({i \in DOMAIN (r \o f) : (r \o f)[i] = k}) = 1
      BY <3>1, <3>2, WaitsOnce
    <3> QED
      BY <3>3, <3>4, Zenon
  <2> QED
    BY <1>8, <2>2
<1>9. CASE t.state = "SENT"
  <2>1. Handed(d, u, v, k, t) \/ Judged(d, u, v, k, t)
    BY <1>7, <1>9 DEF Place, Confirmed, Startable, Started, Running, Finished, Stored
  <2>2. \/ OnWire(d, "TASK", k) /\ ~OnWire(u, "TASK_ACK", k)
        \/ ~OnWire(d, "TASK", k) /\ OnWire(u, "TASK_ACK", k)
    <3>1. /\ OnWire(d, "TASK", k) <=> \E x \in Of(d, k) : x.type = "TASK"
          /\ OnWire(u, "TASK_ACK", k) <=> \E x \in Of(u, k) : x.type = "TASK_ACK"
      BY OnWireMeans DEF TaskTypes
    <3> HIDE DEF t, o, d, u, v
    <3> QED
      BY <2>1, <3>1 DEF Handed, Judged
  <2>3. OnWire(d, "TASK", k) # OnWire(u, "TASK_ACK", k)
    BY <2>2
  <2> QED
    BY <1>9, <2>3
<1>10. CASE t.state = "ACCEPTED"
  <2>1. CASE o \in Worker /\ Owned(master, toWorker, toMaster, worker, k, o)
    <3>1. Confirmed(d, u, v, k, t) \/ Startable(d, u, v, k, t) \/ Started(d, u, v, k, t)
      BY <1>10, <2>1 DEF Owned, Place, Handed, Judged, Running, Finished, Stored
    <3>2. CASE Confirmed(d, u, v, k, t)
      <4>1. \E x \in v.accepted : x.key = k
        BY <3>2 DEF Confirmed, Accepted, With
      <4> QED
        BY <1>10, <4>1
    <3>3. CASE Startable(d, u, v, k, t)
      <4>1. InQueue(o, k)
        BY <3>3 DEF Startable, Queued, With, Tasks, Range, InQueue
      <4> QED
        BY <1>10, <4>1
    <3>4. CASE Started(d, u, v, k, t)
      <4>1. OnWire(u, "PROCESS_START", k)
        BY <3>4, OnWireMeans DEF Started, TaskTypes
      <4> QED
        BY <1>10, <4>1
    <3> QED
      BY <3>1, <3>2, <3>3, <3>4, Zenon
  <2>2. CASE /\ o \in Worker
             /\ \E h \in Worker : \E y \in Queued(worker[h], k) :
                  InTransfer(master, toWorker, toMaster, worker, k, o, y)
    <3>1. InQueue(o, k) \/ Moving(o, k)
      BY <2>2, ReservedMeans
    <3> QED
      BY <1>10, <3>1
  <2> QED
    BY <1>5, <1>10, <2>1, <2>2
<1>11. CASE t.state = "PROCESSING"
  <2>1. Running(d, u, v, k, t) \/ Finished(d, u, v, k, t)
    BY <1>7, <1>11 DEF Place, Handed, Judged, Confirmed, Startable, Started, Stored
  <2>2. CASE Running(d, u, v, k, t)
    <3>1. Current(v, k) # {}
      BY <2>2 DEF Running
    <3>2. \E i \in DOMAIN v.current : v.current[i].key = k
      BY <3>1 DEF Current, With, Range
    <3> QED
      BY <1>11, <3>2
  <2>3. CASE Finished(d, u, v, k, t)
    <3>1. OnWire(u, "RESULT", k)
      BY <2>3, OnWireMeans DEF Finished, TaskTypes
    <3> QED
      BY <1>11, <3>1
  <2> QED
    BY <2>1, <2>2, <2>3, Zenon
<1>12. CASE t.state = "DONE"
  <2>1. Stored(d, u, v, k, t)
    BY <1>7, <1>12 DEF Place, Handed, Judged, Confirmed, Startable, Started, Running, Finished
  <2>2. \A z \in Worker : z # o => k \notin worker[z].stored
    BY <1>7, <1>12 DEF Owned, Blank, Unqueued
  <2>3. {z \in Worker : k \in worker[z].stored} = {o}
    BY <1>7, <1>12, <2>1, <2>2 DEF Stored
  <2>4. Cardinality({o}) = 1
    BY FS_Singleton
  <2>5. Cardinality({z \in Worker : k \in worker[z].stored}) = 1
    BY <2>3, <2>4
  <2> QED
    BY <1>12, <2>5
<1>13. \/ t.state = "WAITING" \/ t.state = "SENT" \/ t.state = "ACCEPTED"
       \/ t.state = "PROCESSING" \/ t.state = "DONE"
  BY <1>4
<1> QED
  BY <1>8, <1>9, <1>10, <1>11, <1>12, <1>13, Zenon

(* The inductive invariant holds in every run: the load checks and transfers are
   in one phase each, and every attempt of a task is in one place. *)
THEOREM TokensAlways == Spec => [](Checked /\ Tokens)
<1>1. Init => Checked /\ Tokens
  BY InitChecked, InitTokens
<1>2. Checked /\ Tokens /\ [Next]_vars => (Checked /\ Tokens)'
  <2>1. SUFFICES ASSUME Checked, Tokens, [Next]_vars PROVE Checked' /\ Tokens'
    OBVIOUS
  <2>2. Checked'
    BY <2>1, StepKeeps, StutterKeeps
  <2> QED
    BY <2>1, <2>2, StepKeepsTokens, StutterKeepsTokens
<1> QED
  BY <1>1, <1>2, PTL DEF Spec

(* OneRunner of every run: only the worker that the master counts as a task's
   owner may run it, so never two workers at once, while transfer_result and
   the two sides of a transfer hand it over (master.py, p2p.py). *)
THEOREM SingleRunner == Spec => []OneRunner
<1>1. Checked /\ Tokens => OneRunner
  BY TokensOneRunner
<1> QED
  BY <1>1, TokensAlways, PTL

(* NothingLost of every run: a task is waiting, on its way to or from its
   owner, with it, or held for a transfer whose report the master has still to
   read; a finished task is stored by one worker. *)
THEOREM TasksSafe == Spec => []NothingLost
<1>1. Checked /\ Tokens => NothingLost
  BY TokensNothingLost
<1> QED
  BY <1>1, TokensAlways, PTL

=============================================================================
