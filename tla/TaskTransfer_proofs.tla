------------------------ MODULE TaskTransfer_proofs ------------------------
(***************************************************************************)
(* HW1: proofs about TaskTransfer for any number of workers and tasks, any *)
(* queue size and any bound on the checks and faults.                      *)
(***************************************************************************)
EXTENDS TaskTransfer, FiniteSetTheorems, SequenceTheorems, TLAPS

USE TransferAssumption

-----------------------------------------------------------------------------
(* A task, what travels, and what is kept. *)
TaskRec == [key : Key, attempt : Nat, failed : BOOLEAN, held : Check \cup {None}]
FreeTask == {t \in TaskRec : t.held = None}
Size == 0..QueueSize
Phases == {"SEND", "RECV"}
Tallies == [success : Nat, failures : Nat, moved : Nat, reassigned : Nat]
Times == [id : Check, source : Worker, target : Worker, arrived : BOOLEAN]
Requests == [id : Check, source : Worker, target : Worker, tasks : Seq(TaskRec)]
Down ==
  [type : {"PEERS", "STOP"}] \cup [type : {"TASK", "TASK_CONFIRMED", "PROCESS_ACK"}, task : FreeTask]
    \cup [type : {"P2P_CHECK", "TRANSFER_CONFIRMED"}, id : Check]
    \cup [type : {"TIME_ACK"}, id : Check, phase : Phases]
Up ==
  [type : {"READY"}] \cup [type : {"QUEUE_STATUS"}, size : Size, confirms : SUBSET Key]
    \cup [type : {"TASK_ACK"}, task : FreeTask, accepted : BOOLEAN, size : Size, confirms : SUBSET Key]
    \cup [type : {"PROCESS_START"}, task : FreeTask, size : Size, confirms : SUBSET Key]
    \cup [type : {"RESULT"}, task : FreeTask, success : BOOLEAN, size : Size, confirms : SUBSET Key]
    \cup [type : {"P2P_TIME"}, id : Check, source : Worker, target : Worker, phase : Phases]
    \cup [type : {"P2P_TRANSFER"}, id : Check, target : Worker, tasks : Seq(TaskRec)]
    \cup [type : {"P2P_COST"}, id : Check, cancels : BOOLEAN]
    \cup [type : {"P2P_FAILURE"}, id : Check, target : Worker]
    \cup [type : {"STOP_ACK"}, stats : Tallies]
TaskState == [state : {"WAITING", "SENT", "ACCEPTED", "PROCESSING", "DONE"},
              owner : Worker \cup {None}, attempt : Nat, failedAt : Worker \cup {None}]
Masters ==
  [ready : SUBSET Worker, task : [Key -> TaskState], fresh : Seq(Key), retry : Seq(Key),
   size : [Worker -> Size], pending : [Worker -> SUBSET Key], last : Worker \cup {None},
   due : SUBSET Worker, check : [Worker -> Check \cup {None}], checks : Nat,
   active : [Worker -> Key \cup {None}], times : SUBSET Times, transfers : SUBSET Check,
   tally : [Worker -> Tallies], stopping : BOOLEAN, stopped : SUBSET Worker]
Pcs == {"idle", "begin", "query", "reserve", "time", "transfer", "status", "known"}
CheckRec ==
  [pc : Pcs, id : Check \cup {None}, size : Nat, left : SUBSET Worker,
   seen : SUBSET [peer : Worker, size : Nat], target : Worker \cup {None}, tries : Nat,
   answer : Statuses]
Receptions == [request : Requests, timed : BOOLEAN]
Workers ==
  [ready : BOOLEAN, queue : Seq(TaskRec), accepted : SUBSET FreeTask, incoming : Nat,
   current : {<<>>} \cup {<<t>> : t \in FreeTask}, broken : BOOLEAN, stopping : BOOLEAN,
   stored : SUBSET Key, failures : Nat, events : SUBSET Check, sent : SUBSET Check,
   reassigned : SUBSET (Key \X Nat), check : CheckRec, received : [Check -> Statuses],
   receiving : {<<>>} \cup {<<r>> : r \in Receptions}]

MasterOK(m) ==
  /\ m \in Masters /\ m.checks + Cardinality(m.due) <= MaxEvents
  /\ \A w \in Worker : Cardinality(m.pending[w]) <= QueueSize
WorkerOK(v, w) ==
  /\ v \in Workers /\ IsFiniteSet(v.accepted) /\ IsFiniteSet(v.reassigned)
  /\ Len(v.queue) + Cardinality(v.accepted) + v.incoming <= QueueSize
  /\ v.incoming = IF v.receiving = <<>> THEN 0 ELSE Len(v.receiving[1].request.tasks)
  /\ v.check.pc = "idle" <=> v.check.id = None
  /\ v.check.pc = "query" => v.check.left # {}
  /\ w \notin v.check.left /\ \A x \in v.check.seen : x.peer # w
TypesOK(m, down, up, wk, rq) ==
  /\ MasterOK(m)
  /\ down \in [Worker -> Seq(Down)] /\ up \in [Worker -> Seq(Up)]
  /\ DOMAIN wk = Worker /\ \A w \in Worker : WorkerOK(wk[w], w)
  /\ rq \in SUBSET Requests

(* What the messages of a transfer, the workers and the master know of check c. *)
Tasks(v) == Range(v.queue)
Held(v, c) == {t \in Tasks(v) : t.held = c}
TransferTypes == {"P2P_CHECK", "TIME_ACK", "TRANSFER_CONFIRMED",
                  "P2P_TIME", "P2P_TRANSFER", "P2P_COST", "P2P_FAILURE"}
Concerns(x, c) == x.type \in TransferTypes /\ x.id = c
About(q, c) == {x \in Range(q) : Concerns(x, c)}
NoTwins(q) == \A i, j \in DOMAIN q : q[i] = q[j] /\ q[i].type \in TransferTypes => i = j
Record(c, w, u, arrived) == [id |-> c, source |-> w, target |-> u, arrived |-> arrived]
Known(m, c) == {x \in m.times : x.id = c}
Asks(rq, c) == {r \in rq : r.id = c}
Receiving(v, c) == v.receiving # <<>> /\ v.receiving[1].request.id = c
TimeOf(c, w, u, phase) ==
  [type |-> "P2P_TIME", id |-> c, source |-> w, target |-> u, phase |-> phase]
TimeAck(c, phase) == [type |-> "TIME_ACK", id |-> c, phase |-> phase]
Recorded(c) == [type |-> "TRANSFER_CONFIRMED", id |-> c]

Silent(down, up, z, c) == About(down[z], c) = {} /\ About(up[z], c) = {}
Unmarked(v, c) == c \notin v.sent /\ c \notin v.events /\ ~Receiving(v, c)
Outside(v, c) == Unmarked(v, c) /\ Held(v, c) = {} /\ v.check.id # c
Owns(m, w, c) ==
  /\ m.check[w] = c /\ (\A z \in Worker : m.check[z] = c => z = w)
  /\ c <= m.checks /\ c \notin m.transfers
Others(down, up, wk, c, w, u) == \A z \in Worker : z # w /\ z # u =>
  Silent(down, up, z, c) /\ Outside(wk[z], c) /\ wk[z].received[c] = "NONE"

(* No transfer: c is not used yet, or nothing is left of it. *)
Off(m, down, up, wk, rq, c) ==
  /\ \A z \in Worker : m.check[z] # c
  /\ Known(m, c) = {} /\ c \notin m.transfers /\ Asks(rq, c) = {}
  /\ \A z \in Worker :
       /\ Silent(down, up, z, c) /\ Outside(wk[z], c)
       /\ wk[z].received[c] \in {"NONE", "REJECTED"}
       /\ c > m.checks => wk[z].received[c] = "NONE"
(* w is asked, or looks for a target. *)
Early(m, down, up, wk, rq, c, w) ==
  /\ Owns(m, w, c) /\ Known(m, c) = {} /\ Asks(rq, c) = {} /\ Others(down, up, wk, c, w, w)
  /\ Unmarked(wk[w], c) /\ Held(wk[w], c) = {} /\ wk[w].received[c] = "NONE"
  /\ About(up[w], c) = {}
  /\ \/ wk[w].check.id # c /\ About(down[w], c) = {[type |-> "P2P_CHECK", id |-> c]}
     \/ /\ wk[w].check.id = c /\ wk[w].check.pc \in {"begin", "query", "reserve"}
        /\ About(down[w], c) = {}
(* The tasks are reserved, the master is asked for the time. *)
Timing(m, down, up, wk, rq, c, w, u) ==
  /\ Owns(m, w, c) /\ Asks(rq, c) = {} /\ Others(down, up, wk, c, w, w) /\ u # w
  /\ wk[w].check.id = c /\ wk[w].check.pc = "time" /\ wk[w].check.target = u
  /\ Unmarked(wk[w], c) /\ Held(wk[w], c) # {} /\ wk[w].received[c] = "NONE"
  /\ \/ Known(m, c) = {} /\ About(up[w], c) = {TimeOf(c, w, u, "SEND")} /\ About(down[w], c) = {}
     \/ /\ Known(m, c) = {Record(c, w, u, FALSE)}
        /\ About(up[w], c) = {} /\ About(down[w], c) = {TimeAck(c, "SEND")}
(* The tasks are offered to u, which has not got the request yet, receives
   them, has taken them or has refused them; w waits, knows, or has given up. *)
Offered(m, down, up, wk, rq, c, w, u) ==
  /\ wk[u].received[c] = "NONE" /\ ~Receiving(wk[u], c) /\ Held(wk[u], c) = {}
  /\ Silent(down, up, u, c) /\ Known(m, c) = {Record(c, w, u, FALSE)}
  /\ \A r \in Asks(rq, c) :
       /\ r.source = w /\ r.target = u /\ Range(r.tasks) = Held(wk[w], c)
       /\ \A s \in Asks(rq, c) : s = r
Arriving(m, down, up, wk, rq, c, w, u) ==
  LET at == wk[u].receiving[1]
  IN  /\ wk[u].received[c] = "UNKNOWN" /\ Receiving(wk[u], c) /\ Held(wk[u], c) = {}
      /\ at.request.source = w /\ at.request.target = u
      /\ Range(at.request.tasks) = Held(wk[w], c) /\ Asks(rq, c) = {}
      /\ \/ /\ ~at.timed /\ Known(m, c) = {Record(c, w, u, FALSE)}
            /\ About(up[u], c) = {TimeOf(c, w, u, "RECV")} /\ About(down[u], c) = {}
         \/ /\ ~at.timed /\ Known(m, c) = {Record(c, w, u, TRUE)}
            /\ About(up[u], c) = {} /\ About(down[u], c) = {TimeAck(c, "RECV")}
         \/ at.timed /\ Known(m, c) = {Record(c, w, u, TRUE)} /\ Silent(down, up, u, c)
Answered(m, down, up, wk, rq, c, w, u) ==
  /\ ~Receiving(wk[u], c) /\ Silent(down, up, u, c) /\ Asks(rq, c) = {}
  /\ \/ /\ wk[u].received[c] = "ACCEPTED" /\ Held(wk[u], c) = Held(wk[w], c)
        /\ Known(m, c) = {Record(c, w, u, TRUE)}
     \/ /\ wk[u].received[c] = "REJECTED" /\ Held(wk[u], c) = {}
        /\ Known(m, c) = {Record(c, w, u, FALSE)}
Asking(m, down, up, wk, rq, c, w, u) ==
  /\ Owns(m, w, c) /\ Others(down, up, wk, c, w, u) /\ u # w
  /\ Unmarked(wk[w], c) /\ Held(wk[w], c) # {} /\ wk[w].received[c] = "NONE"
  /\ About(down[w], c) = {}
  /\ \/ /\ wk[w].check.id = c /\ wk[w].check.pc \in {"transfer", "status", "known"}
        /\ wk[w].check.target = u /\ About(up[w], c) = {}
        /\ wk[w].check.pc = "known" /\ wk[w].check.answer \in {"ACCEPTED", "REJECTED"}
             => wk[w].check.answer = wk[u].received[c]
     \/ /\ wk[w].check.id # c
        /\ About(up[w], c) = {[type |-> "P2P_FAILURE", id |-> c, target |-> u]}
  /\ c \notin wk[u].sent /\ c \notin wk[u].events /\ wk[u].check.id # c
  /\ \/ Offered(m, down, up, wk, rq, c, w, u)
     \/ Arriving(m, down, up, wk, rq, c, w, u)
     \/ Answered(m, down, up, wk, rq, c, w, u)
(* w has given the tasks away, which u holds until the master knows. *)
Given(m, down, up, wk, rq, c, w, u) ==
  /\ Owns(m, w, c) /\ Asks(rq, c) = {} /\ Others(down, up, wk, c, w, u) /\ u # w
  /\ Known(m, c) = {Record(c, w, u, TRUE)}
  /\ c \in wk[w].sent /\ c \in wk[w].events /\ ~Receiving(wk[w], c) /\ wk[w].check.id # c
  /\ Held(wk[w], c) = {} /\ wk[w].received[c] = "NONE" /\ About(down[w], c) = {}
  /\ \E x \in About(up[w], c) :
       /\ About(up[w], c) = {x} /\ x.type = "P2P_TRANSFER" /\ x.target = u
       /\ Range(x.tasks) = Held(wk[u], c)
  /\ Unmarked(wk[u], c) /\ wk[u].check.id # c /\ Held(wk[u], c) # {}
  /\ wk[u].received[c] = "ACCEPTED" /\ Silent(down, up, u, c)
(* There is no transfer, or u has refused it. *)
Dropped(m, down, up, wk, rq, c, w, u) ==
  /\ Owns(m, w, c) /\ Asks(rq, c) = {}
  /\ \A z \in Worker :
       /\ Outside(wk[z], c) /\ wk[z].received[c] \in {"NONE", "REJECTED"}
       /\ About(down[z], c) = {} /\ (z # w => About(up[z], c) = {})
  /\ \E cancels \in BOOLEAN :
       /\ About(up[w], c) = {NoTransfer(c, cancels)}
       /\ Known(m, c) = IF cancels THEN {Record(c, w, u, FALSE)} ELSE {}
(* The master has recorded the transfer and tells both sides. *)
Done(m, down, up, wk, rq, c, w, u) ==
  /\ c \in m.transfers /\ c <= m.checks /\ (\A z \in Worker : m.check[z] # c)
  /\ Known(m, c) = {} /\ Asks(rq, c) = {} /\ Others(down, up, wk, c, w, u) /\ u # w
  /\ \A z \in {w, u} : ~Receiving(wk[z], c) /\ wk[z].check.id # c /\ About(up[z], c) = {}
  /\ Held(wk[w], c) = {} /\ c \in wk[w].events /\ wk[w].received[c] = "NONE"
  /\ About(down[w], c) = IF c \in wk[w].sent THEN {Recorded(c)} ELSE {}
  /\ c \notin wk[u].sent /\ wk[u].received[c] = "ACCEPTED"
  /\ c \in wk[u].events <=> Held(wk[u], c) = {}
  /\ About(down[u], c) = IF c \in wk[u].events THEN {} ELSE {Recorded(c)}

TransferOK(m, down, up, wk, rq, c) ==
  \/ Off(m, down, up, wk, rq, c)
  \/ \E w, u \in Worker :
       \/ Early(m, down, up, wk, rq, c, w) \/ Timing(m, down, up, wk, rq, c, w, u)
       \/ Asking(m, down, up, wk, rq, c, w, u) \/ Given(m, down, up, wk, rq, c, w, u)
       \/ Dropped(m, down, up, wk, rq, c, w, u) \/ Done(m, down, up, wk, rq, c, w, u)
TransfersOK(m, down, up, wk, rq) ==
  /\ \A w \in Worker : NoTwins(down[w]) /\ NoTwins(up[w])
  /\ \A c \in Check : TransferOK(m, down, up, wk, rq, c)

(* Tasks *)
Away(k, set) == \A t \in set : t.key # k
Apart(q) == \A i, j \in DOMAIN q : q[i].key = q[j].key => i = j

-----------------------------------------------------------------------------
(* Numbers, sequences and finite sets *)

LEMMA LeastNumber ==
  ASSUME NEW T, T \subseteq Nat, T # {}
  PROVE  \E n \in T : \A m \in T : n <= m
<1>1. PICK n \in T : \A m \in T : <<m, n>> \notin OpToRel(<, Nat)
  BY NatLessThanWellFounded, WFMin, Zenon
<1>2. \A m \in T : ~(m < n)
  BY <1>1 DEF OpToRel
<1> QED
  BY <1>2

LEMMA MinIsLeast ==
  ASSUME NEW T, T \subseteq Nat, T # {}
  PROVE  Min(T) \in T /\ \A n \in T : Min(T) <= n
  BY LeastNumber DEF Min

LEMMA MessageTaken ==
  ASSUME NEW S, NEW q \in Seq(S), q # <<>>
  PROVE  /\ Tail(q) \in Seq(S) /\ Head(q) \in S /\ Len(q) \in Nat \ {0}
         /\ Head(q) = q[1] /\ 1 \in DOMAIN q /\ Range(q) \subseteq S
         /\ DOMAIN Tail(q) = 1..(Len(q) - 1) /\ DOMAIN q = 1..Len(q)
         /\ \A i \in DOMAIN Tail(q) : Tail(q)[i] = q[i + 1]
         /\ Range(q) = {Head(q)} \cup Range(Tail(q))
<1>1. /\ Tail(q) \in Seq(S) /\ Head(q) \in S /\ Len(q) \in Nat \ {0} /\ Len(Tail(q)) = Len(q) - 1
      /\ Head(q) = q[1] /\ \A i \in 1..Len(Tail(q)) : Tail(q)[i] = q[i + 1]
  BY HeadTailProperties, EmptySeq
<1>2. DOMAIN Tail(q) = 1..(Len(q) - 1) /\ DOMAIN q = 1..Len(q) /\ Range(q) \subseteq S
  BY <1>1, LenProperties DEF Range
<1>3. \A i \in DOMAIN q : i = 1 \/ (i - 1 \in DOMAIN Tail(q) /\ q[i] = Tail(q)[i - 1])
  BY <1>1, <1>2
<1>4. \A i \in DOMAIN Tail(q) : i + 1 \in DOMAIN q /\ Tail(q)[i] = q[i + 1]
  BY <1>1, <1>2
<1>5. Range(q) = {Head(q)} \cup Range(Tail(q))
  <2>1. Range(q) \subseteq {Head(q)} \cup Range(Tail(q))
    BY <1>1, <1>3 DEF Range
  <2>2. Head(q) \in Range(q) /\ Range(Tail(q)) \subseteq Range(q)
    BY <1>1, <1>2, <1>4 DEF Range
  <2> QED
    BY <2>1, <2>2
<1> QED
  BY <1>1, <1>2, <1>4, <1>5

LEMMA MessageSent ==
  ASSUME NEW S, NEW q \in Seq(S), NEW x \in S
  PROVE  /\ Append(q, x) \in Seq(S) /\ Len(q) \in Nat /\ Len(Append(q, x)) = Len(q) + 1
         /\ DOMAIN q = 1..Len(q) /\ DOMAIN Append(q, x) = 1..(Len(q) + 1)
         /\ \A i \in DOMAIN q : Append(q, x)[i] = q[i]
         /\ Append(q, x)[Len(q) + 1] = x
         /\ Range(Append(q, x)) = Range(q) \cup {x} /\ Range(Append(q, x)) \subseteq S
<1>1. /\ Append(q, x) \in Seq(S) /\ Len(q) \in Nat /\ Len(Append(q, x)) = Len(q) + 1
      /\ DOMAIN q = 1..Len(q) /\ DOMAIN Append(q, x) = 1..(Len(q) + 1)
      /\ \A i \in DOMAIN q : Append(q, x)[i] = q[i]
      /\ Append(q, x)[Len(q) + 1] = x
  BY AppendProperties, LenProperties
<1>2. Range(Append(q, x)) \subseteq Range(q) \cup {x}
  BY <1>1 DEF Range
<1>3. Range(q) \cup {x} \subseteq Range(Append(q, x))
  BY <1>1 DEF Range
<1>4. Range(Append(q, x)) \subseteq S
  BY <1>1, LenProperties DEF Range
<1> QED
  BY <1>1, <1>2, <1>3, <1>4

(* A message that is taken, and one that is sent. *)
LEMMA Taken ==
  ASSUME NEW S, NEW q \in Seq(S), q # <<>>, NoTwins(q)
  PROVE  NoTwins(Tail(q)) /\ \A c : About(Tail(q), c) = About(q, c) \ {Head(q)}
<1>1. \A i \in DOMAIN Tail(q) : i \in Nat /\ i + 1 \in DOMAIN q /\ i + 1 # 1 /\ Tail(q)[i] = q[i + 1]
  BY MessageTaken
<1>2. NoTwins(Tail(q))
  BY <1>1 DEF NoTwins
<1>3. ASSUME Head(q).type \in TransferTypes PROVE Head(q) \notin Range(Tail(q))
  BY <1>1, <1>3, MessageTaken DEF NoTwins, Range
<1> QED
  BY <1>2, <1>3, MessageTaken DEF About, Concerns

LEMMA Sent ==
  ASSUME NEW S, NEW q \in Seq(S), NEW x \in S, NoTwins(q), x.type \in TransferTypes => x \notin About(q, x.id)
  PROVE  NoTwins(Append(q, x))
<1>1. \A i \in DOMAIN Append(q, x) : i \in DOMAIN q \/ i = Len(q) + 1
  BY MessageSent
<1>2. \A i \in DOMAIN q : q[i] \in Range(q) /\ Append(q, x)[i] = q[i]
  BY MessageSent DEF Range
<1>3. x.type \in TransferTypes => x \notin Range(q)
  BY DEF About, Concerns
<1> SUFFICES ASSUME NEW i \in DOMAIN Append(q, x), NEW j \in DOMAIN Append(q, x),
                    Append(q, x)[i] = Append(q, x)[j], Append(q, x)[i].type \in TransferTypes
             PROVE  i = j
  BY DEF NoTwins
<1> QED
  BY <1>1, <1>2, <1>3, MessageSent DEF NoTwins

-----------------------------------------------------------------------------
(* Recursive functions *)

LEMMA FirstFailure ==
  ASSUME NEW L \in Nat, NEW T, T \subseteq 0..L, T # {}, 0 \notin T
  PROVE  \E n \in 1..L : n \in T /\ n - 1 \in 0..L /\ n - 1 \notin T
<1>1. PICK n \in T : \A m \in T : n <= m
  <2>1. T \subseteq Nat
    OBVIOUS
  <2> QED
    BY <2>1, LeastNumber
<1> QED
  BY <1>1

Recurses(L, A, s, g) ==
  \E f \in [0..L -> A] : f[0] = s /\ \A n \in 1..L : f[n] = g[n][f[n - 1]]

LEMMA Recursion ==
  ASSUME NEW L \in Nat, NEW A, NEW s \in A, NEW g \in [1..L -> [A -> A]]
  PROVE  Recurses(L, A, s, g)
<1> DEFINE Upto(n, f) == f \in [0..n -> A] /\ f[0] = s /\ \A i \in 1..n : f[i] = g[i][f[i - 1]]
           T == {n \in 0..L : ~\E f \in [0..n -> A] : Upto(n, f)}
<1>1. SUFFICES ASSUME T # {} PROVE FALSE
  <2>1. L \notin T => \E f \in [0..L -> A] : Upto(L, f)
    BY DEF T
  <2> QED
    BY <2>1 DEF Recurses
<1>3. 0 \notin T
  <2>1. Upto(0, [i \in 0..0 |-> s])
    OBVIOUS
  <2> QED
    BY <2>1
<1>4. PICK n \in 1..L : n \in T /\ n - 1 \in 0..L /\ n - 1 \notin T
  <2>1. T \subseteq 0..L
    OBVIOUS
  <2> HIDE DEF T
  <2> QED
    BY <1>1, <1>3, <2>1, FirstFailure
<1>5. PICK f \in [0..(n - 1) -> A] : Upto(n - 1, f)
  BY <1>4
<1> DEFINE h == [i \in 0..n |-> IF i = n THEN g[n][f[n - 1]] ELSE f[i]]
<1>6. f[n - 1] \in A /\ g[n][f[n - 1]] \in A
  BY <1>4, <1>5
<1>7. h \in [0..n -> A]
  BY <1>4, <1>5, <1>6
<1>8. \A i \in 1..n : h[i] = g[i][h[i - 1]]
  <2> TAKE i \in 1..n
  <2>1. i - 1 \in 0..(n - 1) /\ h[i - 1] = f[i - 1]
    BY <1>4
  <2>2. CASE i = n
    BY <2>1, <2>2, <1>4
  <2>3. CASE i # n
    BY <2>1, <2>3, <1>4, <1>5
  <2> QED
    BY <2>2, <2>3
<1>9. h[0] = s
  BY <1>4, <1>5
<1> HIDE DEF h
<1> QED
  BY <1>4, <1>7, <1>8, <1>9

LEMMA Picked ==
  ASSUME NEW S, NEW q \in Seq(S), NEW chosen \in SUBSET (DOMAIN q)
  PROVE  LET p == Pick(q, chosen)
         IN  /\ p \in Seq(S) /\ Len(p) <= Len(q)
             /\ \E e \in [1..Len(p) -> chosen] :
                  /\ \A i, j \in 1..Len(p) : i < j => e[i] < e[j]
                  /\ \A c \in chosen : \E i \in 1..Len(p) : e[i] = c
                  /\ \A i \in 1..Len(p) : p[i] = q[e[i]]
<1> DEFINE L == Len(q)
           g == [n \in 1..L |-> [x \in Seq(S) |-> IF n \in chosen THEN Append(x, q[n]) ELSE x]]
           Def(f) == f = [n \in 0..L |-> IF n = 0 THEN <<>>
                            ELSE IF n \in chosen THEN Append(f[n - 1], q[n]) ELSE f[n - 1]]
           F == CHOOSE f : Def(f)
           Good(n, p, e) ==
             /\ e \in [1..Len(p) -> chosen \cap (1..n)]
             /\ \A i, j \in 1..Len(p) : i < j => e[i] < e[j]
             /\ \A c \in chosen \cap (1..n) : \E i \in 1..Len(p) : e[i] = c
             /\ \A i \in 1..Len(p) : p[i] = q[e[i]]
           Fine(n) == /\ F[n] \in Seq(S) /\ Len(F[n]) <= n
                      /\ \E e \in [1..Len(F[n]) -> chosen \cap (1..n)] : Good(n, F[n], e)
<1>1. L \in Nat /\ DOMAIN q = 1..L /\ \A n \in 1..L : q[n] \in S
  BY LenProperties
<1>2. \E f : Def(f)
  <2>1. \A n \in 1..L : \A x \in Seq(S) : Append(x, q[n]) \in Seq(S)
    BY <1>1, AppendProperties
  <2>2. g \in [1..L -> [Seq(S) -> Seq(S)]]
    BY <2>1
  <2>3. <<>> \in Seq(S)
    BY EmptySeq
  <2>4. PICK f \in [0..L -> Seq(S)] : f[0] = <<>> /\ \A n \in 1..L : f[n] = g[n][f[n - 1]]
    <3>1. L \in Nat
      BY <1>1
    <3> HIDE DEF g, L
    <3>2. Recurses(L, Seq(S), <<>>, g)
      BY <2>2, <2>3, <3>1, Recursion
    <3> QED
      BY <3>2 DEF Recurses
  <2>5. \A n \in 1..L : g[n][f[n - 1]] = IF n \in chosen THEN Append(f[n - 1], q[n]) ELSE f[n - 1]
    <3> TAKE n \in 1..L
    <3>1. n - 1 \in 0..L /\ f \in [0..L -> Seq(S)]
      BY <2>4, <1>1
    <3>2. f[n - 1] \in Seq(S)
      BY <3>1
    <3> QED
      BY <3>2
  <2>6. \A n \in 0..L : f[n] = IF n = 0 THEN <<>>
                            ELSE IF n \in chosen THEN Append(f[n - 1], q[n]) ELSE f[n - 1]
    <3> TAKE n \in 0..L
    <3>0. n = 0 \/ n \in 1..L
      BY <1>1
    <3>1. IF n = 0 THEN f[n] = <<>> ELSE f[n] = g[n][f[n - 1]]
      BY <2>4, <3>0
    <3> HIDE DEF g
    <3> QED
      BY <3>0, <3>1, <2>5
  <2>7. Def(f)
    <3>1. f \in [0..L -> Seq(S)]
      BY <2>4
    <3> HIDE DEF g
    <3> QED
      BY <3>1, <2>6
  <2> QED
    BY <2>7
<1>3. Def(F)
  <2> HIDE DEF Def
  <2> QED
    BY <1>2
<1>4. F[0] = <<>> /\ \A n \in 1..L : F[n] = IF n \in chosen THEN Append(F[n - 1], q[n]) ELSE F[n - 1]
  <2>1. \A n \in 0..L : F[n] = IF n = 0 THEN <<>>
                            ELSE IF n \in chosen THEN Append(F[n - 1], q[n]) ELSE F[n - 1]
    <3> HIDE DEF F, L
    <3> QED
      BY <1>3
  <2> HIDE DEF F
  <2>2. 0 \in 0..L /\ \A n \in 1..L : n \in 0..L /\ n # 0
    BY <1>1
  <2> HIDE DEF L
  <2> QED
    BY <2>1, <2>2
<1> HIDE DEF F
<1>5. Fine(0)
  <2>1. Len(F[0]) = 0 /\ F[0] \in Seq(S)
    BY <1>4, EmptySeq
  <2>2. Good(0, F[0], [i \in 1..0 |-> 0]) /\ [i \in 1..0 |-> 0] \in [1..Len(F[0]) -> chosen \cap (1..0)]
    BY <2>1
  <2> QED
    BY <2>1, <2>2
<1>6. ASSUME NEW n \in 1..L, Fine(n - 1)
      PROVE  Fine(n)
  <2> DEFINE p == F[n - 1]
  <2>1. PICK e \in [1..Len(p) -> chosen \cap (1..(n - 1))] : Good(n - 1, p, e)
    BY <1>6
  <2>2. p \in Seq(S) /\ Len(p) \in Nat /\ Len(p) <= n - 1 /\ n \in Nat
    BY <1>6, <1>1, LenProperties
  <2>3. CASE n \notin chosen
    <3>1. F[n] = p
      BY <2>3, <1>4
    <3>2. chosen \cap (1..n) = chosen \cap (1..(n - 1))
      BY <2>3, <2>2
    <3> HIDE DEF p
    <3>3. Good(n, F[n], e) /\ e \in [1..Len(F[n]) -> chosen \cap (1..n)] /\ Len(F[n]) <= n
      BY <2>1, <2>2, <3>1, <3>2
    <3> HIDE DEF Good
    <3> QED
      BY <2>2, <3>1, <3>3
  <2>4. CASE n \in chosen
    <3> DEFINE h == [i \in 1..(Len(p) + 1) |-> IF i = Len(p) + 1 THEN n ELSE e[i]]
    <3>1. F[n] = Append(p, q[n]) /\ q[n] \in S
      BY <2>4, <1>4, <1>1
    <3> HIDE DEF p
    <3>2. /\ F[n] \in Seq(S) /\ Len(F[n]) = Len(p) + 1
          /\ \A i \in 1..Len(p) : F[n][i] = p[i]
          /\ F[n][Len(p) + 1] = q[n]
      BY <3>1, <2>2, AppendProperties
    <3>3. h \in [1..(Len(p) + 1) -> chosen \cap (1..n)]
      BY <2>1, <2>2, <2>4
    <3>4. \A i, j \in 1..(Len(p) + 1) : i < j => h[i] < h[j]
      <4> TAKE i, j \in 1..(Len(p) + 1)
      <4>1. CASE i \in 1..Len(p) /\ j \in 1..Len(p)
        BY <4>1, <2>1, <2>2
      <4>2. CASE i \in 1..Len(p) /\ j = Len(p) + 1
        <5>1. h[i] = e[i] /\ h[j] = n
          BY <4>2, <2>2
        <5>2. e[i] \in 1..(n - 1)
          BY <4>2, <2>1
        <5> QED
          BY <5>1, <5>2, <2>2
      <4>3. i < j => (i \in 1..Len(p) /\ (j \in 1..Len(p) \/ j = Len(p) + 1))
        BY <2>2
      <4> QED
        BY <4>1, <4>2, <4>3
    <3>5. \A c \in chosen \cap (1..n) : \E i \in 1..(Len(p) + 1) : h[i] = c
      <4> TAKE c \in chosen \cap (1..n)
      <4>1. CASE c = n
        BY <4>1, <2>2
      <4>2. CASE c # n
        <5>1. c \in chosen \cap (1..(n - 1))
          BY <4>2, <2>2
        <5>2. PICK i \in 1..Len(p) : e[i] = c
          BY <5>1, <2>1
        <5> QED
          BY <5>2, <2>2
      <4> QED
        BY <4>1, <4>2
    <3>6. \A i \in 1..(Len(p) + 1) : F[n][i] = q[h[i]]
      <4> TAKE i \in 1..(Len(p) + 1)
      <4>1. CASE i = Len(p) + 1
        BY <4>1, <3>2, <2>2
      <4>2. CASE i # Len(p) + 1
        BY <4>2, <3>2, <2>2, <2>1
      <4> QED
        BY <4>1, <4>2
    <3> HIDE DEF h
    <3>7. Good(n, F[n], h) /\ h \in [1..Len(F[n]) -> chosen \cap (1..n)]
      BY <3>2, <3>3, <3>4, <3>5, <3>6
    <3>8. Len(F[n]) <= n
      BY <3>2, <2>2
    <3> HIDE DEF Good
    <3> QED
      BY <3>2, <3>7, <3>8
  <2> QED
    BY <2>3, <2>4
<1>7. Fine(L)
  <2> DEFINE T == {n \in 0..L : ~Fine(n)}
  <2> HIDE DEF Fine
  <2>1. SUFFICES ASSUME T # {} PROVE FALSE
    BY <1>1
  <2>2. T \subseteq 0..L /\ 0 \notin T
    BY <1>5
  <2>3. PICK n \in 1..L : n \in T /\ n - 1 \in 0..L /\ n - 1 \notin T
    <3>1. L \in Nat
      BY <1>1
    <3> HIDE DEF T, L
    <3> QED
      BY <2>1, <2>2, <3>1, FirstFailure
  <2> QED
    BY <2>3, <1>6
<1>8. Pick(q, chosen) = F[L]
  BY DEF Pick, F
<1>9. chosen \cap (1..L) = chosen
  BY <1>1
<1> QED
  BY <1>7, <1>8, <1>9

(* Distribute preserves what each round of its loop preserves. *)
LEMMA DistributeKeeps ==
  ASSUME NEW A, NEW s \in A, Len(Waiting(s.m)) \in Nat, \A z \in A : AssignNext(z) \in A
  PROVE  Distribute(s) \in A
<1> DEFINE L == Len(Waiting(s.m))
           g == [n \in 1..L |-> [z \in A |-> AssignNext(z)]]
           Def(f) == f = [n \in 0..L |-> IF n = 0 THEN s
                            ELSE CHOOSE y \in {AssignNext(z) : z \in {f[n - 1]}} : TRUE]
           F == CHOOSE f : Def(f)
           T == {n \in 0..L : F[n] \notin A}
<1>1. \E f : Def(f)
  <2>1. L \in Nat /\ g \in [1..L -> [A -> A]]
    OBVIOUS
  <2>2. PICK f \in [0..L -> A] : f[0] = s /\ \A n \in 1..L : f[n] = g[n][f[n - 1]]
    <3> HIDE DEF g, L
    <3>1. Recurses(L, A, s, g)
      BY <2>1, Recursion
    <3> QED
      BY <3>1 DEF Recurses
  <2>3. \A n \in 0..L : f[n] = IF n = 0 THEN s
                          ELSE CHOOSE y \in {AssignNext(z) : z \in {f[n - 1]}} : TRUE
    <3> TAKE n \in 0..L
    <3>1. CASE n = 0
      BY <3>1, <2>2
    <3>2. CASE n # 0
      <4>1. n \in 1..L /\ n - 1 \in 0..L
        BY <3>2, <2>1
      <4>2. f[n - 1] \in A /\ f[n] = g[n][f[n - 1]]
        BY <4>1, <2>2
      <4>3. f[n] = AssignNext(f[n - 1])
        BY <4>1, <4>2
      <4>4. {AssignNext(z) : z \in {f[n - 1]}} = {f[n]}
        BY <4>3
      <4> HIDE DEF L, g
      <4> QED
        BY <4>4, <3>2
    <3> QED
      BY <3>1, <3>2
  <2>4. Def(f)
    <3>1. f \in [0..L -> A]
      BY <2>2
    <3> HIDE DEF L
    <3> QED
      BY <3>1, <2>3
  <2> QED
    BY <2>4
<1>2. Def(F)
  <2> HIDE DEF Def
  <2> QED
    BY <1>1
<1>3. L \in Nat
  OBVIOUS
<1> HIDE DEF F, L
<1>4. F[0] = s /\ \A n \in 1..L : n - 1 \in 0..L /\ F[n] = AssignNext(F[n - 1])
  <2>1. \A n \in 0..L : F[n] = IF n = 0 THEN s
                          ELSE CHOOSE y \in {AssignNext(z) : z \in {F[n - 1]}} : TRUE
    BY <1>2
  <2>2. \A n \in 1..L : n \in 0..L /\ n # 0 /\ n - 1 \in 0..L
    BY <1>3
  <2>3. \A n \in 1..L : {AssignNext(z) : z \in {F[n - 1]}} = {AssignNext(F[n - 1])}
    OBVIOUS
  <2> QED
    BY <1>3, <2>1, <2>2, <2>3
<1>5. T = {}
  <2>1. SUFFICES ASSUME T # {} PROVE FALSE
    OBVIOUS
  <2>2. T \subseteq 0..L /\ 0 \notin T
    BY <1>4
  <2>3. PICK n \in 1..L : n \in T /\ n - 1 \in 0..L /\ n - 1 \notin T
    <3> HIDE DEF T
    <3> QED
      BY <1>3, <2>1, <2>2, FirstFailure
  <2> QED
    BY <2>3, <1>4
<1>6. F[L] \in A
  BY <1>5, <1>3
<1> QED
  BY <1>6 DEF Distribute, F, L

-----------------------------------------------------------------------------
(* The ready queue *)

LEMMA PickedTasks ==
  ASSUME NEW q \in Seq(TaskRec), NEW chosen \in SUBSET (DOMAIN q)
  PROVE  LET p == Pick(q, chosen)
         IN  /\ p \in Seq(TaskRec) /\ Len(p) <= Len(q) /\ Range(p) = {q[i] : i \in chosen}
             /\ Apart(q) => Apart(p)
<1> DEFINE p == Pick(q, chosen)
<1>1. /\ p \in Seq(TaskRec) /\ Len(p) <= Len(q)
      /\ \E e \in [1..Len(p) -> chosen] :
           /\ \A i, j \in 1..Len(p) : i < j => e[i] < e[j]
           /\ \A c \in chosen : \E i \in 1..Len(p) : e[i] = c
           /\ \A i \in 1..Len(p) : p[i] = q[e[i]]
  BY Picked
<1>2. PICK e \in [1..Len(p) -> chosen] :
        /\ \A i, j \in 1..Len(p) : i < j => e[i] < e[j]
        /\ \A c \in chosen : \E i \in 1..Len(p) : e[i] = c
        /\ \A i \in 1..Len(p) : p[i] = q[e[i]]
  BY <1>1
<1> HIDE DEF p
<1>3. DOMAIN p = 1..Len(p) /\ Len(p) \in Nat /\ DOMAIN q \subseteq Nat
  BY <1>1, LenProperties
<1>4. Range(p) = {q[i] : i \in chosen}
  BY <1>2, <1>3 DEF Range
<1>5. ASSUME Apart(q), NEW i \in DOMAIN p, NEW j \in DOMAIN p, p[i].key = p[j].key
      PROVE  i = j
  <2>1. e[i] \in chosen /\ e[j] \in chosen /\ p[i] = q[e[i]] /\ p[j] = q[e[j]]
    BY <1>2, <1>3
  <2>2. e[i] = e[j] /\ e[i] \in Nat
    BY <2>1, <1>5, <1>3 DEF Apart
  <2>3. ~(i < j) /\ ~(j < i) /\ i \in Nat /\ j \in Nat
    BY <2>2, <1>2, <1>3
  <2> QED
    BY <2>3
<1>6. Apart(q) => Apart(p)
  BY <1>5 DEF Apart
<1> QED
  BY <1>1, <1>4, <1>6 DEF p

LEMMA ReservedTasks ==
  ASSUME NEW q \in Seq(TaskRec), NEW id
  PROVE  /\ ReservedFor(q, id) \in Seq(TaskRec) /\ Len(ReservedFor(q, id)) <= Len(q)
         /\ Range(ReservedFor(q, id)) = {t \in Range(q) : t.held = id}
         /\ Apart(q) => Apart(ReservedFor(q, id))
         /\ ReservedFor(q, id) = <<>> <=> {t \in Range(q) : t.held = id} = {}
<1> DEFINE chosen == {i \in DOMAIN q : q[i].held = id}
           p == Pick(q, chosen)
           r == ReservedFor(q, id)
<1>1. /\ p \in Seq(TaskRec) /\ Len(p) <= Len(q) /\ Range(p) = {q[i] : i \in chosen}
      /\ Apart(q) => Apart(p)
  BY PickedTasks
<1>2. r = [i \in 1..Len(p) |-> p[(Len(p) - i) + 1]]
  BY DEF ReservedFor, Reverse
<1> HIDE DEF p, r
<1>3. Len(p) \in Nat /\ DOMAIN p = 1..Len(p) /\ \A i \in 1..Len(p) : p[i] \in TaskRec
  BY <1>1, LenProperties
<1>4. \A i \in 1..Len(p) : (Len(p) - i) + 1 \in 1..Len(p) /\ (Len(p) - ((Len(p) - i) + 1)) + 1 = i
  BY <1>3
<1>5. r \in Seq(TaskRec) /\ Len(r) = Len(p) /\ DOMAIN r = 1..Len(p)
  BY <1>2, <1>3, <1>4
<1>6. Range(r) = Range(p)
  <2>1. \A i \in 1..Len(p) : r[i] = p[(Len(p) - i) + 1] /\ p[i] = r[(Len(p) - i) + 1]
    BY <1>2, <1>4
  <2>2. \A i \in 1..Len(p) : (\E j \in 1..Len(p) : r[i] = p[j]) /\ \E j \in 1..Len(p) : p[i] = r[j]
    BY <2>1, <1>4
  <2>3. Range(r) \subseteq Range(p)
    <3> SUFFICES ASSUME NEW i \in 1..Len(p) PROVE r[i] \in Range(p)
      BY <1>5 DEF Range
    <3> QED
      BY <2>2, <1>3 DEF Range
  <2>4. Range(p) \subseteq Range(r)
    <3> SUFFICES ASSUME NEW i \in 1..Len(p) PROVE p[i] \in Range(r)
      BY <1>3 DEF Range
    <3> QED
      BY <2>2, <1>5 DEF Range
  <2> QED
    BY <2>3, <2>4
<1>7. Apart(p) => Apart(r)
  <2> SUFFICES ASSUME Apart(p), NEW i \in 1..Len(p), NEW j \in 1..Len(p), r[i].key = r[j].key
               PROVE  i = j
    BY <1>5 DEF Apart
  <2>1. (Len(p) - i) + 1 = (Len(p) - j) + 1
    BY <1>2, <1>3, <1>4 DEF Apart
  <2> QED
    BY <2>1, <1>3
<1>8. {q[i] : i \in chosen} = {t \in Range(q) : t.held = id}
  BY DEF Range
<1>9. r = <<>> <=> Range(r) = {}
  <2>1. r # <<>> => 1 \in DOMAIN r
    BY <1>5, EmptySeq
  <2>2. r = <<>> => DOMAIN r = {}
    OBVIOUS
  <2> QED
    BY <2>1, <2>2 DEF Range
<1> QED
  BY <1>1, <1>5, <1>6, <1>7, <1>8, <1>9 DEF r

LEMMA ConfirmedTasks ==
  ASSUME NEW q \in Seq(TaskRec), NEW id
  PROVE  /\ ConfirmTransfer(q, id) \in Seq(TaskRec) /\ Len(ConfirmTransfer(q, id)) <= Len(q)
         /\ Range(ConfirmTransfer(q, id)) = {t \in Range(q) : t.held # id}
         /\ Apart(q) => Apart(ConfirmTransfer(q, id))
<1> DEFINE chosen == {i \in DOMAIN q : q[i].held # id}
<1>1. {q[i] : i \in chosen} = {t \in Range(q) : t.held # id}
  BY DEF Range
<1> QED
  BY <1>1, PickedTasks DEF ConfirmTransfer

LEMMA CancelledTasks ==
  ASSUME NEW q \in Seq(TaskRec), NEW id
  PROVE  LET p == CancelTransfer(q, id)
         IN  /\ p \in Seq(TaskRec) /\ Len(p) = Len(q) /\ DOMAIN p = DOMAIN q
             /\ \A i \in DOMAIN q : p[i] = IF q[i].held = id THEN [q[i] EXCEPT !.held = None] ELSE q[i]
             /\ Apart(q) => Apart(p)
<1> DEFINE p == CancelTransfer(q, id)
<1>1. Len(q) \in Nat /\ DOMAIN q = 1..Len(q) /\ \A i \in 1..Len(q) : q[i] \in TaskRec
  BY LenProperties
<1>2. \A i \in 1..Len(q) : [q[i] EXCEPT !.held = None] \in TaskRec /\ [q[i] EXCEPT !.held = None].key = q[i].key
  BY <1>1 DEF TaskRec
<1>3. p = [i \in 1..Len(q) |-> IF q[i].held = id THEN [q[i] EXCEPT !.held = None] ELSE q[i]]
  BY <1>1 DEF CancelTransfer
<1> HIDE DEF p
<1>4. \A i \in 1..Len(q) : p[i] \in TaskRec /\ p[i].key = q[i].key
  BY <1>1, <1>2, <1>3
<1>5. p \in Seq(TaskRec) /\ Len(p) = Len(q) /\ DOMAIN p = DOMAIN q
  BY <1>1, <1>3, <1>4
<1>6. Apart(q) => Apart(p)
  BY <1>1, <1>4, <1>5 DEF Apart
<1> QED
  BY <1>1, <1>3, <1>5, <1>6 DEF p

(* The position of the last of a set of positions. *)
LEMMA LastOf ==
  ASSUME NEW n \in Nat, NEW T, T \subseteq 1..n, T # {}
  PROVE  \E i \in T : {j \in T : j >= i} = {i}
<1> DEFINE U == {n - i : i \in T}
<1>1. U \subseteq Nat /\ U # {}
  <2>1. \A i \in T : n - i \in Nat /\ n - i \in U
    OBVIOUS
  <2> QED
    BY <2>1
<1>2. PICK u \in U : \A x \in U : u <= x
  <2> HIDE DEF U
  <2> QED
    BY <1>1, LeastNumber
<1>3. PICK i \in T : u = n - i
  BY <1>2
<1>4. \A j \in T : n - j \in U /\ j \in 1..n
  OBVIOUS
<1>5. \A j \in T : j <= i
  <2> HIDE DEF U
  <2> TAKE j \in T
  <2>1. n - i <= n - j /\ i \in 1..n /\ j \in 1..n
    BY <1>2, <1>3, <1>4
  <2> QED
    BY <2>1
<1>6. \A j \in T : j >= i <=> j = i
  BY <1>4, <1>5
<1> QED
  BY <1>6

LEMMA TasksReserved ==
  ASSUME NEW q \in Seq(TaskRec), NEW id \in Check, NEW count \in Nat \ {0}, Free(q) # {}
  PROVE  LET p == Reserve(q, id, count)
         IN  /\ p \in Seq(TaskRec) /\ Len(p) = Len(q) /\ DOMAIN p = DOMAIN q
             /\ \A i \in DOMAIN q :
                  p[i] = q[i] \/ (q[i].held = None /\ p[i] = [q[i] EXCEPT !.held = id])
             /\ \E i \in DOMAIN q : q[i].held = None /\ p[i].held = id
             /\ Apart(q) => Apart(p)
<1> DEFINE chosen == {i \in Free(q) : Cardinality({j \in Free(q) : j >= i}) <= count}
           p == Reserve(q, id, count)
<1>1. Len(q) \in Nat /\ DOMAIN q = 1..Len(q) /\ \A i \in 1..Len(q) : q[i] \in TaskRec
  BY LenProperties
<1>2. \A i \in 1..Len(q) : /\ [q[i] EXCEPT !.held = id] \in TaskRec /\ [q[i] EXCEPT !.held = id].key = q[i].key
                           /\ [q[i] EXCEPT !.held = id].held = id
  BY <1>1 DEF TaskRec
<1>3. p = [i \in 1..Len(q) |-> IF i \in chosen THEN [q[i] EXCEPT !.held = id] ELSE q[i]]
  BY <1>1 DEF Reserve
<1>4. chosen \subseteq Free(q) /\ Free(q) \subseteq 1..Len(q) /\ \A i \in Free(q) : q[i].held = None
  BY <1>1 DEF Free
<1>5. \E i \in DOMAIN q : q[i].held = None /\ i \in chosen
  <2>1. PICK i \in Free(q) : {j \in Free(q) : j >= i} = {i}
    BY <1>1, <1>4, LastOf
  <2>2. Cardinality({i}) = 1
    BY FS_Singleton
  <2>3. i \in chosen
    BY <2>1, <2>2
  <2> HIDE DEF chosen
  <2> QED
    BY <2>3, <1>1, <1>4
<1> HIDE DEF p, chosen
<1>6. \A i \in 1..Len(q) : p[i] \in TaskRec /\ p[i].key = q[i].key
  BY <1>1, <1>2, <1>3
<1>7. p \in Seq(TaskRec) /\ Len(p) = Len(q) /\ DOMAIN p = DOMAIN q
  BY <1>1, <1>3, <1>6
<1>8. Apart(q) => Apart(p)
  BY <1>1, <1>6, <1>7 DEF Apart
<1>9. \A i \in DOMAIN q : p[i] = q[i] \/ (q[i].held = None /\ p[i] = [q[i] EXCEPT !.held = id])
  BY <1>1, <1>3, <1>4
<1>10. \E i \in DOMAIN q : q[i].held = None /\ p[i].held = id
  BY <1>1, <1>2, <1>3, <1>5
<1> QED
  BY <1>7, <1>8, <1>9, <1>10 DEF p

(* What start_next_task takes, and what stays in the queue. *)
LEMMA NextTaken ==
  ASSUME NEW q \in Seq(TaskRec), Free(q) # {}
  PROVE  LET n == NextIndex(q)
             p == Pick(q, DOMAIN q \ {n})
         IN  /\ n \in DOMAIN q /\ q[n] \in TaskRec /\ q[n].held = None /\ q[n] \in Range(q)
             /\ p \in Seq(TaskRec) /\ Len(p) <= Len(q)
             /\ Apart(q) => /\ Apart(p) /\ Range(p) = Range(q) \ {q[n]}
                            /\ \A t \in Range(p) : t.key # q[n].key
<1> DEFINE n == NextIndex(q)
           p == Pick(q, DOMAIN q \ {n})
           again == {i \in Free(q) : q[i].failed}
<1>1. Len(q) \in Nat /\ DOMAIN q = 1..Len(q) /\ \A i \in 1..Len(q) : q[i] \in TaskRec
  BY LenProperties
<1>2. Free(q) \subseteq DOMAIN q /\ (\A i \in Free(q) : q[i].held = None) /\ Free(q) \subseteq Nat
  BY <1>1 DEF Free
<1>3. n \in Free(q)
  <2>1. again # {} => Min(again) \in again
    BY <1>2, MinIsLeast
  <2>2. Min(Free(q)) \in Free(q)
    BY <1>2, MinIsLeast
  <2> QED
    BY <2>1, <2>2 DEF NextIndex
<1> HIDE DEF n
<1>4. n \in DOMAIN q /\ q[n] \in TaskRec /\ q[n].held = None /\ q[n] \in Range(q)
  BY <1>1, <1>2, <1>3 DEF Range
<1>5. /\ p \in Seq(TaskRec) /\ Len(p) <= Len(q) /\ Range(p) = {q[i] : i \in DOMAIN q \ {n}}
      /\ Apart(q) => Apart(p)
  BY PickedTasks
<1> HIDE DEF p
<1>6. ASSUME Apart(q)
      PROVE  Range(p) = Range(q) \ {q[n]} /\ \A t \in Range(p) : t.key # q[n].key
  <2>1. \A i \in DOMAIN q : i # n => q[i].key # q[n].key
    BY <1>4, <1>6 DEF Apart
  <2> QED
    BY <2>1, <1>5 DEF Range
<1> QED
  BY <1>4, <1>5, <1>6 DEF n, p

LEMMA TaskQueued ==
  ASSUME NEW q \in Seq(TaskRec), NEW t \in TaskRec, Apart(q), Away(t.key, Range(q))
  PROVE  Apart(Append(q, t))
<1>1. \A i \in DOMAIN Append(q, t) : i \in DOMAIN q \/ i = Len(q) + 1
  BY MessageSent
<1>2. \A i \in DOMAIN q : Append(q, t)[i] = q[i] /\ q[i].key # t.key
  BY MessageSent DEF Away, Range
<1>3. Append(q, t)[Len(q) + 1] = t
  BY MessageSent
<1> QED
  BY <1>1, <1>2, <1>3 DEF Apart

LEMMA TasksQueued ==
  ASSUME NEW S, NEW q \in Seq(S), NEW r \in Seq(S)
  PROVE  /\ q \o r \in Seq(S) /\ Len(q \o r) = Len(q) + Len(r) /\ Range(q \o r) = Range(q) \cup Range(r)
         /\ Apart(q) /\ Apart(r) /\ (\A t \in Range(q) : Away(t.key, Range(r))) => Apart(q \o r)
<1>1. /\ q \o r \in Seq(S) /\ Len(q \o r) = Len(q) + Len(r) /\ Len(q) \in Nat /\ Len(r) \in Nat
      /\ DOMAIN q = 1..Len(q) /\ DOMAIN r = 1..Len(r) /\ DOMAIN (q \o r) = 1..(Len(q) + Len(r))
      /\ \A i \in 1..(Len(q) + Len(r)) : (q \o r)[i] = IF i <= Len(q) THEN q[i] ELSE r[i - Len(q)]
  BY ConcatProperties, LenProperties
<1>2. \A i \in DOMAIN (q \o r) : \/ i \in DOMAIN q /\ (q \o r)[i] = q[i]
                                 \/ i - Len(q) \in DOMAIN r /\ (q \o r)[i] = r[i - Len(q)] /\ i > Len(q)
  BY <1>1
<1>3. \A i \in DOMAIN q : i \in DOMAIN (q \o r) /\ (q \o r)[i] = q[i]
  BY <1>1
<1>4. \A i \in DOMAIN r : i + Len(q) \in DOMAIN (q \o r) /\ (q \o r)[i + Len(q)] = r[i]
  BY <1>1
<1>5. Range(q \o r) = Range(q) \cup Range(r)
  <2>1. Range(q \o r) \subseteq Range(q) \cup Range(r)
    BY <1>2 DEF Range
  <2>2. Range(q) \subseteq Range(q \o r)
    BY <1>3 DEF Range
  <2>3. Range(r) \subseteq Range(q \o r)
    BY <1>4 DEF Range
  <2> QED
    BY <2>1, <2>2, <2>3
<1>6. ASSUME Apart(q), Apart(r), \A t \in Range(q) : Away(t.key, Range(r)),
             NEW i \in DOMAIN (q \o r), NEW j \in DOMAIN (q \o r), (q \o r)[i].key = (q \o r)[j].key
      PROVE  i = j
  <2>1. \A a \in DOMAIN q, b \in DOMAIN r : q[a].key # r[b].key
    BY <1>6 DEF Away, Range
  <2>2. CASE i \in DOMAIN q /\ (q \o r)[i] = q[i] /\ j \in DOMAIN q /\ (q \o r)[j] = q[j]
    BY <2>2, <1>6 DEF Apart
  <2>3. CASE i - Len(q) \in DOMAIN r /\ (q \o r)[i] = r[i - Len(q)] /\ j - Len(q) \in DOMAIN r /\ (q \o r)[j] = r[j - Len(q)]
    <3>1. i - Len(q) = j - Len(q)
      BY <2>3, <1>6 DEF Apart
    <3> QED
      BY <3>1, <1>1
  <2> QED
    BY <2>1, <2>2, <2>3, <1>2, <1>6
<1>7. Apart(q) /\ Apart(r) /\ (\A t \in Range(q) : Away(t.key, Range(r))) => Apart(q \o r)
  BY <1>6 DEF Apart
<1> QED
  BY <1>1, <1>5, <1>7

-----------------------------------------------------------------------------
(* Messages *)

LEMMA DownShape ==
  ASSUME NEW x \in Down
  PROVE  /\ x.type \in {"PEERS", "STOP", "TASK", "TASK_CONFIRMED", "PROCESS_ACK", "P2P_CHECK",
                        "TRANSFER_CONFIRMED", "TIME_ACK"}
         /\ x.type \in {"TASK", "TASK_CONFIRMED", "PROCESS_ACK"} => x.task \in FreeTask
         /\ x.type \in {"P2P_CHECK", "TRANSFER_CONFIRMED", "TIME_ACK"} => x.id \in Check
         /\ x.type = "TIME_ACK" => x.phase \in Phases /\ x = TimeAck(x.id, x.phase)
         /\ x.type = "P2P_CHECK" => x = [type |-> "P2P_CHECK", id |-> x.id]
         /\ x.type = "TRANSFER_CONFIRMED" => x = Recorded(x.id)
  BY DEF Down, TimeAck, Recorded

LEMMA UpShape ==
  ASSUME NEW x \in Up
  PROVE  /\ x.type \in {"READY", "QUEUE_STATUS", "TASK_ACK", "PROCESS_START", "RESULT", "P2P_TIME",
                        "P2P_TRANSFER", "P2P_COST", "P2P_FAILURE", "STOP_ACK"}
         /\ x.type \in {"TASK_ACK", "PROCESS_START", "RESULT"} => x.task \in FreeTask
         /\ x.type \in {"QUEUE_STATUS", "TASK_ACK", "PROCESS_START", "RESULT"} =>
              x.size \in Size /\ x.confirms \in SUBSET Key
         /\ x.type = "TASK_ACK" => x.accepted \in BOOLEAN
         /\ x.type = "RESULT" => x.success \in BOOLEAN
         /\ x.type \in {"P2P_TIME", "P2P_TRANSFER", "P2P_COST", "P2P_FAILURE"} => x.id \in Check
         /\ x.type = "P2P_TIME" => /\ x.source \in Worker /\ x.target \in Worker /\ x.phase \in Phases
                                   /\ x = TimeOf(x.id, x.source, x.target, x.phase)
         /\ x.type \in {"P2P_TRANSFER", "P2P_FAILURE"} => x.target \in Worker
         /\ x.type = "P2P_TRANSFER" => x.tasks \in Seq(TaskRec)
         /\ x.type = "P2P_COST" => x.cancels \in BOOLEAN /\ x = NoTransfer(x.id, x.cancels)
         /\ x.type = "P2P_FAILURE" => x = [type |-> "P2P_FAILURE", id |-> x.id, target |-> x.target]
         /\ x.type = "STOP_ACK" => x.stats \in Tallies
  BY DEF Up, TimeOf, NoTransfer

LEMMA OnWires ==
  ASSUME NEW m, NEW down, NEW up, NEW wk, NEW rq, TypesOK(m, down, up, wk, rq), NEW w \in Worker
  PROVE  /\ down \in [Worker -> Seq(Down)] /\ up \in [Worker -> Seq(Up)]
         /\ down[w] \in Seq(Down) /\ up[w] \in Seq(Up)
         /\ Range(down[w]) \subseteq Down /\ Range(up[w]) \subseteq Up
         /\ wk[w] \in Workers /\ WorkerOK(wk[w], w) /\ m \in Masters
         /\ wk[w].queue \in Seq(TaskRec) /\ Tasks(wk[w]) \subseteq TaskRec
         /\ wk[w].accepted \subseteq FreeTask /\ Range(wk[w].current) \subseteq FreeTask
         /\ wk[w].current = <<>> \/ \E t \in FreeTask : wk[w].current = <<t>>
         /\ wk[w].check \in CheckRec
         /\ wk[w].receiving = <<>> \/ \E r \in Receptions : wk[w].receiving = <<r>>
<1>1. down[w] \in Seq(Down) /\ up[w] \in Seq(Up) /\ WorkerOK(wk[w], w) /\ m \in Masters
  BY DEF TypesOK, MasterOK
<1>2. wk[w] \in Workers
  BY <1>1 DEF WorkerOK
<1>3. Range(down[w]) \subseteq Down /\ Range(up[w]) \subseteq Up
  BY <1>1, LenProperties DEF Range
<1>4. wk[w].queue \in Seq(TaskRec) /\ wk[w].accepted \subseteq FreeTask /\ wk[w].check \in CheckRec
  BY <1>2 DEF Workers
<1>5. Tasks(wk[w]) \subseteq TaskRec
  BY <1>4, LenProperties DEF Range, Tasks
<1>6. wk[w].current = <<>> \/ \E t \in FreeTask : wk[w].current = <<t>>
  BY <1>2 DEF Workers
<1>7. wk[w].receiving = <<>> \/ \E r \in Receptions : wk[w].receiving = <<r>>
  BY <1>2 DEF Workers
<1>8. Range(wk[w].current) \subseteq FreeTask
  BY <1>6 DEF Range
<1> QED
  BY <1>1, <1>2, <1>3, <1>4, <1>5, <1>6, <1>7, <1>8 DEF TypesOK

LEMMA SingleTask ==
  ASSUME NEW t
  PROVE  Range(<<t>>) = {t} /\ Range(<<>>) = {} /\ <<t>> # <<>> /\ \A s : <<t>> = <<s>> => t = s
<1>1. DOMAIN <<t>> = {1} /\ <<t>>[1] = t /\ DOMAIN <<>> = {}
  OBVIOUS
<1>2. \A s : <<t>> = <<s>> => t = s
  OBVIOUS
<1> QED
  BY <1>1, <1>2 DEF Range

(* The wires of one direction, after a message of w is taken or sent. *)
Took(f, w) == [f EXCEPT ![w] = Tail(@)]
Put(f, w, x) == [f EXCEPT ![w] = Append(@, x)]

LEMMA WireTaken ==
  ASSUME NEW S, NEW f \in [Worker -> Seq(S)], NEW w \in Worker, f[w] # <<>>,
         \A z \in Worker : NoTwins(f[z])
  PROVE  LET g == Took(f, w)
         IN  /\ g \in [Worker -> Seq(S)] /\ \A z \in Worker : NoTwins(g[z])
             /\ \A z \in Worker : z # w => g[z] = f[z]
             /\ g[w] = Tail(f[w]) /\ Head(f[w]) \in S /\ Head(f[w]) \in Range(f[w])
             /\ \A z \in Worker : Range(g[z]) \subseteq Range(f[z])
<1> DEFINE g == Took(f, w)
<1>1. Tail(f[w]) \in Seq(S) /\ Head(f[w]) \in S /\ Head(f[w]) \in Range(f[w])
      /\ Range(Tail(f[w])) \subseteq Range(f[w])
  BY MessageTaken
<1>2. g \in [Worker -> Seq(S)] /\ g[w] = Tail(f[w]) /\ \A z \in Worker : z # w => g[z] = f[z]
  BY <1>1 DEF Took
<1> HIDE DEF g
<1>3. NoTwins(g[w])
  BY <1>2, Taken
<1>4. (\A z \in Worker : NoTwins(g[z])) /\ \A z \in Worker : Range(g[z]) \subseteq Range(f[z])
  BY <1>1, <1>2, <1>3
<1> QED
  BY <1>1, <1>2, <1>3, <1>4 DEF g

LEMMA WireSent ==
  ASSUME NEW S, NEW f \in [Worker -> Seq(S)], NEW w \in Worker, NEW x \in S,
         x.type \in TransferTypes => x \notin About(f[w], x.id),
         \A z \in Worker : NoTwins(f[z])
  PROVE  LET g == Put(f, w, x)
         IN  /\ g \in [Worker -> Seq(S)] /\ \A z \in Worker : NoTwins(g[z])
             /\ \A z \in Worker : z # w => g[z] = f[z]
             /\ g[w] = Append(f[w], x) /\ Range(g[w]) = Range(f[w]) \cup {x}
<1> DEFINE g == Put(f, w, x)
<1>1. Append(f[w], x) \in Seq(S) /\ Range(Append(f[w], x)) = Range(f[w]) \cup {x}
  BY MessageSent
<1>2. g \in [Worker -> Seq(S)] /\ g[w] = Append(f[w], x) /\ \A z \in Worker : z # w => g[z] = f[z]
  BY <1>1 DEF Put
<1> HIDE DEF g
<1>3. NoTwins(g[w])
  BY <1>2, Sent
<1>4. \A z \in Worker : NoTwins(g[z])
  BY <1>2, <1>3
<1> QED
  BY <1>1, <1>2, <1>3, <1>4 DEF g

LEMMA AboutTaken ==
  ASSUME NEW S, NEW f \in [Worker -> Seq(S)], NEW w \in Worker, f[w] # <<>>,
         \A z \in Worker : NoTwins(f[z])
  PROVE  \A c : About(Took(f, w)[w], c) = About(f[w], c) \ {Head(f[w])}
<1>1. Took(f, w)[w] = Tail(f[w])
  BY DEF Took
<1> QED
  BY <1>1, Taken

LEMMA AboutOther ==
  ASSUME NEW S, NEW f \in [Worker -> Seq(S)], NEW w \in Worker, NEW x \in S, NEW c, ~Concerns(x, c)
  PROVE  About(Put(f, w, x)[w], c) = About(f[w], c)
<1>1. Put(f, w, x)[w] = Append(f[w], x)
  BY DEF Put
<1> QED
  BY <1>1, MessageSent DEF About

-----------------------------------------------------------------------------
(* Checks and transfers: what a step leaves alone *)

SameMaster(m, m2, c) ==
  /\ \A z \in Worker : m2.check[z] = c <=> m.check[z] = c
  /\ Known(m2, c) = Known(m, c) /\ (c \in m2.transfers <=> c \in m.transfers)
  /\ c > m2.checks <=> c > m.checks
SameWires(f, f2, c) == \A z \in Worker : About(f2[z], c) = About(f[z], c)
SameWorkers(wk, wk2, c) == \A z \in Worker :
  /\ Held(wk2[z], c) = Held(wk[z], c) /\ wk2[z].received[c] = wk[z].received[c]
  /\ (c \in wk2[z].sent <=> c \in wk[z].sent) /\ (c \in wk2[z].events <=> c \in wk[z].events)
  /\ wk2[z].check = wk[z].check \/ (wk2[z].check.id # c /\ wk[z].check.id # c)
  /\ wk2[z].receiving = wk[z].receiving \/ (~Receiving(wk2[z], c) /\ ~Receiving(wk[z], c))

LEMMA TransferElsewhere ==
  ASSUME NEW m, NEW down, NEW up, NEW wk, NEW rq, NEW m2, NEW down2, NEW up2, NEW wk2, NEW rq2,
         NEW c \in Check, TransferOK(m, down, up, wk, rq, c), m.checks \in Nat, m2.checks \in Nat,
         SameMaster(m, m2, c), SameWires(down, down2, c), SameWires(up, up2, c),
         SameWorkers(wk, wk2, c), Asks(rq2, c) = Asks(rq, c)
  PROVE  TransferOK(m2, down2, up2, wk2, rq2, c)
<1>1. c \in Nat /\ (c <= m2.checks <=> c <= m.checks)
  BY DEF SameMaster, Check
<1>2. \A z \in Worker : /\ Silent(down2, up2, z, c) <=> Silent(down, up, z, c)
                        /\ Unmarked(wk2[z], c) <=> Unmarked(wk[z], c)
                        /\ Outside(wk2[z], c) <=> Outside(wk[z], c)
                        /\ Receiving(wk2[z], c) <=> Receiving(wk[z], c)
                        /\ wk2[z].check.id = c <=> wk[z].check.id = c
  BY DEF SameWires, SameWorkers, Silent, Unmarked, Outside, Receiving
<1>3. \A w \in Worker : Owns(m2, w, c) <=> Owns(m, w, c)
  BY <1>1 DEF Owns, SameMaster
<1>4. \A w, u \in Worker : Others(down2, up2, wk2, c, w, u) <=> Others(down, up, wk, c, w, u)
  BY <1>2 DEF Others, SameWorkers
<1>5. CASE Off(m, down, up, wk, rq, c)
  BY <1>5, <1>2 DEF Off, SameMaster, SameWorkers, TransferOK
<1>6. ASSUME NEW w \in Worker, Early(m, down, up, wk, rq, c, w)
      PROVE  Early(m2, down2, up2, wk2, rq2, c, w)
  BY <1>6, <1>2, <1>3, <1>4 DEF Early, SameMaster, SameWorkers, SameWires
<1>7. ASSUME NEW w \in Worker, NEW u \in Worker, Timing(m, down, up, wk, rq, c, w, u)
      PROVE  Timing(m2, down2, up2, wk2, rq2, c, w, u)
  BY <1>7, <1>2, <1>3, <1>4 DEF Timing, SameMaster, SameWorkers, SameWires
<1>8. ASSUME NEW w \in Worker, NEW u \in Worker, Asking(m, down, up, wk, rq, c, w, u)
      PROVE  Asking(m2, down2, up2, wk2, rq2, c, w, u)
  <2>1. Offered(m, down, up, wk, rq, c, w, u) => Offered(m2, down2, up2, wk2, rq2, c, w, u)
    BY <1>2 DEF Offered, SameMaster, SameWorkers
  <2>2. Arriving(m, down, up, wk, rq, c, w, u) => Arriving(m2, down2, up2, wk2, rq2, c, w, u)
    BY <1>2 DEF Arriving, SameMaster, SameWorkers, SameWires
  <2>3. Answered(m, down, up, wk, rq, c, w, u) => Answered(m2, down2, up2, wk2, rq2, c, w, u)
    BY <1>2 DEF Answered, SameMaster, SameWorkers
  <2> QED
    BY <1>8, <1>2, <1>3, <1>4, <2>1, <2>2, <2>3 DEF Asking, SameWorkers, SameWires
<1>9. ASSUME NEW w \in Worker, NEW u \in Worker, Given(m, down, up, wk, rq, c, w, u)
      PROVE  Given(m2, down2, up2, wk2, rq2, c, w, u)
  BY <1>9, <1>2, <1>3, <1>4 DEF Given, SameMaster, SameWorkers, SameWires
<1>10. ASSUME NEW w \in Worker, NEW u \in Worker, Dropped(m, down, up, wk, rq, c, w, u)
       PROVE  Dropped(m2, down2, up2, wk2, rq2, c, w, u)
  BY <1>10, <1>2, <1>3, <1>4 DEF Dropped, SameMaster, SameWorkers, SameWires
<1>11. ASSUME NEW w \in Worker, NEW u \in Worker, Done(m, down, up, wk, rq, c, w, u)
       PROVE  Done(m2, down2, up2, wk2, rq2, c, w, u)
  BY <1>11, <1>1, <1>2, <1>4 DEF Done, SameMaster, SameWorkers, SameWires
<1> QED
  BY <1>5, <1>6, <1>7, <1>8, <1>9, <1>10, <1>11, Zenon DEF TransferOK

SystemOK(m, down, up, wk, rq) ==
  TypesOK(m, down, up, wk, rq) /\ TransfersOK(m, down, up, wk, rq)

(* Only checks other than those in C may have changed. *)
LEMMA TransfersElsewhere ==
  ASSUME NEW m, NEW down, NEW up, NEW wk, NEW rq, SystemOK(m, down, up, wk, rq),
         NEW m2, NEW down2, NEW up2, NEW wk2, NEW rq2, NEW C, TypesOK(m2, down2, up2, wk2, rq2),
         \A w \in Worker : NoTwins(down2[w]) /\ NoTwins(up2[w]),
         \A c \in Check \cap C : TransferOK(m2, down2, up2, wk2, rq2, c),
         \A c \in Check \ C : SameMaster(m, m2, c),
         \A c \in Check \ C : SameWires(down, down2, c) /\ SameWires(up, up2, c),
         \A c \in Check \ C : SameWorkers(wk, wk2, c),
         \A c \in Check \ C : Asks(rq2, c) = Asks(rq, c)
  PROVE  SystemOK(m2, down2, up2, wk2, rq2)
<1>1. m.checks \in Nat /\ m2.checks \in Nat
  BY DEF SystemOK, TypesOK, MasterOK, Masters
<1>2. ASSUME NEW c \in Check PROVE TransferOK(m2, down2, up2, wk2, rq2, c)
  <2>1. CASE c \in C
    BY <2>1
  <2>2. CASE c \notin C
    <3>1. TransferOK(m, down, up, wk, rq, c)
      BY DEF SystemOK, TransfersOK
    <3> QED
      BY <1>1, <2>2, <3>1, TransferElsewhere
  <2> QED
    BY <2>1, <2>2
<1> QED
  BY <1>2 DEF SystemOK, TransfersOK

(* No check may have changed. *)
LEMMA TransfersKept ==
  ASSUME NEW m, NEW down, NEW up, NEW wk, NEW rq, SystemOK(m, down, up, wk, rq),
         NEW m2, NEW down2, NEW up2, NEW wk2, TypesOK(m2, down2, up2, wk2, rq),
         \A w \in Worker : NoTwins(down2[w]) /\ NoTwins(up2[w]),
         \A c \in Check : /\ SameMaster(m, m2, c) /\ SameWires(down, down2, c)
                          /\ SameWires(up, up2, c) /\ SameWorkers(wk, wk2, c)
  PROVE  SystemOK(m2, down2, up2, wk2, rq)
<1>1. Check \cap {} = {} /\ Check \ {} = Check
  OBVIOUS
<1> QED
  BY <1>1, TransfersElsewhere

LEMMA Unchanged ==
  /\ \A m, c : SameMaster(m, m, c)
  /\ \A f, c : SameWires(f, f, c)
  /\ \A wk, c : SameWorkers(wk, wk, c)
  BY DEF SameMaster, SameWires, SameWorkers

LEMMA UpTaken ==
  ASSUME NEW m, NEW down, NEW up, NEW wk, NEW rq, SystemOK(m, down, up, wk, rq), NEW w \in Worker,
         up[w] # <<>>, Head(up[w]).type \notin TransferTypes
  PROVE  SystemOK(m, down, Took(up, w), wk, rq)
<1> DEFINE up2 == Took(up, w)
<1>1. up \in [Worker -> Seq(Up)] /\ \A z \in Worker : NoTwins(down[z]) /\ NoTwins(up[z])
  BY DEF SystemOK, TypesOK, TransfersOK
<1>1a. \A z \in Worker : NoTwins(up[z])
  BY <1>1
<1>2. /\ up2 \in [Worker -> Seq(Up)] /\ \A z \in Worker : NoTwins(up2[z])
      /\ \A z \in Worker : z # w => up2[z] = up[z]
  BY <1>1, WireTaken
<1>2a. \A c : About(up2[w], c) = About(up[w], c) \ {Head(up[w])}
  BY <1>1, <1>1a, AboutTaken
<1>3. \A c \in Check : SameWires(up, up2, c)
  BY <1>2, <1>2a DEF SameWires, About, Concerns
<1>4. TypesOK(m, down, up2, wk, rq)
  BY <1>2 DEF SystemOK, TypesOK
<1>5. SystemOK(m, down, up2, wk, rq)
  BY <1>1, <1>2, <1>3, <1>4, Unchanged, TransfersKept
<1> QED
  BY <1>5

LEMMA DownTaken ==
  ASSUME NEW m, NEW down, NEW up, NEW wk, NEW rq, SystemOK(m, down, up, wk, rq), NEW w \in Worker,
         down[w] # <<>>, Head(down[w]).type \notin TransferTypes
  PROVE  SystemOK(m, Took(down, w), up, wk, rq)
<1> DEFINE down2 == Took(down, w)
<1>1. down \in [Worker -> Seq(Down)] /\ \A z \in Worker : NoTwins(down[z]) /\ NoTwins(up[z])
  BY DEF SystemOK, TypesOK, TransfersOK
<1>1a. \A z \in Worker : NoTwins(down[z])
  BY <1>1
<1>2. /\ down2 \in [Worker -> Seq(Down)] /\ \A z \in Worker : NoTwins(down2[z])
      /\ \A z \in Worker : z # w => down2[z] = down[z]
  BY <1>1, WireTaken
<1>2a. \A c : About(down2[w], c) = About(down[w], c) \ {Head(down[w])}
  BY <1>1, <1>1a, AboutTaken
<1>3. \A c \in Check : SameWires(down, down2, c)
  BY <1>2, <1>2a DEF SameWires, About, Concerns
<1>4. TypesOK(m, down2, up, wk, rq)
  BY <1>2 DEF SystemOK, TypesOK
<1>5. SystemOK(m, down2, up, wk, rq)
  BY <1>1, <1>2, <1>3, <1>4, Unchanged, TransfersKept
<1> QED
  BY <1>5

LEMMA UpSent ==
  ASSUME NEW m, NEW down, NEW up, NEW wk, NEW rq, SystemOK(m, down, up, wk, rq), NEW w \in Worker,
         NEW x \in Up, x.type \notin TransferTypes
  PROVE  SystemOK(m, down, Put(up, w, x), wk, rq)
<1> DEFINE up2 == Put(up, w, x)
<1>1. up \in [Worker -> Seq(Up)] /\ \A z \in Worker : NoTwins(down[z]) /\ NoTwins(up[z])
  BY DEF SystemOK, TypesOK, TransfersOK
<1>1a. \A z \in Worker : NoTwins(up[z])
  BY <1>1
<1>1b. x.type \in TransferTypes => x \notin About(up[w], x.id)
  OBVIOUS
<1>2. /\ up2 \in [Worker -> Seq(Up)] /\ \A z \in Worker : NoTwins(up2[z])
      /\ \A z \in Worker : z # w => up2[z] = up[z]
  BY <1>1, <1>1a, <1>1b, WireSent
<1>2a. ASSUME NEW c PROVE About(up2[w], c) = About(up[w], c)
  <2>1. up \in [Worker -> Seq(Up)] /\ ~Concerns(x, c)
    BY <1>1 DEF Concerns
  <2> QED
    BY <2>1, AboutOther
<1>3. \A c \in Check : SameWires(up, up2, c)
  BY <1>2, <1>2a DEF SameWires
<1>4. TypesOK(m, down, up2, wk, rq)
  BY <1>2 DEF SystemOK, TypesOK
<1>5. SystemOK(m, down, up2, wk, rq)
  BY <1>1, <1>2, <1>3, <1>4, Unchanged, TransfersKept
<1> QED
  BY <1>5

LEMMA DownSent ==
  ASSUME NEW m, NEW down, NEW up, NEW wk, NEW rq, SystemOK(m, down, up, wk, rq), NEW w \in Worker,
         NEW x \in Down, x.type \notin TransferTypes
  PROVE  SystemOK(m, Put(down, w, x), up, wk, rq)
<1> DEFINE down2 == Put(down, w, x)
<1>1. down \in [Worker -> Seq(Down)] /\ \A z \in Worker : NoTwins(down[z]) /\ NoTwins(up[z])
  BY DEF SystemOK, TypesOK, TransfersOK
<1>1a. \A z \in Worker : NoTwins(down[z])
  BY <1>1
<1>1b. x.type \in TransferTypes => x \notin About(down[w], x.id)
  OBVIOUS
<1>2. /\ down2 \in [Worker -> Seq(Down)] /\ \A z \in Worker : NoTwins(down2[z])
      /\ \A z \in Worker : z # w => down2[z] = down[z]
  BY <1>1, <1>1a, <1>1b, WireSent
<1>2a. ASSUME NEW c PROVE About(down2[w], c) = About(down[w], c)
  <2>1. down \in [Worker -> Seq(Down)] /\ ~Concerns(x, c)
    BY <1>1 DEF Concerns
  <2> QED
    BY <2>1, AboutOther
<1>3. \A c \in Check : SameWires(down, down2, c)
  BY <1>2, <1>2a DEF SameWires
<1>4. TypesOK(m, down2, up, wk, rq)
  BY <1>2 DEF SystemOK, TypesOK
<1>5. SystemOK(m, down2, up, wk, rq)
  BY <1>1, <1>2, <1>3, <1>4, Unchanged, TransfersKept
<1> QED
  BY <1>5

(* The master changes what the checks and transfers do not depend on. *)
LEMMA MasterChanged ==
  ASSUME NEW m, NEW down, NEW up, NEW wk, NEW rq, SystemOK(m, down, up, wk, rq),
         NEW m2, MasterOK(m2), m2.check = m.check, m2.checks = m.checks,
         m2.times = m.times, m2.transfers = m.transfers
  PROVE  SystemOK(m2, down, up, wk, rq)
<1>1. TypesOK(m2, down, up, wk, rq)
  BY DEF SystemOK, TypesOK
<1>2. \A c \in Check : SameMaster(m, m2, c)
  BY DEF SameMaster, Known
<1> QED
  BY <1>1, <1>2, Unchanged, TransfersKept DEF SystemOK, TransfersOK

(* ... and so does a worker. *)
LEMMA WorkerChanged ==
  ASSUME NEW m, NEW down, NEW up, NEW wk, NEW rq, SystemOK(m, down, up, wk, rq), NEW w \in Worker,
         NEW v, WorkerOK(v, w), v.check = wk[w].check, v.received = wk[w].received,
         v.receiving = wk[w].receiving, v.sent = wk[w].sent, v.events = wk[w].events,
         \A c \in Check : Held(v, c) = Held(wk[w], c)
  PROVE  SystemOK(m, down, up, [wk EXCEPT ![w] = v], rq)
<1> DEFINE wk2 == [wk EXCEPT ![w] = v]
<1>1. DOMAIN wk2 = Worker /\ wk2[w] = v /\ \A z \in Worker : z # w => wk2[z] = wk[z]
  BY DEF SystemOK, TypesOK
<1> HIDE DEF wk2
<1>2. TypesOK(m, down, up, wk2, rq)
  BY <1>1 DEF SystemOK, TypesOK
<1>3. \A c \in Check : SameWorkers(wk, wk2, c)
  BY <1>1 DEF SameWorkers
<1>4. SystemOK(m, down, up, wk2, rq)
  BY <1>2, <1>3, Unchanged, TransfersKept DEF SystemOK, TransfersOK
<1> QED
  BY <1>4 DEF wk2

-----------------------------------------------------------------------------
(* The next task is started *)

LEMMA HeldChecks == None \notin Check /\ \A c \in Check : c # None /\ c \in Nat
  BY DEF Check, None

LEMMA NextLeaves ==
  ASSUME NEW v \in Workers, Free(v.queue) # {}
  PROVE  LET n == NextIndex(v.queue)
             p == Pick(v.queue, DOMAIN v.queue \ {n})
         IN  /\ p \in Seq(TaskRec) /\ Len(p) \in Nat /\ Len(p) <= Len(v.queue) /\ v.queue[n] \in FreeTask
             /\ \A c \in Check : {t \in Range(p) : t.held = c} = Held(v, c)
<1> DEFINE q == v.queue
           n == NextIndex(q)
           p == Pick(q, DOMAIN q \ {n})
<1>1. q \in Seq(TaskRec)
  BY DEF Workers
<1> HIDE DEF q
<1>2. n \in DOMAIN q /\ q[n] \in TaskRec /\ q[n].held = None /\ p \in Seq(TaskRec) /\ Len(p) <= Len(q)
  BY <1>1, NextTaken DEF q
<1>3. Range(p) = {q[i] : i \in DOMAIN q \ {n}}
  BY <1>1, PickedTasks
<1>4. Len(p) \in Nat
  BY <1>2, LenProperties
<1> HIDE DEF n, p
<1>5. ASSUME NEW c \in Check PROVE {t \in Range(p) : t.held = c} = {t \in Range(q) : t.held = c}
  <2>1. q[n].held # c
    BY <1>2, HeldChecks
  <2> QED
    BY <1>3, <2>1 DEF Range
<1> QED
  BY <1>2, <1>4, <1>5 DEF q, n, p, FreeTask, Held, Tasks

Starting(v) ==
  [v EXCEPT !.queue = Pick(v.queue, DOMAIN v.queue \ {NextIndex(v.queue)}),
            !.current = <<v.queue[NextIndex(v.queue)]>>]
StartOf(v) ==
  [type |-> "PROCESS_START", task |-> v.queue[NextIndex(v.queue)],
   size |-> Len(Pick(v.queue, DOMAIN v.queue \ {NextIndex(v.queue)})), confirms |-> {}]

LEMMA StartKeeps ==
  ASSUME NEW m, NEW down, NEW up, NEW wk, NEW rq, SystemOK(m, down, up, wk, rq), NEW w \in Worker,
         CanStart(wk[w])
  PROVE  SystemOK(m, down, Put(up, w, StartOf(wk[w])), [wk EXCEPT ![w] = Starting(wk[w])], rq)
<1> DEFINE v == wk[w]
           p == Pick(v.queue, DOMAIN v.queue \ {NextIndex(v.queue)})
           t == v.queue[NextIndex(v.queue)]
           v2 == Starting(v)
<1>1. v \in Workers /\ WorkerOK(v, w) /\ Free(v.queue) # {} /\ v.queue \in Seq(TaskRec)
  BY OnWires DEF SystemOK, CanStart
<1>2. /\ p \in Seq(TaskRec) /\ Len(p) \in Nat /\ Len(p) <= Len(v.queue) /\ t \in FreeTask
      /\ \A c \in Check : {s \in Range(p) : s.held = c} = Held(v, c)
  BY <1>1, NextLeaves
<1>3. v2 = [v EXCEPT !.queue = p, !.current = <<t>>]
  BY DEF Starting
<1>4. StartOf(v) = [type |-> "PROCESS_START", task |-> t, size |-> Len(p), confirms |-> {}]
  BY DEF StartOf
<1>5. Len(v.queue) \in Nat /\ Cardinality(v.accepted) \in Nat /\ v.incoming \in Nat
  BY <1>1, LenProperties, FS_CardinalityType DEF WorkerOK, Workers
<1> HIDE DEF p, t, v, v2
<1>6. v2 \in Workers
  BY <1>1, <1>2, <1>3 DEF Workers
<1>7. /\ v2.queue = p /\ v2.accepted = v.accepted /\ v2.incoming = v.incoming /\ v2.check = v.check
      /\ v2.received = v.received /\ v2.receiving = v.receiving /\ v2.sent = v.sent /\ v2.events = v.events
      /\ v2.reassigned = v.reassigned
  BY <1>1, <1>3 DEF Workers
<1>8a. /\ Len(v.queue) + Cardinality(v.accepted) + v.incoming <= QueueSize /\ QueueSize \in Nat
       /\ IsFiniteSet(v.accepted) /\ IsFiniteSet(v.reassigned)
       /\ v.incoming = IF v.receiving = <<>> THEN 0 ELSE Len(v.receiving[1].request.tasks)
       /\ v.check.pc = "idle" <=> v.check.id = None
       /\ v.check.pc = "query" => v.check.left # {}
       /\ w \notin v.check.left /\ \A x \in v.check.seen : x.peer # w
  BY <1>1 DEF WorkerOK
<1>8b. Len(p) + Cardinality(v.accepted) + v.incoming <= QueueSize /\ Len(p) \in Size
  <2> DEFINE a == Len(p)
             b == Len(v.queue)
             d == Cardinality(v.accepted)
             e == v.incoming
  <2>1. a \in Nat /\ b \in Nat /\ d \in Nat /\ e \in Nat /\ a <= b /\ b + d + e <= QueueSize
    BY <1>2, <1>5, <1>8a
  <2> HIDE DEF a, b, d, e
  <2>2. a + d + e <= QueueSize /\ a \in 0..QueueSize
    BY <2>1
  <2> QED
    BY <2>2 DEF a, b, d, e, Size
<1>8. WorkerOK(v2, w)
  BY <1>6, <1>7, <1>8a, <1>8b DEF WorkerOK
<1>9. \A c \in Check : Held(v2, c) = Held(v, c)
  BY <1>2, <1>7 DEF Held, Tasks
<1>10. StartOf(v) \in Up /\ StartOf(v).type \notin TransferTypes
  <2> QED
    BY <1>2, <1>4, <1>8b DEF Up, TransferTypes
<1> DEFINE up2 == Put(up, w, StartOf(v))
<1>11. SystemOK(m, down, up2, wk, rq)
  BY <1>10, UpSent
<1> HIDE DEF up2
<1>12. SystemOK(m, down, up2, [wk EXCEPT ![w] = v2], rq)
  BY <1>7, <1>8, <1>9, <1>11, WorkerChanged DEF v
<1> QED
  BY <1>12 DEF up2, v, v2

LEMMA Appends ==
  ASSUME NEW S, NEW q \in Seq(S), NEW ms \in Seq(S), NEW x \in S
  PROVE  /\ q \o <<>> = q /\ q \o Append(ms, x) = Append(q \o ms, x)
         /\ q \o <<x>> = Append(q, x) /\ Append(<<>>, x) = <<x>>
<1>1. q \o <<>> = q
  BY ConcatEmptySeq
<1>2. q \o Append(ms, x) \in Seq(S) /\ Append(q \o ms, x) \in Seq(S) /\ Append(ms, x) \in Seq(S) /\ q \o ms \in Seq(S)
  BY ConcatProperties, AppendProperties
<1>3. Len(q \o Append(ms, x)) = Len(q) + Len(ms) + 1 /\ Len(Append(q \o ms, x)) = Len(q) + Len(ms) + 1
  BY <1>2, ConcatProperties, AppendProperties, LenProperties
<1>4. \A i \in 1..(Len(q) + Len(ms) + 1) : (q \o Append(ms, x))[i] = Append(q \o ms, x)[i]
  <2> SUFFICES ASSUME NEW i \in 1..(Len(q) + Len(ms) + 1)
               PROVE  (q \o Append(ms, x))[i] = Append(q \o ms, x)[i]
    OBVIOUS
  <2>1. Len(q) \in Nat /\ Len(ms) \in Nat /\ Len(q \o ms) = Len(q) + Len(ms) /\ Len(Append(ms, x)) = Len(ms) + 1
    BY <1>2, ConcatProperties, AppendProperties, LenProperties
  <2>2. CASE i \in 1..Len(q)
    BY <1>2, <2>1, <2>2, ConcatProperties, AppendProperties
  <2>3. CASE i \in (Len(q) + 1)..(Len(q) + Len(ms))
    <3>1. i - Len(q) \in 1..Len(ms) /\ i \in 1..Len(q \o ms)
      BY <2>1, <2>3
    <3>2. Append(q \o ms, x)[i] = (q \o ms)[i]
      BY <1>2, <2>1, <3>1, AppendProperties
    <3>3. (q \o ms)[i] = ms[i - Len(q)]
      BY <2>1, <2>3, <3>1, ConcatProperties
    <3>4. (q \o Append(ms, x))[i] = Append(ms, x)[i - Len(q)]
      BY <1>2, <2>1, <2>3, <3>1, ConcatProperties
    <3>5. Append(ms, x)[i - Len(q)] = ms[i - Len(q)]
      BY <3>1, AppendProperties
    <3> QED
      BY <3>2, <3>3, <3>4, <3>5
  <2>4. CASE i = Len(q) + Len(ms) + 1
    <3>1. i - Len(q) = Len(ms) + 1
      BY <2>1, <2>4
    <3>2. Append(q \o ms, x)[i] = x
      BY <1>2, <2>1, <2>4, AppendProperties
    <3>3. (q \o Append(ms, x))[i] = Append(ms, x)[i - Len(q)]
      BY <1>2, <2>1, <2>4, ConcatProperties
    <3> QED
      BY <3>1, <3>2, <3>3, AppendProperties
  <2>5. i \in 1..Len(q) \/ i \in (Len(q) + 1)..(Len(q) + Len(ms)) \/ i = Len(q) + Len(ms) + 1
    <3> DEFINE a == Len(q)
               b == Len(ms)
    <3>1. a \in Nat /\ b \in Nat /\ i \in 1..(a + b + 1)
      BY <2>1
    <3> HIDE DEF a, b
    <3>2. i \in 1..a \/ i \in (a + 1)..(a + b) \/ i = a + b + 1
      BY <3>1
    <3> QED
      BY <3>2 DEF a, b
  <2> QED
    BY <2>2, <2>3, <2>4, <2>5
<1>5. q \o Append(ms, x) = Append(q \o ms, x)
  BY <1>2, <1>3, <1>4, SeqEqual
<1>6. Append(<<>>, x) = <<x>>
  OBVIOUS
<1>7. <<>> \in Seq(S) /\ q \o Append(<<>>, x) = Append(q \o <<>>, x)
  OBVIOUS
<1> QED
  BY <1>1, <1>5, <1>6, <1>7

Sends(f, w, ms) == [f EXCEPT ![w] = @ \o ms]

LEMMA StartShape ==
  ASSUME toMaster \in [Worker -> Seq(Up)], DOMAIN worker = Worker, NEW w \in Worker, NEW v,
         NEW ms \in Seq(Up), SendAndStart(w, v, ms)
  PROVE  LET up == Sends(toMaster, w, ms)
             wk == [worker EXCEPT ![w] = v]
         IN  /\ wk[w] = v
             /\ IF CanStart(v) THEN /\ worker' = [wk EXCEPT ![w] = Starting(v)]
                                    /\ toMaster' = Put(up, w, StartOf(v))
                               ELSE worker' = wk /\ toMaster' = up
<1>1. [worker EXCEPT ![w] = v][w] = v
  OBVIOUS
<1>2. ASSUME CanStart(v)
      PROVE  /\ worker' = [[worker EXCEPT ![w] = v] EXCEPT ![w] = Starting(v)]
             /\ toMaster' = Put(Sends(toMaster, w, ms), w, StartOf(v))
  <2>1. worker' = [worker EXCEPT ![w] = Starting(v)]
    BY <1>2 DEF SendAndStart, Starting
  <2>2. [[worker EXCEPT ![w] = v] EXCEPT ![w] = Starting(v)] = [worker EXCEPT ![w] = Starting(v)]
    BY Zenon
  <2>3. toMaster' = [toMaster EXCEPT ![w] = @ \o Append(ms, StartOf(v))]
    BY <1>2 DEF SendAndStart, StartOf
  <2>4. toMaster[w] \o Append(ms, StartOf(v)) = Append(toMaster[w] \o ms, StartOf(v))
    <3>1. toMaster[w] \in Seq(Up \cup {StartOf(v)}) /\ ms \in Seq(Up \cup {StartOf(v)})
      OBVIOUS
    <3> QED
      BY <3>1, Appends
  <2> QED
    BY <2>1, <2>2, <2>3, <2>4 DEF Put, Sends
<1>3. ASSUME ~CanStart(v)
      PROVE  worker' = [worker EXCEPT ![w] = v] /\ toMaster' = Sends(toMaster, w, ms)
  BY <1>3 DEF SendAndStart, Sends
<1> QED
  BY <1>1, <1>2, <1>3

LEMMA StartedKeeps ==
  ASSUME NEW m, NEW down, NEW rq, NEW w \in Worker, NEW v, NEW ms \in Seq(Up),
         toMaster \in [Worker -> Seq(Up)], DOMAIN worker = Worker, SendAndStart(w, v, ms),
         SystemOK(m, down, Sends(toMaster, w, ms), [worker EXCEPT ![w] = v], rq)
  PROVE  SystemOK(m, down, toMaster', worker', rq)
<1> DEFINE up == Sends(toMaster, w, ms)
           wk == [worker EXCEPT ![w] = v]
<1>1. /\ wk[w] = v
      /\ IF CanStart(v) THEN worker' = [wk EXCEPT ![w] = Starting(v)] /\ toMaster' = Put(up, w, StartOf(v))
                        ELSE worker' = wk /\ toMaster' = up
  BY StartShape
<1> HIDE DEF up, wk
<1>2. SystemOK(m, down, up, wk, rq)
  BY DEF up, wk
<1>3. CASE CanStart(v)
  <2>1. SystemOK(m, down, Put(up, w, StartOf(wk[w])), [wk EXCEPT ![w] = Starting(wk[w])], rq)
    BY <1>1, <1>2, <1>3, StartKeeps
  <2> QED
    BY <1>1, <1>3, <2>1
<1>4. CASE ~CanStart(v)
  BY <1>1, <1>2, <1>4
<1> QED
  BY <1>3, <1>4

-----------------------------------------------------------------------------
(* A round of the master *)

Rounds(m, up, wk, rq) ==
  {s \in [m : Masters, wire : [Worker -> Seq(Down)]] :
     /\ s.m.checks = m.checks /\ s.m.due = m.due
     /\ SystemOK(s.m, s.wire, up, wk, rq)}

LEMMA LoadType ==
  ASSUME NEW m \in Masters, NEW w \in Worker
  PROVE  /\ QueueLoad(m, w) \in Nat /\ IsFiniteSet(m.pending[w]) /\ Cardinality(m.pending[w]) \in Nat
         /\ m.size[w] \in Nat /\ QueueLoad(m, w) = m.size[w] + Cardinality(m.pending[w])
<1>1. m.pending[w] \in SUBSET Key /\ m.size[w] \in Nat
  BY DEF Masters, Size
<1>2. IsFiniteSet(m.pending[w])
  <2>1. IsFiniteSet(Key)
    BY FS_Interval DEF Key
  <2> QED
    BY <1>1, <2>1, FS_Subset
<1>3. Cardinality(m.pending[w]) \in Nat
  BY <1>2, FS_CardinalityType
<1> QED
  BY <1>1, <1>2, <1>3 DEF QueueLoad

LEMMA WorkerChosen ==
  ASSUME NEW m \in Masters, NEW e, Candidates(m, e) # {}
  PROVE  ChooseWorker(m, e) \in Candidates(m, e)
<1> DEFINE C == Candidates(m, e)
           Turn(w) == (w - m.last - 1) % N
           Best(w) == \A u \in C : QueueLoad(m, w) < QueueLoad(m, u)
                        \/ (QueueLoad(m, w) = QueueLoad(m, u) /\ Turn(w) <= Turn(u))
<1>1. C \subseteq Worker /\ \A w \in C : QueueLoad(m, w) \in Nat
  BY LoadType DEF Candidates
<1>2. \A w \in C : Turn(w) \in Nat
  <2>1. m.last \in Int /\ N \in Nat \ {0}
    BY DEF Masters, Worker, None
  <2> QED
    BY <1>1, <2>1 DEF Worker
<1> HIDE DEF Turn, C
<1>3. PICK n \in {QueueLoad(m, w) : w \in C} : \A x \in {QueueLoad(m, w) : w \in C} : n <= x
  <2>1. {QueueLoad(m, w) : w \in C} \subseteq Nat /\ {QueueLoad(m, w) : w \in C} # {}
    BY <1>1 DEF C
  <2> QED
    BY <2>1, LeastNumber
<1> DEFINE T == {w \in C : QueueLoad(m, w) = n}
<1>4. PICK i \in {Turn(w) : w \in T} : \A x \in {Turn(w) : w \in T} : i <= x
  <2>1. {Turn(w) : w \in T} \subseteq Nat /\ {Turn(w) : w \in T} # {}
    BY <1>2, <1>3
  <2> QED
    BY <2>1, LeastNumber
<1>5. PICK w \in T : Turn(w) = i
  BY <1>4
<1>6. w \in C /\ Best(w)
  <2> SUFFICES ASSUME NEW u \in C
               PROVE  QueueLoad(m, w) < QueueLoad(m, u)
                        \/ (QueueLoad(m, w) = QueueLoad(m, u) /\ Turn(w) <= Turn(u))
    BY <1>5
  <2>1. n <= QueueLoad(m, u) /\ QueueLoad(m, w) = n /\ n \in Nat /\ QueueLoad(m, u) \in Nat
    BY <1>1, <1>3, <1>5
  <2>2. QueueLoad(m, u) = n => Turn(w) <= Turn(u)
    BY <1>4, <1>5
  <2> QED
    BY <2>1, <2>2
<1>7. ChooseWorker(m, e) = CHOOSE x \in C : Best(x)
  BY DEF ChooseWorker, C, Turn
<1> HIDE DEF Best
<1>8. (CHOOSE x \in C : Best(x)) \in C
  BY <1>6
<1> QED
  BY <1>7, <1>8 DEF C

LEMMA AssignKeeps ==
  ASSUME NEW m0, NEW up, NEW wk, NEW rq, NEW s \in Rounds(m0, up, wk, rq)
  PROVE  AssignNext(s) \in Rounds(m0, up, wk, rq)
<1> DEFINE m == s.m
           k == Head(Waiting(m))
           t == m.task[k]
           w == ChooseWorker(m, t.failedAt)
           task == [key |-> k, attempt |-> t.attempt + 1, failed |-> t.failedAt # None, held |-> None]
           x == [type |-> "TASK", task |-> task]
           m2 == [m EXCEPT
             !.retry = IF @ = <<>> THEN @ ELSE Tail(@),
             !.fresh = IF m.retry = <<>> THEN Tail(@) ELSE @,
             !.task[k] = [t EXCEPT !.state = "SENT", !.owner = w, !.attempt = @ + 1],
             !.pending[w] = @ \cup {k},
             !.last = w]
<1>1. /\ s \in [m : Masters, wire : [Worker -> Seq(Down)]] /\ m.checks = m0.checks /\ m.due = m0.due
      /\ SystemOK(m, s.wire, up, wk, rq) /\ m \in Masters /\ MasterOK(m) /\ s.wire \in [Worker -> Seq(Down)]
  BY DEF Rounds, SystemOK, TypesOK
<1>2. CASE Waiting(m) = <<>> \/ Candidates(m, t.failedAt) = {}
  <2>1. AssignNext(s) = s
    BY <1>2, Zenon DEF AssignNext
  <2> QED
    BY <2>1
<1>3. CASE Waiting(m) # <<>> /\ Candidates(m, t.failedAt) # {}
  <2>1. m.retry \in Seq(Key) /\ m.fresh \in Seq(Key) /\ Waiting(m) \in Seq(Key)
    BY <1>1, ConcatProperties DEF Masters, Waiting
  <2>2. k \in Key
    BY <1>3, <2>1, MessageTaken
  <2>3. t \in TaskState /\ w \in Worker /\ QueueLoad(m, w) < QueueSize
    BY <1>1, <1>3, <2>2, WorkerChosen DEF Masters, Candidates
  <2>4. task \in FreeTask /\ x \in Down /\ x.type \notin TransferTypes
    BY <2>2, <2>3 DEF FreeTask, TaskRec, TaskState, Down, TransferTypes
  <2>5. AssignNext(s) = [m |-> m2, wire |-> Put(s.wire, w, x)]
    <3>1. AssignNext(s) = Send([m |-> m2, wire |-> s.wire], w, x)
      BY <1>3, Zenon DEF AssignNext
    <3>2. Send([m |-> m2, wire |-> s.wire], w, x) = [m |-> m2, wire |-> Put(s.wire, w, x)]
      <4> DEFINE wire == s.wire
      <4> HIDE DEF m2, k, t, w, x, wire
      <4>1. Send([m |-> m2, wire |-> wire], w, x) = [m |-> m2, wire |-> Put(wire, w, x)]
        BY DEF Send, Put
      <4> QED
        BY <4>1 DEF wire
    <3> QED
      BY <3>1, <3>2, Zenon
  <2> HIDE DEF k, t, w, task, x
  <2>6. (IF m.retry = <<>> THEN m.retry ELSE Tail(m.retry)) \in Seq(Key)
    BY <2>1, MessageTaken
  <2>7. (IF m.retry = <<>> THEN Tail(m.fresh) ELSE m.fresh) \in Seq(Key)
    <3>1. m.retry = <<>> => m.fresh # <<>>
      BY <1>3, <2>1, ConcatEmptySeq DEF Waiting
    <3> QED
      BY <2>1, <3>1, MessageTaken
  <2>8. m2 \in Masters
    <3>1. [t EXCEPT !.state = "SENT", !.owner = w, !.attempt = @ + 1] \in TaskState
      <4>1. t.attempt + 1 \in Nat
        BY <2>3 DEF TaskState
      <4> QED
        BY <2>3, <4>1 DEF TaskState
    <3>2. [m.task EXCEPT ![k] = [t EXCEPT !.state = "SENT", !.owner = w, !.attempt = @ + 1]] \in [Key -> TaskState]
      BY <1>1, <2>2, <3>1 DEF Masters
    <3>3. [m.pending EXCEPT ![w] = @ \cup {k}] \in [Worker -> SUBSET Key]
      BY <1>1, <2>2, <2>3 DEF Masters
    <3> QED
      BY <1>1, <2>3, <2>6, <2>7, <3>2, <3>3 DEF Masters
  <2>9. /\ m2.check = m.check /\ m2.checks = m.checks /\ m2.times = m.times /\ m2.transfers = m.transfers
        /\ m2.due = m.due /\ m2.pending = [m.pending EXCEPT ![w] = @ \cup {k}]
    BY <1>1 DEF Masters
  <2> HIDE DEF m2
  <2>10. \A u \in Worker : Cardinality(m2.pending[u]) <= QueueSize
    <3>1. \A u \in Worker : u # w => m2.pending[u] = m.pending[u]
      BY <1>1, <2>9 DEF Masters
    <3>2. m2.pending[w] = m.pending[w] \cup {k}
      BY <1>1, <2>3, <2>9 DEF Masters
    <3>3. Cardinality(m2.pending[w]) <= Cardinality(m.pending[w]) + 1 /\ Cardinality(m2.pending[w]) \in Nat
      <4>1. IsFiniteSet(m.pending[w]) /\ Cardinality(m.pending[w]) \in Nat
        BY <1>1, <2>3, LoadType
      <4>2. Cardinality(m.pending[w] \cup {k}) =
              IF k \in m.pending[w] THEN Cardinality(m.pending[w]) ELSE Cardinality(m.pending[w]) + 1
        BY <4>1, FS_AddElement
      <4> QED
        BY <3>2, <4>1, <4>2
    <3>4. Cardinality(m2.pending[w]) <= QueueSize
      <4>1. /\ m.size[w] \in Nat /\ Cardinality(m.pending[w]) \in Nat
            /\ m.size[w] + Cardinality(m.pending[w]) < QueueSize
        BY <1>1, <2>3, LoadType
      <4> QED
        BY <3>3, <4>1
    <3> QED
      BY <1>1, <3>1, <3>4 DEF MasterOK
  <2>11. MasterOK(m2)
    BY <1>1, <2>8, <2>9, <2>10 DEF MasterOK
  <2>12. SystemOK(m2, s.wire, up, wk, rq)
    BY <1>1, <2>9, <2>11, MasterChanged
  <2>13. SystemOK(m2, Put(s.wire, w, x), up, wk, rq)
    BY <2>3, <2>4, <2>12, DownSent
  <2>14. Put(s.wire, w, x) \in [Worker -> Seq(Down)]
    BY <2>13 DEF SystemOK, TypesOK
  <2> QED
    BY <1>1, <2>5, <2>8, <2>9, <2>13, <2>14 DEF Rounds
<1> QED
  BY <1>2, <1>3


(* A message is added to the wires of the workers in A. *)
Added(f, A, x) == [w \in Worker |-> IF w \in A THEN Append(f[w], x[w]) ELSE f[w]]

LEMMA WiresAdded ==
  ASSUME NEW f \in [Worker -> Seq(Down)], NEW A, NEW x \in [Worker -> Down],
         \A w \in A \cap Worker : x[w].type \in TransferTypes => x[w] \notin About(f[w], x[w].id),
         \A z \in Worker : NoTwins(f[z])
  PROVE  Added(f, A, x) \in [Worker -> Seq(Down)] /\ \A z \in Worker : NoTwins(Added(f, A, x)[z])
<1> DEFINE g == Added(f, A, x)
<1>1. ASSUME NEW z \in Worker PROVE g[z] \in Seq(Down) /\ NoTwins(g[z])
  <2>0. g[z] = IF z \in A THEN Append(f[z], x[z]) ELSE f[z]
    BY DEF Added
  <2> HIDE DEF g
  <2>1. CASE z \in A
    <3>1. x[z].type \in TransferTypes => x[z] \notin About(f[z], x[z].id)
      BY <2>1
    <3>2. f[z] \in Seq(Down) /\ x[z] \in Down /\ NoTwins(f[z])
      OBVIOUS
    <3>3. NoTwins(Append(f[z], x[z])) /\ Append(f[z], x[z]) \in Seq(Down)
      BY <3>1, <3>2, Sent, MessageSent
    <3> QED
      BY <2>0, <2>1, <3>3
  <2>2. CASE z \notin A
    BY <2>0, <2>2
  <2> QED
    BY <2>1, <2>2
<1>2. DOMAIN g = Worker /\ g = [z \in Worker |-> g[z]]
  BY DEF Added
<1> HIDE DEF g
<1>3. g \in [Worker -> Seq(Down)]
  BY <1>1, <1>2
<1> QED
  BY <1>1, <1>3 DEF g

Addressed(A, x, z, c) == z \in A /\ Concerns(x[z], c)

LEMMA AboutNotAdded ==
  ASSUME NEW f \in [Worker -> Seq(Down)], NEW A, NEW x \in [Worker -> Down], NEW z \in Worker, NEW c,
         ~Addressed(A, x, z, c)
  PROVE  About(Added(f, A, x)[z], c) = About(f[z], c)
<1>1. Added(f, A, x)[z] = IF z \in A THEN Append(f[z], x[z]) ELSE f[z]
  BY DEF Added
<1>2. f[z] \in Seq(Down) /\ x[z] \in Down
  OBVIOUS
<1>3. Range(Append(f[z], x[z])) = Range(f[z]) \cup {x[z]}
  BY <1>2, MessageSent
<1>4. CASE z \in A
  <2>1. ~Concerns(x[z], c)
    BY <1>4 DEF Addressed
  <2> QED
    BY <1>1, <1>3, <1>4, <2>1 DEF About
<1>5. CASE z \notin A
  BY <1>1, <1>5
<1> QED
  BY <1>4, <1>5

LEMMA NoneAdded ==
  ASSUME NEW f, NEW A, NEW x, NEW c, f \in [Worker -> Seq(Down)], x \in [Worker -> Down],
         \A z \in Worker : ~Addressed(A, x, z, c)
  PROVE  SameWires(f, Added(f, A, x), c)
<1> SUFFICES ASSUME NEW z \in Worker PROVE About(Added(f, A, x)[z], c) = About(f[z], c)
  BY DEF SameWires
<1> QED
  BY AboutNotAdded

LEMMA FinishKeeps ==
  ASSUME NEW m0, NEW up, NEW wk, NEW rq, NEW s \in Rounds(m0, up, wk, rq)
  PROVE  FinishIfReady(s) \in Rounds(m0, up, wk, rq)
<1> DEFINE m == s.m
           x == [w \in Worker |-> [type |-> "STOP"]]
           m2 == [m EXCEPT !.stopping = TRUE]
           g == Added(s.wire, Worker, x)
<1>1. /\ m.checks = m0.checks /\ m.due = m0.due
      /\ SystemOK(m, s.wire, up, wk, rq) /\ m \in Masters /\ MasterOK(m) /\ s.wire \in [Worker -> Seq(Down)]
  BY DEF Rounds, SystemOK, TypesOK
<1>2. FinishIfReady(s) = s \/ FinishIfReady(s) = [m |-> m2, wire |-> g]
  <2>1. g = [w \in Worker |-> Append(s.wire[w], [type |-> "STOP"])]
    BY DEF Added
  <2> HIDE DEF g
  <2> QED
    BY <2>1 DEF FinishIfReady
<1>3. x \in [Worker -> Down] /\ \A w \in Worker : x[w].type \notin TransferTypes
  BY DEF Down, TransferTypes
<1>4. \A z \in Worker : NoTwins(s.wire[z]) /\ NoTwins(up[z])
  BY <1>1 DEF SystemOK, TransfersOK
<1>5. m2 \in Masters /\ m2.due = m.due /\ m2.pending = m.pending /\ m2.checks = m.checks
      /\ m2.check = m.check /\ m2.times = m.times /\ m2.transfers = m.transfers
  BY <1>1 DEF Masters
<1> HIDE DEF x, m2, g
<1>6. g \in [Worker -> Seq(Down)] /\ \A z \in Worker : NoTwins(g[z])
  BY <1>1, <1>3, <1>4, WiresAdded DEF g
<1>7. ASSUME NEW c \in Check PROVE SameWires(s.wire, g, c)
  <2>1. \A z \in Worker : ~Addressed(Worker, x, z, c)
    BY <1>3 DEF Concerns, Addressed
  <2> QED
    BY <1>1, <1>3, <2>1, NoneAdded DEF g
<1>8. SystemOK(m, g, up, wk, rq)
  <2>1. TypesOK(m, g, up, wk, rq)
    BY <1>1, <1>6 DEF SystemOK, TypesOK
  <2>2. \A c \in Check : /\ SameMaster(m, m, c) /\ SameWires(s.wire, g, c)
                         /\ SameWires(up, up, c) /\ SameWorkers(wk, wk, c)
    BY <1>7, Unchanged
  <2> HIDE DEF m
  <2> QED
    BY <1>1, <1>4, <1>6, <2>1, <2>2, TransfersKept
<1>9. SystemOK(m2, g, up, wk, rq)
  <2>1. MasterOK(m2)
    BY <1>1, <1>5 DEF MasterOK
  <2> QED
    BY <1>5, <1>8, <2>1, MasterChanged
<1>10. [m |-> m2, wire |-> g] \in Rounds(m0, up, wk, rq)
  BY <1>1, <1>5, <1>6, <1>9 DEF Rounds
<1> QED
  BY <1>2, <1>10

LEMMA DistributeRound ==
  ASSUME NEW m0, NEW up, NEW wk, NEW rq, NEW s \in Rounds(m0, up, wk, rq)
  PROVE  Distribute(s) \in Rounds(m0, up, wk, rq)
<1> DEFINE A == Rounds(m0, up, wk, rq)
<1>1. s.m.retry \in Seq(Key) /\ s.m.fresh \in Seq(Key)
  BY DEF Rounds, Masters
<1>2. Len(Waiting(s.m)) \in Nat
  BY <1>1, ConcatProperties, LenProperties DEF Waiting
<1>3. \A z \in A : AssignNext(z) \in A
  BY AssignKeeps
<1> HIDE DEF A
<1>4. s \in A => Distribute(s) \in A
  BY <1>2, <1>3, DistributeKeeps
<1> QED
  BY <1>4 DEF A

(* The number of a worker that is asked. *)
LEMMA Numbered ==
  ASSUME NEW A, A \subseteq Worker
  PROVE  /\ IsFiniteSet(A) /\ Cardinality(A) \in Nat
         /\ \A w \in A : Cardinality({u \in A : u <= w}) \in 1..Cardinality(A)
         /\ \A w, z \in A : Cardinality({u \in A : u <= w}) = Cardinality({u \in A : u <= z}) => w = z
<1> DEFINE Upto(w) == {u \in A : u <= w}
<1>1. IsFiniteSet(Worker) /\ IsFiniteSet(A) /\ Cardinality(A) \in Nat /\ \A w \in A : w \in Nat
  <2>1. IsFiniteSet(Worker)
    BY FS_Interval DEF Worker
  <2>2. IsFiniteSet(A)
    BY <2>1, FS_Subset
  <2> QED
    BY <2>1, <2>2, FS_CardinalityType DEF Worker
<1>2. ASSUME NEW w \in A PROVE IsFiniteSet(Upto(w)) /\ Cardinality(Upto(w)) \in 1..Cardinality(A)
  <2>1. Upto(w) \subseteq A /\ w \in Upto(w)
    BY <1>1
  <2>2. IsFiniteSet(Upto(w)) /\ Cardinality(Upto(w)) <= Cardinality(A) /\ Cardinality(Upto(w)) \in Nat
    BY <1>1, <2>1, FS_Subset, FS_CardinalityType
  <2>3. Cardinality(Upto(w)) # 0
    BY <2>1, <2>2, FS_EmptySet
  <2> HIDE DEF Upto
  <2> QED
    BY <2>2, <2>3, <1>1
<1>3. ASSUME NEW w \in A, NEW z \in A, w < z PROVE Cardinality(Upto(w)) < Cardinality(Upto(z))
  <2>1. Upto(w) \subseteq Upto(z) /\ z \in Upto(z) /\ z \notin Upto(w)
    BY <1>1, <1>3
  <2>2. IsFiniteSet(Upto(z))
    BY <1>2
  <2> HIDE DEF Upto
  <2>3. Upto(w) # Upto(z)
    BY <2>1
  <2>4. Cardinality(Upto(w)) # Cardinality(Upto(z)) /\ Cardinality(Upto(w)) <= Cardinality(Upto(z))
    BY <2>1, <2>2, <2>3, FS_Subset
  <2> QED
    BY <1>2, <2>4
<1>4. ASSUME NEW w \in A, NEW z \in A, Cardinality(Upto(w)) = Cardinality(Upto(z)) PROVE w = z
  <2>1. Cardinality(Upto(w)) \in Nat /\ Cardinality(Upto(z)) \in Nat
    BY <1>2
  <2>2. ~(w < z) /\ ~(z < w)
    BY <1>3, <1>4, <2>1
  <2> QED
    BY <1>1, <2>2
<1> QED
  BY <1>1, <1>2, <1>4


LEMMA PhaseOK ==
  ASSUME NEW m, NEW down, NEW up, NEW wk, NEW rq, NEW c, NEW w \in Worker, NEW u \in Worker,
         \/ Early(m, down, up, wk, rq, c, w) \/ Timing(m, down, up, wk, rq, c, w, u)
         \/ Asking(m, down, up, wk, rq, c, w, u) \/ Given(m, down, up, wk, rq, c, w, u)
         \/ Dropped(m, down, up, wk, rq, c, w, u) \/ Done(m, down, up, wk, rq, c, w, u)
  PROVE  TransferOK(m, down, up, wk, rq, c)
BY Zenon DEF TransferOK

LEMMA NoPhase ==
  ASSUME NEW m, NEW down, NEW up, NEW wk, NEW rq, NEW c, Off(m, down, up, wk, rq, c)
  PROVE  TransferOK(m, down, up, wk, rq, c)
BY Zenon DEF TransferOK

(* A check that has no number yet. *)
LEMMA NewCheck ==
  ASSUME NEW m, NEW down, NEW up, NEW wk, NEW rq, NEW c \in Check, m.checks \in Nat, c > m.checks,
         TransferOK(m, down, up, wk, rq, c)
  PROVE  Off(m, down, up, wk, rq, c)
<1>1. ~(c <= m.checks)
  BY DEF Check
<1>2. SUFFICES ASSUME ~Off(m, down, up, wk, rq, c) PROVE FALSE
  OBVIOUS
<1>3. PICK w \in Worker, u \in Worker :
        \/ Early(m, down, up, wk, rq, c, w) \/ Timing(m, down, up, wk, rq, c, w, u)
        \/ Asking(m, down, up, wk, rq, c, w, u) \/ Given(m, down, up, wk, rq, c, w, u)
        \/ Dropped(m, down, up, wk, rq, c, w, u) \/ Done(m, down, up, wk, rq, c, w, u)
  BY <1>2, Zenon DEF TransferOK
<1>4. ~Owns(m, w, c) /\ ~Done(m, down, up, wk, rq, c, w, u)
  BY <1>1 DEF Owns, Done
<1> QED
  BY <1>3, <1>4 DEF Early, Timing, Asking, Given, Dropped

(* x is all there is of c on q. *)
Alone(q, c, x) == About(q, c) = {x}
Nothing(q, c) == About(q, c) = {}

LEMMA OneAdded ==
  ASSUME NEW f, NEW A, NEW x, NEW c, NEW z \in Worker, f \in [Worker -> Seq(Down)], x \in [Worker -> Down],
         Nothing(f[z], c)
  PROVE  /\ Addressed(A, x, z, c) => Alone(Added(f, A, x)[z], c, x[z])
         /\ ~Addressed(A, x, z, c) => Nothing(Added(f, A, x)[z], c)
<1>1. f[z] \in Seq(Down) /\ x[z] \in Down
  OBVIOUS
<1>2. Range(Append(f[z], x[z])) = Range(f[z]) \cup {x[z]}
  BY <1>1, MessageSent
<1>3. CASE Addressed(A, x, z, c)
  <2>1. Added(f, A, x)[z] = Append(f[z], x[z]) /\ Concerns(x[z], c)
    BY <1>3 DEF Added, Addressed
  <2> QED
    BY <1>2, <1>3, <2>1 DEF About, Alone, Nothing
<1>4. CASE ~Addressed(A, x, z, c)
  <2>1. About(Added(f, A, x)[z], c) = About(f[z], c)
    BY <1>4, AboutNotAdded
  <2> QED
    BY <1>4, <2>1 DEF Nothing
<1> QED
  BY <1>3, <1>4

AskId(m, asked) == [w \in asked |-> m.checks + Cardinality({u \in asked : u <= w})]
AskChecks(m, asked) == [w \in Worker |-> IF w \in asked THEN AskId(m, asked)[w] ELSE None]
AskMaster(m, asked) ==
  [m EXCEPT !.due = {}, !.checks = @ + Cardinality(asked), !.check = AskChecks(m, asked)]
AskMessages(m, asked) ==
  [w \in Worker |-> IF w \in asked THEN [type |-> "P2P_CHECK", id |-> AskId(m, asked)[w]]
                                    ELSE [type |-> "PEERS"]]

LEMMA LoadKeeps ==
  ASSUME NEW m, NEW down, NEW up, NEW wk, NEW rq, SystemOK(m, down, up, wk, rq), NoCheck(m),
         NEW asked, asked \subseteq m.due
  PROVE  SystemOK(AskMaster(m, asked), Added(down, asked, AskMessages(m, asked)), up, wk, rq)
<1> DEFINE Id == AskId(m, asked)
           m2 == AskMaster(m, asked)
           x == AskMessages(m, asked)
           chk == AskChecks(m, asked)
<1>a. Id = [w \in asked |-> m.checks + Cardinality({u \in asked : u <= w})]
  BY DEF AskId
<1>b. chk = [w \in Worker |-> IF w \in asked THEN Id[w] ELSE None]
  BY DEF AskChecks
<1>c. m2 = [m EXCEPT !.due = {}, !.checks = @ + Cardinality(asked), !.check = chk]
  BY DEF AskMaster
<1>d. x = [w \in Worker |-> IF w \in asked THEN [type |-> "P2P_CHECK", id |-> Id[w]]
                                             ELSE [type |-> "PEERS"]]
  BY DEF AskMessages
<1> HIDE DEF Id, m2, x, chk
<1> DEFINE g == Added(down, asked, x)
           n == Cardinality(asked)
           C == {c \in Check : c > m.checks}
<1>1. /\ MasterOK(m) /\ m \in Masters /\ m.due \subseteq Worker /\ m.checks \in Nat
      /\ down \in [Worker -> Seq(Down)] /\ m.checks + Cardinality(m.due) <= MaxEvents
  BY DEF SystemOK, TypesOK, MasterOK, Masters
<1>2. asked \subseteq Worker /\ IsFiniteSet(asked) /\ n \in Nat /\ n <= Cardinality(m.due) /\ Cardinality(m.due) \in Nat
  BY <1>1, Numbered, FS_Subset
<1>3. \A w \in asked : Id[w] \in (m.checks + 1)..(m.checks + n)
  <2> TAKE w \in asked
  <2>1. Cardinality({u \in asked : u <= w}) \in 1..n
    BY <1>2, Numbered
  <2> DEFINE a == Cardinality({u \in asked : u <= w})
             d == m.checks
  <2>2. Id[w] = d + a /\ a \in 1..n /\ d \in Nat
    BY <1>1, <1>a, <2>1
  <2> HIDE DEF a, n, d
  <2>3. d + a \in (d + 1)..(d + n)
    BY <1>2, <2>2
  <2> QED
    BY <2>2, <2>3 DEF d
<1>4. \A w, z \in asked : Id[w] = Id[z] => w = z
  <2> TAKE w, z \in asked
  <2>1. /\ Cardinality({u \in asked : u <= w}) \in 1..n /\ Cardinality({u \in asked : u <= z}) \in 1..n
        /\ Cardinality({u \in asked : u <= w}) = Cardinality({u \in asked : u <= z}) => w = z
    BY <1>2, Numbered
  <2> DEFINE a == Cardinality({u \in asked : u <= w})
             b == Cardinality({u \in asked : u <= z})
  <2>2. Id[w] = m.checks + a /\ Id[z] = m.checks + b /\ a \in Nat /\ b \in Nat
    BY <1>2, <1>a, <2>1
  <2> HIDE DEF a, b
  <2>3. Id[w] = Id[z] => a = b
    BY <1>1, <2>2
  <2> QED
    BY <2>1, <2>3 DEF a, b
<1>5. m.checks + n <= MaxEvents /\ \A w \in asked : Id[w] \in Check /\ Id[w] > m.checks /\ Id[w] <= m.checks + n
  <2> DEFINE d == m.checks
             e == Cardinality(m.due)
  <2>1. d \in Nat /\ e \in Nat /\ n \in Nat /\ n <= e /\ d + e <= MaxEvents /\ MaxEvents \in Nat
    BY <1>1, <1>2
  <2> HIDE DEF n, d, e
  <2>2. d + n <= MaxEvents /\ \A i \in (d + 1)..(d + n) : i \in 1..MaxEvents /\ i > d /\ i <= d + n
    BY <2>1
  <2>3. \A w \in asked : Id[w] \in (d + 1)..(d + n)
    BY <1>3 DEF d
  <2> QED
    BY <2>2, <2>3 DEF d, Check
<1> HIDE DEF n, g
<1>6. m2 \in Masters
  <2>1. chk \in [Worker -> Check \cup {None}]
    BY <1>5, <1>b
  <2>2. m.checks + n \in Nat
    BY <1>1, <1>2
  <2> QED
    BY <1>1, <1>c, <2>1, <2>2 DEF Masters, n
<1>7. /\ m2.due = {} /\ m2.checks = m.checks + n /\ m2.pending = m.pending /\ m2.times = m.times
      /\ m2.transfers = m.transfers /\ m2.check = chk
      /\ \A w \in Worker : m2.check[w] = IF w \in asked THEN Id[w] ELSE None
  BY <1>1, <1>b, <1>c DEF Masters, n
<1>8. MasterOK(m2)
  <2>1. Cardinality({}) = 0
    BY FS_EmptySet
  <2> QED
    BY <1>1, <1>2, <1>5, <1>6, <1>7, <2>1 DEF MasterOK
<1>9. x \in [Worker -> Down] /\ \A w \in asked : x[w] = [type |-> "P2P_CHECK", id |-> Id[w]] /\ x[w].type \in TransferTypes
      /\ x[w].id = Id[w]
  BY <1>2, <1>5, <1>d DEF Down, TransferTypes
<1>10. ASSUME NEW c \in C PROVE Off(m, down, up, wk, rq, c)
  <2>1. TransferOK(m, down, up, wk, rq, c) /\ c \in Check /\ c > m.checks
    BY DEF SystemOK, TransfersOK
  <2> QED
    BY <1>1, <2>1, NewCheck
<1>11. ASSUME NEW w \in asked PROVE x[w] \notin About(down[w], x[w].id)
  <2>1. Id[w] \in C
    BY <1>5
  <2>2. Off(m, down, up, wk, rq, Id[w])
    BY <1>10, <2>1
  <2> QED
    BY <1>2, <1>9, <2>2 DEF Off, Silent
<1>12. \A z \in Worker : NoTwins(down[z]) /\ NoTwins(up[z])
  BY DEF SystemOK, TransfersOK
<1>13. g \in [Worker -> Seq(Down)] /\ \A z \in Worker : NoTwins(g[z])
  <2>1. \A w \in asked \cap Worker : x[w].type \in TransferTypes => x[w] \notin About(down[w], x[w].id)
    BY <1>11
  <2> QED
    BY <1>1, <1>9, <1>12, <2>1, WiresAdded DEF g
<1>14. TypesOK(m2, g, up, wk, rq)
  BY <1>8, <1>13 DEF SystemOK, TypesOK
<1>15. \A z \in Worker, c \in Check : Addressed(asked, x, z, c) <=> z \in asked /\ Id[z] = c
  BY <1>9 DEF Addressed, Concerns
<1>16. ASSUME NEW c \in Check, \A z \in asked : Id[z] # c PROVE SameWires(down, g, c)
  <2>1. \A z \in Worker : ~Addressed(asked, x, z, c)
    BY <1>15, <1>16
  <2> QED
    BY <1>1, <1>9, <2>1, NoneAdded DEF g
<1>17. ASSUME NEW c \in Check \ C
       PROVE  SameMaster(m, m2, c) /\ SameWires(down, g, c)
  <2>1. ~(c > m.checks) /\ c # None /\ c \in Nat
    BY HeldChecks
  <2>2. ~(c > m2.checks)
    BY <1>1, <1>2, <1>7, <2>1
  <2>3. \A z \in asked : Id[z] # c
    BY <1>5, <2>1
  <2>4. \A z \in Worker : m2.check[z] # c /\ m.check[z] # c
    BY <1>7, <2>1, <2>3 DEF NoCheck
  <2> QED
    BY <1>7, <1>16, <2>1, <2>2, <2>3, <2>4 DEF SameMaster, Known
<1>18. ASSUME NEW c \in C PROVE TransferOK(m2, g, up, wk, rq, c)
  <2>1. Off(m, down, up, wk, rq, c) /\ c > m.checks /\ c # None /\ c \in Check /\ c \in Nat
    BY <1>10, HeldChecks
  <2>2. CASE \A z \in asked : Id[z] # c
    <3>1. SameWires(down, g, c) /\ \A z \in Worker : m2.check[z] # c
      BY <1>7, <1>16, <2>1, <2>2
    <3>2. Off(m2, g, up, wk, rq, c)
      BY <1>7, <2>1, <3>1 DEF Off, Silent, SameWires, Known
    <3> QED
      BY <3>2, NoPhase
  <2>3. ASSUME NEW w \in asked, Id[w] = c PROVE TransferOK(m2, g, up, wk, rq, c)
    <3>1. Owns(m2, w, c)
      <4>1. m2.check[w] = c /\ (\A z \in Worker : m2.check[z] = c => z = w) /\ c <= m2.checks
        BY <1>2, <1>4, <1>5, <1>7, <2>1, <2>3
      <4> QED
        BY <1>7, <2>1, <4>1 DEF Owns, Off
    <3>2. ASSUME NEW z \in Worker, z # w PROVE About(g[z], c) = {}
      <4>1. ~Addressed(asked, x, z, c)
        BY <1>4, <1>15, <2>1, <2>3, <3>2
      <4>2. Nothing(down[z], c)
        BY <2>1 DEF Off, Silent, Nothing
      <4> QED
        BY <1>1, <1>9, <4>1, <4>2, OneAdded DEF g, Nothing
    <3>3. About(g[w], c) = {[type |-> "P2P_CHECK", id |-> c]}
      <4>1. Addressed(asked, x, w, c) /\ w \in Worker
        BY <1>2, <1>15, <2>1, <2>3
      <4>2. Nothing(down[w], c)
        BY <2>1, <4>1 DEF Off, Silent, Nothing
      <4>3. Alone(g[w], c, x[w])
        BY <1>1, <1>9, <4>1, <4>2, OneAdded DEF g
      <4> QED
        BY <1>9, <2>3, <4>3 DEF Alone
    <3>4. Others(g, up, wk, c, w, w)
      BY <2>1, <3>2 DEF Others, Off, Silent
    <3>5. Early(m2, g, up, wk, rq, c, w)
      BY <1>2, <1>7, <2>1, <3>1, <3>3, <3>4 DEF Early, Off, Silent, Known, Outside
    <3> QED
      BY <1>2, <3>5, PhaseOK
  <2> QED
    BY <2>2, <2>3
<1> HIDE DEF C
<1>19. \A c \in Check \cap C : TransferOK(m2, g, up, wk, rq, c)
  BY <1>18
<1>20. \A c \in Check \ C : SameMaster(m, m2, c)
  BY <1>17
<1>21. \A c \in Check \ C : SameWires(down, g, c) /\ SameWires(up, up, c)
  BY <1>17, Unchanged
<1>22. \A c \in Check \ C : SameWorkers(wk, wk, c)
  BY Unchanged
<1>23. SystemOK(m2, g, up, wk, rq)
  BY <1>12, <1>13, <1>14, <1>19, <1>20, <1>21, <1>22, TransfersElsewhere
<1> QED
  BY <1>23 DEF g, m2, x


LEMMA LoadShape ==
  ASSUME NEW s
  PROVE  \/ CheckLoad(s) = s
         \/ /\ NoCheck(s.m)
            /\ \E asked \in SUBSET s.m.due :
                 CheckLoad(s) = [m |-> AskMaster(s.m, asked),
                                 wire |-> Added(s.wire, asked, AskMessages(s.m, asked))]
<1> DEFINE m == s.m
           f == s.wire
           asked == {w \in m.due : IsHeavy(m, w)}
           Id(w) == m.checks + Cardinality({u \in asked : u <= w})
           Off1 == m.stopping \/ AllDone(m) \/ m.ready # Worker \/ ~NoCheck(m)
<1>1. CheckLoad(s) =
        IF Off1 THEN s
        ELSE [m |-> [m EXCEPT !.due = {}, !.checks = @ + Cardinality(asked),
                              !.check = [w \in Worker |-> IF w \in asked THEN Id(w) ELSE None]],
              wire |-> [w \in Worker |->
                IF w \in asked THEN Append(f[w], [type |-> "P2P_CHECK", id |-> Id(w)]) ELSE f[w]]]
  BY DEF CheckLoad
<1>2. asked \in SUBSET m.due
  OBVIOUS
<1> DEFINE A == asked
<1>3. \A w \in A : Id(w) = AskId(m, A)[w]
  BY DEF AskId
<1> HIDE DEF Off1, A, Id
<1>4. [w \in Worker |-> IF w \in A THEN Id(w) ELSE None] = AskChecks(m, A)
  BY <1>3 DEF AskChecks
<1> HIDE DEF f
<1>5. [w \in Worker |-> IF w \in A THEN Append(f[w], [type |-> "P2P_CHECK", id |-> Id(w)]) ELSE f[w]]
        = Added(f, A, AskMessages(m, A))
  <2>1. ASSUME NEW w \in A, w \in Worker PROVE AskMessages(m, A)[w] = [type |-> "P2P_CHECK", id |-> Id(w)]
    BY <1>3, <2>1 DEF AskMessages
  <2>2. \A w \in Worker : (IF w \in A THEN Append(f[w], [type |-> "P2P_CHECK", id |-> Id(w)]) ELSE f[w])
                            = IF w \in A THEN Append(f[w], AskMessages(m, A)[w]) ELSE f[w]
    BY <2>1
  <2> QED
    BY <2>2 DEF Added
<1>6. CheckLoad(s) = s \/ CheckLoad(s) =
        [m |-> [m EXCEPT !.due = {}, !.checks = @ + Cardinality(A), !.check = AskChecks(m, A)],
         wire |-> Added(f, A, AskMessages(m, A))]
  BY <1>1, <1>4, <1>5 DEF A, f
<1>7. CheckLoad(s) = s \/ CheckLoad(s) = [m |-> AskMaster(m, A), wire |-> Added(f, A, AskMessages(m, A))]
  <2> HIDE DEF m
  <2> QED
    BY <1>6 DEF AskMaster
<1>8. CheckLoad(s) # s => NoCheck(m)
  <2>1. Off1 => CheckLoad(s) = s
    BY <1>1, Zenon
  <2> QED
    BY <2>1 DEF Off1
<1> QED
  BY <1>2, <1>7, <1>8 DEF A, f

(* The bound on what may still happen is a bound on the checks that become due. *)
LEMMA DueBound ==
  ASSUME master.checks \in Nat, faults \in Nat, master.due \subseteq Worker, NEW ticks, ticks \subseteq Worker,
         Cardinality(ticks) <= Left
  PROVE  /\ master.checks + Cardinality(master.due \cup ticks) <= MaxEvents
<1> DEFINE late == {e \in Worker \X (1..MaxEvents) : e[2] <= worker[e[1]].failures}
           a == master.checks
           b == Cardinality(master.due)
           d == Cardinality(ticks)
           e == Cardinality(late)
<1>1. IsFiniteSet(Worker) /\ IsFiniteSet(1..MaxEvents)
  <2>1. 1 \in Int /\ N \in Int /\ MaxEvents \in Int
    OBVIOUS
  <2> QED
    BY <2>1, FS_Interval DEF Worker
<1>2. IsFiniteSet(Worker \X (1..MaxEvents))
  BY <1>1, FS_Product
<1>3. late \subseteq Worker \X (1..MaxEvents)
  OBVIOUS
<1>4. Left = MaxEvents - faults - a - b - e
  BY DEF Left
<1> HIDE DEF late
<1>5. e \in Nat
  BY <1>2, <1>3, FS_Subset, FS_CardinalityType
<1>6. /\ IsFiniteSet(master.due) /\ IsFiniteSet(ticks) /\ b \in Nat /\ d \in Nat
      /\ IsFiniteSet(master.due \cap ticks)
  BY <1>1, FS_Subset, FS_CardinalityType
<1>7. Cardinality(master.due \cup ticks) = b + d - Cardinality(master.due \cap ticks)
  BY <1>6, FS_Union
<1>8. Cardinality(master.due \cap ticks) \in Nat
  BY <1>6, FS_CardinalityType
<1> DEFINE k == Cardinality(master.due \cap ticks)
           n == Cardinality(master.due \cup ticks)
<1>9. n = b + d - k /\ k \in Nat /\ d <= Left /\ a \in Nat
  BY <1>7, <1>8
<1> HIDE DEF a, b, d, e, k, n
<1>10. a + n <= MaxEvents
  BY <1>4, <1>5, <1>6, <1>9
<1> QED
  BY <1>10 DEF a, n

LEMMA MasterRound ==
  ASSUME faults \in Nat, MasterOK(master), NEW w \in Worker,
         NEW s \in Rounds(master, Took(toMaster, w), worker, requests), EndOfRound(w, s)
  PROVE  SystemOK(master', toWorker', toMaster', worker', requests') /\ faults' \in Nat
<1> DEFINE up == Took(toMaster, w)
           A == Rounds(master, up, worker, requests)
           d == IF s.m.stopping THEN s ELSE FinishIfReady(Distribute(s))
<1>1. d \in A
  BY DistributeRound, FinishKeeps
<1>2. /\ toMaster' = up /\ UNCHANGED <<worker, requests, faults, verdict>>
      /\ \E ticks \in SUBSET Due(d.m) :
           /\ Cardinality(ticks) <= Left
           /\ master' = CheckLoad(Tick(d, ticks)).m /\ toWorker' = CheckLoad(Tick(d, ticks)).wire
  BY DEF EndOfRound, Took
<1>3. PICK ticks \in SUBSET Due(d.m) :
           /\ Cardinality(ticks) <= Left
           /\ master' = CheckLoad(Tick(d, ticks)).m /\ toWorker' = CheckLoad(Tick(d, ticks)).wire
  BY <1>2
<1>4. ticks \subseteq Worker
  BY DEF Due
<1> HIDE DEF d
<1> DEFINE m1 == [d.m EXCEPT !.due = @ \cup ticks]
<1>5. Tick(d, ticks) = [m |-> m1, wire |-> d.wire]
  BY DEF Tick
<1>6. /\ d.m \in Masters /\ MasterOK(d.m) /\ d.m.checks = master.checks /\ d.m.due = master.due
      /\ SystemOK(d.m, d.wire, up, worker, requests)
  BY <1>1 DEF Rounds, SystemOK, TypesOK
<1>7. /\ m1 \in Masters /\ m1.due = master.due \cup ticks /\ m1.checks = master.checks
      /\ m1.check = d.m.check /\ m1.times = d.m.times /\ m1.transfers = d.m.transfers /\ m1.pending = d.m.pending
  BY <1>4, <1>6 DEF Masters
<1> HIDE DEF m1
<1>8. MasterOK(m1)
  <2>1. master.checks + Cardinality(master.due \cup ticks) <= MaxEvents
    <3>1. master.checks \in Nat /\ master.due \subseteq Worker
      BY DEF MasterOK, Masters
    <3> QED
      BY <1>3, <1>4, <3>1, DueBound
  <2> QED
    BY <1>6, <1>7, <2>1 DEF MasterOK
<1>9. SystemOK(m1, d.wire, up, worker, requests)
  BY <1>6, <1>7, <1>8, MasterChanged
<1> DEFINE s1 == [m |-> m1, wire |-> d.wire]
           s2 == CheckLoad(s1)
<1>10. SystemOK(s2.m, s2.wire, up, worker, requests)
  <2>0. s1.m = m1 /\ s1.wire = d.wire
    OBVIOUS
  <2> HIDE DEF s1
  <2>1. CASE s2 = s1
    BY <1>9, <2>0, <2>1
  <2>2. ASSUME NoCheck(s1.m), NEW asked \in SUBSET s1.m.due,
               s2 = [m |-> AskMaster(s1.m, asked),
                     wire |-> Added(s1.wire, asked, AskMessages(s1.m, asked))]
        PROVE  SystemOK(s2.m, s2.wire, up, worker, requests)
    <3>1. SystemOK(AskMaster(m1, asked), Added(d.wire, asked, AskMessages(m1, asked)), up, worker, requests)
      BY <1>9, <2>0, <2>2, LoadKeeps
    <3>2. s2.m = AskMaster(m1, asked) /\ s2.wire = Added(d.wire, asked, AskMessages(m1, asked))
      BY <2>0, <2>2
    <3> QED
      BY <3>1, <3>2
  <2> QED
    BY <2>1, <2>2, LoadShape
<1>11. master' = s2.m /\ toWorker' = s2.wire
  BY <1>3, <1>5
<1> HIDE DEF s2, up
<1> QED
  BY <1>2, <1>10, <1>11


-----------------------------------------------------------------------------
(* The messages that are not about a check or a transfer *)

Checked == SystemOK(master, toWorker, toMaster, worker, requests) /\ faults \in Nat
Similar(m, m2) ==
  /\ MasterOK(m2) /\ m2.due = m.due
  /\ m2.check = m.check /\ m2.checks = m.checks /\ m2.times = m.times /\ m2.transfers = m.transfers

LEMMA SimilarTwice ==
  ASSUME NEW m, NEW m2, NEW m3, Similar(m, m2), Similar(m2, m3)
  PROVE  Similar(m, m3)
BY DEF Similar

LEMMA Fields ==
  ASSUME NEW m \in Masters
  PROVE  /\ m.ready \in SUBSET Worker /\ m.task \in [Key -> TaskState] /\ m.fresh \in Seq(Key)
         /\ m.retry \in Seq(Key) /\ m.size \in [Worker -> Size] /\ m.pending \in [Worker -> SUBSET Key]
         /\ m.active \in [Worker -> Key \cup {None}] /\ m.tally \in [Worker -> Tallies]
         /\ m.check \in [Worker -> Check \cup {None}] /\ m.checks \in Nat
         /\ m.due \in SUBSET Worker /\ m.times \in SUBSET Times /\ m.transfers \in SUBSET Check
         /\ m.stopped \in SUBSET Worker
BY DEF Masters

LEMMA ReadySimilar ==
  ASSUME NEW m, MasterOK(m), NEW w \in Worker
  PROVE  Similar(m, [m EXCEPT !.ready = @ \cup {w}])
<1> DEFINE m2 == [m EXCEPT !.ready = @ \cup {w}]
<1>1. /\ m2 \in Masters /\ m2.due = m.due /\ m2.check = m.check /\ m2.checks = m.checks
      /\ m2.times = m.times /\ m2.transfers = m.transfers /\ m2.pending = m.pending
  BY DEF MasterOK, Masters
<1> HIDE DEF m2
<1>2. Similar(m, m2)
  BY <1>1 DEF MasterOK, Similar
<1> QED
  BY <1>2 DEF m2

(* A worker's slots that are set aside become fewer. *)
LEMMA FewerSlots ==
  ASSUME NEW m \in Masters, NEW w \in Worker, NEW set,
         \A u \in Worker : Cardinality(m.pending[u]) <= QueueSize,
         NEW p, p = [m.pending EXCEPT ![w] = @ \ set]
  PROVE  p \in [Worker -> SUBSET Key] /\ \A u \in Worker : Cardinality(p[u]) <= QueueSize
<1>1. m.pending \in [Worker -> SUBSET Key]
  BY Fields
<1>2. p \in [Worker -> SUBSET Key] /\ p[w] = m.pending[w] \ set /\ \A u \in Worker : u # w => p[u] = m.pending[u]
  BY <1>1
<1>3. IsFiniteSet(m.pending[w]) /\ Cardinality(m.pending[w]) \in Nat
  BY LoadType
<1>4. Cardinality(p[w]) <= Cardinality(m.pending[w]) /\ Cardinality(p[w]) \in Nat
  <2>1. p[w] \subseteq m.pending[w]
    BY <1>2
  <2> QED
    BY <1>3, <2>1, FS_Subset, FS_CardinalityType
<1>5. Cardinality(p[w]) <= QueueSize
  BY <1>3, <1>4
<1> QED
  BY <1>2, <1>5

LEMMA UpdateSimilar ==
  ASSUME NEW m, MasterOK(m), NEW w \in Worker, NEW x, x.size \in Size
  PROVE  /\ Similar(m, UpdateQueue(m, w, x)) /\ UpdateQueue(m, w, x) \in Masters
         /\ UpdateQueue(m, w, x).task = m.task /\ UpdateQueue(m, w, x).retry = m.retry
         /\ UpdateQueue(m, w, x).fresh = m.fresh /\ UpdateQueue(m, w, x).active = m.active
         /\ UpdateQueue(m, w, x).tally = m.tally /\ UpdateQueue(m, w, x).stopping = m.stopping
<1> DEFINE p == [m.pending EXCEPT ![w] = @ \ x.confirms]
           z == [m.size EXCEPT ![w] = x.size]
           m2 == [m EXCEPT !.size = z, !.pending = p]
<1>1. m \in Masters /\ \A u \in Worker : Cardinality(m.pending[u]) <= QueueSize
  BY DEF MasterOK
<1>2. UpdateQueue(m, w, x) = m2
  BY DEF UpdateQueue
<1>3. p \in [Worker -> SUBSET Key] /\ \A u \in Worker : Cardinality(p[u]) <= QueueSize
  BY <1>1, FewerSlots
<1>4. z \in [Worker -> Size]
  BY <1>1, Fields
<1> HIDE DEF p, z
<1>5. /\ m2 \in Masters /\ m2.due = m.due /\ m2.check = m.check /\ m2.checks = m.checks
      /\ m2.times = m.times /\ m2.transfers = m.transfers /\ m2.pending = p
      /\ m2.task = m.task /\ m2.retry = m.retry /\ m2.active = m.active /\ m2.tally = m.tally
      /\ m2.fresh = m.fresh /\ m2.stopping = m.stopping
  BY <1>1, <1>3, <1>4 DEF Masters
<1> HIDE DEF m2
<1>6. Similar(m, m2)
  BY <1>3, <1>5 DEF MasterOK, Similar
<1> QED
  BY <1>2, <1>5, <1>6


LEMMA AcceptSimilar ==
  ASSUME NEW m, MasterOK(m), NEW w \in Worker, NEW k \in Key, NEW n \in Nat
  PROVE  Similar(m, [m EXCEPT !.task[k].state = "ACCEPTED", !.tally[w].reassigned = @ + n])
<1> DEFINE a == [m.task EXCEPT ![k].state = "ACCEPTED"]
           b == [m.tally EXCEPT ![w].reassigned = @ + n]
           m2 == [m EXCEPT !.task = a, !.tally = b]
<1>1. m \in Masters /\ m.task \in [Key -> TaskState] /\ m.tally \in [Worker -> Tallies]
      /\ \A u \in Worker : Cardinality(m.pending[u]) <= QueueSize
  BY Fields DEF MasterOK
<1>2. a \in [Key -> TaskState]
  <2>1. [m.task[k] EXCEPT !.state = "ACCEPTED"] \in TaskState
    BY <1>1 DEF TaskState
  <2> QED
    BY <1>1, <2>1
<1>3. b \in [Worker -> Tallies]
  <2>1. m.tally[w].reassigned + n \in Nat
    BY <1>1 DEF Tallies
  <2>2. [m.tally[w] EXCEPT !.reassigned = @ + n] \in Tallies
    BY <1>1, <2>1 DEF Tallies
  <2> QED
    BY <1>1, <2>2
<1>4. [m EXCEPT !.task[k].state = "ACCEPTED", !.tally[w].reassigned = @ + n] = m2
  OBVIOUS
<1> HIDE DEF a, b
<1>5. /\ m2 \in Masters /\ m2.due = m.due /\ m2.check = m.check /\ m2.checks = m.checks
      /\ m2.times = m.times /\ m2.transfers = m.transfers /\ m2.pending = m.pending
  BY <1>1, <1>2, <1>3 DEF Masters
<1> HIDE DEF m2
<1>6. Similar(m, m2)
  BY <1>1, <1>5 DEF MasterOK, Similar
<1> QED
  BY <1>4, <1>6


LEMMA RejectSimilar ==
  ASSUME NEW m, MasterOK(m), NEW w \in Worker, NEW k \in Key, NEW t \in TaskState
  PROVE  Similar(m, [m EXCEPT
            !.task[k] = [t EXCEPT !.state = "WAITING", !.owner = None],
            !.pending[w] = @ \ {k}, !.retry = Append(@, k)])
<1> DEFINE a == [m.task EXCEPT ![k] = [t EXCEPT !.state = "WAITING", !.owner = None]]
           p == [m.pending EXCEPT ![w] = @ \ {k}]
           r == Append(m.retry, k)
           m2 == [m EXCEPT !.task = a, !.pending = p, !.retry = r]
<1>1. /\ m \in Masters /\ m.task \in [Key -> TaskState] /\ m.tally \in [Worker -> Tallies]
      /\ m.active \in [Worker -> Key \cup {None}] /\ m.retry \in Seq(Key)
      /\ \A u \in Worker : Cardinality(m.pending[u]) <= QueueSize
  BY Fields DEF MasterOK
<1>2. p \in [Worker -> SUBSET Key] /\ \A u \in Worker : Cardinality(p[u]) <= QueueSize
  BY <1>1, FewerSlots
<1>3. a \in [Key -> TaskState] /\ r \in Seq(Key)
  <2>1. [t EXCEPT !.state = "WAITING", !.owner = None] \in TaskState
    BY DEF TaskState
  <2> QED
    BY <1>1, <2>1, AppendProperties
<1>4. [m EXCEPT
            !.task[k] = [t EXCEPT !.state = "WAITING", !.owner = None],
            !.pending[w] = @ \ {k}, !.retry = Append(@, k)] = m2
  OBVIOUS
<1> HIDE DEF a, p, r
<1>5. /\ m2 \in Masters /\ m2.due = m.due /\ m2.check = m.check /\ m2.checks = m.checks
      /\ m2.times = m.times /\ m2.transfers = m.transfers /\ m2.pending = p
  BY <1>1, <1>2, <1>3 DEF Masters
<1> HIDE DEF m2
<1>6. Similar(m, m2)
  BY <1>1, <1>2, <1>5 DEF MasterOK, Similar
<1> QED
  BY <1>4, <1>6

LEMMA StartSimilar ==
  ASSUME NEW m, MasterOK(m), NEW w \in Worker, NEW k \in Key
  PROVE  Similar(m, [m EXCEPT !.task[k].state = "PROCESSING", !.active[w] = k])
<1> DEFINE a == [m.task EXCEPT ![k].state = "PROCESSING"]
           b == [m.active EXCEPT ![w] = k]
           m2 == [m EXCEPT !.task = a, !.active = b]
<1>1. /\ m \in Masters /\ m.task \in [Key -> TaskState] /\ m.tally \in [Worker -> Tallies]
      /\ m.active \in [Worker -> Key \cup {None}] /\ m.retry \in Seq(Key)
      /\ \A u \in Worker : Cardinality(m.pending[u]) <= QueueSize
  BY Fields DEF MasterOK
<1>2. b \in [Worker -> Key \cup {None}]
  BY <1>1
<1>3. a \in [Key -> TaskState]
  <2> DEFINE t == m.task[k]
  <2>0. t \in TaskState
    BY <1>1
  <2> HIDE DEF t
  <2>1. [t EXCEPT !.state = "PROCESSING"] \in TaskState
    BY <2>0 DEF TaskState
  <2> QED
    BY <1>1, <2>1 DEF t
<1>4. [m EXCEPT !.task[k].state = "PROCESSING", !.active[w] = k] = m2
  OBVIOUS
<1> HIDE DEF a, b
<1>5. /\ m2 \in Masters /\ m2.due = m.due /\ m2.check = m.check /\ m2.checks = m.checks
      /\ m2.times = m.times /\ m2.transfers = m.transfers /\ m2.pending = m.pending
  BY <1>1, <1>2, <1>3 DEF Masters
<1> HIDE DEF m2
<1>6. Similar(m, m2)
  BY <1>1, <1>2, <1>5 DEF MasterOK, Similar
<1> QED
  BY <1>4, <1>6

LEMMA SuccessSimilar ==
  ASSUME NEW m, MasterOK(m), NEW w \in Worker, NEW k \in Key
  PROVE  Similar(m, [m EXCEPT
            !.active[w] = None, !.task[k].state = "DONE", !.tally[w].success = @ + 1])
<1> DEFINE b == [m.active EXCEPT ![w] = None]
           a == [m.task EXCEPT ![k].state = "DONE"]
           d == [m.tally EXCEPT ![w].success = @ + 1]
           m2 == [m EXCEPT !.active = b, !.task = a, !.tally = d]
<1>1. /\ m \in Masters /\ m.task \in [Key -> TaskState] /\ m.tally \in [Worker -> Tallies]
      /\ m.active \in [Worker -> Key \cup {None}] /\ m.retry \in Seq(Key)
      /\ \A u \in Worker : Cardinality(m.pending[u]) <= QueueSize
  BY Fields DEF MasterOK
<1>2. b \in [Worker -> Key \cup {None}] /\ d \in [Worker -> Tallies]
  <2>1. m.tally[w].success + 1 \in Nat
    BY <1>1 DEF Tallies
  <2>2. [m.tally[w] EXCEPT !.success = @ + 1] \in Tallies
    BY <1>1, <2>1 DEF Tallies
  <2> QED
    BY <1>1, <2>2
<1>3. a \in [Key -> TaskState]
  <2> DEFINE t == m.task[k]
  <2>0. t \in TaskState
    BY <1>1
  <2> HIDE DEF t
  <2>1. [t EXCEPT !.state = "DONE"] \in TaskState
    BY <2>0 DEF TaskState
  <2> QED
    BY <1>1, <2>1 DEF t
<1>4. [m EXCEPT
            !.active[w] = None, !.task[k].state = "DONE", !.tally[w].success = @ + 1] = m2
  OBVIOUS
<1> HIDE DEF b, a, d
<1>5. /\ m2 \in Masters /\ m2.due = m.due /\ m2.check = m.check /\ m2.checks = m.checks
      /\ m2.times = m.times /\ m2.transfers = m.transfers /\ m2.pending = m.pending
  BY <1>1, <1>2, <1>3 DEF Masters
<1> HIDE DEF m2
<1>6. Similar(m, m2)
  BY <1>1, <1>2, <1>5 DEF MasterOK, Similar
<1> QED
  BY <1>4, <1>6

LEMMA FailureSimilar ==
  ASSUME NEW m, MasterOK(m), NEW w \in Worker, NEW k \in Key, NEW t \in TaskState
  PROVE  Similar(m, [m EXCEPT
            !.active[w] = None, !.tally[w].failures = @ + 1,
            !.task[k] = [t EXCEPT !.state = "WAITING", !.owner = None, !.failedAt = w],
            !.retry = Append(@, k)])
<1> DEFINE b == [m.active EXCEPT ![w] = None]
           d == [m.tally EXCEPT ![w].failures = @ + 1]
           a == [m.task EXCEPT ![k] = [t EXCEPT !.state = "WAITING", !.owner = None, !.failedAt = w]]
           r == Append(m.retry, k)
           m2 == [m EXCEPT !.active = b, !.tally = d, !.task = a, !.retry = r]
<1>1. /\ m \in Masters /\ m.task \in [Key -> TaskState] /\ m.tally \in [Worker -> Tallies]
      /\ m.active \in [Worker -> Key \cup {None}] /\ m.retry \in Seq(Key)
      /\ \A u \in Worker : Cardinality(m.pending[u]) <= QueueSize
  BY Fields DEF MasterOK
<1>2. b \in [Worker -> Key \cup {None}] /\ d \in [Worker -> Tallies]
  <2>1. m.tally[w].failures + 1 \in Nat
    BY <1>1 DEF Tallies
  <2>2. [m.tally[w] EXCEPT !.failures = @ + 1] \in Tallies
    BY <1>1, <2>1 DEF Tallies
  <2> QED
    BY <1>1, <2>2
<1>3. a \in [Key -> TaskState] /\ r \in Seq(Key)
  <2>1. [t EXCEPT !.state = "WAITING", !.owner = None, !.failedAt = w] \in TaskState
    BY DEF TaskState
  <2> QED
    BY <1>1, <2>1, AppendProperties
<1>4. [m EXCEPT
            !.active[w] = None, !.tally[w].failures = @ + 1,
            !.task[k] = [t EXCEPT !.state = "WAITING", !.owner = None, !.failedAt = w],
            !.retry = Append(@, k)] = m2
  OBVIOUS
<1> HIDE DEF b, d, a, r
<1>5. /\ m2 \in Masters /\ m2.due = m.due /\ m2.check = m.check /\ m2.checks = m.checks
      /\ m2.times = m.times /\ m2.transfers = m.transfers /\ m2.pending = m.pending
  BY <1>1, <1>2, <1>3 DEF Masters
<1> HIDE DEF m2
<1>6. Similar(m, m2)
  BY <1>1, <1>2, <1>5 DEF MasterOK, Similar
<1> QED
  BY <1>4, <1>6

LEMMA QuietTaken ==
  ASSUME Checked, NEW w \in Worker, toMaster[w] # <<>>, Head(toMaster[w]).type \notin TransferTypes,
         NEW m2, Similar(master, m2)
  PROVE  Now(m2) \in Rounds(master, Took(toMaster, w), worker, requests)
<1>1. SystemOK(master, toWorker, Took(toMaster, w), worker, requests)
  BY UpTaken DEF Checked
<1>2. SystemOK(m2, toWorker, Took(toMaster, w), worker, requests)
  BY <1>1, MasterChanged DEF Similar
<1>3. m2 \in Masters /\ toWorker \in [Worker -> Seq(Down)]
  BY DEF Similar, MasterOK, Checked, SystemOK, TypesOK
<1> QED
  BY <1>2, <1>3 DEF Rounds, Now, Similar

LEMMA QuietSent ==
  ASSUME NEW m0, NEW up, NEW wk, NEW rq, NEW s \in Rounds(m0, up, wk, rq), NEW w \in Worker,
         NEW x \in Down, x.type \notin TransferTypes
  PROVE  Send(s, w, x) \in Rounds(m0, up, wk, rq)
<1>1. s \in [m : Masters, wire : [Worker -> Seq(Down)]] /\ s.m.checks = m0.checks /\ s.m.due = m0.due
      /\ SystemOK(s.m, s.wire, up, wk, rq)
  BY DEF Rounds
<1>2. Send(s, w, x) = [m |-> s.m, wire |-> Put(s.wire, w, x)]
  <2> DEFINE a == s.m
             wire == s.wire
  <2>1. s = [m |-> a, wire |-> wire]
    BY <1>1
  <2> HIDE DEF a, wire
  <2>2. Send([m |-> a, wire |-> wire], w, x) = [m |-> a, wire |-> Put(wire, w, x)]
    BY DEF Send, Put
  <2> QED
    BY <2>1, <2>2 DEF a, wire
<1>3. SystemOK(s.m, Put(s.wire, w, x), up, wk, rq)
  BY <1>1, DownSent
<1>4. Put(s.wire, w, x) \in [Worker -> Seq(Down)]
  BY <1>3 DEF SystemOK, TypesOK
<1> QED
  BY <1>1, <1>2, <1>3, <1>4 DEF Rounds

LEMMA CheckedParts ==
  ASSUME Checked, NEW w \in Worker
  PROVE  /\ MasterOK(master) /\ master \in Masters /\ master.task \in [Key -> TaskState] /\ faults \in Nat
         /\ toMaster[w] # <<>> => Head(toMaster[w]) \in Up /\ Head(toMaster[w]) \in Range(toMaster[w])
         /\ toWorker[w] # <<>> => Head(toWorker[w]) \in Down /\ Head(toWorker[w]) \in Range(toWorker[w])
<1>1. toMaster[w] \in Seq(Up) /\ toWorker[w] \in Seq(Down) /\ MasterOK(master) /\ master \in Masters
  BY DEF Checked, SystemOK, TypesOK, MasterOK
<1>2. toMaster[w] # <<>> => Head(toMaster[w]) \in Up /\ Head(toMaster[w]) \in Range(toMaster[w])
  BY <1>1, MessageTaken
<1>3. toWorker[w] # <<>> => Head(toWorker[w]) \in Down /\ Head(toWorker[w]) \in Range(toWorker[w])
  BY <1>1, MessageTaken
<1> QED
  BY <1>1, <1>2, <1>3, Fields DEF Checked


LEMMA RaiseKeeps ==
  ASSUME Checked, NEW reason, Raise(reason)
  PROVE  Checked'
BY DEF Checked, Raise

LEMMA RoundKeeps ==
  ASSUME Checked, NEW w \in Worker, NEW s \in Rounds(master, Took(toMaster, w), worker, requests),
         EndOfRound(w, s)
  PROVE  Checked'
<1>1. faults \in Nat /\ MasterOK(master)
  BY DEF Checked, SystemOK, TypesOK
<1>2. SystemOK(master', toWorker', toMaster', worker', requests') /\ faults' \in Nat
  BY <1>1, MasterRound
<1> QED
  BY <1>2 DEF Checked

LEMMA ReadyKeeps ==
  ASSUME Checked, NEW w \in Worker, Ready(w)
  PROVE  Checked'
<1> DEFINE m2 == [master EXCEPT !.ready = @ \cup {w}]
<1>1. /\ toMaster[w] # <<>> /\ Head(toMaster[w]).type \notin TransferTypes
      /\ EndOfRound(w, Now(m2))
  BY DEF Ready, FromWorker, TransferTypes
<1>2. Similar(master, m2)
  BY CheckedParts, ReadySimilar
<1> HIDE DEF m2
<1> QED
  BY <1>1, <1>2, QuietTaken, RoundKeeps

LEMMA QueueStatusKeeps ==
  ASSUME Checked, NEW w \in Worker, QueueStatus(w)
  PROVE  Checked'
<1> DEFINE x == Head(toMaster[w])
           m2 == UpdateQueue(master, w, x)
<1>1. /\ toMaster[w] # <<>> /\ x.type = "QUEUE_STATUS" /\ x.type \notin TransferTypes
      /\ EndOfRound(w, Now(m2))
  BY DEF QueueStatus, FromWorker, TransferTypes
<1>2. Similar(master, m2)
  <2>1. x \in Up /\ MasterOK(master)
    BY <1>1, CheckedParts
  <2> HIDE DEF x
  <2>2. x.size \in Size
    BY <1>1, <2>1, UpShape
  <2> QED
    BY <2>1, <2>2, UpdateSimilar
<1> HIDE DEF m2
<1> QED
  BY <1>1, <1>2, QuietTaken, RoundKeeps

LEMMA TaskAckKeeps ==
  ASSUME Checked, NEW w \in Worker, TaskAck(w)
  PROVE  Checked'
<1> DEFINE x == Head(toMaster[w])
           m == UpdateQueue(master, w, x)
           k == x.task.key
           t == master.task[k]
           n == IF t.failedAt # None THEN 1 ELSE 0
           m1 == [m EXCEPT !.task[k].state = "ACCEPTED", !.tally[w].reassigned = @ + n]
           y == [type |-> "TASK_CONFIRMED", task |-> x.task]
           m2 == [m EXCEPT
                  !.task[k] = [t EXCEPT !.state = "WAITING", !.owner = None],
                  !.pending[w] = @ \ {k}, !.retry = Append(@, k)]
<1>1. /\ toMaster[w] # <<>> /\ x.type = "TASK_ACK" /\ x.type \notin TransferTypes
      /\ EndOfRound(w, Now(m)) \/ EndOfRound(w, Send(Now(m1), w, y)) \/ EndOfRound(w, Now(m2))
  <2>1. FromWorker(w, "TASK_ACK") /\ EndOfRound(w,
           IF t.owner # w \/ t.attempt # x.task.attempt \/ t.state # "SENT" THEN Now(m)
           ELSE IF x.accepted THEN Send(Now(m1), w, y) ELSE Now(m2))
    BY Zenon DEF TaskAck
  <2>2. toMaster[w] # <<>> /\ x.type = "TASK_ACK" /\ x.type \notin TransferTypes
    BY <2>1 DEF FromWorker, TransferTypes
  <2> HIDE DEF m, m1, m2, y, x, t
  <2> QED
    BY <2>1, <2>2
<1>2. /\ MasterOK(master) /\ x \in Up
  BY <1>1, CheckedParts
<1> HIDE DEF x
<1>3. /\ x.size \in Size /\ k \in Key /\ x.task \in FreeTask
  BY <1>1, <1>2, UpShape DEF FreeTask, TaskRec
<1> HIDE DEF k
<1>4. t \in TaskState /\ n \in Nat
  BY <1>2, <1>3, Fields DEF MasterOK
<1> HIDE DEF t, n
<1>5. Similar(master, m) /\ MasterOK(m)
  BY <1>2, <1>3, UpdateSimilar DEF Similar
<1> HIDE DEF m
<1>6. Similar(master, m1) /\ Similar(master, m2)
  <2>1. Similar(m, m1)
    BY <1>3, <1>4, <1>5, AcceptSimilar, Zenon
  <2>2. Similar(m, m2)
    BY <1>3, <1>4, <1>5, RejectSimilar, Zenon
  <2> HIDE DEF m1, m2
  <2> QED
    BY <1>5, <2>1, <2>2, SimilarTwice
<1>7. y \in Down /\ y.type \notin TransferTypes
  BY <1>3 DEF Down, TransferTypes
<1> HIDE DEF m1, m2, y
<1> DEFINE A == Rounds(master, Took(toMaster, w), worker, requests)
<1>8. Now(m) \in A /\ Now(m1) \in A /\ Now(m2) \in A
  BY <1>1, <1>5, <1>6, QuietTaken DEF x
<1>9. Send(Now(m1), w, y) \in A
  BY <1>7, <1>8, QuietSent
<1> QED
  BY <1>1, <1>8, <1>9, RoundKeeps

LEMMA ProcessingStartKeeps ==
  ASSUME Checked, NEW w \in Worker, ProcessingStart(w)
  PROVE  Checked'
<1> DEFINE x == Head(toMaster[w])
           m == UpdateQueue(master, w, x)
           k == x.task.key
           m1 == [m EXCEPT !.task[k].state = "PROCESSING", !.active[w] = k]
           y == [type |-> "PROCESS_ACK", task |-> x.task]
<1>1. /\ toMaster[w] # <<>> /\ x.type = "PROCESS_START" /\ x.type \notin TransferTypes
      /\ Raise("error") \/ EndOfRound(w, Send(Now(m1), w, y))
  BY DEF ProcessingStart, FromWorker, TransferTypes
<1>2. /\ MasterOK(master) /\ x \in Up
  BY <1>1, CheckedParts
<1> HIDE DEF x
<1>3. /\ x.size \in Size /\ k \in Key /\ x.task \in FreeTask
  BY <1>1, <1>2, UpShape DEF FreeTask, TaskRec
<1> HIDE DEF k
<1>5. Similar(master, m) /\ MasterOK(m)
  BY <1>2, <1>3, UpdateSimilar DEF Similar
<1> HIDE DEF m
<1>6. Similar(master, m1)
  <2>1. Similar(m, m1)
    BY <1>3, <1>5, StartSimilar, Zenon
  <2> HIDE DEF m1
  <2> QED
    BY <1>5, <2>1, SimilarTwice
<1>7. y \in Down /\ y.type \notin TransferTypes
  BY <1>3 DEF Down, TransferTypes
<1> HIDE DEF m1, y
<1> DEFINE A == Rounds(master, Took(toMaster, w), worker, requests)
<1>8. Now(m1) \in A
  BY <1>1, <1>6, QuietTaken DEF x
<1>9. Send(Now(m1), w, y) \in A
  BY <1>7, <1>8, QuietSent
<1> QED
  BY <1>1, <1>9, RoundKeeps, RaiseKeeps

LEMMA TaskResultKeeps ==
  ASSUME Checked, NEW w \in Worker, TaskResult(w)
  PROVE  Checked'
<1> DEFINE x == Head(toMaster[w])
           m == UpdateQueue(master, w, x)
           k == x.task.key
           t == master.task[k]
           m1 == [m EXCEPT
                  !.active[w] = None, !.task[k].state = "DONE", !.tally[w].success = @ + 1]
           m2 == [m EXCEPT
                  !.active[w] = None, !.tally[w].failures = @ + 1,
                  !.task[k] = [t EXCEPT !.state = "WAITING", !.owner = None, !.failedAt = w],
                  !.retry = Append(@, k)]
<1>1. /\ toMaster[w] # <<>> /\ x.type = "RESULT" /\ x.type \notin TransferTypes
      /\ \/ EndOfRound(w, Now(m)) \/ Raise("error")
         \/ EndOfRound(w, Now(m1)) \/ EndOfRound(w, Now(m2))
  <2>1. FromWorker(w, "RESULT") /\
         IF t.attempt # x.task.attempt \/ t.state \in {"DONE", "WAITING"}
         THEN EndOfRound(w, Now(m))
         ELSE IF t.owner # w THEN Raise("error")
         ELSE EndOfRound(w, IF x.success THEN Now(m1) ELSE Now(m2))
    BY Zenon DEF TaskResult
  <2>2. toMaster[w] # <<>> /\ x.type = "RESULT" /\ x.type \notin TransferTypes
    BY <2>1 DEF FromWorker, TransferTypes
  <2> HIDE DEF m, m1, m2, x, t
  <2> QED
    BY <2>1, <2>2
<1>2. /\ MasterOK(master) /\ x \in Up
  BY <1>1, CheckedParts
<1> HIDE DEF x
<1>3. /\ x.size \in Size /\ k \in Key /\ x.task \in FreeTask
  BY <1>1, <1>2, UpShape DEF FreeTask, TaskRec
<1> HIDE DEF k
<1>4. t \in TaskState
  BY <1>2, <1>3, Fields DEF MasterOK
<1> HIDE DEF t
<1>5. Similar(master, m) /\ MasterOK(m)
  BY <1>2, <1>3, UpdateSimilar DEF Similar
<1> HIDE DEF m
<1>6. Similar(master, m1) /\ Similar(master, m2)
  <2>1. Similar(m, m1)
    BY <1>3, <1>5, SuccessSimilar, Zenon
  <2>2. Similar(m, m2)
    BY <1>3, <1>4, <1>5, FailureSimilar, Zenon
  <2> HIDE DEF m1, m2
  <2> QED
    BY <1>5, <2>1, <2>2, SimilarTwice
<1> HIDE DEF m1, m2
<1> DEFINE A == Rounds(master, Took(toMaster, w), worker, requests)
<1>8. Now(m) \in A /\ Now(m1) \in A /\ Now(m2) \in A
  BY <1>1, <1>5, <1>6, QuietTaken DEF x
<1> QED
  BY <1>1, <1>8, RoundKeeps, RaiseKeeps


-----------------------------------------------------------------------------
(* What a message, a check thread or a request says about its transfer *)

LEMMA AllPhases ==
  ASSUME NEW m, NEW down, NEW up, NEW wk, NEW rq, NEW c, TransferOK(m, down, up, wk, rq, c),
         ~Off(m, down, up, wk, rq, c)
  PROVE  \E w, u \in Worker :
           \/ Early(m, down, up, wk, rq, c, w) \/ Timing(m, down, up, wk, rq, c, w, u)
           \/ Asking(m, down, up, wk, rq, c, w, u) \/ Given(m, down, up, wk, rq, c, w, u)
           \/ Dropped(m, down, up, wk, rq, c, w, u) \/ Done(m, down, up, wk, rq, c, w, u)
BY Zenon DEF TransferOK

UpMeans(m, down, up, wk, rq, c, z, x, v) ==
  \/ Timing(m, down, up, wk, rq, c, z, v) /\ x = TimeOf(c, z, v, "SEND")
  \/ /\ Asking(m, down, up, wk, rq, c, v, z) /\ Arriving(m, down, up, wk, rq, c, v, z)
     /\ x = TimeOf(c, v, z, "RECV")
  \/ Asking(m, down, up, wk, rq, c, z, v) /\ x = [type |-> "P2P_FAILURE", id |-> c, target |-> v]
  \/ /\ Given(m, down, up, wk, rq, c, z, v) /\ About(up[z], c) = {x}
     /\ x.type = "P2P_TRANSFER" /\ x.target = v /\ Range(x.tasks) = Held(wk[v], c)
  \/ /\ Dropped(m, down, up, wk, rq, c, z, v)
     /\ x \in {NoTransfer(c, FALSE), NoTransfer(c, TRUE)}

LEMMA UpSays ==
  ASSUME NEW m, NEW down, NEW up, NEW wk, NEW rq, NEW c \in Check, TransferOK(m, down, up, wk, rq, c),
         NEW z \in Worker, NEW x \in About(up[z], c)
  PROVE  \E v \in Worker : UpMeans(m, down, up, wk, rq, c, z, x, v)
<1>1. ~Off(m, down, up, wk, rq, c)
  BY DEF Off, Silent
<1>2. PICK w \in Worker, u \in Worker :
           \/ Early(m, down, up, wk, rq, c, w) \/ Timing(m, down, up, wk, rq, c, w, u)
           \/ Asking(m, down, up, wk, rq, c, w, u) \/ Given(m, down, up, wk, rq, c, w, u)
           \/ Dropped(m, down, up, wk, rq, c, w, u) \/ Done(m, down, up, wk, rq, c, w, u)
  BY <1>1, AllPhases
<1>3. ~Early(m, down, up, wk, rq, c, w)
  BY DEF Early, Others, Silent
<1>4. ~Done(m, down, up, wk, rq, c, w, u)
  BY DEF Done, Others, Silent
<1>5. CASE Timing(m, down, up, wk, rq, c, w, u)
  <2>1. z = w /\ x = TimeOf(c, z, u, "SEND")
    BY <1>5 DEF Timing, Others, Silent
  <2> QED
    BY <1>5, <2>1 DEF UpMeans
<1>6. CASE Asking(m, down, up, wk, rq, c, w, u)
  <2>1. z = w \/ z = u
    BY <1>6 DEF Asking, Others, Silent
  <2>2. CASE z = w
    <3>1. x = [type |-> "P2P_FAILURE", id |-> c, target |-> u]
      BY <1>6, <2>2 DEF Asking
    <3> QED
      BY <1>6, <2>2, <3>1 DEF UpMeans
  <2>3. CASE z = u
    <3>1. Arriving(m, down, up, wk, rq, c, w, u)
      BY <1>6, <2>3 DEF Asking, Offered, Answered, Silent
    <3>2. x = TimeOf(c, w, z, "RECV")
      BY <2>3, <3>1 DEF Arriving, Silent
    <3> QED
      BY <1>6, <2>3, <3>1, <3>2 DEF UpMeans
  <2> QED
    BY <2>1, <2>2, <2>3
<1>7. CASE Given(m, down, up, wk, rq, c, w, u)
  <2>1. z = w
    BY <1>7 DEF Given, Others, Silent
  <2>2. About(up[z], c) = {x} /\ x.type = "P2P_TRANSFER" /\ x.target = u /\ Range(x.tasks) = Held(wk[u], c)
    BY <1>7, <2>1 DEF Given
  <2> QED
    BY <1>7, <2>1, <2>2 DEF UpMeans
<1>8. CASE Dropped(m, down, up, wk, rq, c, w, u)
  <2>1. z = w
    BY <1>8 DEF Dropped
  <2>2. x \in {NoTransfer(c, FALSE), NoTransfer(c, TRUE)}
    BY <1>8, <2>1 DEF Dropped
  <2> QED
    BY <1>8, <2>1, <2>2 DEF UpMeans
<1> QED
  BY <1>2, <1>3, <1>4, <1>5, <1>6, <1>7, <1>8

DownMeans(m, down, up, wk, rq, c, z, x, v) ==
  \/ /\ Early(m, down, up, wk, rq, c, z) /\ x = [type |-> "P2P_CHECK", id |-> c]
     /\ wk[z].check.id # c
  \/ /\ Timing(m, down, up, wk, rq, c, z, v) /\ x = TimeAck(c, "SEND")
     /\ Known(m, c) = {Record(c, z, v, FALSE)}
  \/ /\ Asking(m, down, up, wk, rq, c, v, z) /\ Arriving(m, down, up, wk, rq, c, v, z)
     /\ x = TimeAck(c, "RECV")
  \/ Done(m, down, up, wk, rq, c, z, v) /\ c \in wk[z].sent /\ x = Recorded(c)
  \/ Done(m, down, up, wk, rq, c, v, z) /\ c \notin wk[z].events /\ x = Recorded(c)

LEMMA DownSays ==
  ASSUME NEW m, NEW down, NEW up, NEW wk, NEW rq, NEW c \in Check, TransferOK(m, down, up, wk, rq, c),
         NEW z \in Worker, NEW x \in About(down[z], c)
  PROVE  \E v \in Worker : DownMeans(m, down, up, wk, rq, c, z, x, v)
<1>1. ~Off(m, down, up, wk, rq, c)
  BY DEF Off, Silent
<1>2. PICK w \in Worker, u \in Worker :
           \/ Early(m, down, up, wk, rq, c, w) \/ Timing(m, down, up, wk, rq, c, w, u)
           \/ Asking(m, down, up, wk, rq, c, w, u) \/ Given(m, down, up, wk, rq, c, w, u)
           \/ Dropped(m, down, up, wk, rq, c, w, u) \/ Done(m, down, up, wk, rq, c, w, u)
  BY <1>1, AllPhases
<1>3. CASE Early(m, down, up, wk, rq, c, w)
  <2>1. z = w /\ x = [type |-> "P2P_CHECK", id |-> c] /\ wk[z].check.id # c
    BY <1>3 DEF Early, Others, Silent
  <2> QED
    BY <1>3, <2>1 DEF DownMeans
<1>4. CASE Done(m, down, up, wk, rq, c, w, u)
  <2>1. z = w \/ z = u
    BY <1>4 DEF Done, Others, Silent
  <2>2. CASE z = w
    <3>1. c \in wk[z].sent /\ x = Recorded(c)
      BY <1>4, <2>2 DEF Done
    <3> QED
      BY <1>4, <2>2, <3>1 DEF DownMeans
  <2>3. CASE z = u
    <3>1. c \notin wk[z].events /\ x = Recorded(c)
      BY <1>4, <2>3 DEF Done
    <3> QED
      BY <1>4, <2>3, <3>1 DEF DownMeans
  <2> QED
    BY <2>1, <2>2, <2>3
<1>5. CASE Timing(m, down, up, wk, rq, c, w, u)
  <2>1. z = w /\ x = TimeAck(c, "SEND") /\ Known(m, c) = {Record(c, z, u, FALSE)}
    BY <1>5 DEF Timing, Others, Silent
  <2> QED
    BY <1>5, <2>1 DEF DownMeans
<1>6. CASE Asking(m, down, up, wk, rq, c, w, u)
  <2>1. z = u
    BY <1>6 DEF Asking, Others, Silent
  <2>2. Arriving(m, down, up, wk, rq, c, w, u)
    BY <1>6, <2>1 DEF Asking, Offered, Answered, Silent
  <2>3. x = TimeAck(c, "RECV")
    BY <2>1, <2>2 DEF Arriving, Silent
  <2> QED
    BY <1>6, <2>1, <2>2, <2>3 DEF DownMeans
<1>7. ~Given(m, down, up, wk, rq, c, w, u) /\ ~Dropped(m, down, up, wk, rq, c, w, u)
  BY DEF Given, Dropped, Others, Silent
<1> QED
  BY <1>2, <1>3, <1>4, <1>5, <1>6, <1>7

LEMMA CheckSays ==
  ASSUME NEW m, NEW down, NEW up, NEW wk, NEW rq, NEW c \in Check, TransferOK(m, down, up, wk, rq, c),
         NEW z \in Worker, wk[z].check.id = c
  PROVE  \/ Early(m, down, up, wk, rq, c, z) /\ wk[z].check.pc \in {"begin", "query", "reserve"}
         \/ \E u \in Worker : Timing(m, down, up, wk, rq, c, z, u) /\ wk[z].check.pc = "time"
         \/ \E u \in Worker : /\ Asking(m, down, up, wk, rq, c, z, u)
                              /\ wk[z].check.pc \in {"transfer", "status", "known"}
                              /\ wk[z].check.target = u
<1>1. ~Off(m, down, up, wk, rq, c)
  BY DEF Off, Outside
<1>2. PICK w \in Worker, u \in Worker :
           \/ Early(m, down, up, wk, rq, c, w) \/ Timing(m, down, up, wk, rq, c, w, u)
           \/ Asking(m, down, up, wk, rq, c, w, u) \/ Given(m, down, up, wk, rq, c, w, u)
           \/ Dropped(m, down, up, wk, rq, c, w, u) \/ Done(m, down, up, wk, rq, c, w, u)
  BY <1>1, AllPhases
<1>3. CASE Early(m, down, up, wk, rq, c, w)
  BY <1>3 DEF Early, Others, Outside
<1>5. CASE Timing(m, down, up, wk, rq, c, w, u)
  <2>1. z = w /\ wk[z].check.pc = "time"
    BY <1>5 DEF Timing, Others, Outside
  <2> QED
    BY <1>5, <2>1
<1>6. CASE Asking(m, down, up, wk, rq, c, w, u)
  <2>1. z = w /\ wk[z].check.pc \in {"transfer", "status", "known"} /\ wk[z].check.target = u
    BY <1>6 DEF Asking, Others, Outside
  <2> QED
    BY <1>6, <2>1
<1>7. /\ ~Given(m, down, up, wk, rq, c, w, u) /\ ~Dropped(m, down, up, wk, rq, c, w, u)
      /\ ~Done(m, down, up, wk, rq, c, w, u)
  BY DEF Given, Dropped, Done, Others, Outside
<1> QED
  BY <1>2, <1>3, <1>5, <1>6, <1>7

LEMMA RequestSays ==
  ASSUME NEW m, NEW down, NEW up, NEW wk, NEW rq, NEW c \in Check, TransferOK(m, down, up, wk, rq, c),
         NEW r \in Asks(rq, c)
  PROVE  /\ Asking(m, down, up, wk, rq, c, r.source, r.target)
         /\ Offered(m, down, up, wk, rq, c, r.source, r.target)
         /\ r.source \in Worker /\ r.target \in Worker /\ Range(r.tasks) = Held(wk[r.source], c)
<1>1. ~Off(m, down, up, wk, rq, c)
  BY DEF Off
<1>2. PICK w \in Worker, u \in Worker :
           \/ Early(m, down, up, wk, rq, c, w) \/ Timing(m, down, up, wk, rq, c, w, u)
           \/ Asking(m, down, up, wk, rq, c, w, u) \/ Given(m, down, up, wk, rq, c, w, u)
           \/ Dropped(m, down, up, wk, rq, c, w, u) \/ Done(m, down, up, wk, rq, c, w, u)
  BY <1>1, AllPhases
<1>3. Asking(m, down, up, wk, rq, c, w, u)
  BY <1>2 DEF Early, Timing, Given, Dropped, Done
<1>4. Offered(m, down, up, wk, rq, c, w, u)
  BY <1>3 DEF Asking, Arriving, Answered
<1>5. r.source = w /\ r.target = u /\ Range(r.tasks) = Held(wk[w], c)
  BY <1>4 DEF Offered
<1> QED
  BY <1>3, <1>4, <1>5

LEMMA ReceptionSays ==
  ASSUME NEW m, NEW down, NEW up, NEW wk, NEW rq, NEW c \in Check, TransferOK(m, down, up, wk, rq, c),
         NEW z \in Worker, Receiving(wk[z], c)
  PROVE  \E w \in Worker : Asking(m, down, up, wk, rq, c, w, z) /\ Arriving(m, down, up, wk, rq, c, w, z)
<1>1. ~Off(m, down, up, wk, rq, c)
  BY DEF Off, Outside, Unmarked
<1>2. PICK w \in Worker, u \in Worker :
           \/ Early(m, down, up, wk, rq, c, w) \/ Timing(m, down, up, wk, rq, c, w, u)
           \/ Asking(m, down, up, wk, rq, c, w, u) \/ Given(m, down, up, wk, rq, c, w, u)
           \/ Dropped(m, down, up, wk, rq, c, w, u) \/ Done(m, down, up, wk, rq, c, w, u)
  BY <1>1, AllPhases
<1>3. Asking(m, down, up, wk, rq, c, w, u)
  BY <1>2 DEF Early, Timing, Given, Dropped, Done, Others, Outside, Unmarked
<1>4. z = u
  BY <1>3 DEF Asking, Others, Outside, Unmarked
<1>5. Arriving(m, down, up, wk, rq, c, w, u)
  BY <1>3, <1>4 DEF Asking, Offered, Answered
<1> QED
  BY <1>3, <1>4, <1>5


-----------------------------------------------------------------------------
(* A step of the transfer of one check *)

SameBut(m, down, up, wk, rq, m2, down2, up2, wk2, rq2, c) == \A d \in Check \ {c} :
  /\ SameMaster(m, m2, d) /\ SameWires(down, down2, d) /\ SameWires(up, up2, d)
  /\ SameWorkers(wk, wk2, d) /\ Asks(rq2, d) = Asks(rq, d)

LEMMA OneTransfer ==
  ASSUME NEW m, NEW down, NEW up, NEW wk, NEW rq, SystemOK(m, down, up, wk, rq),
         NEW m2, NEW down2, NEW up2, NEW wk2, NEW rq2, TypesOK(m2, down2, up2, wk2, rq2), NEW c,
         \A w \in Worker : NoTwins(down2[w]), \A w \in Worker : NoTwins(up2[w]),
         TransferOK(m2, down2, up2, wk2, rq2, c),
         SameBut(m, down, up, wk, rq, m2, down2, up2, wk2, rq2, c)
  PROVE  SystemOK(m2, down2, up2, wk2, rq2)
<1> DEFINE C == {c}
<1>1. \A d \in Check \cap C : TransferOK(m2, down2, up2, wk2, rq2, d)
  OBVIOUS
<1>2. \A w \in Worker : NoTwins(down2[w]) /\ NoTwins(up2[w])
  OBVIOUS
<1>3. \A d \in Check \ C : /\ SameMaster(m, m2, d) /\ SameWires(down, down2, d)
                           /\ SameWires(up, up2, d) /\ SameWorkers(wk, wk2, d) /\ Asks(rq2, d) = Asks(rq, d)
  BY DEF SameBut
<1> HIDE DEF C
<1> QED
  BY <1>1, <1>2, <1>3, TransfersElsewhere

LEMMA OneConcern ==
  ASSUME NEW x, NEW c, NEW d, Concerns(x, c), d # c
  PROVE  ~Concerns(x, d)
BY DEF Concerns

LEMMA TookConcern ==
  ASSUME NEW S, NEW f \in [Worker -> Seq(S)], NEW w \in Worker, f[w] # <<>>, \A z \in Worker : NoTwins(f[z]),
         NEW c, Concerns(Head(f[w]), c)
  PROVE  /\ Took(f, w) \in [Worker -> Seq(S)] /\ \A z \in Worker : NoTwins(Took(f, w)[z])
         /\ \A z \in Worker : z # w => Took(f, w)[z] = f[z]
         /\ \A d : d # c => SameWires(f, Took(f, w), d)
         /\ Alone(f[w], c, Head(f[w])) => Nothing(Took(f, w)[w], c)
         /\ Head(f[w]) \in About(f[w], c) /\ Head(f[w]) \in S
<1> DEFINE g == Took(f, w)
<1>1. /\ g \in [Worker -> Seq(S)] /\ \A z \in Worker : NoTwins(g[z])
      /\ \A z \in Worker : z # w => g[z] = f[z]
      /\ Head(f[w]) \in S /\ Head(f[w]) \in Range(f[w])
  BY WireTaken
<1>2. \A d : About(g[w], d) = About(f[w], d) \ {Head(f[w])}
  BY AboutTaken
<1> HIDE DEF g
<1>3. ASSUME NEW d, d # c PROVE SameWires(f, g, d)
  <2>1. Head(f[w]) \notin About(f[w], d)
    BY <1>3, OneConcern DEF About
  <2>2. About(g[w], d) = About(f[w], d)
    BY <1>2, <2>1
  <2> QED
    BY <1>1, <2>2 DEF SameWires
<1>4. Alone(f[w], c, Head(f[w])) => Nothing(g[w], c)
  BY <1>2 DEF Alone, Nothing
<1>5. Head(f[w]) \in About(f[w], c)
  BY <1>1 DEF About
<1> QED
  BY <1>1, <1>3, <1>4, <1>5 DEF g

LEMMA SentNew ==
  ASSUME NEW S, NEW q \in Seq(S), NEW x \in S, NoTwins(q), x \notin Range(q)
  PROVE  NoTwins(Append(q, x))
<1>1. \A i \in DOMAIN Append(q, x) : i \in DOMAIN q \/ i = Len(q) + 1
  BY MessageSent
<1>2. \A i \in DOMAIN q : q[i] \in Range(q) /\ Append(q, x)[i] = q[i]
  BY MessageSent DEF Range
<1> SUFFICES ASSUME NEW i \in DOMAIN Append(q, x), NEW j \in DOMAIN Append(q, x),
                    Append(q, x)[i] = Append(q, x)[j], Append(q, x)[i].type \in TransferTypes
             PROVE  i = j
  BY DEF NoTwins
<1> QED
  BY <1>1, <1>2, MessageSent DEF NoTwins

LEMMA PutConcern ==
  ASSUME NEW S, NEW f \in [Worker -> Seq(S)], NEW w \in Worker, NEW x \in S, \A z \in Worker : NoTwins(f[z]),
         NEW c, Concerns(x, c), Nothing(f[w], c)
  PROVE  /\ Put(f, w, x) \in [Worker -> Seq(S)] /\ \A z \in Worker : NoTwins(Put(f, w, x)[z])
         /\ \A z \in Worker : z # w => Put(f, w, x)[z] = f[z]
         /\ \A d : d # c => SameWires(f, Put(f, w, x), d)
         /\ Alone(Put(f, w, x)[w], c, x)
<1> DEFINE g == Put(f, w, x)
<1>1. x \notin Range(f[w]) /\ f[w] \in Seq(S)
  BY DEF Nothing, About
<1>1a. Append(f[w], x) \in Seq(S) /\ Range(Append(f[w], x)) = Range(f[w]) \cup {x}
  BY <1>1, MessageSent
<1>1b. NoTwins(Append(f[w], x))
  BY <1>1, SentNew
<1>1c. g \in [Worker -> Seq(S)] /\ g[w] = Append(f[w], x) /\ \A z \in Worker : z # w => g[z] = f[z]
  BY <1>1a DEF Put
<1>2. /\ g \in [Worker -> Seq(S)] /\ \A z \in Worker : NoTwins(g[z])
      /\ \A z \in Worker : z # w => g[z] = f[z]
      /\ Range(g[w]) = Range(f[w]) \cup {x}
  <2> HIDE DEF g
  <2> QED
    BY <1>1a, <1>1b, <1>1c
<1> HIDE DEF g
<1>3. ASSUME NEW d, d # c PROVE SameWires(f, g, d)
  <2>1. ~Concerns(x, d)
    BY <1>3, OneConcern
  <2>2. About(g[w], d) = About(f[w], d)
    BY <1>2, <2>1 DEF About
  <2> QED
    BY <1>2, <2>2 DEF SameWires
<1>4. Alone(g[w], c, x)
  BY <1>2 DEF Alone, Nothing, About
<1> QED
  BY <1>2, <1>3, <1>4 DEF g


Clean(f) == \A z \in Worker : NoTwins(f[z])
HeadConcerns(f, w, c) == f[w] # <<>> /\ Concerns(Head(f[w]), c)
OneWire(S, f, g, w, c) ==
  /\ g \in [Worker -> Seq(S)] /\ Clean(g) /\ \A z \in Worker : z # w => g[z] = f[z]
  /\ \A d : d # c => SameWires(f, g, d)

LEMMA TookOne ==
  ASSUME NEW S, NEW f, NEW w \in Worker, NEW c, f \in [Worker -> Seq(S)], Clean(f), HeadConcerns(f, w, c)
  PROVE  /\ OneWire(S, f, Took(f, w), w, c) /\ Head(f[w]) \in About(f[w], c) /\ Head(f[w]) \in S
         /\ Alone(f[w], c, Head(f[w])) => Nothing(Took(f, w)[w], c)
<1>1. f[w] # <<>> /\ Concerns(Head(f[w]), c) /\ \A z \in Worker : NoTwins(f[z])
  BY DEF Clean, HeadConcerns
<1> HIDE DEF Took
<1>2. /\ Took(f, w) \in [Worker -> Seq(S)] /\ \A z \in Worker : NoTwins(Took(f, w)[z])
      /\ \A z \in Worker : z # w => Took(f, w)[z] = f[z]
      /\ \A d : d # c => SameWires(f, Took(f, w), d)
      /\ Alone(f[w], c, Head(f[w])) => Nothing(Took(f, w)[w], c)
      /\ Head(f[w]) \in About(f[w], c) /\ Head(f[w]) \in S
  BY <1>1, TookConcern, Zenon
<1> QED
  BY <1>2 DEF OneWire, Clean

LEMMA PutOne ==
  ASSUME NEW S, NEW f, NEW w \in Worker, NEW c, NEW x \in S, f \in [Worker -> Seq(S)], Clean(f),
         Concerns(x, c), Nothing(f[w], c)
  PROVE  OneWire(S, f, Put(f, w, x), w, c) /\ Alone(Put(f, w, x)[w], c, x)
<1>1. \A z \in Worker : NoTwins(f[z])
  BY DEF Clean
<1>2. /\ Put(f, w, x) \in [Worker -> Seq(S)] /\ \A z \in Worker : NoTwins(Put(f, w, x)[z])
      /\ \A z \in Worker : z # w => Put(f, w, x)[z] = f[z]
      /\ \A d : d # c => SameWires(f, Put(f, w, x), d)
      /\ Alone(Put(f, w, x)[w], c, x)
  BY <1>1, PutConcern, Zenon
<1> QED
  BY <1>2 DEF OneWire, Clean

LEMMA TransferRound ==
  ASSUME Checked, NEW w \in Worker, toMaster[w] # <<>>, NEW c \in Check, HeadConcerns(toMaster, w, c),
         NEW m2, MasterOK(m2), m2.due = master.due, m2.checks = master.checks,
         \A d \in Check : d # c => SameMaster(master, m2, d),
         NEW down2, down2 \in [Worker -> Seq(Down)], \A z \in Worker : NoTwins(down2[z]),
         \A d : d # c => SameWires(toWorker, down2, d),
         TransferOK(m2, down2, Took(toMaster, w), worker, requests, c)
  PROVE  [m |-> m2, wire |-> down2] \in Rounds(master, Took(toMaster, w), worker, requests)
<1> DEFINE up2 == Took(toMaster, w)
<1>1. /\ SystemOK(master, toWorker, toMaster, worker, requests)
      /\ TypesOK(master, toWorker, toMaster, worker, requests)
      /\ toMaster \in [Worker -> Seq(Up)] /\ Clean(toMaster)
  BY DEF Checked, SystemOK, TypesOK, TransfersOK, Clean
<1>2. /\ up2 \in [Worker -> Seq(Up)] /\ \A z \in Worker : NoTwins(up2[z])
      /\ \A d : d # c => SameWires(toMaster, up2, d)
  BY <1>1, TookOne DEF OneWire, Clean
<1> HIDE DEF up2
<1>3. TypesOK(m2, down2, up2, worker, requests)
  BY <1>1, <1>2 DEF TypesOK
<1>4. SameBut(master, toWorker, toMaster, worker, requests, m2, down2, up2, worker, requests, c)
  BY <1>2, Unchanged DEF SameBut
<1>5. SystemOK(m2, down2, up2, worker, requests)
  <2>1. TransferOK(m2, down2, up2, worker, requests, c)
    BY DEF up2
  <2> QED
    BY <1>1, <1>2, <1>3, <1>4, <2>1, OneTransfer
<1>6. m2 \in Masters
  BY DEF MasterOK
<1> QED
  BY <1>5, <1>6 DEF Rounds, up2

LEMMA TimesSet ==
  ASSUME NEW m, MasterOK(m), NEW tm \in SUBSET Times, NEW m2, m2 = [m EXCEPT !.times = tm]
  PROVE  /\ MasterOK(m2) /\ m2.due = m.due /\ m2.checks = m.checks /\ m2.check = m.check
         /\ m2.times = tm /\ m2.transfers = m.transfers /\ m2.stopping = m.stopping
<1>1. /\ m2 \in Masters /\ m2.due = m.due /\ m2.checks = m.checks /\ m2.check = m.check
      /\ m2.times = tm /\ m2.transfers = m.transfers /\ m2.pending = m.pending /\ m2.stopping = m.stopping
  BY DEF MasterOK, Masters
<1> QED
  BY <1>1 DEF MasterOK

(* The wires to the workers when a part of the master's handler sends one message. *)
LEMMA Answering ==
  ASSUME Checked, NEW w \in Worker, NEW x \in Down, NEW c, Concerns(x, c), Nothing(toWorker[w], c)
  PROVE  OneWire(Down, toWorker, Put(toWorker, w, x), w, c) /\ Alone(Put(toWorker, w, x)[w], c, x)
<1>1. toWorker \in [Worker -> Seq(Down)] /\ Clean(toWorker)
  BY DEF Checked, SystemOK, TypesOK, TransfersOK, Clean
<1> QED
  BY <1>1, PutOne

LEMMA Handling ==
  ASSUME Checked, NEW w \in Worker, toMaster[w] # <<>>, Head(toMaster[w]).type \in TransferTypes
  PROVE  LET x == Head(toMaster[w])
             c == x.id
             g == Took(toMaster, w)
         IN  /\ x \in Up /\ c \in Check /\ HeadConcerns(toMaster, w, c) /\ x \in About(toMaster[w], c)
             /\ TransferOK(master, toWorker, toMaster, worker, requests, c)
             /\ \A z \in Worker : z # w => g[z] = toMaster[z]
             /\ About(toMaster[w], c) = {x} => About(g[w], c) = {}
<1> DEFINE x == Head(toMaster[w])
           c == x.id
<1>1. /\ toMaster \in [Worker -> Seq(Up)] /\ Clean(toMaster)
  BY DEF Checked, SystemOK, TypesOK, TransfersOK, Clean
<1>2. x \in Up /\ Concerns(x, c)
  BY CheckedParts DEF Concerns
<1> HIDE DEF x
<1>3. c \in Check
  BY <1>2, UpShape DEF TransferTypes, Concerns
<1>4. TransferOK(master, toWorker, toMaster, worker, requests, c)
  BY <1>3 DEF Checked, SystemOK, TransfersOK
<1> HIDE DEF c
<1>5. HeadConcerns(toMaster, w, c)
  BY <1>2 DEF x, HeadConcerns
<1>5a. /\ OneWire(Up, toMaster, Took(toMaster, w), w, c) /\ Head(toMaster[w]) \in About(toMaster[w], c)
       /\ Alone(toMaster[w], c, Head(toMaster[w])) => Nothing(Took(toMaster, w)[w], c)
  BY <1>1, <1>5, TookOne
<1>6. /\ \A z \in Worker : z # w => Took(toMaster, w)[z] = toMaster[z]
      /\ About(toMaster[w], c) = {x} => About(Took(toMaster, w)[w], c) = {}
      /\ x \in About(toMaster[w], c)
  BY <1>5a DEF Alone, Nothing, x, OneWire
<1> QED
  BY <1>2, <1>3, <1>4, <1>5, <1>6 DEF x, c


RecordMaster(m, c, w, u, arrived) ==
  [m EXCEPT !.times = (@ \ Known(m, c)) \cup {Record(c, w, u, arrived)}]

LEMMA RecordKeeps ==
  ASSUME Checked, NEW c \in Check, NEW w \in Worker, NEW u \in Worker, NEW arrived \in BOOLEAN
  PROVE  LET m2 == RecordMaster(master, c, w, u, arrived)
         IN  /\ MasterOK(m2) /\ m2.due = master.due /\ m2.checks = master.checks
             /\ m2.check = master.check /\ m2.transfers = master.transfers /\ m2.stopping = master.stopping
             /\ Known(m2, c) = {Record(c, w, u, arrived)}
             /\ \A d \in Check : d # c => SameMaster(master, m2, d)
<1> DEFINE tm == (master.times \ Known(master, c)) \cup {Record(c, w, u, arrived)}
           m2 == RecordMaster(master, c, w, u, arrived)
<1>1. MasterOK(master) /\ master.times \subseteq Times
  BY Fields DEF Checked, SystemOK, TypesOK, MasterOK
<1>2. Record(c, w, u, arrived) \in Times /\ Record(c, w, u, arrived).id = c
  BY DEF Record, Times
<1>3. tm \in SUBSET Times
  BY <1>1, <1>2
<1>4. m2 = [master EXCEPT !.times = tm]
  BY DEF RecordMaster
<1>5. \A x \in tm : x.id = c => x = Record(c, w, u, arrived)
  BY DEF Known
<1>6. ASSUME NEW d \in Check, d # c PROVE \A x : x \in tm /\ x.id = d <=> x \in master.times /\ x.id = d
  BY <1>2, <1>6 DEF Known
<1>7. Record(c, w, u, arrived) \in tm
  OBVIOUS
<1> HIDE DEF tm, m2
<1>8. /\ MasterOK(m2) /\ m2.due = master.due /\ m2.checks = master.checks /\ m2.check = master.check
      /\ m2.times = tm /\ m2.transfers = master.transfers /\ m2.stopping = master.stopping
  BY <1>1, <1>3, <1>4, TimesSet
<1>9. Known(m2, c) = {Record(c, w, u, arrived)}
  BY <1>2, <1>5, <1>7, <1>8 DEF Known
<1>10. ASSUME NEW d \in Check, d # c PROVE SameMaster(master, m2, d)
  <2>1. Known(m2, d) = Known(master, d)
    BY <1>6, <1>8, <1>10 DEF Known
  <2> QED
    BY <1>8, <2>1 DEF SameMaster
<1> QED
  BY <1>8, <1>9, <1>10 DEF m2

LEMMA TimeSendKeeps ==
  ASSUME Checked, NEW w \in Worker, NEW u \in Worker, NEW c \in Check, HeadConcerns(toMaster, w, c),
         Head(toMaster[w]) = TimeOf(c, w, u, "SEND"), Head(toMaster[w]) \in About(toMaster[w], c),
         Timing(master, toWorker, toMaster, worker, requests, c, w, u),
         \A z \in Worker : z # w => Took(toMaster, w)[z] = toMaster[z],
         About(toMaster[w], c) = {Head(toMaster[w])} => About(Took(toMaster, w)[w], c) = {}
  PROVE  [m |-> RecordMaster(master, c, w, u, FALSE), wire |-> Put(toWorker, w, TimeAck(c, "SEND"))]
           \in Rounds(master, Took(toMaster, w), worker, requests)
<1> DEFINE m2 == RecordMaster(master, c, w, u, FALSE)
           up2 == Took(toMaster, w)
           y == TimeAck(c, "SEND")
           down2 == Put(toWorker, w, y)
<1>1. /\ MasterOK(m2) /\ m2.due = master.due /\ m2.checks = master.checks
      /\ m2.check = master.check /\ m2.transfers = master.transfers
      /\ Known(m2, c) = {Record(c, w, u, FALSE)}
      /\ \A d \in Check : d # c => SameMaster(master, m2, d)
  BY RecordKeeps
<1>2. /\ About(toMaster[w], c) = {Head(toMaster[w])} /\ About(toWorker[w], c) = {}
  BY DEF Timing
<1>3. y \in Down /\ Concerns(y, c) /\ Nothing(toWorker[w], c)
  BY <1>2 DEF TimeAck, Down, Phases, Concerns, TransferTypes, Nothing
<1> HIDE DEF m2, y
<1>4. /\ down2 \in [Worker -> Seq(Down)] /\ \A z \in Worker : NoTwins(down2[z])
      /\ \A z \in Worker : z # w => down2[z] = toWorker[z]
      /\ \A d : d # c => SameWires(toWorker, down2, d)
      /\ About(down2[w], c) = {y}
  <2>1. OneWire(Down, toWorker, Put(toWorker, w, y), w, c) /\ Alone(Put(toWorker, w, y)[w], c, y)
    BY <1>3, Answering
  <2> QED
    BY <2>1 DEF OneWire, Clean, Alone
<1> HIDE DEF up2, down2
<1>5. About(up2[w], c) = {} /\ \A z \in Worker : z # w => up2[z] = toMaster[z]
  BY <1>2 DEF up2
<1>6. Owns(m2, w, c) /\ Others(down2, up2, worker, c, w, w)
  <2>1. Owns(master, w, c) /\ Others(toWorker, toMaster, worker, c, w, w)
    BY DEF Timing
  <2>2. Owns(m2, w, c)
    BY <1>1, <2>1 DEF Owns
  <2> QED
    BY <1>4, <1>5, <2>1, <2>2 DEF Others, Silent
<1>7. Timing(m2, down2, up2, worker, requests, c, w, u)
  BY <1>1, <1>4, <1>5, <1>6 DEF Timing, y
<1>8. TransferOK(m2, down2, up2, worker, requests, c)
  BY <1>7, PhaseOK
<1>9. toMaster[w] # <<>>
  BY DEF HeadConcerns
<1>10. [m |-> m2, wire |-> down2] \in Rounds(master, Took(toMaster, w), worker, requests)
  BY <1>1, <1>4, <1>8, <1>9, TransferRound DEF up2
<1> QED
  BY <1>10 DEF m2, down2, y

LEMMA TimeRecvKeeps ==
  ASSUME Checked, NEW w \in Worker, NEW u \in Worker, NEW c \in Check, HeadConcerns(toMaster, u, c),
         Head(toMaster[u]) = TimeOf(c, w, u, "RECV"), Head(toMaster[u]) \in About(toMaster[u], c),
         Asking(master, toWorker, toMaster, worker, requests, c, w, u),
         Arriving(master, toWorker, toMaster, worker, requests, c, w, u),
         \A z \in Worker : z # u => Took(toMaster, u)[z] = toMaster[z],
         About(toMaster[u], c) = {Head(toMaster[u])} => About(Took(toMaster, u)[u], c) = {}
  PROVE  [m |-> RecordMaster(master, c, w, u, TRUE), wire |-> Put(toWorker, u, TimeAck(c, "RECV"))]
           \in Rounds(master, Took(toMaster, u), worker, requests)
<1> DEFINE m2 == RecordMaster(master, c, w, u, TRUE)
           up2 == Took(toMaster, u)
           y == TimeAck(c, "RECV")
           down2 == Put(toWorker, u, y)
<1>1. /\ MasterOK(m2) /\ m2.due = master.due /\ m2.checks = master.checks
      /\ m2.check = master.check /\ m2.transfers = master.transfers
      /\ Known(m2, c) = {Record(c, w, u, TRUE)}
      /\ \A d \in Check : d # c => SameMaster(master, m2, d)
  BY RecordKeeps
<1>2. /\ About(toMaster[u], c) = {Head(toMaster[u])} /\ About(toWorker[u], c) = {}
      /\ ~worker[u].receiving[1].timed
  BY DEF Arriving, Silent
<1>3. y \in Down /\ Concerns(y, c) /\ Nothing(toWorker[u], c)
  BY <1>2 DEF TimeAck, Down, Phases, Concerns, TransferTypes, Nothing
<1> HIDE DEF m2, y
<1>4. /\ down2 \in [Worker -> Seq(Down)] /\ \A z \in Worker : NoTwins(down2[z])
      /\ \A z \in Worker : z # u => down2[z] = toWorker[z]
      /\ \A d : d # c => SameWires(toWorker, down2, d)
      /\ About(down2[u], c) = {y}
  <2>1. OneWire(Down, toWorker, Put(toWorker, u, y), u, c) /\ Alone(Put(toWorker, u, y)[u], c, y)
    BY <1>3, Answering
  <2> QED
    BY <2>1 DEF OneWire, Clean, Alone
<1> HIDE DEF up2, down2
<1>5. About(up2[u], c) = {} /\ \A z \in Worker : z # u => up2[z] = toMaster[z]
  BY <1>2 DEF up2
<1>6. Owns(m2, w, c) /\ Others(down2, up2, worker, c, w, u) /\ w # u
  <2>1. Owns(master, w, c) /\ Others(toWorker, toMaster, worker, c, w, u) /\ w # u
    BY DEF Asking
  <2>2. Owns(m2, w, c)
    BY <1>1, <2>1 DEF Owns
  <2> QED
    BY <1>4, <1>5, <2>1, <2>2 DEF Others, Silent
<1>7. Arriving(m2, down2, up2, worker, requests, c, w, u)
  BY <1>1, <1>2, <1>4, <1>5 DEF Arriving, y
<1>7a. Asking(m2, down2, up2, worker, requests, c, w, u)
  BY <1>4, <1>5, <1>6, <1>7 DEF Asking
<1>8. TransferOK(m2, down2, up2, worker, requests, c)
  BY <1>7a, PhaseOK
<1>9. toMaster[u] # <<>>
  BY DEF HeadConcerns
<1>10. [m |-> m2, wire |-> down2] \in Rounds(master, Took(toMaster, u), worker, requests)
  BY <1>1, <1>4, <1>8, <1>9, TransferRound DEF up2
<1> QED
  BY <1>10 DEF m2, down2, y

LEMMA TransferTimeKeeps ==
  ASSUME Checked, NEW w \in Worker, TransferTime(w)
  PROVE  Checked'
<1> DEFINE x == Head(toMaster[w])
           c == x.id
           known == {k \in master.times : k.id = x.id}
           m2 == [master EXCEPT !.times = (@ \ known) \cup
                   {[id |-> x.id, source |-> x.source, target |-> x.target, arrived |-> x.phase = "RECV"]}]
           y == [type |-> "TIME_ACK", id |-> x.id, phase |-> x.phase]
<1>1. /\ toMaster[w] # <<>> /\ x.type = "P2P_TIME" /\ x.type \in TransferTypes
      /\ Raise("error") \/ EndOfRound(w, Send(Now(m2), w, y))
  BY DEF TransferTime, FromWorker, TransferTypes
<1>2. /\ x \in Up /\ c \in Check /\ HeadConcerns(toMaster, w, c) /\ x \in About(toMaster[w], c)
      /\ TransferOK(master, toWorker, toMaster, worker, requests, c)
      /\ \A z \in Worker : z # w => Took(toMaster, w)[z] = toMaster[z]
      /\ About(toMaster[w], c) = {x} => About(Took(toMaster, w)[w], c) = {}
  BY <1>1, Handling
<1> HIDE DEF x
<1>3. x = TimeOf(c, x.source, x.target, x.phase)
  BY <1>1, <1>2, UpShape
<1> DEFINE A == Rounds(master, Took(toMaster, w), worker, requests)
<1>4. PICK v \in Worker : UpMeans(master, toWorker, toMaster, worker, requests, c, w, x, v)
  BY <1>2, UpSays
<1>5. Send(Now(m2), w, y) = [m |-> m2, wire |-> Put(toWorker, w, y)]
  <2> HIDE DEF m2, y
  <2> QED
    BY DEF Send, Now, Put
<1>6. known = Known(master, c)
  BY DEF Known
<1> HIDE DEF known
<1>7. CASE Timing(master, toWorker, toMaster, worker, requests, c, w, v) /\ x = TimeOf(c, w, v, "SEND")
  <2>1. x.id = c /\ x.source = w /\ x.target = v /\ x.phase = "SEND"
    BY <1>7 DEF TimeOf
  <2> HIDE DEF c
  <2>2. m2 = RecordMaster(master, c, w, v, FALSE) /\ y = TimeAck(c, "SEND")
    BY <1>6, <2>1 DEF RecordMaster, Record, TimeAck
  <2>3. [m |-> RecordMaster(master, c, w, v, FALSE), wire |-> Put(toWorker, w, TimeAck(c, "SEND"))] \in A
    BY <1>2, <1>7, TimeSendKeeps DEF x
  <2> HIDE DEF m2, y, A
  <2>4. Send(Now(m2), w, y) \in A
    BY <1>5, <2>2, <2>3
  <2> QED
    BY <1>1, <2>4, RoundKeeps, RaiseKeeps DEF A
<1>8. CASE /\ Asking(master, toWorker, toMaster, worker, requests, c, v, w)
           /\ Arriving(master, toWorker, toMaster, worker, requests, c, v, w) /\ x = TimeOf(c, v, w, "RECV")
  <2>1. x.id = c /\ x.source = v /\ x.target = w /\ x.phase = "RECV"
    BY <1>8 DEF TimeOf
  <2> HIDE DEF c
  <2>2. m2 = RecordMaster(master, c, v, w, TRUE) /\ y = TimeAck(c, "RECV")
    BY <1>6, <2>1 DEF RecordMaster, Record, TimeAck
  <2>3. [m |-> RecordMaster(master, c, v, w, TRUE), wire |-> Put(toWorker, w, TimeAck(c, "RECV"))] \in A
    BY <1>2, <1>8, TimeRecvKeeps DEF x
  <2> HIDE DEF m2, y, A
  <2>4. Send(Now(m2), w, y) \in A
    BY <1>5, <2>2, <2>3
  <2> QED
    BY <1>1, <2>4, RoundKeeps, RaiseKeeps DEF A
<1>9. /\ x # [type |-> "P2P_FAILURE", id |-> c, target |-> v]
      /\ x \notin {NoTransfer(c, FALSE), NoTransfer(c, TRUE)} /\ x.type # "P2P_TRANSFER"
  BY <1>1 DEF NoTransfer
<1> QED
  BY <1>4, <1>7, <1>8, <1>9 DEF UpMeans


LEMMA StopAckKeeps ==
  ASSUME Checked, NEW w \in Worker, StopAck(w)
  PROVE  Checked'
<1>1. CASE Raise("error")
  BY <1>1, RaiseKeeps
<1>2. CASE ~Raise("error")
  <2> DEFINE m2 == [master EXCEPT !.stopped = @ \cup {w}]
  <2>1. /\ toMaster[w] # <<>> /\ Head(toMaster[w]).type \notin TransferTypes
        /\ master' = m2 /\ toMaster' = Took(toMaster, w) /\ UNCHANGED <<worker, toWorker, requests, faults>>
    BY <1>2 DEF StopAck, FromWorker, TransferTypes, Took
  <2>2. MasterOK(master) /\ master \in Masters
    BY CheckedParts
  <2>3. /\ m2 \in Masters /\ m2.due = master.due /\ m2.check = master.check /\ m2.checks = master.checks
        /\ m2.times = master.times /\ m2.transfers = master.transfers /\ m2.pending = master.pending
    BY <2>2 DEF Masters
  <2> HIDE DEF m2
  <2>4. MasterOK(m2)
    BY <2>2, <2>3 DEF MasterOK
  <2>5. SystemOK(master, toWorker, Took(toMaster, w), worker, requests)
    BY <2>1, UpTaken DEF Checked
  <2>6. SystemOK(m2, toWorker, Took(toMaster, w), worker, requests)
    BY <2>3, <2>4, <2>5, MasterChanged
  <2> QED
    BY <2>1, <2>6 DEF Checked
<1> QED
  BY <1>1, <1>2

(* The check of w ends at the master: c is forgotten. *)
EndMaster(m, c, w, all) ==
  [m EXCEPT !.check[w] = None, !.times = IF all THEN @ \ Known(m, c) ELSE @]

LEMMA EndKeeps ==
  ASSUME Checked, NEW c \in Check, NEW w \in Worker, Owns(master, w, c), NEW all \in BOOLEAN
  PROVE  LET m2 == EndMaster(master, c, w, all)
         IN  /\ MasterOK(m2) /\ m2.due = master.due /\ m2.checks = master.checks
             /\ m2.transfers = master.transfers
             /\ Known(m2, c) = IF all THEN {} ELSE Known(master, c)
             /\ \A z \in Worker : m2.check[z] # c
             /\ \A d \in Check : d # c => SameMaster(master, m2, d)
<1> DEFINE tm == IF all THEN master.times \ Known(master, c) ELSE master.times
           p == [master.check EXCEPT ![w] = None]
           m2 == EndMaster(master, c, w, all)
<1>1. MasterOK(master) /\ master \in Masters /\ master.times \subseteq Times
  BY Fields DEF Checked, SystemOK, TypesOK, MasterOK
<1>3. tm \in SUBSET Times
  BY <1>1
<1>4. m2 = [master EXCEPT !.check = p, !.times = tm]
  BY DEF EndMaster
<1>5. {x \in tm : x.id = c} = IF all THEN {} ELSE Known(master, c)
  BY DEF Known
<1>6. ASSUME NEW d \in Check, d # c PROVE \A x : x \in tm /\ x.id = d <=> x \in master.times /\ x.id = d
  BY <1>6 DEF Known
<1>7a. /\ p \in [Worker -> Check \cup {None}] /\ p[w] = None
       /\ \A z \in Worker : z # w => p[z] = master.check[z]
  BY <1>1 DEF Masters
<1> HIDE DEF tm, m2, p
<1>7b. master.check[w] = c /\ \A z \in Worker : master.check[z] = c => z = w
  BY DEF Owns
<1>7c. c # None
  BY DEF Check, None
<1>7d. \A z \in Worker : p[z] # c
  BY <1>7a, <1>7b, <1>7c
<1>7e. ASSUME NEW d \in Check, d # c, NEW z \in Worker PROVE p[z] = d <=> master.check[z] = d
  <2>1. d # None
    BY DEF Check, None
  <2> QED
    BY <1>7a, <1>7b, <1>7e, <2>1
<1>8. /\ m2 \in Masters /\ m2.due = master.due /\ m2.checks = master.checks /\ m2.check = p
      /\ m2.times = tm /\ m2.transfers = master.transfers /\ m2.pending = master.pending
  BY <1>1, <1>3, <1>4, <1>7a DEF Masters
<1>8a. MasterOK(m2)
  BY <1>1, <1>8 DEF MasterOK
<1>9. Known(m2, c) = IF all THEN {} ELSE Known(master, c)
  BY <1>5, <1>8 DEF Known
<1>10. ASSUME NEW d \in Check, d # c PROVE SameMaster(master, m2, d)
  <2>1. Known(m2, d) = Known(master, d)
    BY <1>6, <1>8, <1>10 DEF Known
  <2> QED
    BY <1>7e, <1>8, <1>10, <2>1 DEF SameMaster
<1> QED
  BY <1>7d, <1>8, <1>8a, <1>9, <1>10 DEF m2

LEMMA PeerCostKeeps ==
  ASSUME Checked, NEW w \in Worker, PeerCost(w)
  PROVE  Checked'
<1> DEFINE x == Head(toMaster[w])
           c == x.id
           m2 == EndMaster(master, c, w, x.cancels)
           up2 == Took(toMaster, w)
<1>1. /\ toMaster[w] # <<>> /\ x.type = "P2P_COST" /\ x.type \in TransferTypes
      /\ Raise("error") \/ EndOfRound(w, Now(m2))
  BY DEF PeerCost, FromWorker, TransferTypes, EndMaster, Known
<1>2. /\ x \in Up /\ c \in Check /\ HeadConcerns(toMaster, w, c) /\ x \in About(toMaster[w], c)
      /\ TransferOK(master, toWorker, toMaster, worker, requests, c)
      /\ \A z \in Worker : z # w => up2[z] = toMaster[z]
      /\ About(toMaster[w], c) = {x} => About(up2[w], c) = {}
  BY <1>1, Handling
<1> HIDE DEF x, up2, m2
<1>3. x.cancels \in BOOLEAN /\ x = NoTransfer(c, x.cancels)
  BY <1>1, <1>2, UpShape
<1>4. PICK v \in Worker : UpMeans(master, toWorker, toMaster, worker, requests, c, w, x, v)
  BY <1>2, UpSays
<1>5. Dropped(master, toWorker, toMaster, worker, requests, c, w, v)
  <2>1. /\ x # TimeOf(c, w, v, "SEND") /\ x # TimeOf(c, v, w, "RECV")
        /\ x # [type |-> "P2P_FAILURE", id |-> c, target |-> v] /\ x.type # "P2P_TRANSFER"
    BY <1>1 DEF TimeOf
  <2> HIDE DEF c
  <2> QED
    BY <2>1, <1>4 DEF UpMeans
<1>6. Owns(master, w, c) /\ c <= master.checks /\ c \notin master.transfers /\ c \in Nat
  BY <1>2, <1>5 DEF Dropped, Owns, Check
<1>7. /\ MasterOK(m2) /\ m2.due = master.due /\ m2.checks = master.checks
      /\ m2.transfers = master.transfers
      /\ Known(m2, c) = (IF x.cancels THEN {} ELSE Known(master, c))
      /\ \A z \in Worker : m2.check[z] # c
      /\ \A d \in Check : d # c => SameMaster(master, m2, d)
  BY <1>2, <1>3, <1>6, EndKeeps DEF m2
<1> HIDE DEF c
<1>8. /\ About(toMaster[w], c) = {x} /\ (~x.cancels => Known(master, c) = {})
  <2>1. PICK cancels \in BOOLEAN :
          /\ About(toMaster[w], c) = {NoTransfer(c, cancels)}
          /\ Known(master, c) = IF cancels THEN {Record(c, w, v, FALSE)} ELSE {}
    BY <1>5 DEF Dropped
  <2>2. x = NoTransfer(c, cancels) /\ x.cancels = cancels
    BY <1>2, <2>1 DEF NoTransfer
  <2> QED
    BY <2>1, <2>2
<1>9. Known(m2, c) = {} /\ About(up2[w], c) = {}
  BY <1>2, <1>7, <1>8
<1>10. Off(m2, toWorker, up2, worker, requests, c)
  <2>1. ~(c > m2.checks)
    <3>1. master.checks \in Nat
      BY CheckedParts, Fields
    <3> QED
      BY <1>6, <1>7, <3>1
  <2>2. \A z \in Worker : Silent(toWorker, up2, z, c)
    BY <1>2, <1>5, <1>9 DEF Dropped, Silent
  <2> QED
    BY <1>5, <1>6, <1>7, <1>9, <2>1, <2>2 DEF Off, Dropped
<1>11. TransferOK(m2, toWorker, up2, worker, requests, c)
  BY <1>10, NoPhase
<1>12. toWorker \in [Worker -> Seq(Down)] /\ \A z \in Worker : NoTwins(toWorker[z])
  BY DEF Checked, SystemOK, TypesOK, TransfersOK
<1>13. \A d : d # c => SameWires(toWorker, toWorker, d)
  BY Unchanged
<1>14. [m |-> m2, wire |-> toWorker] \in Rounds(master, up2, worker, requests)
  BY <1>1, <1>2, <1>7, <1>11, <1>12, <1>13, TransferRound DEF up2
<1> QED
  BY <1>1, <1>14, RoundKeeps, RaiseKeeps DEF Now, up2


LEMMA TransferFailureKeeps ==
  ASSUME Checked, NEW w \in Worker, TransferFailure(w)
  PROVE  Checked'
<1>1. \E reason : Raise(reason)
  BY DEF TransferFailure
<1> QED
  BY <1>1, RaiseKeeps

(* The master records a transfer. *)
MoveMaster(m, c, w, u, tally, task) ==
  [m EXCEPT !.check[w] = None, !.transfers = @ \cup {c}, !.times = @ \ {Record(c, w, u, TRUE)},
            !.tally = tally, !.task = task]
MoveTally(m, w, u) ==
  [z \in Worker |-> IF z \in {w, u} THEN [m.tally[z] EXCEPT !.moved = @ + 1] ELSE m.tally[z]]
MoveTask(m, u, moved) ==
  [k \in Key |-> IF k \in moved THEN [m.task[k] EXCEPT !.owner = u] ELSE m.task[k]]

LEMMA MoveTypes ==
  ASSUME NEW m \in Masters, NEW w \in Worker, NEW u \in Worker, NEW moved
  PROVE  MoveTally(m, w, u) \in [Worker -> Tallies] /\ MoveTask(m, u, moved) \in [Key -> TaskState]
<1>1. m.tally \in [Worker -> Tallies] /\ m.task \in [Key -> TaskState]
  BY Fields
<1>2. MoveTally(m, w, u) \in [Worker -> Tallies]
  <2>1. ASSUME NEW z \in Worker PROVE [m.tally[z] EXCEPT !.moved = @ + 1] \in Tallies /\ m.tally[z] \in Tallies
    BY <1>1 DEF Tallies
  <2> QED
    BY <2>1 DEF MoveTally
<1>3. MoveTask(m, u, moved) \in [Key -> TaskState]
  <2>1. ASSUME NEW k \in Key PROVE (IF k \in moved THEN [m.task[k] EXCEPT !.owner = u] ELSE m.task[k]) \in TaskState
    <3> DEFINE t == m.task[k]
    <3>1. t \in TaskState
      BY <1>1
    <3> HIDE DEF t
    <3>2. [t EXCEPT !.owner = u] \in TaskState
      BY <3>1 DEF TaskState
    <3> QED
      BY <3>1, <3>2 DEF t
  <2> QED
    BY <2>1 DEF MoveTask
<1> QED
  BY <1>2, <1>3

LEMMA MoveKeeps ==
  ASSUME Checked, NEW c \in Check, NEW w \in Worker, NEW u \in Worker,
         Given(master, toWorker, toMaster, worker, requests, c, w, u),
         NEW tally \in [Worker -> Tallies], NEW task \in [Key -> TaskState]
  PROVE  LET m2 == MoveMaster(master, c, w, u, tally, task)
         IN  /\ MasterOK(m2) /\ m2.due = master.due /\ m2.checks = master.checks
             /\ c \in m2.transfers /\ Known(m2, c) = {}
             /\ \A z \in Worker : m2.check[z] # c
             /\ \A d \in Check : d # c => SameMaster(master, m2, d)
<1> DEFINE tm == master.times \ {Record(c, w, u, TRUE)}
           p == [master.check EXCEPT ![w] = None]
           tr == master.transfers \cup {c}
           m2 == MoveMaster(master, c, w, u, tally, task)
<1>0. Owns(master, w, c) /\ Known(master, c) = {Record(c, w, u, TRUE)}
  BY DEF Given
<1>1. MasterOK(master) /\ master \in Masters /\ master.times \subseteq Times /\ master.transfers \subseteq Check
  BY Fields DEF Checked, SystemOK, TypesOK, MasterOK
<1>3. tm \in SUBSET Times /\ tr \in SUBSET Check /\ c \in tr /\ \A d : d # c => (d \in tr <=> d \in master.transfers)
  BY <1>1
<1>4. m2 = [master EXCEPT !.check = p, !.transfers = tr, !.times = tm, !.tally = tally, !.task = task]
  BY DEF MoveMaster
<1>5. {x \in tm : x.id = c} = {}
  BY <1>0 DEF Known
<1>6. ASSUME NEW d \in Check, d # c PROVE \A x : x \in tm /\ x.id = d <=> x \in master.times /\ x.id = d
  BY <1>6 DEF Record
<1>7a. /\ p \in [Worker -> Check \cup {None}] /\ p[w] = None
       /\ \A z \in Worker : z # w => p[z] = master.check[z]
  BY <1>1 DEF Masters
<1> HIDE DEF tm, m2, p, tr
<1>7b. master.check[w] = c /\ \A z \in Worker : master.check[z] = c => z = w
  BY <1>0 DEF Owns
<1>7c. c # None
  BY DEF Check, None
<1>7d. \A z \in Worker : p[z] # c
  BY <1>7a, <1>7b, <1>7c
<1>7e. ASSUME NEW d \in Check, d # c, NEW z \in Worker PROVE p[z] = d <=> master.check[z] = d
  <2>1. d # None
    BY DEF Check, None
  <2> QED
    BY <1>7a, <1>7b, <1>7e, <2>1
<1>8. /\ m2 \in Masters /\ m2.due = master.due /\ m2.checks = master.checks /\ m2.check = p
      /\ m2.times = tm /\ m2.transfers = tr /\ m2.pending = master.pending
  BY <1>1, <1>3, <1>4, <1>7a DEF Masters
<1>8a. MasterOK(m2)
  BY <1>1, <1>8 DEF MasterOK
<1>9. Known(m2, c) = {}
  BY <1>5, <1>8 DEF Known
<1>10. ASSUME NEW d \in Check, d # c PROVE SameMaster(master, m2, d)
  <2>1. Known(m2, d) = Known(master, d)
    BY <1>6, <1>8, <1>10 DEF Known
  <2> QED
    BY <1>3, <1>7e, <1>8, <1>10, <2>1 DEF SameMaster
<1> QED
  BY <1>3, <1>7d, <1>8, <1>8a, <1>9, <1>10 DEF m2


LEMMA MovedKeeps ==
  ASSUME Checked, NEW w \in Worker, NEW u \in Worker, NEW c \in Check, HeadConcerns(toMaster, w, c),
         Given(master, toWorker, toMaster, worker, requests, c, w, u),
         \A z \in Worker : z # w => Took(toMaster, w)[z] = toMaster[z],
         About(Took(toMaster, w)[w], c) = {},
         NEW tally \in [Worker -> Tallies], NEW task \in [Key -> TaskState]
  PROVE  [m |-> MoveMaster(master, c, w, u, tally, task), wire |-> Put(Put(toWorker, w, Recorded(c)), u, Recorded(c))]
           \in Rounds(master, Took(toMaster, w), worker, requests)
<1> DEFINE m2 == MoveMaster(master, c, w, u, tally, task)
           up2 == Took(toMaster, w)
           y == Recorded(c)
           down1 == Put(toWorker, w, y)
           down2 == Put(down1, u, y)
<1>1. Owns(master, w, c) /\ Known(master, c) = {Record(c, w, u, TRUE)} /\ w # u
  BY DEF Given
<1>2. /\ MasterOK(m2) /\ m2.due = master.due /\ m2.checks = master.checks
      /\ c \in m2.transfers /\ Known(m2, c) = {} /\ \A z \in Worker : m2.check[z] # c
      /\ \A d \in Check : d # c => SameMaster(master, m2, d)
  BY <1>1, MoveKeeps
<1>3. y \in Down /\ Concerns(y, c)
  BY DEF Recorded, Down, Concerns, TransferTypes
<1>4. Nothing(toWorker[w], c) /\ Nothing(toWorker[u], c)
  BY DEF Given, Silent, Nothing
<1> HIDE DEF m2, y
<1>5. OneWire(Down, toWorker, down1, w, c) /\ Alone(down1[w], c, y)
  BY <1>3, <1>4, Answering
<1> HIDE DEF down1
<1>6. /\ down1 \in [Worker -> Seq(Down)] /\ Clean(down1) /\ down1[u] = toWorker[u]
      /\ \A z \in Worker : z # w => down1[z] = toWorker[z]
      /\ \A d : d # c => SameWires(toWorker, down1, d)
  BY <1>1, <1>5 DEF OneWire
<1>7. OneWire(Down, down1, down2, u, c) /\ Alone(down2[u], c, y)
  <2>1. Nothing(down1[u], c)
    BY <1>4, <1>6
  <2> QED
    BY <1>3, <1>6, <2>1, PutOne
<1> HIDE DEF down2, up2
<1>8. /\ down2 \in [Worker -> Seq(Down)] /\ \A z \in Worker : NoTwins(down2[z])
      /\ down2[w] = down1[w]
      /\ \A z \in Worker : z # w /\ z # u => down2[z] = toWorker[z]
  BY <1>1, <1>6, <1>7 DEF OneWire, Clean
<1>9. ASSUME NEW d, d # c PROVE SameWires(toWorker, down2, d)
  BY <1>6, <1>7, <1>9 DEF OneWire, SameWires
<1>10. /\ About(down2[w], c) = {y} /\ About(down2[u], c) = {y}
       /\ About(up2[w], c) = {} /\ up2[u] = toMaster[u]
       /\ \A z \in Worker : z # w => up2[z] = toMaster[z]
  BY <1>1, <1>5, <1>7, <1>8 DEF Alone, up2
<1>11. Others(down2, up2, worker, c, w, u)
  <2>1. Others(toWorker, toMaster, worker, c, w, u)
    BY DEF Given
  <2> QED
    BY <1>8, <1>10, <2>1 DEF Others, Silent
<1>12. Done(m2, down2, up2, worker, requests, c, w, u)
  <2>1. c <= m2.checks
    BY <1>1, <1>2 DEF Owns
  <2>2. /\ ~Receiving(worker[w], c) /\ worker[w].check.id # c /\ About(up2[w], c) = {}
        /\ Held(worker[w], c) = {} /\ c \in worker[w].events /\ worker[w].received[c] = "NONE"
        /\ About(down2[w], c) = IF c \in worker[w].sent THEN {Recorded(c)} ELSE {}
        /\ Asks(requests, c) = {}
    BY <1>10 DEF Given, y
  <2>3. /\ ~Receiving(worker[u], c) /\ worker[u].check.id # c /\ About(up2[u], c) = {}
        /\ c \notin worker[u].sent /\ worker[u].received[c] = "ACCEPTED"
        /\ c \notin worker[u].events /\ Held(worker[u], c) # {}
    BY <1>10 DEF Given, Unmarked, Silent
  <2>4. About(down2[u], c) = IF c \in worker[u].events THEN {} ELSE {Recorded(c)}
    BY <1>10, <2>3 DEF y
  <2> QED
    BY <1>1, <1>2, <1>11, <2>1, <2>2, <2>3, <2>4 DEF Done
<1>13. TransferOK(m2, down2, up2, worker, requests, c)
  BY <1>12, PhaseOK
<1>14. toMaster[w] # <<>>
  BY DEF HeadConcerns
<1>15. [m |-> m2, wire |-> down2] \in Rounds(master, Took(toMaster, w), worker, requests)
  BY <1>2, <1>8, <1>9, <1>13, <1>14, TransferRound DEF up2
<1> QED
  BY <1>15 DEF m2, down1, down2, y

LEMMA TransferResultKeeps ==
  ASSUME Checked, NEW w \in Worker, TransferResult(w)
  PROVE  Checked'
<1> DEFINE x == Head(toMaster[w])
           c == x.id
           u == x.target
           moved == {t.key : t \in Range(x.tasks)}
           tally == MoveTally(master, w, u)
           task == MoveTask(master, u, moved)
           s == [m |-> MoveMaster(master, c, w, u, tally, task), wire |-> Put(Put(toWorker, w, Recorded(c)), u, Recorded(c))]
<1>1. toMaster[w] # <<>> /\ x.type = "P2P_TRANSFER" /\ x.type \in TransferTypes
  BY DEF TransferResult, FromWorker, TransferTypes
<1>2. /\ x \in Up /\ c \in Check /\ HeadConcerns(toMaster, w, c) /\ x \in About(toMaster[w], c)
      /\ TransferOK(master, toWorker, toMaster, worker, requests, c)
      /\ \A z \in Worker : z # w => Took(toMaster, w)[z] = toMaster[z]
      /\ About(toMaster[w], c) = {x} => About(Took(toMaster, w)[w], c) = {}
  BY <1>1, Handling
<1>3. Given(master, toWorker, toMaster, worker, requests, c, w, u) /\ About(toMaster[w], c) = {x} /\ u \in Worker
  <2>1. PICK v \in Worker : UpMeans(master, toWorker, toMaster, worker, requests, c, w, x, v)
    BY <1>2, UpSays
  <2>2. /\ x # TimeOf(c, w, v, "SEND") /\ x # TimeOf(c, v, w, "RECV")
        /\ x # [type |-> "P2P_FAILURE", id |-> c, target |-> v] /\ x \notin {NoTransfer(c, FALSE), NoTransfer(c, TRUE)}
    BY <1>1 DEF TimeOf, NoTransfer
  <2> HIDE DEF c, x
  <2> QED
    BY <2>1, <2>2 DEF UpMeans
<1>4. c \notin master.transfers
  BY <1>3 DEF Given, Owns
<1>5. \/ \E reason : Raise(reason)
      \/ EndOfRound(w, Send(Send(Now(MoveMaster(master, c, w, u, tally, task)), w, Recorded(c)), u, Recorded(c)))
  BY <1>4 DEF TransferResult, MoveMaster, MoveTally, MoveTask, Recorded, Record, Zenon
<1>6. master \in Masters
  BY CheckedParts
<1>7. tally \in [Worker -> Tallies] /\ task \in [Key -> TaskState]
  BY <1>3, <1>6, MoveTypes
<1> HIDE DEF tally, task
<1>8. s \in Rounds(master, Took(toMaster, w), worker, requests)
  <2> HIDE DEF x, c, u
  <2> QED
    BY <1>2, <1>3, <1>7, MovedKeeps
<1>9. Send(Send(Now(MoveMaster(master, c, w, u, tally, task)), w, Recorded(c)), u, Recorded(c)) = s
  <2> DEFINE m2 == MoveMaster(master, c, w, u, tally, task)
             y == Recorded(c)
  <2> HIDE DEF m2, y
  <2>1. Send(Now(m2), w, y) = [m |-> m2, wire |-> Put(toWorker, w, y)]
    BY DEF Send, Now, Put
  <2> HIDE DEF u, c, x
  <2>2. ASSUME NEW f PROVE Send([m |-> m2, wire |-> f], u, y) = [m |-> m2, wire |-> Put(f, u, y)]
    BY DEF Send, Put
  <2>3. Send([m |-> m2, wire |-> Put(toWorker, w, y)], u, y) = [m |-> m2, wire |-> Put(Put(toWorker, w, y), u, y)]
    BY <2>2
  <2> QED
    BY <2>1, <2>3 DEF m2, y
<1> QED
  BY <1>5, <1>8, <1>9, RoundKeeps, RaiseKeeps

LEMMA MessageKeeps ==
  ASSUME Checked, NEW w \in Worker, HandleMessage(w)
  PROVE  Checked'
BY ReadyKeeps, QueueStatusKeeps, TaskAckKeeps, ProcessingStartKeeps, TaskResultKeeps, TransferTimeKeeps,
   TransferResultKeeps, PeerCostKeeps, TransferFailureKeeps, StopAckKeeps DEF HandleMessage


-----------------------------------------------------------------------------
(* The worker's handlers that are not about a check or a transfer *)

LEMMA WorkerFields ==
  ASSUME NEW v \in Workers
  PROVE  /\ v.ready \in BOOLEAN /\ v.queue \in Seq(TaskRec) /\ v.accepted \in SUBSET FreeTask
         /\ v.incoming \in Nat /\ v.stored \in SUBSET Key /\ v.failures \in Nat
         /\ v.events \in SUBSET Check /\ v.sent \in SUBSET Check
         /\ v.reassigned \in SUBSET (Key \X Nat) /\ v.check \in CheckRec
         /\ v.received \in [Check -> Statuses] /\ Len(v.queue) \in Nat
<1>1. v.queue \in Seq(TaskRec)
  BY DEF Workers
<1>2. Len(v.queue) \in Nat
  BY <1>1, LenProperties
<1> QED
  BY <1>1, <1>2 DEF Workers

(* Only the queue, the slots, the tasks and the counters of a worker change. *)
SameChecks(v, v2) ==
  /\ v2.check = v.check /\ v2.received = v.received /\ v2.receiving = v.receiving
  /\ v2.sent = v.sent /\ v2.events = v.events
  /\ \A c \in Check : Held(v2, c) = Held(v, c)

LEMMA SameChecksOK ==
  ASSUME NEW v, NEW v2, NEW w \in Worker, WorkerOK(v, w), SameChecks(v, v2), v2 \in Workers,
         IsFiniteSet(v2.accepted), IsFiniteSet(v2.reassigned), v2.incoming = v.incoming,
         Len(v2.queue) + Cardinality(v2.accepted) + v.incoming <= QueueSize
  PROVE  WorkerOK(v2, w)
BY DEF WorkerOK, SameChecks

LEMMA OneSent ==
  ASSUME NEW f, f \in [Worker -> Seq(Up)], NEW w \in Worker, NEW x \in Up
  PROVE  Sends(f, w, <<x>>) = Put(f, w, x)
<1>1. f[w] \in Seq(Up) /\ <<>> \in Seq(Up)
  OBVIOUS
<1>2. f[w] \o <<x>> = Append(f[w], x)
  BY <1>1, Appends
<1> QED
  BY <1>2 DEF Sends, Put

LEMMA AnswerKeeps ==
  ASSUME Checked, NEW w \in Worker, toWorker[w] # <<>>, Head(toWorker[w]).type \notin TransferTypes,
         NEW v, WorkerOK(v, w), SameChecks(worker[w], v), NEW x \in Up, x.type \notin TransferTypes,
         Answer(w, v, <<x>>), requests' = requests
  PROVE  Checked'
<1> DEFINE down == Took(toWorker, w)
           up == Sends(toMaster, w, <<x>>)
           wk == [worker EXCEPT ![w] = v]
<1>1. SystemOK(master, down, toMaster, worker, requests)
  BY DownTaken DEF Checked
<1>2. /\ toMaster \in [Worker -> Seq(Up)] /\ DOMAIN worker = Worker
      /\ <<x>> \in Seq(Up) /\ <<>> \in Seq(Up) /\ up = Put(toMaster, w, x)
  <2>1. toMaster \in [Worker -> Seq(Up)] /\ DOMAIN worker = Worker
    BY DEF Checked, SystemOK, TypesOK
  <2>2. <<>> \in Seq(Up) /\ <<x>> \in Seq(Up)
    OBVIOUS
  <2>3. Sends(toMaster, w, <<x>>) = Put(toMaster, w, x)
    BY <2>1, OneSent
  <2> QED
    BY <2>1, <2>2, <2>3
<1> HIDE DEF down
<1>3. SystemOK(master, down, up, worker, requests)
  BY <1>1, <1>2, UpSent
<1> HIDE DEF up
<1>4. SystemOK(master, down, up, wk, requests)
  BY <1>3, WorkerChanged DEF SameChecks
<1>5. SendAndStart(w, v, <<x>>) /\ toWorker' = down /\ UNCHANGED <<master, faults>>
  BY DEF Answer, down, Took
<1> DEFINE ms == <<x>>
<1> HIDE DEF ms
<1>6. SystemOK(master, down, toMaster', worker', requests)
  BY <1>2, <1>4, <1>5, StartedKeeps DEF up, ms
<1> QED
  BY <1>5, <1>6 DEF Checked

LEMMA CheckedWorker ==
  ASSUME Checked, NEW w \in Worker
  PROVE  /\ worker[w] \in Workers /\ WorkerOK(worker[w], w) /\ worker[w].accepted \in SUBSET FreeTask
         /\ worker[w].queue \in Seq(TaskRec) /\ Len(worker[w].queue) \in Nat
         /\ Cardinality(worker[w].accepted) \in Nat /\ worker[w].incoming \in Nat
         /\ IsFiniteSet(worker[w].accepted) /\ IsFiniteSet(worker[w].reassigned)
         /\ Len(worker[w].queue) + Cardinality(worker[w].accepted) + worker[w].incoming <= QueueSize
         /\ Len(worker[w].queue) \in Size /\ DOMAIN worker = Worker
<1> DEFINE v == worker[w]
           a == Len(v.queue)
           b == Cardinality(v.accepted)
           d == v.incoming
<1>0. DOMAIN worker = Worker /\ WorkerOK(v, w)
  BY DEF Checked, SystemOK, TypesOK
<1>1. v \in Workers /\ IsFiniteSet(v.accepted) /\ IsFiniteSet(v.reassigned) /\ a + b + d <= QueueSize
  BY <1>0 DEF WorkerOK
<1>2. v.queue \in Seq(TaskRec) /\ a \in Nat /\ d \in Nat /\ v.accepted \in SUBSET FreeTask
  BY <1>1, WorkerFields
<1>3. b \in Nat
  BY <1>1, FS_CardinalityType
<1> HIDE DEF a, b, d
<1>4. a \in Size
  BY <1>1, <1>2, <1>3 DEF Size
<1> HIDE DEF v
<1> QED
  BY <1>0, <1>1, <1>2, <1>3, <1>4 DEF a, b, d, v

LEMMA PeersKeeps ==
  ASSUME Checked, NEW w \in Worker, HandlePeers(w)
  PROVE  Checked'
<1> DEFINE v == worker[w]
           v2 == [v EXCEPT !.ready = TRUE]
           x == [type |-> "READY"]
<1>1. v \in Workers /\ WorkerOK(v, w)
  BY CheckedWorker
<1>2. /\ toWorker[w] # <<>> /\ Head(toWorker[w]).type \notin TransferTypes
      /\ Answer(w, v2, <<x>>) /\ requests' = requests
  BY DEF HandlePeers, FromMaster, TransferTypes
<1>3. x \in Up /\ x.type \notin TransferTypes
  BY DEF Up, TransferTypes
<1> HIDE DEF v, x
<1>4. /\ v2 \in Workers /\ v2.check = v.check /\ v2.received = v.received /\ v2.receiving = v.receiving
      /\ v2.sent = v.sent /\ v2.events = v.events /\ v2.queue = v.queue /\ v2.accepted = v.accepted
      /\ v2.incoming = v.incoming /\ v2.reassigned = v.reassigned
  BY <1>1 DEF Workers
<1> HIDE DEF v2
<1>5. SameChecks(v, v2) /\ WorkerOK(v2, w)
  <2>1. SameChecks(v, v2)
    BY <1>4 DEF SameChecks, Held, Tasks
  <2> QED
    BY <1>1, <1>4, <2>1, SameChecksOK DEF WorkerOK
<1> QED
  BY <1>2, <1>3, <1>5, AnswerKeeps DEF v


LEMMA StopKeeps ==
  ASSUME Checked, NEW w \in Worker, HandleStop(w)
  PROVE  Checked'
<1> DEFINE v == worker[w]
           v2 == [v EXCEPT !.stopping = TRUE]
           stats == Statistics(v)
           x == [type |-> "STOP_ACK", stats |-> stats]
<1>1. v \in Workers /\ WorkerOK(v, w) /\ IsFiniteSet(v.reassigned)
  BY CheckedWorker
<1>2. /\ toWorker[w] # <<>> /\ Head(toWorker[w]).type \notin TransferTypes
      /\ Answer(w, v2, <<x>>) /\ requests' = requests
  BY DEF HandleStop, FromMaster, TransferTypes
<1> HIDE DEF v
<1>3. stats \in Tallies
  <2>1. v.stored \subseteq 1..NumTasks /\ v.events \subseteq 1..MaxEvents /\ v.failures \in Nat
    BY <1>1, WorkerFields DEF Key, Check
  <2>2. IsFiniteSet(1..NumTasks) /\ IsFiniteSet(1..MaxEvents)
    BY FS_Interval
  <2>3. IsFiniteSet(v.stored) /\ IsFiniteSet(v.events)
    BY <2>1, <2>2, FS_Subset
  <2>4. /\ Cardinality(v.stored) \in Nat /\ Cardinality(v.events) \in Nat
        /\ Cardinality(v.reassigned) \in Nat
    BY <1>1, <2>3, FS_CardinalityType
  <2> QED
    BY <2>1, <2>4 DEF Statistics, Tallies
<1> HIDE DEF stats
<1>4. x \in Up /\ x.type \notin TransferTypes
  BY <1>3 DEF Up, TransferTypes
<1> HIDE DEF x
<1>5. /\ v2 \in Workers /\ v2.check = v.check /\ v2.received = v.received /\ v2.receiving = v.receiving
      /\ v2.sent = v.sent /\ v2.events = v.events /\ v2.queue = v.queue /\ v2.accepted = v.accepted
      /\ v2.incoming = v.incoming /\ v2.reassigned = v.reassigned
  BY <1>1 DEF Workers
<1> HIDE DEF v2
<1>6. SameChecks(v, v2) /\ WorkerOK(v2, w)
  <2>1. SameChecks(v, v2)
    BY <1>5 DEF SameChecks, Held, Tasks
  <2> QED
    BY <1>1, <1>5, <2>1, SameChecksOK DEF WorkerOK
<1> QED
  BY <1>2, <1>4, <1>6, AnswerKeeps DEF v

LEMMA TaskKeeps ==
  ASSUME Checked, NEW w \in Worker, HandleTask(w)
  PROVE  Checked'
<1> DEFINE v == worker[w]
           task == Head(toWorker[w]).task
           room == HasRoom(v, 1)
           x == [type |-> "TASK_ACK", task |-> task, accepted |-> room, size |-> Len(v.queue), confirms |-> {}]
           set == v.accepted \cup {task}
           v2 == [v EXCEPT !.accepted = set]
<1>1. /\ v \in Workers /\ WorkerOK(v, w) /\ IsFiniteSet(v.accepted) /\ IsFiniteSet(v.reassigned)
      /\ Len(v.queue) \in Size /\ Len(v.queue) \in Nat /\ v.incoming \in Nat
      /\ Cardinality(v.accepted) \in Nat /\ v.accepted \in SUBSET FreeTask
  BY CheckedWorker
<1>2. /\ toWorker[w] # <<>> /\ Head(toWorker[w]).type = "TASK"
      /\ Answer(w, IF room THEN v2 ELSE v, <<x>>) /\ requests' = requests
  BY DEF HandleTask, FromMaster
<1>3. Head(toWorker[w]).type \notin TransferTypes
  BY <1>2 DEF TransferTypes
<1>4. task \in FreeTask
  <2>1. Head(toWorker[w]) \in Down
    BY <1>2, CheckedParts
  <2> QED
    BY <1>2, <2>1, DownShape
<1>5. room \in BOOLEAN
  BY DEF HasRoom
<1> HIDE DEF v, task
<1>7. CASE room
  <2>1. IsFiniteSet(set) /\ Cardinality(set) <= Cardinality(v.accepted) + 1 /\ Cardinality(set) \in Nat
    <3>1. IsFiniteSet(set) /\ Cardinality(set) = IF task \in v.accepted THEN Cardinality(v.accepted)
                                                 ELSE Cardinality(v.accepted) + 1
      BY <1>1, FS_AddElement
    <3> QED
      BY <1>1, <3>1
  <2>2. set \in SUBSET FreeTask
    BY <1>1, <1>4
  <2>3. Len(v.queue) + Cardinality(v.accepted) + v.incoming + 1 <= QueueSize
    BY <1>7 DEF HasRoom
  <2> HIDE DEF set
  <2>4. Len(v.queue) + Cardinality(set) + v.incoming <= QueueSize
    <3> DEFINE a == Len(v.queue)
               b == Cardinality(v.accepted)
               d == v.incoming
               e == Cardinality(set)
    <3>1. a \in Nat /\ b \in Nat /\ d \in Nat /\ e \in Nat /\ a + b + d + 1 <= QueueSize /\ e <= b + 1
      BY <1>1, <2>1, <2>3
    <3> HIDE DEF a, b, d, e
    <3>2. a + e + d <= QueueSize
      BY <3>1
    <3> QED
      BY <3>2 DEF a, b, d, e
  <2>5. /\ v2 \in Workers /\ v2.check = v.check /\ v2.received = v.received /\ v2.receiving = v.receiving
        /\ v2.sent = v.sent /\ v2.events = v.events /\ v2.queue = v.queue /\ v2.accepted = set
        /\ v2.incoming = v.incoming /\ v2.reassigned = v.reassigned
    BY <1>1, <2>2 DEF Workers
  <2> HIDE DEF v2, room
  <2>6. SameChecks(v, v2)
    BY <2>5 DEF SameChecks, Held, Tasks
  <2>7. WorkerOK(v2, w)
    BY <1>1, <2>1, <2>4, <2>5, <2>6, SameChecksOK
  <2>8. x \in Up /\ x.type \notin TransferTypes
    BY <1>1, <1>4, <1>5 DEF Up, TransferTypes
  <2> HIDE DEF x
  <2>9. Answer(w, v2, <<x>>)
    BY <1>2, <1>7
  <2> QED
    BY <1>2, <1>3, <2>6, <2>7, <2>8, <2>9, AnswerKeeps DEF v
<1>8. CASE ~room
  <2> HIDE DEF v2, room
  <2>8. x \in Up /\ x.type \notin TransferTypes
    BY <1>1, <1>4, <1>5 DEF Up, TransferTypes
  <2> HIDE DEF x
  <2>6. SameChecks(v, v)
    BY DEF SameChecks
  <2>9. Answer(w, v, <<x>>)
    BY <1>2, <1>8
  <2> QED
    BY <1>1, <1>2, <1>3, <2>6, <2>8, <2>9, AnswerKeeps DEF v
<1> QED
  BY <1>7, <1>8

(* What a worker appends to its queue is not reserved. *)
LEMMA FreeQueued ==
  ASSUME NEW q \in Seq(TaskRec), NEW t \in FreeTask
  PROVE  /\ Append(q, t) \in Seq(TaskRec) /\ Len(Append(q, t)) = Len(q) + 1
         /\ \A c \in Check : {s \in Range(Append(q, t)) : s.held = c} = {s \in Range(q) : s.held = c}
<1>1. t \in TaskRec /\ t.held = None
  BY DEF FreeTask
<1>2. /\ Append(q, t) \in Seq(TaskRec) /\ Len(Append(q, t)) = Len(q) + 1
      /\ Range(Append(q, t)) = Range(q) \cup {t}
  BY <1>1, MessageSent
<1> HIDE DEF FreeTask
<1>3. ASSUME NEW c \in Check
      PROVE {s \in Range(Append(q, t)) : s.held = c} = {s \in Range(q) : s.held = c}
  BY <1>1, <1>2, HeldChecks
<1> QED
  BY <1>2, <1>3

LEMMA SlotUsed ==
  ASSUME NEW i \in Nat, NEW j \in Nat, NEW k \in Nat, i + (j + 1) + k <= QueueSize
  PROVE  i + 1 + j + k <= QueueSize /\ i + 1 \in 0..QueueSize
<1>1. QueueSize \in Nat
  OBVIOUS
<1> QED
  BY <1>1

LEMMA TaskConfirmedKeeps ==
  ASSUME Checked, NEW w \in Worker, HandleTaskConfirmed(w)
  PROVE  Checked'
<1> DEFINE v == worker[w]
           task == Head(toWorker[w]).task
           q == Append(v.queue, task)
           set == v.accepted \ {task}
           again == IF task.failed THEN v.reassigned \cup {<<task.key, task.attempt>>} ELSE v.reassigned
           v2 == [v EXCEPT !.queue = q, !.accepted = set, !.reassigned = again]
           x == Status(v2, {task.key})
<1>1. /\ v \in Workers /\ WorkerOK(v, w) /\ IsFiniteSet(v.accepted) /\ IsFiniteSet(v.reassigned)
      /\ v.queue \in Seq(TaskRec) /\ Len(v.queue) \in Nat /\ v.incoming \in Nat
      /\ Cardinality(v.accepted) \in Nat /\ v.accepted \in SUBSET FreeTask
      /\ Len(v.queue) + Cardinality(v.accepted) + v.incoming <= QueueSize
  BY CheckedWorker
<1>2. /\ toWorker[w] # <<>> /\ Head(toWorker[w]).type = "TASK_CONFIRMED"
      /\ \/ Raise("error")
         \/ /\ task \in v.accepted /\ Len(v.queue) < QueueSize
            /\ Answer(w, v2, <<x>>) /\ requests' = requests
  BY <1>1 DEF HandleTaskConfirmed, FromMaster
<1>3. Head(toWorker[w]).type \notin TransferTypes
  BY <1>2 DEF TransferTypes
<1>4. task \in FreeTask
  <2>1. Head(toWorker[w]) \in Down
    BY <1>2, CheckedParts
  <2> QED
    BY <1>2, <2>1, DownShape
<1> SUFFICES ASSUME task \in v.accepted, Len(v.queue) < QueueSize, Answer(w, v2, <<x>>), requests' = requests
             PROVE  Checked'
  BY <1>2, RaiseKeeps
<1> HIDE DEF v, task
<1>5. task.key \in Key /\ task.attempt \in Nat
  BY <1>4 DEF FreeTask, TaskRec
<1>6. /\ q \in Seq(TaskRec) /\ Len(q) = Len(v.queue) + 1
      /\ \A c \in Check : {s \in Range(q) : s.held = c} = {s \in Range(v.queue) : s.held = c}
  BY <1>1, <1>4, FreeQueued
<1>7. IsFiniteSet(set) /\ Cardinality(set) = Cardinality(v.accepted) - 1 /\ set \in SUBSET FreeTask
  BY <1>1, FS_RemoveElement
<1>8. again \in SUBSET (Key \X Nat) /\ IsFiniteSet(again)
  <2>1. v.reassigned \in SUBSET (Key \X Nat)
    BY <1>1, WorkerFields
  <2>2. IsFiniteSet(v.reassigned \cup {<<task.key, task.attempt>>})
    BY <1>1, FS_AddElement
  <2> QED
    BY <1>1, <1>5, <2>1, <2>2
<1> HIDE DEF q, set, again
<1>9. /\ v2 \in Workers /\ v2.check = v.check /\ v2.received = v.received /\ v2.receiving = v.receiving
      /\ v2.sent = v.sent /\ v2.events = v.events /\ v2.queue = q /\ v2.accepted = set
      /\ v2.incoming = v.incoming /\ v2.reassigned = again
  BY <1>1, <1>6, <1>7, <1>8 DEF Workers
<1>10. Len(q) + Cardinality(set) + v.incoming <= QueueSize /\ Len(q) \in Size
  <2> DEFINE a == Len(v.queue)
             b == Cardinality(v.accepted)
             d == v.incoming
             e == Cardinality(set)
  <2>1. a \in Nat /\ b \in Nat /\ d \in Nat /\ e \in Nat /\ a + b + d <= QueueSize /\ a < QueueSize
        /\ Len(q) = a + 1 /\ b = e + 1 /\ QueueSize \in Nat
    BY <1>1, <1>6, <1>7, FS_CardinalityType
  <2> HIDE DEF a, b, d, e
  <2>3. a + (e + 1) + d <= QueueSize
    BY <2>1
  <2>4. a + 1 + e + d <= QueueSize /\ a + 1 \in 0..QueueSize
    BY <2>1, <2>3, SlotUsed
  <2> QED
    BY <2>1, <2>4 DEF d, e, Size
<1>11. x = [type |-> "QUEUE_STATUS", size |-> Len(q), confirms |-> {task.key}]
  BY <1>9 DEF Status
<1> HIDE DEF v2
<1>12. x \in Up /\ x.type \notin TransferTypes
  <2> HIDE DEF x
  <2> QED
    BY <1>5, <1>10, <1>11 DEF Up, TransferTypes
<1> HIDE DEF x
<1>13. SameChecks(v, v2)
  BY <1>6, <1>9 DEF SameChecks, Held, Tasks
<1>14. WorkerOK(v2, w)
  BY <1>1, <1>7, <1>8, <1>9, <1>10, <1>13, SameChecksOK
<1> QED
  BY <1>2, <1>3, <1>12, <1>13, <1>14, AnswerKeeps DEF v

LEMMA ProcessAckKeeps ==
  ASSUME Checked, NEW w \in Worker, HandleProcessAck(w)
  PROVE  Checked'
<1>1. CASE Raise("error")
  BY <1>1, RaiseKeeps
<1>2. CASE ~Raise("error")
  <2> DEFINE v == worker[w]
             task == Head(toWorker[w]).task
  <2>1. PICK success \in BOOLEAN :
          /\ toWorker[w] # <<>> /\ Head(toWorker[w]).type = "PROCESS_ACK"
          /\ Answer(w, [v EXCEPT !.current = <<>>,
                                 !.stored = IF success THEN @ \cup {task.key} ELSE @,
                                 !.failures = IF success THEN @ ELSE @ + 1],
                     <<[type |-> "RESULT", task |-> task, success |-> success,
                        size |-> Len(v.queue), confirms |-> {}]>>)
          /\ requests' = requests
    BY <1>2, Zenon DEF HandleProcessAck, FromMaster
  <2> DEFINE st == IF success THEN v.stored \cup {task.key} ELSE v.stored
             n == IF success THEN v.failures ELSE v.failures + 1
             v2 == [v EXCEPT !.current = <<>>, !.stored = st, !.failures = n]
             x == [type |-> "RESULT", task |-> task, success |-> success, size |-> Len(v.queue), confirms |-> {}]
  <2>2. Answer(w, v2, <<x>>)
    BY <2>1
  <2>3. Head(toWorker[w]).type \notin TransferTypes
    BY <2>1 DEF TransferTypes
  <2>4. task \in FreeTask
    <3>1. Head(toWorker[w]) \in Down
      BY <2>1, CheckedParts
    <3> QED
      BY <2>1, <3>1, DownShape
  <2>5. v \in Workers /\ WorkerOK(v, w) /\ Len(v.queue) \in Size
    BY CheckedWorker
  <2> HIDE DEF v, task
  <2>6. st \in SUBSET Key /\ n \in Nat
    BY <2>4, <2>5, WorkerFields DEF FreeTask, TaskRec
  <2>7. x \in Up /\ x.type \notin TransferTypes
    BY <2>4, <2>5 DEF Up, TransferTypes
  <2> HIDE DEF st, n, x
  <2>8. /\ v2 \in Workers /\ v2.check = v.check /\ v2.received = v.received /\ v2.receiving = v.receiving
        /\ v2.sent = v.sent /\ v2.events = v.events /\ v2.queue = v.queue /\ v2.accepted = v.accepted
        /\ v2.incoming = v.incoming /\ v2.reassigned = v.reassigned
    BY <2>5, <2>6 DEF Workers
  <2> HIDE DEF v2
  <2>9. SameChecks(v, v2)
    BY <2>8 DEF SameChecks, Held, Tasks
  <2>10. WorkerOK(v2, w)
    BY <2>5, <2>8, <2>9, SameChecksOK DEF WorkerOK
  <2> QED
    BY <2>1, <2>2, <2>3, <2>7, <2>9, <2>10, AnswerKeeps DEF v
<1> QED
  BY <1>1, <1>2


-----------------------------------------------------------------------------
(* What a step of check c may change of a worker *)

SameElse(v, v2, c) == \A d \in Check \ {c} :
  /\ Held(v2, d) = Held(v, d) /\ v2.received[d] = v.received[d]
  /\ (d \in v2.sent <=> d \in v.sent) /\ (d \in v2.events <=> d \in v.events)
  /\ v2.check = v.check \/ (v2.check.id # d /\ v.check.id # d)
  /\ v2.receiving = v.receiving \/ (~Receiving(v2, d) /\ ~Receiving(v, d))

SameAsks(rq, rq2, c) == \A d \in Check \ {c} : Asks(rq2, d) = Asks(rq, d)
OnlyWorkers(wk, wk2, w, z) ==
  DOMAIN wk2 = Worker /\ \A y \in Worker : y # w /\ y # z => wk2[y] = wk[y]

LEMMA ElseKept ==
  ASSUME NEW wk, NEW wk2, NEW c, \A z \in Worker : wk2[z] = wk[z] \/ SameElse(wk[z], wk2[z], c)
  PROVE  \A d \in Check \ {c} : SameWorkers(wk, wk2, d)
BY DEF SameWorkers, SameElse

LEMMA CheckStep ==
  ASSUME Checked, NEW w \in Worker, NEW z \in Worker, NEW c \in Check,
         NEW down2, OneWire(Down, toWorker, down2, w, c), NEW up2, OneWire(Up, toMaster, up2, w, c),
         NEW wk2, OnlyWorkers(worker, wk2, w, z), WorkerOK(wk2[w], w), WorkerOK(wk2[z], z),
         SameElse(worker[w], wk2[w], c), SameElse(worker[z], wk2[z], c),
         NEW rq2, rq2 \in SUBSET Requests, SameAsks(requests, rq2, c),
         TransferOK(master, down2, up2, wk2, rq2, c)
  PROVE  SystemOK(master, down2, up2, wk2, rq2)
<1>1. SystemOK(master, toWorker, toMaster, worker, requests) /\ TypesOK(master, toWorker, toMaster, worker, requests)
  BY DEF Checked, SystemOK
<1>2. \A y \in Worker : WorkerOK(wk2[y], y)
  BY <1>1 DEF TypesOK, OnlyWorkers
<1>3. TypesOK(master, down2, up2, wk2, rq2)
  BY <1>1, <1>2 DEF TypesOK, OneWire, OnlyWorkers
<1>4. \A d \in Check \ {c} : SameWorkers(worker, wk2, d)
  BY ElseKept DEF OnlyWorkers
<1>5. ASSUME NEW d \in Check \ {c}
      PROVE  /\ SameMaster(master, master, d) /\ SameWires(toWorker, down2, d) /\ SameWires(toMaster, up2, d)
             /\ SameWorkers(worker, wk2, d) /\ Asks(rq2, d) = Asks(requests, d)
  BY <1>4, Unchanged DEF OneWire, SameAsks
<1>6. SameBut(master, toWorker, toMaster, worker, requests, master, down2, up2, wk2, rq2, c)
  BY <1>5 DEF SameBut
<1>7. (\A y \in Worker : NoTwins(down2[y])) /\ \A y \in Worker : NoTwins(up2[y])
  BY DEF OneWire, Clean
<1> QED
  BY <1>1, <1>3, <1>6, <1>7, OneTransfer

(* Only w takes a step. *)
LEMMA WorkerStepKeeps ==
  ASSUME Checked, NEW w \in Worker, NEW c \in Check,
         NEW down2, OneWire(Down, toWorker, down2, w, c), NEW up2, OneWire(Up, toMaster, up2, w, c),
         NEW v, WorkerOK(v, w), SameElse(worker[w], v, c),
         NEW wk2, wk2 = [worker EXCEPT ![w] = v],
         NEW rq2, rq2 \in SUBSET Requests, SameAsks(requests, rq2, c),
         TransferOK(master, down2, up2, wk2, rq2, c)
  PROVE  SystemOK(master, down2, up2, wk2, rq2)
<1>1. /\ DOMAIN wk2 = Worker /\ wk2[w] = v /\ \A y \in Worker : y # w => wk2[y] = worker[y]
  BY CheckedWorker
<1>2. WorkerOK(wk2[w], w) /\ SameElse(worker[w], wk2[w], c)
  BY <1>1
<1>3. OnlyWorkers(worker, wk2, w, w)
  BY <1>1 DEF OnlyWorkers
<1> QED
  BY <1>2, <1>3, CheckStep

LEMMA WiresUnchanged ==
  ASSUME Checked
  PROVE  /\ \A w \in Worker : \A c : OneWire(Down, toWorker, toWorker, w, c)
         /\ \A w \in Worker : \A c : OneWire(Up, toMaster, toMaster, w, c)
         /\ toWorker \in [Worker -> Seq(Down)] /\ Clean(toWorker)
         /\ toMaster \in [Worker -> Seq(Up)] /\ Clean(toMaster) /\ requests \in SUBSET Requests
<1>1. /\ toWorker \in [Worker -> Seq(Down)] /\ Clean(toWorker)
      /\ toMaster \in [Worker -> Seq(Up)] /\ Clean(toMaster) /\ requests \in SUBSET Requests
  BY DEF Checked, SystemOK, TypesOK, TransfersOK, Clean
<1> QED
  BY <1>1, Unchanged DEF OneWire

LEMMA OneWireTwice ==
  ASSUME NEW S, NEW f, NEW g, NEW h, NEW w \in Worker, NEW c, OneWire(S, f, g, w, c), OneWire(S, g, h, w, c)
  PROVE  OneWire(S, f, h, w, c)
BY DEF OneWire, SameWires

SameAbout(f, g, w, c) == About(g[w], c) = About(f[w], c)

LEMMA PutQuiet ==
  ASSUME NEW f, f \in [Worker -> Seq(Up)], Clean(f), NEW w \in Worker, NEW x \in Up, x.type \notin TransferTypes, NEW c
  PROVE  OneWire(Up, f, Put(f, w, x), w, c) /\ SameAbout(f, Put(f, w, x), w, c)
<1> DEFINE g == Put(f, w, x)
<1>1. /\ g \in [Worker -> Seq(Up)] /\ \A z \in Worker : NoTwins(g[z])
      /\ \A z \in Worker : z # w => g[z] = f[z]
  BY WireSent DEF Clean
<1>2. \A d : About(g[w], d) = About(f[w], d)
  BY AboutOther DEF Concerns
<1> HIDE DEF g
<1>3. OneWire(Up, f, g, w, c) /\ SameAbout(f, g, w, c)
  BY <1>1, <1>2 DEF OneWire, Clean, SameWires, SameAbout
<1> QED
  BY <1>3 DEF g

(* Taking a message about c from the master. *)
LEMMA Receiving1 ==
  ASSUME Checked, NEW w \in Worker, toWorker[w] # <<>>, Head(toWorker[w]).type \in TransferTypes
  PROVE  LET x == Head(toWorker[w])
             c == x.id
             g == Took(toWorker, w)
         IN  /\ x \in Down /\ c \in Check /\ HeadConcerns(toWorker, w, c) /\ x \in About(toWorker[w], c)
             /\ TransferOK(master, toWorker, toMaster, worker, requests, c)
             /\ OneWire(Down, toWorker, g, w, c)
             /\ Alone(toWorker[w], c, x) => Nothing(g[w], c)
<1> DEFINE x == Head(toWorker[w])
           c == x.id
           g == Took(toWorker, w)
<1>1. x \in Down
  BY CheckedParts
<1>2. c \in Check
  <2> HIDE DEF x
  <2>1. x.type \in {"P2P_CHECK", "TRANSFER_CONFIRMED", "TIME_ACK"}
    BY <1>1, DownShape DEF TransferTypes, x
  <2> QED
    BY <1>1, <2>1, DownShape
<1>3. HeadConcerns(toWorker, w, c)
  BY DEF HeadConcerns, Concerns
<1> HIDE DEF c
<1>4. /\ OneWire(Down, toWorker, g, w, c) /\ x \in About(toWorker[w], c)
      /\ Alone(toWorker[w], c, x) => Nothing(g[w], c)
  BY <1>3, WiresUnchanged, TookOne
<1>5. TransferOK(master, toWorker, toMaster, worker, requests, c)
  BY <1>2 DEF Checked, SystemOK, TransfersOK
<1> QED
  BY <1>1, <1>2, <1>3, <1>4, <1>5 DEF c

(* The check of w, and what it says. *)
LEMMA CheckingOK ==
  ASSUME Checked, NEW w \in Worker, worker[w].check.pc # "idle"
  PROVE  LET c == worker[w].check.id
         IN  /\ c \in Check /\ TransferOK(master, toWorker, toMaster, worker, requests, c)
             /\ worker[w].check \in CheckRec
<1>1. worker[w] \in Workers /\ WorkerOK(worker[w], w)
  BY CheckedWorker
<1>2. worker[w].check \in CheckRec /\ worker[w].check.id # None
  BY <1>1, WorkerFields DEF WorkerOK
<1>3. worker[w].check.id \in Check
  BY <1>2 DEF CheckRec
<1> QED
  BY <1>2, <1>3 DEF Checked, SystemOK, TransfersOK


-----------------------------------------------------------------------------
(* The check thread: before the tasks are reserved *)

WithCheck(v, k) == [v EXCEPT !.check = k]

LEMMA CheckSet ==
  ASSUME Checked, NEW w \in Worker, NEW k \in CheckRec, k.pc # "idle", NEW c \in Check, k.id = c,
         k.pc = "query" => k.left # {}, w \notin k.left, \A x \in k.seen : x.peer # w,
         worker[w].check.id \in {None, c}
  PROVE  LET v == worker[w]
             v2 == WithCheck(v, k)
         IN  /\ WorkerOK(v2, w) /\ SameElse(v, v2, c) /\ v2.check = k
             /\ v2.queue = v.queue /\ v2.received = v.received /\ v2.receiving = v.receiving
             /\ v2.sent = v.sent /\ v2.events = v.events /\ v2.incoming = v.incoming
             /\ v2.accepted = v.accepted
<1> DEFINE v == worker[w]
           v2 == WithCheck(v, k)
<1>1. v \in Workers /\ WorkerOK(v, w)
  BY CheckedWorker
<1> HIDE DEF v
<1>2. v2 = [v EXCEPT !.check = k]
  BY DEF WithCheck
<1>3. /\ v2 \in Workers /\ v2.check = k /\ v2.received = v.received /\ v2.receiving = v.receiving
      /\ v2.sent = v.sent /\ v2.events = v.events /\ v2.queue = v.queue /\ v2.accepted = v.accepted
      /\ v2.incoming = v.incoming /\ v2.reassigned = v.reassigned
  BY <1>1, <1>2 DEF Workers
<1> HIDE DEF v2
<1>4. WorkerOK(v2, w)
  <2>1. k.pc = "idle" <=> k.id = None
    BY HeldChecks
  <2> QED
    BY <1>1, <1>3, <2>1 DEF WorkerOK
<1>5. SameElse(v, v2, c)
  <2>1. \A d \in Check : Held(v2, d) = Held(v, d)
    BY <1>3 DEF Held, Tasks
  <2>2. ASSUME NEW d \in Check \ {c} PROVE v2.check.id # d /\ v.check.id # d
    BY <1>3, <2>2, HeldChecks DEF v
  <2> QED
    BY <1>3, <2>1, <2>2 DEF SameElse
<1> QED
  BY <1>3, <1>4, <1>5 DEF v, v2

LEMMA EarlyKeeps ==
  ASSUME Checked, NEW w \in Worker, NEW c \in Check,
         Early(master, toWorker, toMaster, worker, requests, c, w),
         NEW down2, OneWire(Down, toWorker, down2, w, c), Nothing(down2[w], c),
         NEW k \in CheckRec, k.pc \in {"begin", "query", "reserve"}, k.id = c,
         k.pc = "query" => k.left # {}, w \notin k.left, \A x \in k.seen : x.peer # w,
         worker[w].check.id \in {None, c},
         NEW wk2, wk2 = [worker EXCEPT ![w] = WithCheck(worker[w], k)]
  PROVE  SystemOK(master, down2, toMaster, wk2, requests)
<1> DEFINE v == worker[w]
           v2 == WithCheck(v, k)
<1>1. /\ WorkerOK(v2, w) /\ SameElse(v, v2, c) /\ v2.check = k
      /\ v2.queue = v.queue /\ v2.received = v.received /\ v2.receiving = v.receiving
      /\ v2.sent = v.sent /\ v2.events = v.events
  BY CheckSet
<1> HIDE DEF v2
<1>2. wk2[w] = v2 /\ \A z \in Worker : z # w => wk2[z] = worker[z]
  BY CheckedWorker DEF v2
<1>3. Early(master, down2, toMaster, wk2, requests, c, w)
  <2>1. Others(down2, toMaster, wk2, c, w, w)
    <3>1. Others(toWorker, toMaster, worker, c, w, w)
      BY DEF Early
    <3>2. \A z \in Worker : z # w => down2[z] = toWorker[z]
      BY DEF OneWire
    <3> QED
      BY <1>2, <3>1, <3>2 DEF Others, Silent
  <2>2. Unmarked(v2, c) /\ Held(v2, c) = {} /\ v2.received[c] = "NONE"
    BY <1>1 DEF Early, Unmarked, Held, Tasks, Receiving
  <2> QED
    BY <1>1, <1>2, <2>1, <2>2 DEF Early, Nothing
<1>4. TransferOK(master, down2, toMaster, wk2, requests, c)
  BY <1>3, PhaseOK
<1>5. OneWire(Up, toMaster, toMaster, w, c) /\ requests \in SUBSET Requests /\ SameAsks(requests, requests, c)
  BY WiresUnchanged DEF SameAsks
<1>6. wk2 = [worker EXCEPT ![w] = v2]
  BY DEF v2
<1> QED
  BY <1>1, <1>4, <1>5, <1>6, WorkerStepKeeps

LEMMA P2PCheckKeeps ==
  ASSUME Checked, NEW w \in Worker, HandleP2PCheck(w)
  PROVE  Checked'
<1>1. CASE Raise("error")
  BY <1>1, RaiseKeeps
<1>2. CASE ~Raise("error")
  <2> DEFINE x == Head(toWorker[w])
             c == x.id
             k == [Idle EXCEPT !.pc = "begin", !.id = c]
             down2 == Took(toWorker, w)
  <2>1. /\ toWorker[w] # <<>> /\ x.type = "P2P_CHECK" /\ worker[w].check.pc = "idle"
        /\ worker' = [worker EXCEPT ![w] = WithCheck(worker[w], k)] /\ toWorker' = down2
        /\ UNCHANGED <<master, toMaster, requests, faults>>
    BY <1>2 DEF HandleP2PCheck, FromMaster, WithCheck, Took
  <2>2. x.type \in TransferTypes
    BY <2>1 DEF TransferTypes
  <2>3. /\ x \in Down /\ c \in Check /\ HeadConcerns(toWorker, w, c) /\ x \in About(toWorker[w], c)
        /\ TransferOK(master, toWorker, toMaster, worker, requests, c)
        /\ OneWire(Down, toWorker, down2, w, c)
        /\ Alone(toWorker[w], c, x) => Nothing(down2[w], c)
    BY <2>1, <2>2, Receiving1
  <2>4. PICK v \in Worker : DownMeans(master, toWorker, toMaster, worker, requests, c, w, x, v)
    BY <2>3, DownSays
  <2>5. Early(master, toWorker, toMaster, worker, requests, c, w) /\ worker[w].check.id # c
        /\ x = [type |-> "P2P_CHECK", id |-> c]
    <3>1. x # TimeAck(c, "SEND") /\ x # TimeAck(c, "RECV") /\ x # Recorded(c)
      BY <2>1 DEF TimeAck, Recorded
    <3> HIDE DEF c, x
    <3> QED
      BY <2>4, <3>1 DEF DownMeans
  <2>6. Alone(toWorker[w], c, x)
    <3> HIDE DEF c
    <3> QED
      BY <2>5 DEF Early, Alone
  <2> HIDE DEF c, x, down2
  <2>7. worker[w].check.id = None
    BY <2>1, CheckedWorker DEF WorkerOK
  <2>8. k \in CheckRec /\ k.pc = "begin" /\ k.id = c /\ k.left = {} /\ k.seen = {}
    BY <2>3 DEF Idle, CheckRec, Pcs, Statuses
  <2> HIDE DEF k
  <2>9. SystemOK(master, down2, toMaster, worker', requests)
    BY <2>1, <2>3, <2>5, <2>6, <2>7, <2>8, EarlyKeeps
  <2> QED
    BY <2>1, <2>9 DEF Checked
<1> QED
  BY <1>1, <1>2


(* A check thread's last messages: at most a queue status, then its report. *)
QuietList(ms) == ms = <<>> \/ \E y \in Up : y.type \notin TransferTypes /\ ms = <<y>>

LEMMA OneMoreSent ==
  ASSUME NEW f, f \in [Worker -> Seq(Up)], NEW w \in Worker, NEW ms \in Seq(Up), NEW x \in Up
  PROVE  Sends(f, w, Append(ms, x)) = Put(Sends(f, w, ms), w, x)
<1>1. f[w] \in Seq(Up) /\ f[w] \o ms \in Seq(Up)
  BY ConcatProperties
<1>2. f[w] \o Append(ms, x) = Append(f[w] \o ms, x)
  BY <1>1, Appends
<1> QED
  BY <1>1, <1>2 DEF Sends, Put

LEMMA ReportWires ==
  ASSUME Checked, NEW w \in Worker, NEW c, NEW ms, QuietList(ms), NEW x \in Up, Concerns(x, c),
         Nothing(toMaster[w], c), NEW up2, up2 = Sends(toMaster, w, Append(ms, x))
  PROVE  /\ Append(ms, x) \in Seq(Up) /\ OneWire(Up, toMaster, up2, w, c) /\ Alone(up2[w], c, x)
<1>1. toMaster \in [Worker -> Seq(Up)] /\ Clean(toMaster)
  BY WiresUnchanged
<1>2. CASE ms = <<>>
  <2>1. Append(ms, x) = <<x>> /\ <<x>> \in Seq(Up)
    BY <1>2
  <2>2. up2 = Put(toMaster, w, x)
    BY <1>1, <2>1, OneSent
  <2> QED
    BY <1>1, <2>1, <2>2, PutOne
<1>3. CASE \E y \in Up : y.type \notin TransferTypes /\ ms = <<y>>
  <2>1. PICK y \in Up : y.type \notin TransferTypes /\ ms = <<y>>
    BY <1>3
  <2> DEFINE f == Sends(toMaster, w, ms)
             g == Put(toMaster, w, y)
  <2>2. ms \in Seq(Up) /\ Append(ms, x) \in Seq(Up)
    BY <2>1
  <2>3. OneWire(Up, toMaster, g, w, c) /\ About(g[w], c) = About(toMaster[w], c)
    <3>1. OneWire(Up, toMaster, Put(toMaster, w, y), w, c) /\ SameAbout(toMaster, Put(toMaster, w, y), w, c)
      BY <1>1, <2>1, PutQuiet
    <3> QED
      BY <3>1 DEF SameAbout
  <2>4. up2 = Put(g, w, x)
    <3>1. f = g
      BY <1>1, <2>1, OneSent
    <3>2. up2 = Put(f, w, x)
      BY <1>1, <2>2, OneMoreSent
    <3> QED
      BY <3>1, <3>2
  <2> HIDE DEF g
  <2>5. OneWire(Up, g, Put(g, w, x), w, c) /\ Alone(Put(g, w, x)[w], c, x)
    <3>1. g \in [Worker -> Seq(Up)] /\ Clean(g) /\ Nothing(g[w], c)
      BY <2>3 DEF OneWire, Nothing
    <3> QED
      BY <3>1, PutOne
  <2> QED
    BY <2>2, <2>3, <2>4, <2>5, OneWireTwice
<1> QED
  BY <1>2, <1>3 DEF QuietList

Ended(v, b) == [v EXCEPT !.check = Idle, !.broken = b]

LEMMA EndedOK ==
  ASSUME NEW v, NEW w \in Worker, WorkerOK(v, w), NEW b \in BOOLEAN
  PROVE  LET v2 == Ended(v, b)
         IN  /\ WorkerOK(v2, w) /\ v2.check.id = None /\ v2.received = v.received /\ v2.receiving = v.receiving
             /\ v2.sent = v.sent /\ v2.events = v.events /\ v2.queue = v.queue /\ v2.accepted = v.accepted
             /\ v2.incoming = v.incoming
<1> DEFINE v2 == Ended(v, b)
<1>1. v \in Workers
  BY DEF WorkerOK
<1>2. /\ Idle \in CheckRec /\ Idle.pc = "idle" /\ Idle.id = None /\ Idle.left = {} /\ Idle.seen = {}
  BY DEF Idle, CheckRec, Pcs, Statuses
<1>3. v2 = [v EXCEPT !.check = Idle, !.broken = b]
  BY DEF Ended
<1>4. /\ v2 \in Workers /\ v2.check = Idle /\ v2.received = v.received /\ v2.receiving = v.receiving
      /\ v2.sent = v.sent /\ v2.events = v.events /\ v2.queue = v.queue /\ v2.accepted = v.accepted
      /\ v2.incoming = v.incoming /\ v2.reassigned = v.reassigned
  BY <1>1, <1>2, <1>3 DEF Workers
<1> HIDE DEF v2
<1>5. WorkerOK(v2, w)
  BY <1>2, <1>4 DEF WorkerOK
<1> QED
  BY <1>2, <1>4, <1>5 DEF v2

LEMMA EndedElse ==
  ASSUME NEW v, NEW v2, NEW w \in Worker, WorkerOK(v2, w), NEW b \in BOOLEAN, NEW c \in Check,
         v.check.id = c, SameElse(v, v2, c)
  PROVE  SameElse(v, Ended(v2, b), c)
<1> DEFINE e == Ended(v2, b)
<1>1. /\ e.check.id = None /\ e.received = v2.received /\ e.receiving = v2.receiving
      /\ e.sent = v2.sent /\ e.events = v2.events /\ e.queue = v2.queue
  BY EndedOK
<1> HIDE DEF e
<1>2. \A d \in Check : Held(e, d) = Held(v2, d)
  BY <1>1 DEF Held, Tasks
<1>3. \A d \in Check \ {c} : e.check.id # d /\ v.check.id # d
  BY <1>1, HeldChecks
<1>4. SameElse(v, e, c)
  BY <1>1, <1>2, <1>3 DEF SameElse, Receiving
<1> QED
  BY <1>4 DEF e

LEMMA ReportKeeps ==
  ASSUME Checked, NEW w \in Worker, NEW c \in Check, NEW ms, QuietList(ms), NEW x \in Up, Concerns(x, c),
         Nothing(toMaster[w], c), NEW v, WorkerOK(v, w), SameElse(worker[w], v, c),
         SendAndStart(w, v, Append(ms, x)), NEW up2, up2 = Sends(toMaster, w, Append(ms, x)),
         NEW wk2, wk2 = [worker EXCEPT ![w] = v], UNCHANGED <<master, toWorker, requests, faults>>,
         TransferOK(master, toWorker, up2, wk2, requests, c)
  PROVE  Checked'
<1>1. /\ Append(ms, x) \in Seq(Up) /\ OneWire(Up, toMaster, up2, w, c)
  BY ReportWires
<1>2. /\ OneWire(Down, toWorker, toWorker, w, c) /\ toMaster \in [Worker -> Seq(Up)]
      /\ requests \in SUBSET Requests /\ SameAsks(requests, requests, c) /\ DOMAIN worker = Worker
  BY WiresUnchanged, CheckedWorker DEF SameAsks
<1>3. SystemOK(master, toWorker, up2, wk2, requests)
  BY <1>1, <1>2, WorkerStepKeeps
<1>4. SystemOK(master, toWorker, toMaster', worker', requests)
  BY <1>1, <1>2, <1>3, StartedKeeps
<1> QED
  BY <1>4 DEF Checked


Droppable(m, down, up, wk, rq, c, w) ==
  /\ Owns(m, w, c) /\ Asks(rq, c) = {} /\ wk[w].check.id = c
  /\ \A z \in Worker : Silent(down, up, z, c)
  /\ \A z \in Worker : z # w => Outside(wk[z], c) /\ wk[z].received[c] \in {"NONE", "REJECTED"}
DropState(m, c, w, u, cancels) ==
  Known(m, c) = IF cancels THEN {Record(c, w, u, FALSE)} ELSE {}
Ending(v, c) ==
  Unmarked(v, c) /\ Held(v, c) = {} /\ v.received[c] \in {"NONE", "REJECTED"}

LEMMA DropKeeps ==
  ASSUME Checked, NEW w \in Worker, NEW u \in Worker, NEW c \in Check, NEW cancels \in BOOLEAN,
         Droppable(master, toWorker, toMaster, worker, requests, c, w),
         DropState(master, c, w, u, cancels),
         NEW v, WorkerOK(v, w), SameElse(worker[w], v, c), Ending(v, c),
         NEW ms, QuietList(ms), FinishCheck(w, v, ms, NoTransfer(c, cancels))
  PROVE  Checked'
<1> DEFINE x == NoTransfer(c, cancels)
           b == x.type = "P2P_FAILURE"
           v2 == Ended(v, b)
           up2 == Sends(toMaster, w, Append(ms, x))
           wk2 == [worker EXCEPT ![w] = v2]
<1>1. SendAndStart(w, v2, Append(ms, x)) /\ UNCHANGED <<master, toWorker, requests, faults>>
  BY DEF FinishCheck, Ended
<1>2. x \in Up /\ Concerns(x, c)
  BY DEF NoTransfer, Up, Concerns, TransferTypes
<1>2a. b \in BOOLEAN
  OBVIOUS
<1>2b. worker[w].check.id = c
  BY DEF Droppable
<1> HIDE DEF x, b
<1>3. /\ WorkerOK(v2, w) /\ v2.check.id = None /\ v2.received = v.received /\ v2.receiving = v.receiving
      /\ v2.sent = v.sent /\ v2.events = v.events /\ v2.queue = v.queue
  BY <1>2a, EndedOK
<1>4. SameElse(worker[w], v2, c)
  BY <1>2a, <1>2b, EndedElse
<1> HIDE DEF v2, up2
<1>5. Nothing(toMaster[w], c)
  BY DEF Droppable, Silent, Nothing
<1>6. OneWire(Up, toMaster, up2, w, c) /\ Alone(up2[w], c, x)
  BY <1>2, <1>5, ReportWires DEF up2
<1>7. wk2[w] = v2 /\ \A z \in Worker : z # w => wk2[z] = worker[z]
  BY CheckedWorker
<1> HIDE DEF wk2
<1>8. Outside(v2, c) /\ v2.received[c] \in {"NONE", "REJECTED"}
  BY <1>3, HeldChecks DEF Ending, Outside, Unmarked, Held, Tasks, Receiving
<1>9. About(up2[w], c) = {NoTransfer(c, cancels)} /\ \A z \in Worker : z # w => up2[z] = toMaster[z]
  BY <1>6 DEF OneWire, Alone, x
<1>10. ASSUME NEW z \in Worker
       PROVE  /\ Outside(wk2[z], c) /\ wk2[z].received[c] \in {"NONE", "REJECTED"}
              /\ About(toWorker[z], c) = {} /\ (z # w => About(up2[z], c) = {})
  BY <1>7, <1>8, <1>9 DEF Droppable, Silent
<1>11. Dropped(master, toWorker, up2, wk2, requests, c, w, u)
  BY <1>9, <1>10 DEF Dropped, Droppable, DropState
<1>12. TransferOK(master, toWorker, up2, wk2, requests, c)
  BY <1>11, PhaseOK
<1> QED
  BY <1>1, <1>2, <1>3, <1>4, <1>5, <1>12, ReportKeeps DEF up2, wk2

LEMMA EarlyDrops ==
  ASSUME Checked, NEW w \in Worker, NEW c \in Check, worker[w].check.id = c,
         Early(master, toWorker, toMaster, worker, requests, c, w),
         FinishCheck(w, worker[w], <<>>, NoTransfer(c, FALSE))
  PROVE  Checked'
<1>1. Droppable(master, toWorker, toMaster, worker, requests, c, w)
  BY DEF Early, Droppable, Others, Silent
<1>2. DropState(master, c, w, w, FALSE)
  BY DEF Early, DropState
<1>3. Ending(worker[w], c) /\ SameElse(worker[w], worker[w], c) /\ WorkerOK(worker[w], w)
  BY CheckedWorker DEF Early, Ending, SameElse
<1>4. QuietList(<<>>)
  BY DEF QuietList
<1> QED
  BY <1>1, <1>2, <1>3, <1>4, DropKeeps

LEMMA BeginCheckKeeps ==
  ASSUME Checked, NEW w \in Worker, BeginCheck(w)
  PROVE  Checked'
<1> DEFINE v == worker[w]
           c == v.check.id
           k == [v.check EXCEPT !.pc = "query", !.size = Len(v.queue), !.left = Worker \ {w}]
<1>1. /\ v.check.pc = "begin"
      /\ \/ FinishCheck(w, v, <<>>, NoTransfer(c, FALSE))
         \/ /\ worker' = [worker EXCEPT ![w] = WithCheck(v, k)]
            /\ UNCHANGED <<master, toWorker, toMaster, requests, faults>>
  BY DEF BeginCheck, At, WithCheck
<1>2. c \in Check /\ TransferOK(master, toWorker, toMaster, worker, requests, c) /\ v.check \in CheckRec
  BY <1>1, CheckingOK
<1>3. Early(master, toWorker, toMaster, worker, requests, c, w)
  BY <1>1, <1>2, CheckSays
<1>4. CASE FinishCheck(w, v, <<>>, NoTransfer(c, FALSE))
  BY <1>2, <1>3, <1>4, EarlyDrops
<1>5. CASE ~FinishCheck(w, v, <<>>, NoTransfer(c, FALSE))
  <2>0. Len(v.queue) \in Nat /\ \A y \in v.check.seen : y.peer # w
    BY CheckedWorker DEF WorkerOK
  <2>1. k \in CheckRec /\ k.pc = "query" /\ k.id = c /\ k.left = Worker \ {w} /\ k.seen = v.check.seen
    <3> DEFINE g == v.check
               n == Len(v.queue)
    <3>1. g \in CheckRec /\ n \in Nat
      BY <1>2, <2>0
    <3> HIDE DEF g, n
    <3>2. [g EXCEPT !.pc = "query", !.size = n, !.left = Worker \ {w}] \in CheckRec
      BY <3>1 DEF CheckRec, Pcs
    <3>3. LET e == [g EXCEPT !.pc = "query", !.size = n, !.left = Worker \ {w}]
          IN  e.pc = "query" /\ e.id = g.id /\ e.left = Worker \ {w} /\ e.seen = g.seen
      BY <3>1 DEF CheckRec
    <3> QED
      BY <3>2, <3>3 DEF g, n
  <2>2. Worker \ {w} # {}
    <3>1. 1 \in Worker /\ 2 \in Worker
      BY DEF Worker
    <3> QED
      BY <3>1
  <2> DEFINE k2 == k
             wk2 == [worker EXCEPT ![w] = WithCheck(worker[w], k2)]
  <2> HIDE DEF k
  <2>3. worker' = wk2 /\ UNCHANGED <<master, toWorker, toMaster, requests, faults>>
    BY <1>1, <1>5
  <2>4. OneWire(Down, toWorker, toWorker, w, c)
    BY WiresUnchanged
  <2>5. Nothing(toWorker[w], c)
    BY <1>3 DEF Early, Nothing
  <2> HIDE DEF k2, wk2
  <2>6. k2 \in CheckRec /\ k2.pc = "query" /\ k2.id = c /\ k2.left # {} /\ w \notin k2.left /\ \A y \in k2.seen : y.peer # w
    BY <2>0, <2>1, <2>2 DEF k2
  <2>7. SystemOK(master, toWorker, toMaster, wk2, requests)
    <3> DEFINE c2 == c
    <3>1. /\ c2 \in Check /\ Early(master, toWorker, toMaster, worker, requests, c2, w)
          /\ OneWire(Down, toWorker, toWorker, w, c2) /\ Nothing(toWorker[w], c2)
          /\ k2.id = c2 /\ worker[w].check.id \in {None, c2}
      BY <1>2, <1>3, <2>4, <2>5, <2>6
    <3> HIDE DEF c2
    <3>2. wk2 = [worker EXCEPT ![w] = WithCheck(worker[w], k2)]
      BY DEF wk2
    <3> QED
      BY <2>6, <3>1, <3>2, EarlyKeeps
  <2> QED
    BY <2>3, <2>7 DEF Checked
<1> QED
  BY <1>4, <1>5


LEMMA EarlyStepKeeps ==
  ASSUME Checked, NEW w \in Worker, NEW c \in Check, worker[w].check.id = c,
         Early(master, toWorker, toMaster, worker, requests, c, w),
         NEW k \in CheckRec, k.pc \in {"begin", "query", "reserve"}, k.id = c,
         k.pc = "query" => k.left # {}, w \notin k.left, \A y \in k.seen : y.peer # w,
         worker' = [worker EXCEPT ![w] = WithCheck(worker[w], k)],
         UNCHANGED <<master, toWorker, toMaster, requests>>, faults' \in Nat
  PROVE  Checked'
<1> DEFINE wk2 == [worker EXCEPT ![w] = WithCheck(worker[w], k)]
<1>1. wk2 = [worker EXCEPT ![w] = WithCheck(worker[w], k)] /\ worker' = wk2
  OBVIOUS
<1> HIDE DEF wk2
<1>2. OneWire(Down, toWorker, toWorker, w, c)
  BY WiresUnchanged
<1>3. Nothing(toWorker[w], c)
  BY DEF Early, Nothing
<1>4. SystemOK(master, toWorker, toMaster, wk2, requests)
  BY <1>1, <1>2, <1>3, EarlyKeeps
<1> QED
  BY <1>1, <1>4 DEF Checked

LEMMA QueryPeerKeeps ==
  ASSUME Checked, NEW w \in Worker, QueryPeer(w)
  PROVE  Checked'
<1> DEFINE v == worker[w]
           g == v.check
           c == g.id
           peer == Min(g.left)
           pc == IF g.left = {peer} THEN "reserve" ELSE g.pc
           left == g.left \ {peer}
           n == Len(worker[peer].queue)
           seen == g.seen \cup {[peer |-> peer, size |-> n]}
           k1 == [g EXCEPT !.left = left, !.pc = pc]
           k2 == [g EXCEPT !.left = left, !.pc = pc, !.seen = seen]
<1>1. /\ g.pc = "query" /\ UNCHANGED <<master, toWorker, toMaster, requests>> /\ faults' \in {faults, faults + 1}
      /\ \/ worker' = [worker EXCEPT ![w] = WithCheck(v, k1)]
         \/ worker' = [worker EXCEPT ![w] = WithCheck(v, k2)]
  BY DEF QueryPeer, At, WithCheck
<1>2. c \in Check /\ TransferOK(master, toWorker, toMaster, worker, requests, c) /\ g \in CheckRec
  BY <1>1, CheckingOK
<1>3. Early(master, toWorker, toMaster, worker, requests, c, w)
  BY <1>1, <1>2, CheckSays
<1>4. g.left # {} /\ g.left \subseteq Worker /\ w \notin g.left /\ \A y \in g.seen : y.peer # w
  <2>1. WorkerOK(v, w)
    BY CheckedWorker
  <2> QED
    BY <1>1, <1>2, <2>1 DEF WorkerOK, CheckRec
<1>5. peer \in g.left
  <2>1. g.left \subseteq Nat
    BY <1>4 DEF Worker
  <2> QED
    BY <1>4, <2>1, MinIsLeast
<1>6. n \in Nat
  BY <1>4, <1>5, CheckedWorker
<1> HIDE DEF peer, n
<1>7. seen \in SUBSET [peer : Worker, size : Nat] /\ \A y \in seen : y.peer # w
  BY <1>2, <1>4, <1>5, <1>6 DEF CheckRec
<1>8. /\ left \subseteq Worker /\ w \notin left /\ pc \in {"query", "reserve"}
      /\ pc = "query" => left # {}
  BY <1>1, <1>4, <1>5
<1>9. faults' \in Nat
  BY <1>1 DEF Checked
<1> HIDE DEF g, left, pc, seen
<1>10. /\ k1 \in CheckRec /\ k1.pc = pc /\ k1.id = c /\ k1.left = left /\ k1.seen = g.seen
       /\ k2 \in CheckRec /\ k2.pc = pc /\ k2.id = c /\ k2.left = left /\ k2.seen = seen
  BY <1>2, <1>7, <1>8 DEF CheckRec, Pcs
<1> HIDE DEF k1, k2
<1>11. worker[w].check.id = c
  BY DEF g
<1> HIDE DEF c
<1>12. CASE worker' = [worker EXCEPT ![w] = WithCheck(v, k1)]
  <2>1. k1.pc \in {"begin", "query", "reserve"} /\ (k1.pc = "query" => k1.left # {}) /\ w \notin k1.left
        /\ \A y \in k1.seen : y.peer # w
    BY <1>4, <1>8, <1>10
  <2> QED
    BY <1>1, <1>2, <1>3, <1>9, <1>10, <1>11, <1>12, <2>1, EarlyStepKeeps
<1>13. CASE worker' = [worker EXCEPT ![w] = WithCheck(v, k2)]
  <2>1. k2.pc \in {"begin", "query", "reserve"} /\ (k2.pc = "query" => k2.left # {}) /\ w \notin k2.left
        /\ \A y \in k2.seen : y.peer # w
    BY <1>7, <1>8, <1>10
  <2> QED
    BY <1>1, <1>2, <1>3, <1>9, <1>10, <1>11, <1>13, <2>1, EarlyStepKeeps
<1> QED
  BY <1>1, <1>12, <1>13


-----------------------------------------------------------------------------
(* The check thread: the tasks are reserved *)

LEMMA TargetFound ==
  ASSUME NEW seen, seen \subseteq [peer : Worker, size : Nat], seen # {}
  PROVE  FindTarget(seen) \in seen
<1> DEFINE sizes == {x.size : x \in seen}
<1>1. sizes \subseteq Nat /\ sizes # {}
  OBVIOUS
<1>2. PICK n \in sizes : \A i \in sizes : n <= i
  BY <1>1, LeastNumber
<1> DEFINE peers == {x.peer : x \in {y \in seen : y.size = n}}
<1>3. peers \subseteq Nat /\ peers # {}
  BY <1>2 DEF Worker
<1>4. PICK p \in peers : \A i \in peers : p <= i
  BY <1>3, LeastNumber
<1>5. PICK x \in seen : x.size = n /\ x.peer = p
  BY <1>4
<1>6. ASSUME NEW y \in seen PROVE x.size < y.size \/ (x.size = y.size /\ x.peer <= y.peer)
  <2>1. y.size \in sizes /\ n <= y.size /\ n \in Nat /\ y.size \in Nat
    BY <1>1, <1>2
  <2>2. CASE y.size = n
    <3>1. y.peer \in peers
      BY <2>2
    <3> QED
      BY <1>4, <1>5, <2>2, <3>1
  <2>3. CASE y.size # n
    BY <1>5, <2>1, <2>3
  <2> QED
    BY <2>2, <2>3
<1> HIDE DEF sizes, peers
<1>7. \E z \in seen : \A y \in seen : z.size < y.size \/ (z.size = y.size /\ z.peer <= y.peer)
  BY <1>5, <1>6
<1> QED
  BY <1>7 DEF FindTarget

LEMMA LeastOfThree ==
  ASSUME NEW a \in Int, NEW b \in Int, NEW d \in Int
  PROVE  Min({a, b, d}) \in Int
<1>1. \E x \in {a, b, d} : \A y \in {a, b, d} : x <= y
  <2>1. CASE a <= b /\ a <= d
    BY <2>1
  <2>2. CASE b <= a /\ b <= d
    BY <2>2
  <2>3. CASE d <= a /\ d <= b
    BY <2>3
  <2> QED
    BY <2>1, <2>2, <2>3
<1> QED
  BY <1>1 DEF Min

LEMMA ReservedQueue ==
  ASSUME NEW q \in Seq(TaskRec), NEW c \in Check, NEW count \in Nat \ {0}, Free(q) # {}
  PROVE  /\ Reserve(q, c, count) \in Seq(TaskRec) /\ Len(Reserve(q, c, count)) = Len(q)
         /\ \A d \in Check : d # c =>
              {t \in Range(Reserve(q, c, count)) : t.held = d} = {t \in Range(q) : t.held = d}
         /\ \E t \in Range(Reserve(q, c, count)) : t.held = c
<1> DEFINE p == Reserve(q, c, count)
<1>1. /\ p \in Seq(TaskRec) /\ Len(p) = Len(q) /\ DOMAIN p = DOMAIN q
      /\ \A i \in DOMAIN q : p[i] = q[i] \/ (q[i].held = None /\ p[i] = [q[i] EXCEPT !.held = c])
      /\ \E i \in DOMAIN q : p[i].held = c
  BY TasksReserved
<1> HIDE DEF p
<1>2. Range(p) = {p[i] : i \in DOMAIN q} /\ Range(q) = {q[i] : i \in DOMAIN q}
  BY <1>1 DEF Range
<1>3. ASSUME NEW d \in Check, d # c
      PROVE  {t \in Range(p) : t.held = d} = {t \in Range(q) : t.held = d}
  <2>1. ASSUME NEW i \in DOMAIN q, p[i].held = d PROVE p[i] = q[i]
    <3>1. q[i] \in TaskRec
      BY <2>1
    <3>2. [q[i] EXCEPT !.held = c].held = c
      BY <3>1 DEF TaskRec
    <3> QED
      BY <1>1, <1>3, <2>1, <3>2
  <2>2. ASSUME NEW i \in DOMAIN q, q[i].held = d PROVE p[i] = q[i]
    BY <1>1, <2>2, HeldChecks
  <2> QED
    BY <1>2, <2>1, <2>2
<1>4. \E t \in Range(p) : t.held = c
  BY <1>1, <1>2
<1> QED
  BY <1>1, <1>3, <1>4 DEF p

Waits(c, u) == [Idle EXCEPT !.pc = "time", !.id = c, !.target = u]
Reserved(v, q, k) == [v EXCEPT !.queue = q, !.check = k]

LEMMA ReservedOK ==
  ASSUME NEW v, NEW w \in Worker, WorkerOK(v, w), NEW c \in Check, v.check.id = c, NEW u \in Worker,
         NEW q \in Seq(TaskRec), Len(q) = Len(v.queue),
         \A d \in Check : d # c => {t \in Range(q) : t.held = d} = Held(v, d)
  PROVE  LET v2 == Reserved(v, q, Waits(c, u))
         IN  /\ WorkerOK(v2, w) /\ SameElse(v, v2, c) /\ v2.check = Waits(c, u) /\ v2.queue = q
             /\ v2.received = v.received /\ v2.receiving = v.receiving
             /\ v2.sent = v.sent /\ v2.events = v.events
<1> DEFINE k == Waits(c, u)
           v2 == Reserved(v, q, k)
<1>1. v \in Workers
  BY DEF WorkerOK
<1>2. k \in CheckRec /\ k.pc = "time" /\ k.id = c /\ k.left = {} /\ k.seen = {}
  BY DEF Waits, Idle, CheckRec, Pcs, Statuses
<1> HIDE DEF k
<1>3. v2 = [v EXCEPT !.queue = q, !.check = k]
  BY DEF Reserved
<1>4. /\ v2 \in Workers /\ v2.check = k /\ v2.received = v.received /\ v2.receiving = v.receiving
      /\ v2.sent = v.sent /\ v2.events = v.events /\ v2.queue = q /\ v2.accepted = v.accepted
      /\ v2.incoming = v.incoming /\ v2.reassigned = v.reassigned
  BY <1>1, <1>2, <1>3 DEF Workers
<1> HIDE DEF v2
<1>5. WorkerOK(v2, w)
  BY <1>2, <1>4, HeldChecks DEF WorkerOK
<1>6. SameElse(v, v2, c)
  BY <1>2, <1>4 DEF SameElse, Held, Tasks
<1> QED
  BY <1>4, <1>5, <1>6 DEF v2, k


ReserveStep(w, u, c, count, v2) ==
  /\ Free(worker[w].queue) # {}
  /\ v2 = Reserved(worker[w], Reserve(worker[w].queue, c, count), Waits(c, u))
  /\ worker' = [worker EXCEPT ![w] = v2]
  /\ toMaster' = Sends(toMaster, w, <<Status(v2, {}), TimeOf(c, w, u, "SEND")>>)
  /\ UNCHANGED <<master, toWorker, requests, faults>>

LEMMA TwoSent ==
  ASSUME NEW y \in Up, NEW x \in Up
  PROVE  Append(<<y>>, x) = <<y, x>>
<1>1. <<y>> \in Seq(Up) /\ <<y, x>> \in Seq(Up) /\ Append(<<y>>, x) \in Seq(Up)
  BY AppendProperties
<1>2. Len(<<y>>) = 1 /\ Len(<<y, x>>) = 2 /\ Len(Append(<<y>>, x)) = 2
  BY <1>1, AppendProperties
<1>3. Append(<<y>>, x)[1] = y /\ Append(<<y>>, x)[2] = x
  BY <1>1, <1>2, AppendProperties
<1>4. \A i \in 1..2 : Append(<<y>>, x)[i] = <<y, x>>[i]
  <2>1. \A i \in 1..2 : i = 1 \/ i = 2
    OBVIOUS
  <2> QED
    BY <1>3, <2>1
<1> QED
  BY <1>1, <1>2, <1>4, SeqEqual

LEMMA Half ==
  ASSUME NEW i \in Nat, NEW j \in Nat
  PROVE  (i - j) \div 2 \in Int /\ QueueSize - j \in Int
<1>1. QueueSize \in Nat /\ i - j \in Int
  OBVIOUS
<1> DEFINE k == i - j
<1> HIDE DEF k
<1>2. ASSUME NEW e \in Int PROVE e \div 2 \in Int
  OBVIOUS
<1> QED
  BY <1>1, <1>2

LEMMA ReserveKeeps ==
  ASSUME Checked, NEW w \in Worker, NEW u \in Worker, u # w, NEW c \in Check, worker[w].check.id = c,
         Early(master, toWorker, toMaster, worker, requests, c, w),
         NEW count \in Nat \ {0}, NEW v2, ReserveStep(w, u, c, count, v2)
  PROVE  Checked'
<1> DEFINE v == worker[w]
           q == Reserve(v.queue, c, count)
           y == Status(v2, {})
           x == TimeOf(c, w, u, "SEND")
           ms == <<y>>
           wk2 == [worker EXCEPT ![w] = v2]
           up2 == Sends(toMaster, w, Append(ms, x))
<1>1. WorkerOK(v, w) /\ v.queue \in Seq(TaskRec) /\ Len(v.queue) \in Size
  BY CheckedWorker
<1>2. /\ q \in Seq(TaskRec) /\ Len(q) = Len(v.queue)
      /\ \A d \in Check : d # c => {t \in Range(q) : t.held = d} = Held(v, d)
      /\ \E t \in Range(q) : t.held = c
  <2>1. Free(v.queue) # {}
    BY DEF ReserveStep
  <2> QED
    BY <1>1, <2>1, ReservedQueue DEF Held, Tasks
<1>3. v2 = Reserved(v, q, Waits(c, u))
  BY DEF ReserveStep
<1> HIDE DEF q
<1>4. /\ WorkerOK(v2, w) /\ SameElse(v, v2, c) /\ v2.check = Waits(c, u) /\ v2.queue = q
      /\ v2.received = v.received /\ v2.receiving = v.receiving
      /\ v2.sent = v.sent /\ v2.events = v.events
  BY <1>1, <1>2, <1>3, ReservedOK
<1>5. y \in Up /\ y.type \notin TransferTypes
  BY <1>1, <1>2, <1>4 DEF Status, Up, TransferTypes
<1>6. x \in Up /\ Concerns(x, c)
  BY DEF TimeOf, Up, Concerns, TransferTypes, Phases
<1> HIDE DEF x, y
<1>7. toMaster' = up2 /\ QuietList(ms)
  <2>1. Append(ms, x) = <<y, x>>
    BY <1>5, <1>6, TwoSent
  <2>2. toMaster' = Sends(toMaster, w, <<y, x>>)
    BY DEF x, y, ReserveStep
  <2>3. QuietList(ms)
    BY <1>5 DEF QuietList
  <2> QED
    BY <2>1, <2>2, <2>3
<1>8. Nothing(toMaster[w], c)
  BY DEF Early, Nothing
<1> HIDE DEF up2, ms
<1>9. OneWire(Up, toMaster, up2, w, c) /\ Alone(up2[w], c, x)
  BY <1>6, <1>7, <1>8, ReportWires DEF up2
<1>10. wk2[w] = v2 /\ \A z \in Worker : z # w => wk2[z] = worker[z]
  BY CheckedWorker
<1>10a. worker' = wk2 /\ wk2 = [worker EXCEPT ![w] = v2] /\ UNCHANGED <<master, toWorker, requests, faults>>
  BY DEF ReserveStep
<1> HIDE DEF wk2
<1>11. Timing(master, toWorker, up2, wk2, requests, c, w, u)
  <2>1. Others(toWorker, up2, wk2, c, w, w)
    <3>1. Others(toWorker, toMaster, worker, c, w, w)
      BY DEF Early
    <3>2. \A z \in Worker : z # w => up2[z] = toMaster[z]
      BY <1>9 DEF OneWire
    <3> QED
      BY <1>10, <3>1, <3>2 DEF Others, Silent
  <2>2. v2.check.id = c /\ v2.check.pc = "time" /\ v2.check.target = u
    BY <1>4 DEF Waits, Idle
  <2>3. Unmarked(v2, c) /\ v2.received[c] = "NONE"
    BY <1>4 DEF Early, Unmarked, Receiving
  <2>4. Held(v2, c) # {}
    BY <1>2, <1>4 DEF Held, Tasks
  <2>5. Known(master, c) = {} /\ About(up2[w], c) = {TimeOf(c, w, u, "SEND")} /\ About(toWorker[w], c) = {}
    BY <1>9 DEF Early, Alone, x
  <2> QED
    BY <1>10, <2>1, <2>2, <2>3, <2>4, <2>5 DEF Early, Timing
<1>12. TransferOK(master, toWorker, up2, wk2, requests, c)
  BY <1>11, PhaseOK
<1>13. OneWire(Down, toWorker, toWorker, w, c) /\ requests \in SUBSET Requests /\ SameAsks(requests, requests, c)
  BY WiresUnchanged DEF SameAsks
<1>14. SystemOK(master, toWorker, up2, wk2, requests)
  BY <1>4, <1>9, <1>10a, <1>12, <1>13, WorkerStepKeeps
<1> QED
  BY <1>7, <1>10a, <1>14 DEF Checked

LEMMA ChooseAndReserveKeeps ==
  ASSUME Checked, NEW w \in Worker, ChooseAndReserve(w)
  PROVE  Checked'
<1> DEFINE v == worker[w]
           c == v.check.id
           target == FindTarget(v.check.seen)
           u == target.peer
           count == Min({(v.check.size - target.size) \div 2, QueueSize - target.size,
                         (Len(v.queue) - target.size) \div 2})
           v2 == Reserved(v, Reserve(v.queue, c, count), Waits(c, u))
<1>1. /\ v.check.pc = "reserve"
      /\ \/ FinishCheck(w, v, <<>>, NoTransfer(c, FALSE))
         \/ v.check.seen # {} /\ ~(count <= 0) /\ ReserveStep(w, u, c, count, v2)
  BY Zenon DEF ChooseAndReserve, At, Reserved, Waits, Sends, TimeOf, ReserveStep
<1>2. c \in Check /\ TransferOK(master, toWorker, toMaster, worker, requests, c) /\ v.check \in CheckRec
  BY <1>1, CheckingOK
<1>3. Early(master, toWorker, toMaster, worker, requests, c, w)
  BY <1>1, <1>2, CheckSays
<1>4. CASE FinishCheck(w, v, <<>>, NoTransfer(c, FALSE))
  BY <1>2, <1>3, <1>4, EarlyDrops
<1>5. CASE ~FinishCheck(w, v, <<>>, NoTransfer(c, FALSE))
  <2>0. v.check.seen # {} /\ ~(count <= 0) /\ ReserveStep(w, u, c, count, v2)
    BY <1>1, <1>5, Zenon
  <2>1. /\ v.check.seen \subseteq [peer : Worker, size : Nat] /\ v.check.size \in Nat
        /\ Len(v.queue) \in Nat /\ \A y \in v.check.seen : y.peer # w
    <3>1. WorkerOK(v, w) /\ Len(v.queue) \in Nat
      BY CheckedWorker
    <3> HIDE DEF v
    <3> QED
      BY <1>2, <3>1 DEF WorkerOK, CheckRec
  <2>2. target \in v.check.seen
    BY <2>0, <2>1, TargetFound
  <2> HIDE DEF target
  <2>3. u \in Worker /\ u # w /\ target.size \in Nat
    BY <2>1, <2>2
  <2>4. count \in Int
    <3> DEFINE a == (v.check.size - target.size) \div 2
               b == QueueSize - target.size
               d == (Len(v.queue) - target.size) \div 2
    <3>1. a \in Int /\ b \in Int /\ d \in Int
      BY <2>1, <2>3, Half
    <3> HIDE DEF a, b, d
    <3>2. Min({a, b, d}) \in Int
      BY <3>1, LeastOfThree
    <3> QED
      BY <3>2 DEF a, b, d
  <2> DEFINE n == count
             e == u
             c2 == c
             v3 == v2
  <2>5. n \in Nat \ {0}
    <3> HIDE DEF count
    <3> QED
      BY <2>0, <2>4
  <2>6. /\ ReserveStep(w, e, c2, n, v3)
        /\ e \in Worker /\ e # w /\ c2 \in Check /\ worker[w].check.id = c2
        /\ Early(master, toWorker, toMaster, worker, requests, c2, w)
    BY <1>2, <1>3, <2>0, <2>3, Zenon
  <2> HIDE DEF n, e, c2, v3
  <2> QED
    BY <2>5, <2>6, ReserveKeeps
<1> QED
  BY <1>4, <1>5


-----------------------------------------------------------------------------
(* The answers of the master to the times *)

LEMMA TransferAnswerKeeps ==
  ASSUME Checked, NEW w \in Worker, NEW c \in Check,
         OneWire(Down, toWorker, Took(toWorker, w), w, c), NEW ms \in Seq(Up), NEW up2,
         up2 = Sends(toMaster, w, ms), OneWire(Up, toMaster, up2, w, c),
         NEW v, WorkerOK(v, w), SameElse(worker[w], v, c), NEW wk2, wk2 = [worker EXCEPT ![w] = v],
         requests' \in SUBSET Requests, SameAsks(requests, requests', c), Answer(w, v, ms),
         TransferOK(master, Took(toWorker, w), up2, wk2, requests', c)
  PROVE  Checked'
<1> DEFINE down2 == Took(toWorker, w)
           rq2 == requests'
<1>1. SendAndStart(w, v, ms) /\ toWorker' = down2 /\ UNCHANGED <<master, faults>>
  BY DEF Answer, Took
<1>2. toMaster \in [Worker -> Seq(Up)] /\ DOMAIN worker = Worker
  BY WiresUnchanged, CheckedWorker
<1> HIDE DEF down2, rq2
<1>3. SystemOK(master, down2, up2, wk2, rq2)
  <2>1. /\ OneWire(Down, toWorker, down2, w, c) /\ rq2 \in SUBSET Requests /\ SameAsks(requests, rq2, c)
        /\ TransferOK(master, down2, up2, wk2, rq2, c)
    BY DEF down2, rq2
  <2> QED
    BY <2>1, WorkerStepKeeps
<1>4. SystemOK(master, down2, toMaster', worker', rq2)
  BY <1>1, <1>2, <1>3, StartedKeeps
<1> QED
  BY <1>1, <1>4 DEF Checked, rq2

LEMMA NothingSent ==
  ASSUME NEW f, f \in [Worker -> Seq(Up)], NEW w \in Worker
  PROVE  Sends(f, w, <<>>) = f
<1>1. f[w] \in Seq(Up)
  OBVIOUS
<1>2. f[w] \o <<>> = f[w]
  BY <1>1, ConcatEmptySeq
<1> QED
  BY <1>2 DEF Sends

(* A check that goes on: neither its number nor what it has seen changes. *)
CheckNext(v, k) ==
  /\ v.check.pc # "idle" /\ k.pc \notin {"idle", "query"}
  /\ k.id = v.check.id /\ k.left = v.check.left /\ k.seen = v.check.seen

LEMMA CheckMoves ==
  ASSUME Checked, NEW w \in Worker, NEW k \in CheckRec, CheckNext(worker[w], k), NEW c, k.id = c
  PROVE  LET v == worker[w]
             v2 == WithCheck(v, k)
         IN  /\ WorkerOK(v2, w) /\ SameElse(v, v2, c) /\ v2.check = k
             /\ v2.queue = v.queue /\ v2.received = v.received /\ v2.receiving = v.receiving
             /\ v2.sent = v.sent /\ v2.events = v.events /\ v2.incoming = v.incoming
             /\ v2.accepted = v.accepted
<1>1. WorkerOK(worker[w], w) /\ c \in Check
  BY CheckedWorker, CheckingOK DEF CheckNext
<1>2. w \notin k.left /\ \A y \in k.seen : y.peer # w
  BY <1>1 DEF WorkerOK, CheckNext
<1>3. k.pc # "idle" /\ (k.pc = "query" => k.left # {}) /\ worker[w].check.id \in {None, c}
  BY DEF CheckNext
<1> QED
  BY <1>1, <1>2, <1>3, CheckSet

Asked(c, w, u, q) == [id |-> c, source |-> w, target |-> u, tasks |-> ReservedFor(q, c)]

OfferStep(w, u, c, k) ==
  /\ k = [worker[w].check EXCEPT !.pc = "transfer"]
  /\ Answer(w, WithCheck(worker[w], k), <<>>)
  /\ requests' = requests \cup {Asked(c, w, u, worker[w].queue)}

LEMMA OfferKeeps ==
  ASSUME Checked, NEW w \in Worker, NEW u \in Worker, NEW c \in Check, HeadConcerns(toWorker, w, c),
         Head(toWorker[w]) = TimeAck(c, "SEND"), Known(master, c) = {Record(c, w, u, FALSE)},
         Timing(master, toWorker, toMaster, worker, requests, c, w, u),
         NEW k, OfferStep(w, u, c, k)
  PROVE  Checked'
<1> DEFINE v == worker[w]
           v2 == WithCheck(v, k)
           r == Asked(c, w, u, v.queue)
           rq2 == requests'
           down2 == Took(toWorker, w)
           wk2 == [worker EXCEPT ![w] = v2]
<1>0. WorkerOK(v, w) /\ v.queue \in Seq(TaskRec) /\ v \in Workers /\ v.check \in CheckRec
  BY CheckedWorker, WorkerFields
<1>1. worker[w].check.id = c /\ u # w /\ v.check.pc = "time" /\ v.check.target = u
  BY DEF Timing
<1>2. /\ k \in CheckRec /\ k.id = c /\ k.pc = "transfer" /\ k.left = worker[w].check.left
      /\ k.seen = worker[w].check.seen /\ k.target = u
  <2> DEFINE g == worker[w].check
  <2>1. g \in CheckRec /\ g.id = c /\ g.target = u /\ k = [g EXCEPT !.pc = "transfer"]
    BY <1>0, <1>1 DEF OfferStep
  <2> HIDE DEF g
  <2>2. /\ k \in CheckRec /\ k.id = c /\ k.pc = "transfer" /\ k.left = g.left /\ k.seen = g.seen /\ k.target = u
    BY <2>1 DEF CheckRec, Pcs
  <2> QED
    BY <2>2 DEF g
<1>3. /\ WorkerOK(v2, w) /\ SameElse(v, v2, c) /\ v2.check = k /\ v2.queue = v.queue
      /\ v2.received = v.received /\ v2.receiving = v.receiving /\ v2.sent = v.sent /\ v2.events = v.events
  <2>1. CheckNext(worker[w], k)
    BY <1>1, <1>2 DEF CheckNext
  <2> QED
    BY <1>2, <2>1, CheckMoves
<1>4. r \in Requests /\ Range(r.tasks) = Held(v, c) /\ r.id = c /\ r.source = w /\ r.target = u
  <2>1. ReservedFor(v.queue, c) \in Seq(TaskRec) /\ Range(ReservedFor(v.queue, c)) = Held(v, c)
    BY <1>0, ReservedTasks DEF Held, Tasks
  <2> QED
    BY <2>1 DEF Requests, Asked
<1> HIDE DEF r
<1>5. rq2 \in SUBSET Requests /\ SameAsks(requests, rq2, c) /\ Asks(rq2, c) = {r}
  <2>1. requests \in SUBSET Requests /\ rq2 = requests \cup {r} /\ Asks(requests, c) = {}
    BY WiresUnchanged DEF Timing, r, OfferStep
  <2> HIDE DEF rq2
  <2>2. rq2 \in SUBSET Requests /\ Asks(rq2, c) = {r}
    BY <1>4, <2>1 DEF Asks
  <2>3. ASSUME NEW d \in Check \ {c} PROVE Asks(rq2, d) = Asks(requests, d)
    BY <1>4, <2>1, <2>3 DEF Asks
  <2> QED
    BY <2>2, <2>3 DEF SameAsks
<1>6. OneWire(Down, toWorker, down2, w, c) /\ Nothing(down2[w], c)
  <2>1. toWorker \in [Worker -> Seq(Down)] /\ Clean(toWorker)
    BY WiresUnchanged
  <2>2. /\ OneWire(Down, toWorker, Took(toWorker, w), w, c) /\ Head(toWorker[w]) \in About(toWorker[w], c)
        /\ Alone(toWorker[w], c, Head(toWorker[w])) => Nothing(Took(toWorker, w)[w], c)
    BY <2>1, TookOne
  <2>3. Alone(toWorker[w], c, Head(toWorker[w]))
    <3>1. About(toWorker[w], c) = {TimeAck(c, "SEND")}
      BY <2>2 DEF Timing
    <3> QED
      BY <3>1 DEF Alone
  <2> QED
    BY <2>2, <2>3
<1> HIDE DEF v2, down2, rq2
<1>7. wk2[w] = v2 /\ \A z \in Worker : z # w => wk2[z] = worker[z]
  BY CheckedWorker
<1> HIDE DEF wk2
<1>8. Others(down2, toMaster, wk2, c, w, u)
  <2>1. Others(toWorker, toMaster, worker, c, w, w)
    BY DEF Timing
  <2>2. \A z \in Worker : z # w => down2[z] = toWorker[z]
    BY <1>6 DEF OneWire
  <2> QED
    BY <1>7, <2>1, <2>2 DEF Others, Silent
<1>9. /\ Outside(wk2[u], c) /\ wk2[u].received[c] = "NONE" /\ Silent(down2, toMaster, u, c)
  <2>1. Others(toWorker, toMaster, worker, c, w, w)
    BY DEF Timing
  <2>2. down2[u] = toWorker[u] /\ wk2[u] = worker[u]
    BY <1>1, <1>6, <1>7 DEF OneWire
  <2> QED
    BY <1>1, <2>1, <2>2 DEF Others, Silent
<1>10. Held(v2, c) = Held(v, c)
  BY <1>3 DEF Held, Tasks
<1>11. Offered(master, down2, toMaster, wk2, rq2, c, w, u)
  BY <1>4, <1>5, <1>7, <1>9, <1>10 DEF Offered, Outside, Unmarked
<1>12. Asking(master, down2, toMaster, wk2, rq2, c, w, u)
  <2>1. Unmarked(v2, c) /\ Held(v2, c) # {} /\ v2.received[c] = "NONE" /\ Owns(master, w, c)
    BY <1>3, <1>10 DEF Timing, Unmarked, Receiving
  <2>2. About(down2[w], c) = {} /\ About(toMaster[w], c) = {}
    <3>1. About(toWorker[w], c) # {}
      BY TookOne, WiresUnchanged
    <3> QED
      BY <1>6, <3>1 DEF Nothing, Timing
  <2>3. /\ v2.check.id = c /\ v2.check.pc = "transfer" /\ v2.check.target = u
    BY <1>2, <1>3
  <2> QED
    BY <1>1, <1>7, <1>8, <1>9, <1>11, <2>1, <2>2, <2>3 DEF Asking, Outside, Unmarked
<1>13. TransferOK(master, down2, toMaster, wk2, rq2, c)
  BY <1>12, PhaseOK
<1>14. Sends(toMaster, w, <<>>) = toMaster /\ OneWire(Up, toMaster, toMaster, w, c) /\ <<>> \in Seq(Up)
  <2>1. toMaster \in [Worker -> Seq(Up)] /\ OneWire(Up, toMaster, toMaster, w, c)
    BY WiresUnchanged
  <2> QED
    BY <2>1, NothingSent
<1>15. Answer(w, v2, <<>>)
  BY DEF v2, OfferStep
<1> QED
  BY <1>3, <1>5, <1>6, <1>13, <1>14, <1>15, TransferAnswerKeeps DEF wk2, rq2, down2

-----------------------------------------------------------------------------
(* While w asks u to take tasks: what may change at both ends *)

AskingStays(wk, wk2, w, u, c) ==
  /\ wk2[w].sent = wk[w].sent /\ wk2[w].events = wk[w].events /\ wk2[w].queue = wk[w].queue
  /\ wk2[w].receiving = wk[w].receiving /\ wk2[w].received = wk[w].received
  /\ \/ wk2[w].check = wk[w].check
     \/ /\ wk2[w].check.id = c /\ wk[w].check.id = c
        /\ wk2[w].check.pc \in {"transfer", "status", "known"}
        /\ wk2[w].check.target = wk[w].check.target
  /\ wk2[w].check.id = c /\ wk2[w].check.pc = "known" /\ wk2[w].check.answer \in {"ACCEPTED", "REJECTED"}
       => wk2[w].check.answer = wk2[u].received[c]
  /\ c \notin wk2[u].sent /\ c \notin wk2[u].events /\ wk2[u].check.id # c
OnlyBetween(down, up, wk, down2, up2, wk2, w, u, c) ==
  /\ \A z \in Worker : z # w /\ z # u => down2[z] = down[z] /\ up2[z] = up[z] /\ wk2[z] = wk[z]
  /\ About(down2[w], c) = About(down[w], c) /\ About(up2[w], c) = About(up[w], c)
Fate(m, down, up, wk, rq, c, w, u) ==
  \/ Offered(m, down, up, wk, rq, c, w, u)
  \/ Arriving(m, down, up, wk, rq, c, w, u)
  \/ Answered(m, down, up, wk, rq, c, w, u)

LEMMA AskingNext ==
  ASSUME NEW m, NEW down, NEW up, NEW wk, NEW rq, NEW c, NEW w \in Worker, NEW u \in Worker,
         Asking(m, down, up, wk, rq, c, w, u), NEW down2, NEW up2, NEW wk2, NEW rq2,
         OnlyBetween(down, up, wk, down2, up2, wk2, w, u, c), AskingStays(wk, wk2, w, u, c),
         Fate(m, down2, up2, wk2, rq2, c, w, u)
  PROVE  Asking(m, down2, up2, wk2, rq2, c, w, u)
<1>1. Others(down2, up2, wk2, c, w, u)
  BY DEF Asking, Others, OnlyBetween, Silent
<1>2. Unmarked(wk2[w], c) /\ Held(wk2[w], c) # {} /\ wk2[w].received[c] = "NONE"
  BY DEF Asking, AskingStays, Unmarked, Held, Tasks, Receiving
<1>3. About(down2[w], c) = {}
  BY DEF Asking, OnlyBetween
<1>4. \/ /\ wk2[w].check.id = c /\ wk2[w].check.pc \in {"transfer", "status", "known"}
         /\ wk2[w].check.target = u /\ About(up2[w], c) = {}
         /\ wk2[w].check.pc = "known" /\ wk2[w].check.answer \in {"ACCEPTED", "REJECTED"}
              => wk2[w].check.answer = wk2[u].received[c]
      \/ /\ wk2[w].check.id # c
         /\ About(up2[w], c) = {[type |-> "P2P_FAILURE", id |-> c, target |-> u]}
  <2>1. CASE wk[w].check.id = c
    BY <2>1 DEF Asking, AskingStays, OnlyBetween
  <2>2. CASE wk[w].check.id # c
    BY <2>2 DEF Asking, AskingStays, OnlyBetween
  <2> QED
    BY <2>1, <2>2
<1>5. c \notin wk2[u].sent /\ c \notin wk2[u].events /\ wk2[u].check.id # c
  BY DEF AskingStays
<1>6. Owns(m, w, c) /\ u # w
  BY DEF Asking
<1> QED
  BY <1>1, <1>2, <1>3, <1>4, <1>5, <1>6 DEF Asking, Fate

(* The time of arrival is known. *)
TimedState(v) == [v EXCEPT !.receiving[1].timed = TRUE]

LEMMA TimedReception ==
  ASSUME NEW v, NEW w \in Worker, WorkerOK(v, w), v.receiving # <<>>, NEW c \in Check, Receiving(v, c)
  PROVE  LET v2 == TimedState(v)
         IN  /\ WorkerOK(v2, w) /\ SameElse(v, v2, c) /\ Receiving(v2, c)
             /\ v2.receiving[1].request = v.receiving[1].request /\ v2.receiving[1].timed
             /\ v2.queue = v.queue /\ v2.received = v.received /\ v2.check = v.check
             /\ v2.sent = v.sent /\ v2.events = v.events
<1> DEFINE v2 == TimedState(v)
<1>1. v \in Workers
  BY DEF WorkerOK
<1>2. PICK r \in Receptions : v.receiving = <<r>>
  BY <1>1 DEF Workers
<1>3. r.request \in Requests /\ [r EXCEPT !.timed = TRUE] \in Receptions
      /\ [r EXCEPT !.timed = TRUE].request = r.request /\ [r EXCEPT !.timed = TRUE].timed
  BY DEF Receptions
<1> DEFINE r2 == [r EXCEPT !.timed = TRUE]
<1>4. [<<r>> EXCEPT ![1].timed = TRUE] = <<r2>>
  <2> DEFINE f == [<<r>> EXCEPT ![1] = r2]
  <2>1. [<<r>> EXCEPT ![1].timed = TRUE] = f
    BY Zenon
  <2>2. r2 \in Receptions /\ <<r>> \in Seq(Receptions) /\ Len(<<r>>) = 1
    BY <1>3
  <2> HIDE DEF r2
  <2>3. f \in Seq(Receptions) /\ Len(f) = 1 /\ f[1] = r2
    BY <2>2, ExceptSeq
  <2>4. <<r2>> \in Seq(Receptions) /\ Len(<<r2>>) = 1 /\ <<r2>>[1] = r2
    BY <2>2
  <2>5. \A i \in 1..1 : i = 1
    OBVIOUS
  <2>6. \A i \in 1..Len(f) : f[i] = <<r2>>[i]
    BY <2>3, <2>4, <2>5
  <2> HIDE DEF f
  <2>7. f = <<r2>>
    BY <2>3, <2>4, <2>6, SeqEqual
  <2> QED
    BY <2>1, <2>7
<1>5. v2 = [v EXCEPT !.receiving = <<r2>>]
  <2>1. [v EXCEPT !.receiving = [v.receiving EXCEPT ![1].timed = TRUE]] = v2
    BY <1>1 DEF TimedState, Workers
  <2> QED
    BY <1>2, <1>4, <2>1
<1>6. r2 \in Receptions /\ r2.request = r.request /\ r2.timed
  BY <1>3
<1> HIDE DEF v2, r2
<1>7. /\ v2 \in Workers /\ v2.check = v.check /\ v2.received = v.received /\ v2.receiving = <<r2>>
      /\ v2.sent = v.sent /\ v2.events = v.events /\ v2.queue = v.queue /\ v2.accepted = v.accepted
      /\ v2.incoming = v.incoming /\ v2.reassigned = v.reassigned
  BY <1>1, <1>5, <1>6 DEF Workers
<1>8. v2.receiving # <<>> /\ v2.receiving[1] = r2 /\ v.receiving[1] = r
  BY <1>2, <1>7
<1>9. WorkerOK(v2, w)
  <2>1. v2.receiving[1].request = v.receiving[1].request
    BY <1>6, <1>8
  <2> QED
    BY <1>7, <1>8, <2>1 DEF WorkerOK
<1>10. SameElse(v, v2, c) /\ Receiving(v2, c)
  <2>1. r.request.id = c
    BY <1>8 DEF Receiving
  <2>2. \A d \in Check \ {c} : ~Receiving(v2, d) /\ ~Receiving(v, d)
    BY <1>6, <1>8, <2>1 DEF Receiving
  <2>3. \A d \in Check : Held(v2, d) = Held(v, d)
    BY <1>7 DEF Held, Tasks
  <2> QED
    BY <1>6, <1>7, <1>8, <2>1, <2>2, <2>3 DEF SameElse, Receiving
<1> QED
  BY <1>6, <1>7, <1>8, <1>9, <1>10 DEF v2

LEMMA ArrivalKeeps ==
  ASSUME Checked, NEW w \in Worker, NEW u \in Worker, NEW c \in Check, HeadConcerns(toWorker, u, c),
         Head(toWorker[u]) = TimeAck(c, "RECV"),
         Asking(master, toWorker, toMaster, worker, requests, c, w, u),
         Arriving(master, toWorker, toMaster, worker, requests, c, w, u),
         Answer(u, TimedState(worker[u]), <<>>), requests' = requests
  PROVE  Checked'
<1> DEFINE v == worker[u]
           v2 == TimedState(v)
           down2 == Took(toWorker, u)
           wk2 == [worker EXCEPT ![u] = v2]
<1>1. WorkerOK(v, u) /\ Receiving(v, c) /\ v.receiving # <<>> /\ u # w
  BY CheckedWorker DEF Arriving, Asking, Receiving
<1>2. /\ WorkerOK(v2, u) /\ SameElse(v, v2, c) /\ Receiving(v2, c)
      /\ v2.receiving[1].request = v.receiving[1].request /\ v2.receiving[1].timed
      /\ v2.queue = v.queue /\ v2.received = v.received /\ v2.check = v.check
      /\ v2.sent = v.sent /\ v2.events = v.events
  BY <1>1, TimedReception
<1> HIDE DEF v2
<1>3. /\ OneWire(Down, toWorker, down2, u, c) /\ Head(toWorker[u]) \in About(toWorker[u], c)
      /\ Alone(toWorker[u], c, Head(toWorker[u])) => Nothing(down2[u], c)
  BY WiresUnchanged, TookOne
<1>4. /\ Known(master, c) = {Record(c, w, u, TRUE)} /\ About(toMaster[u], c) = {}
      /\ About(toWorker[u], c) = {TimeAck(c, "RECV")}
  BY <1>3 DEF Arriving, Silent
<1>5. Nothing(down2[u], c) /\ \A z \in Worker : z # u => down2[z] = toWorker[z]
  BY <1>3, <1>4 DEF Alone, OneWire
<1>6. wk2[u] = v2 /\ \A z \in Worker : z # u => wk2[z] = worker[z]
  BY CheckedWorker
<1>6a. wk2 = [worker EXCEPT ![u] = v2]
  OBVIOUS
<1> HIDE DEF down2, wk2
<1>7. Arriving(master, down2, toMaster, wk2, requests, c, w, u)
  <2>1. Held(v2, c) = {} /\ Silent(down2, toMaster, u, c)
    BY <1>2, <1>4, <1>5 DEF Arriving, Held, Tasks, Silent, Nothing
  <2> QED
    BY <1>1, <1>2, <1>4, <1>6, <2>1 DEF Arriving
<1>8. Asking(master, down2, toMaster, wk2, requests, c, w, u)
  <2>1. OnlyBetween(toWorker, toMaster, worker, down2, toMaster, wk2, w, u, c)
    BY <1>1, <1>5, <1>6 DEF OnlyBetween
  <2>2. AskingStays(worker, wk2, w, u, c)
    BY <1>1, <1>2, <1>6 DEF AskingStays, Asking
  <2>3. Fate(master, down2, toMaster, wk2, requests, c, w, u)
    BY <1>7 DEF Fate
  <2> QED
    BY <2>1, <2>2, <2>3, AskingNext
<1>9. TransferOK(master, down2, toMaster, wk2, requests, c)
  BY <1>8, PhaseOK
<1>10. Sends(toMaster, u, <<>>) = toMaster /\ OneWire(Up, toMaster, toMaster, u, c) /\ <<>> \in Seq(Up)
  <2>1. toMaster \in [Worker -> Seq(Up)] /\ OneWire(Up, toMaster, toMaster, u, c)
    BY WiresUnchanged
  <2> QED
    BY <2>1, NothingSent
<1>11. Answer(u, v2, <<>>)
  BY DEF v2
<1>12. requests' \in SUBSET Requests /\ SameAsks(requests, requests', c)
  BY WiresUnchanged DEF SameAsks
<1>13. TransferOK(master, down2, toMaster, wk2, requests', c)
  BY <1>9
<1> QED
  BY <1>2, <1>3, <1>6a, <1>10, <1>11, <1>12, <1>13, TransferAnswerKeeps DEF down2

LEMMA TimeAckKeeps ==
  ASSUME Checked, NEW w \in Worker, HandleTimeAck(w)
  PROVE  Checked'
<1> DEFINE x == Head(toWorker[w])
           c == x.id
           v == worker[w]
           k == [v.check EXCEPT !.pc = "transfer"]
<1>1. /\ toWorker[w] # <<>> /\ x.type = "TIME_ACK" /\ x.type \in TransferTypes
  BY DEF HandleTimeAck, FromMaster, TransferTypes
<1>2. \/ /\ x.phase = "SEND" /\ Answer(w, [v EXCEPT !.check.pc = "transfer"], <<>>)
         /\ requests' = requests \cup {Asked(c, w, v.check.target, v.queue)}
      \/ x.phase # "SEND" /\ Answer(w, TimedState(v), <<>>) /\ requests' = requests
  BY DEF HandleTimeAck, TimedState, Asked
<1>3. /\ x \in Down /\ c \in Check /\ HeadConcerns(toWorker, w, c) /\ x \in About(toWorker[w], c)
      /\ TransferOK(master, toWorker, toMaster, worker, requests, c)
  BY <1>1, Receiving1
<1>4. x = TimeAck(c, x.phase) /\ x.phase \in Phases
  BY <1>1, <1>3, DownShape
<1>5. PICK u \in Worker : DownMeans(master, toWorker, toMaster, worker, requests, c, w, x, u)
  BY <1>3, DownSays
<1>6. \/ /\ Timing(master, toWorker, toMaster, worker, requests, c, w, u) /\ x = TimeAck(c, "SEND")
         /\ Known(master, c) = {Record(c, w, u, FALSE)}
      \/ /\ Asking(master, toWorker, toMaster, worker, requests, c, u, w)
         /\ Arriving(master, toWorker, toMaster, worker, requests, c, u, w)
         /\ x = TimeAck(c, "RECV")
  <2>1. x # [type |-> "P2P_CHECK", id |-> c] /\ x # Recorded(c)
    BY <1>1 DEF Recorded
  <2> HIDE DEF c, x
  <2> QED
    BY <1>5, <2>1 DEF DownMeans
<1>7. v.check \in CheckRec /\ v \in Workers
  BY CheckedWorker, WorkerFields
<1>8. [v EXCEPT !.check.pc = "transfer"] = WithCheck(v, k)
  BY DEF WithCheck
<1>9. TimeAck(c, "SEND").phase = "SEND" /\ TimeAck(c, "RECV").phase = "RECV"
  BY DEF TimeAck
<1> HIDE DEF c, x
<1>10. CASE x = TimeAck(c, "SEND")
  <2>1. /\ Timing(master, toWorker, toMaster, worker, requests, c, w, u)
        /\ Known(master, c) = {Record(c, w, u, FALSE)} /\ v.check.target = u
    BY <1>6, <1>9, <1>10 DEF Timing
  <2>2. Answer(w, WithCheck(v, k), <<>>) /\ requests' = requests \cup {Asked(c, w, u, v.queue)}
    BY <1>2, <1>8, <1>9, <1>10, <2>1
  <2> DEFINE k2 == k
  <2>3. OfferStep(w, u, c, k2)
    BY <2>2 DEF OfferStep
  <2> HIDE DEF k2, k
  <2> QED
    BY <1>3, <1>10, <2>1, <2>3, OfferKeeps DEF x
<1>11. CASE x = TimeAck(c, "RECV")
  <2>1. /\ Asking(master, toWorker, toMaster, worker, requests, c, u, w)
        /\ Arriving(master, toWorker, toMaster, worker, requests, c, u, w)
    BY <1>6, <1>9, <1>11
  <2>2. Answer(w, TimedState(v), <<>>) /\ requests' = requests
    BY <1>2, <1>9, <1>11
  <2>3. Head(toWorker[w]) = TimeAck(c, "RECV")
    BY <1>11 DEF x
  <2> QED
    BY <1>3, <2>1, <2>2, <2>3, ArrivalKeeps
<1> QED
  BY <1>6, <1>10, <1>11

-----------------------------------------------------------------------------
(* The end of a transfer at its source and at its target *)

MovedState(v, q, ev, sn) == [v EXCEPT !.queue = q, !.events = ev, !.sent = sn]
QueueFor(q, v, c) ==
  /\ q \in Seq(TaskRec) /\ Len(q) <= Len(v.queue)
  /\ \A d \in Check \ {c} : {t \in Range(q) : t.held = d} = Held(v, d)
SetFor(set, old, c) == set \in SUBSET Check /\ \A d \in Check \ {c} : d \in set <=> d \in old
HeldIn(q, c) == {t \in Range(q) : t.held = c}

LEMMA MovedOK ==
  ASSUME NEW v, NEW w \in Worker, WorkerOK(v, w), NEW c \in Check, NEW q, QueueFor(q, v, c),
         NEW ev, SetFor(ev, v.events, c), NEW sn, SetFor(sn, v.sent, c)
  PROVE  LET v2 == MovedState(v, q, ev, sn)
         IN  /\ WorkerOK(v2, w) /\ SameElse(v, v2, c) /\ v2.queue = q /\ v2.events = ev /\ v2.sent = sn
             /\ v2.received = v.received /\ v2.receiving = v.receiving /\ v2.check = v.check
             /\ Held(v2, c) = HeldIn(q, c)
<1> DEFINE v2 == MovedState(v, q, ev, sn)
           a == Len(v.queue)
           a2 == Len(q)
           b == Cardinality(v.accepted)
           d == v.incoming
<1>1. /\ v \in Workers /\ IsFiniteSet(v.accepted) /\ IsFiniteSet(v.reassigned) /\ a + b + d <= QueueSize
  BY DEF WorkerOK
<1>2. q \in Seq(TaskRec) /\ ev \in SUBSET Check /\ sn \in SUBSET Check /\ a2 <= a
  BY DEF QueueFor, SetFor
<1>3. v2 = [v EXCEPT !.queue = q, !.events = ev, !.sent = sn]
  BY DEF MovedState
<1> HIDE DEF v2
<1>4. /\ v2 \in Workers /\ v2.check = v.check /\ v2.received = v.received /\ v2.receiving = v.receiving
      /\ v2.sent = sn /\ v2.events = ev /\ v2.queue = q /\ v2.accepted = v.accepted
      /\ v2.incoming = v.incoming /\ v2.reassigned = v.reassigned
  BY <1>1, <1>2, <1>3 DEF Workers
<1>5. a2 + b + d <= QueueSize
  <2>1. a \in Nat /\ a2 \in Nat /\ b \in Nat /\ d \in Nat
    BY <1>1, <1>2, WorkerFields, LenProperties, FS_CardinalityType
  <2> HIDE DEF a, a2, b, d
  <2> QED
    BY <1>1, <1>2, <2>1
<1>6. WorkerOK(v2, w)
  <2>1. Len(v2.queue) + Cardinality(v2.accepted) + v2.incoming <= QueueSize
    BY <1>4, <1>5
  <2> HIDE DEF a, a2, b, d
  <2> QED
    BY <1>1, <1>4, <2>1 DEF WorkerOK
<1>7. SameElse(v, v2, c)
  BY <1>4 DEF SameElse, QueueFor, SetFor, Held, Tasks
<1>8. Held(v2, c) = HeldIn(q, c)
  BY <1>4 DEF Held, Tasks, HeldIn
<1> QED
  BY <1>4, <1>6, <1>7, <1>8 DEF v2

LEMMA CancelledFor ==
  ASSUME NEW v \in Workers, NEW c \in Check
  PROVE  QueueFor(CancelTransfer(v.queue, c), v, c) /\ HeldIn(CancelTransfer(v.queue, c), c) = {}
<1> DEFINE q == v.queue
           p == CancelTransfer(q, c)
<1>1. q \in Seq(TaskRec) /\ Len(q) \in Nat
  BY WorkerFields
<1> HIDE DEF q
<1>2. /\ p \in Seq(TaskRec) /\ Len(p) = Len(q) /\ DOMAIN p = DOMAIN q
      /\ \A i \in DOMAIN q : p[i] = IF q[i].held = c THEN [q[i] EXCEPT !.held = None] ELSE q[i]
  BY <1>1, CancelledTasks
<1>3. \A i \in DOMAIN q : q[i] \in TaskRec
  BY <1>1, LenProperties
<1> HIDE DEF p
<1>4. \A i \in DOMAIN q : \/ q[i].held = c /\ p[i].held = None
                          \/ q[i].held # c /\ p[i] = q[i]
  BY <1>2, <1>3 DEF TaskRec
<1>5. HeldIn(p, c) = {}
  BY <1>2, <1>4, HeldChecks DEF HeldIn, Range
<1>6. ASSUME NEW d \in Check \ {c} PROVE {t \in Range(p) : t.held = d} = {t \in Range(q) : t.held = d}
  <2>1. d # None /\ d # c
    BY <1>6, HeldChecks
  <2>2. \A i \in DOMAIN q : p[i].held = d => p[i] = q[i]
    BY <1>4, <2>1
  <2>3. \A i \in DOMAIN q : q[i].held = d => p[i] = q[i]
    BY <1>4, <2>1
  <2> QED
    BY <1>2, <2>2, <2>3 DEF Range
<1>7. QueueFor(p, v, c)
  BY <1>1, <1>2, <1>6 DEF QueueFor, Held, Tasks, q
<1> QED
  BY <1>5, <1>7 DEF p, q

LEMMA ConfirmedFor ==
  ASSUME NEW v \in Workers, NEW c \in Check
  PROVE  QueueFor(ConfirmTransfer(v.queue, c), v, c) /\ HeldIn(ConfirmTransfer(v.queue, c), c) = {}
<1> DEFINE q == v.queue
           p == ConfirmTransfer(q, c)
<1>1. q \in Seq(TaskRec) /\ Len(q) \in Nat
  BY WorkerFields
<1> HIDE DEF q
<1>2. p \in Seq(TaskRec) /\ Len(p) <= Len(q) /\ Range(p) = {t \in Range(q) : t.held # c}
  BY <1>1, ConfirmedTasks
<1> HIDE DEF p
<1>3. QueueFor(p, v, c)
  BY <1>1, <1>2 DEF QueueFor, Held, Tasks, q
<1>4. HeldIn(p, c) = {}
  BY <1>2 DEF HeldIn
<1> QED
  BY <1>3, <1>4 DEF p, q

LEMMA StatusUp ==
  ASSUME NEW v, NEW w \in Worker, WorkerOK(v, w)
  PROVE  Status(v, {}) \in Up /\ Status(v, {}).type \notin TransferTypes
<1> DEFINE a == Len(v.queue)
           b == Cardinality(v.accepted)
           d == v.incoming
<1>1. v \in Workers /\ IsFiniteSet(v.accepted) /\ a + b + d <= QueueSize
  BY DEF WorkerOK
<1>2. a \in Nat /\ b \in Nat /\ d \in Nat
  BY <1>1, WorkerFields, FS_CardinalityType
<1> HIDE DEF a, b, d
<1>3. a \in Size
  BY <1>1, <1>2 DEF Size
<1>4. [type |-> "QUEUE_STATUS", size |-> a, confirms |-> {}] \in Up
  BY <1>3 DEF Up
<1> QED
  BY <1>4 DEF Status, TransferTypes, a

Forgotten(v, c) == [v EXCEPT !.sent = @ \ {c}]
Released(v, c) == [v EXCEPT !.queue = CancelTransfer(@, c), !.events = @ \cup {c}]

LEMMA ForgottenOK ==
  ASSUME NEW v, NEW w \in Worker, WorkerOK(v, w), NEW c \in Check
  PROVE  LET v2 == Forgotten(v, c)
         IN  /\ WorkerOK(v2, w) /\ SameElse(v, v2, c) /\ v2.queue = v.queue /\ v2.events = v.events
             /\ c \notin v2.sent
             /\ v2.received = v.received /\ v2.receiving = v.receiving /\ v2.check = v.check
<1> DEFINE v2 == Forgotten(v, c)
           sn == v.sent \ {c}
<1>1. v \in Workers /\ v.queue \in Seq(TaskRec) /\ v.sent \in SUBSET Check /\ v.events \in SUBSET Check
      /\ Len(v.queue) \in Nat
  BY WorkerFields DEF WorkerOK
<1>2. v2 = [v EXCEPT !.queue = v.queue, !.events = v.events, !.sent = sn]
  BY <1>1 DEF Workers, Forgotten
<1>3. SetFor(sn, v.sent, c) /\ SetFor(v.events, v.events, c) /\ c \notin sn
  BY <1>1 DEF SetFor
<1> HIDE DEF v2, sn
<1>4. v2 = MovedState(v, v.queue, v.events, sn)
  BY <1>2 DEF MovedState
<1>5. QueueFor(v.queue, v, c)
  BY <1>1 DEF QueueFor, Held, Tasks
<1>6. /\ WorkerOK(v2, w) /\ SameElse(v, v2, c) /\ v2.queue = v.queue /\ v2.events = v.events /\ v2.sent = sn
      /\ v2.received = v.received /\ v2.receiving = v.receiving /\ v2.check = v.check
  BY <1>3, <1>4, <1>5, MovedOK
<1> QED
  BY <1>3, <1>6 DEF v2

LEMMA ReleasedOK ==
  ASSUME NEW v, NEW w \in Worker, WorkerOK(v, w), NEW c \in Check
  PROVE  LET v2 == Released(v, c)
         IN  /\ WorkerOK(v2, w) /\ SameElse(v, v2, c) /\ Held(v2, c) = {} /\ c \in v2.events
             /\ v2.sent = v.sent /\ Status(v2, {}) \in Up /\ Status(v2, {}).type \notin TransferTypes
             /\ v2.received = v.received /\ v2.receiving = v.receiving /\ v2.check = v.check
<1> DEFINE v2 == Released(v, c)
           ev == v.events \cup {c}
           q == CancelTransfer(v.queue, c)
<1>1. v \in Workers /\ v.sent \in SUBSET Check /\ v.events \in SUBSET Check
  BY WorkerFields DEF WorkerOK
<1>2. v2 = [v EXCEPT !.queue = q, !.events = ev, !.sent = v.sent]
  BY <1>1 DEF Workers, Released
<1>3. SetFor(ev, v.events, c) /\ SetFor(v.sent, v.sent, c) /\ c \in ev
  BY <1>1 DEF SetFor
<1>4. QueueFor(q, v, c) /\ HeldIn(q, c) = {}
  BY <1>1, CancelledFor
<1> HIDE DEF v2, ev, q
<1>5. v2 = MovedState(v, q, ev, v.sent)
  BY <1>2 DEF MovedState
<1>6. /\ WorkerOK(v2, w) /\ SameElse(v, v2, c) /\ v2.events = ev /\ v2.sent = v.sent
      /\ v2.received = v.received /\ v2.receiving = v.receiving /\ v2.check = v.check
      /\ Held(v2, c) = HeldIn(q, c)
  BY <1>3, <1>4, <1>5, MovedOK
<1> QED
  BY <1>3, <1>4, <1>6, StatusUp DEF v2

LEMMA ForgetKeeps ==
  ASSUME Checked, NEW w \in Worker, NEW u \in Worker, NEW c \in Check, HeadConcerns(toWorker, w, c),
         Head(toWorker[w]) = Recorded(c), Done(master, toWorker, toMaster, worker, requests, c, w, u),
         c \in worker[w].sent, Answer(w, Forgotten(worker[w], c), <<>>), requests' = requests
  PROVE  Checked'
<1> DEFINE v == worker[w]
           v2 == Forgotten(v, c)
           down2 == Took(toWorker, w)
           wk2 == [worker EXCEPT ![w] = v2]
<1>1. /\ WorkerOK(v2, w) /\ SameElse(v, v2, c) /\ v2.queue = v.queue /\ v2.events = v.events
      /\ c \notin v2.sent
      /\ v2.received = v.received /\ v2.receiving = v.receiving /\ v2.check = v.check
  BY CheckedWorker, ForgottenOK
<1>2. Answer(w, v2, <<>>)
  OBVIOUS
<1> HIDE DEF v2
<1>3. /\ OneWire(Down, toWorker, down2, w, c) /\ Head(toWorker[w]) \in About(toWorker[w], c)
      /\ Alone(toWorker[w], c, Head(toWorker[w])) => Nothing(down2[w], c)
  BY WiresUnchanged, TookOne
<1>4. About(toWorker[w], c) = {Recorded(c)}
  BY DEF Done
<1>5. Nothing(down2[w], c) /\ \A z \in Worker : z # w => down2[z] = toWorker[z]
  BY <1>3, <1>4 DEF Alone, OneWire
<1>6. wk2[w] = v2 /\ \A z \in Worker : z # w => wk2[z] = worker[z]
  BY CheckedWorker
<1>6a. wk2 = [worker EXCEPT ![w] = v2]
  OBVIOUS
<1> HIDE DEF down2, wk2
<1>7. Done(master, down2, toMaster, wk2, requests, c, w, u)
  <2>1. u # w /\ wk2[u] = worker[u] /\ down2[u] = toWorker[u]
    BY <1>5, <1>6 DEF Done
  <2>2. Others(down2, toMaster, wk2, c, w, u)
    BY <1>5, <1>6 DEF Done, Others, Silent
  <2>3. Held(v2, c) = {} /\ c \in v2.events /\ v2.received[c] = "NONE" /\ ~Receiving(v2, c) /\ v2.check.id # c
    BY <1>1 DEF Done, Held, Tasks, Receiving
  <2>4. About(down2[w], c) = {}
    BY <1>5 DEF Nothing
  <2> QED
    BY <1>1, <1>6, <2>1, <2>2, <2>3, <2>4 DEF Done
<1>8. TransferOK(master, down2, toMaster, wk2, requests, c)
  BY <1>7, PhaseOK
<1>9. Sends(toMaster, w, <<>>) = toMaster /\ OneWire(Up, toMaster, toMaster, w, c) /\ <<>> \in Seq(Up)
  <2>1. toMaster \in [Worker -> Seq(Up)] /\ OneWire(Up, toMaster, toMaster, w, c)
    BY WiresUnchanged
  <2> QED
    BY <2>1, NothingSent
<1>10. /\ requests' \in SUBSET Requests /\ SameAsks(requests, requests', c)
       /\ TransferOK(master, down2, toMaster, wk2, requests', c)
  BY <1>8, WiresUnchanged DEF SameAsks
<1> QED
  BY <1>1, <1>2, <1>3, <1>6a, <1>9, <1>10, TransferAnswerKeeps DEF down2

LEMMA ReleaseKeeps ==
  ASSUME Checked, NEW w \in Worker, NEW u \in Worker, NEW c \in Check, HeadConcerns(toWorker, u, c),
         Head(toWorker[u]) = Recorded(c), Done(master, toWorker, toMaster, worker, requests, c, w, u),
         c \notin worker[u].events, NEW v2, v2 = Released(worker[u], c), NEW x, x = Status(v2, {}),
         Answer(u, v2, <<x>>), requests' = requests
  PROVE  Checked'
<1> DEFINE v == worker[u]
           down2 == Took(toWorker, u)
           up2 == Put(toMaster, u, x)
           wk2 == [worker EXCEPT ![u] = v2]
<1>1. /\ WorkerOK(v2, u) /\ SameElse(v, v2, c) /\ Held(v2, c) = {} /\ c \in v2.events
      /\ v2.sent = v.sent /\ x \in Up /\ x.type \notin TransferTypes
      /\ v2.received = v.received /\ v2.receiving = v.receiving /\ v2.check = v.check
  BY CheckedWorker, ReleasedOK
<1>3. /\ OneWire(Down, toWorker, down2, u, c) /\ Head(toWorker[u]) \in About(toWorker[u], c)
      /\ Alone(toWorker[u], c, Head(toWorker[u])) => Nothing(down2[u], c)
  BY WiresUnchanged, TookOne
<1>4. About(toWorker[u], c) = {Recorded(c)} /\ u # w
  BY DEF Done
<1>5. Nothing(down2[u], c) /\ \A z \in Worker : z # u => down2[z] = toWorker[z]
  BY <1>3, <1>4 DEF Alone, OneWire
<1>6. wk2[u] = v2 /\ \A z \in Worker : z # u => wk2[z] = worker[z]
  BY CheckedWorker
<1>6a. wk2 = [worker EXCEPT ![u] = v2]
  OBVIOUS
<1> HIDE DEF down2, wk2
<1>6b. /\ OneWire(Up, toMaster, up2, u, c) /\ About(up2[u], c) = About(toMaster[u], c)
       /\ Sends(toMaster, u, <<x>>) = up2 /\ <<x>> \in Seq(Up)
  <2>1. toMaster \in [Worker -> Seq(Up)] /\ Clean(toMaster)
    BY WiresUnchanged
  <2>2. OneWire(Up, toMaster, up2, u, c) /\ SameAbout(toMaster, up2, u, c)
    BY <1>1, <2>1, PutQuiet
  <2>3. Sends(toMaster, u, <<x>>) = up2
    BY <1>1, <2>1, OneSent
  <2>4. <<x>> \in Seq(Up)
    BY <1>1
  <2> QED
    BY <2>2, <2>3, <2>4 DEF SameAbout
<1> HIDE DEF up2
<1>6c. \A z \in Worker : z # u => up2[z] = toMaster[z]
  BY <1>6b DEF OneWire
<1>7. Done(master, down2, up2, wk2, requests, c, w, u)
  <2>1. u # w /\ wk2[w] = worker[w] /\ down2[w] = toWorker[w] /\ up2[w] = toMaster[w]
    BY <1>4, <1>5, <1>6, <1>6c
  <2>2. Others(down2, up2, wk2, c, w, u)
    BY <1>5, <1>6, <1>6c DEF Done, Others, Silent
  <2>3. c \notin v2.sent /\ v2.received[c] = "ACCEPTED" /\ ~Receiving(v2, c) /\ v2.check.id # c
    BY <1>1 DEF Done, Receiving
  <2>4. About(down2[u], c) = {} /\ About(up2[u], c) = {}
    BY <1>5, <1>6b DEF Nothing, Done
  <2> QED
    BY <1>1, <1>6, <2>1, <2>2, <2>3, <2>4 DEF Done
<1>8. TransferOK(master, down2, up2, wk2, requests, c)
  BY <1>7, PhaseOK
<1>10. /\ requests' \in SUBSET Requests /\ SameAsks(requests, requests', c)
       /\ TransferOK(master, down2, up2, wk2, requests', c)
  BY <1>8, WiresUnchanged DEF SameAsks
<1> DEFINE ms == <<x>>
<1>11. Answer(u, v2, ms) /\ ms \in Seq(Up) /\ up2 = Sends(toMaster, u, ms)
  BY <1>6b
<1> HIDE DEF ms
<1> QED
  BY <1>1, <1>3, <1>6a, <1>6b, <1>10, <1>11, TransferAnswerKeeps DEF down2

LEMMA TransferConfirmedKeeps ==
  ASSUME Checked, NEW w \in Worker, HandleTransferConfirmed(w)
  PROVE  Checked'
<1> DEFINE x == Head(toWorker[w])
           c == x.id
           v == worker[w]
<1>1. /\ toWorker[w] # <<>> /\ x.type = "TRANSFER_CONFIRMED" /\ x.type \in TransferTypes
  BY DEF HandleTransferConfirmed, FromMaster, TransferTypes
<1>2. /\ x \in Down /\ c \in Check /\ HeadConcerns(toWorker, w, c) /\ x \in About(toWorker[w], c)
      /\ TransferOK(master, toWorker, toMaster, worker, requests, c)
  BY <1>1, Receiving1
<1>3. x = Recorded(c)
  BY <1>1, <1>2, DownShape
<1>4. PICK u \in Worker : DownMeans(master, toWorker, toMaster, worker, requests, c, w, x, u)
  BY <1>2, DownSays
<1>5. \/ Done(master, toWorker, toMaster, worker, requests, c, w, u) /\ c \in v.sent
      \/ Done(master, toWorker, toMaster, worker, requests, c, u, w) /\ c \notin v.events
  <2>1. x # TimeAck(c, "SEND") /\ x # TimeAck(c, "RECV") /\ x # [type |-> "P2P_CHECK", id |-> c]
    BY <1>1 DEF TimeAck
  <2> HIDE DEF c, x
  <2> QED
    BY <1>4, <2>1 DEF DownMeans
<1> DEFINE v2 == Released(v, c)
<1>6. \/ c \in v.sent /\ Answer(w, Forgotten(v, c), <<>>) /\ requests' = requests
      \/ c \notin v.sent /\ Answer(w, v2, <<Status(v2, {})>>) /\ requests' = requests
      \/ Raise("error")
  BY DEF HandleTransferConfirmed, Forgotten, Released
<1> HIDE DEF c, v2
<1>7. CASE c \in v.sent /\ Answer(w, Forgotten(v, c), <<>>) /\ requests' = requests
  <2>1. Done(master, toWorker, toMaster, worker, requests, c, w, u)
    BY <1>5, <1>7 DEF Done
  <2>2. Head(toWorker[w]) = Recorded(c)
    BY <1>3
  <2> QED
    BY <1>2, <1>7, <2>1, <2>2, ForgetKeeps
<1>8. CASE c \notin v.sent /\ Answer(w, v2, <<Status(v2, {})>>) /\ requests' = requests
  <2>1. Done(master, toWorker, toMaster, worker, requests, c, u, w) /\ c \notin worker[w].events
    BY <1>5, <1>8 DEF Done
  <2>2. Head(toWorker[w]) = Recorded(c) /\ v2 = Released(worker[w], c)
    BY <1>3 DEF v2
  <2> DEFINE y == Status(v2, {})
  <2>3. y = Status(v2, {}) /\ Answer(w, v2, <<y>>) /\ requests' = requests
    BY <1>8
  <2> HIDE DEF y
  <2> QED
    BY <1>2, <2>1, <2>2, <2>3, ReleaseKeeps
<1> QED
  BY <1>6, <1>7, <1>8, RaiseKeeps

-----------------------------------------------------------------------------
(* The check thread: waiting for an answer *)

Fewer(set, set2) == set2 \subseteq set
AskStep(w, k) ==
  /\ worker' = [worker EXCEPT ![w] = WithCheck(worker[w], k)]
  /\ UNCHANGED <<master, toWorker, toMaster>> /\ faults' \in Nat
AskRecord(k, g, received) ==
  /\ k \in CheckRec /\ k.id = g.id /\ k.left = g.left /\ k.seen = g.seen /\ k.target = g.target
  /\ k.pc \in {"transfer", "status", "known"}
  /\ k.pc = "known" /\ k.answer \in {"ACCEPTED", "REJECTED"} => k.answer = received

LEMMA AskKeeps ==
  ASSUME Checked, NEW w \in Worker, NEW u \in Worker, NEW c \in Check, worker[w].check.id = c,
         worker[w].check.pc # "idle", Asking(master, toWorker, toMaster, worker, requests, c, w, u),
         NEW k, AskRecord(k, worker[w].check, worker[u].received[c]), AskStep(w, k),
         requests' \in SUBSET Requests, SameAsks(requests, requests', c),
         Fewer(Asks(requests, c), Asks(requests', c))
  PROVE  Checked'
<1> DEFINE v == worker[w]
           v2 == WithCheck(v, k)
           wk2 == [worker EXCEPT ![w] = v2]
           rq2 == requests'
<1>1. k \in CheckRec /\ CheckNext(v, k) /\ k.id = c
  BY DEF AskRecord, CheckNext
<1>2. /\ WorkerOK(v2, w) /\ SameElse(v, v2, c) /\ v2.check = k
      /\ v2.queue = v.queue /\ v2.received = v.received /\ v2.receiving = v.receiving
      /\ v2.sent = v.sent /\ v2.events = v.events
  BY <1>1, CheckMoves
<1>3. worker' = wk2 /\ UNCHANGED <<master, toWorker, toMaster>> /\ faults' \in Nat
  BY DEF AskStep
<1> HIDE DEF v2
<1>4. wk2[w] = v2 /\ \A z \in Worker : z # w => wk2[z] = worker[z]
  BY CheckedWorker
<1>5. wk2 = [worker EXCEPT ![w] = v2] /\ u # w
  BY DEF Asking
<1> HIDE DEF wk2, rq2
<1>6. Held(v2, c) = Held(v, c) /\ wk2[u] = worker[u]
  BY <1>2, <1>4, <1>5 DEF Held, Tasks
<1>7. Fate(master, toWorker, toMaster, wk2, rq2, c, w, u)
  <2>1. Fewer(Asks(requests, c), Asks(rq2, c)) /\ (Asks(requests, c) = {} => Asks(rq2, c) = {})
    BY DEF rq2, Fewer
  <2>2. CASE Offered(master, toWorker, toMaster, worker, requests, c, w, u)
    <3>1. Offered(master, toWorker, toMaster, wk2, rq2, c, w, u)
      BY <1>4, <1>6, <2>1, <2>2 DEF Offered, Fewer
    <3> QED
      BY <3>1 DEF Fate
  <2>3. CASE Arriving(master, toWorker, toMaster, worker, requests, c, w, u)
    <3>1. Arriving(master, toWorker, toMaster, wk2, rq2, c, w, u)
      BY <1>4, <1>6, <2>1, <2>3 DEF Arriving
    <3> QED
      BY <3>1 DEF Fate
  <2>4. CASE Answered(master, toWorker, toMaster, worker, requests, c, w, u)
    <3>1. Answered(master, toWorker, toMaster, wk2, rq2, c, w, u)
      BY <1>4, <1>6, <2>1, <2>4 DEF Answered
    <3> QED
      BY <3>1 DEF Fate
  <2> QED
    BY <2>2, <2>3, <2>4 DEF Asking
<1>8. Asking(master, toWorker, toMaster, wk2, rq2, c, w, u)
  <2>1. OnlyBetween(toWorker, toMaster, worker, toWorker, toMaster, wk2, w, u, c)
    BY <1>4 DEF OnlyBetween
  <2>2. AskingStays(worker, wk2, w, u, c)
    <3>1. v2.check.id = c /\ v2.check.pc \in {"transfer", "status", "known"} /\ v2.check.target = v.check.target
          /\ (v2.check.pc = "known" /\ v2.check.answer \in {"ACCEPTED", "REJECTED"}
                => v2.check.answer = worker[u].received[c])
      BY <1>1, <1>2 DEF AskRecord
    <3>2. c \notin worker[u].sent /\ c \notin worker[u].events /\ worker[u].check.id # c
      BY DEF Asking
    <3> QED
      BY <1>2, <1>4, <1>6, <3>1, <3>2 DEF AskingStays
  <2> QED
    BY <1>7, <2>1, <2>2, AskingNext
<1>9. TransferOK(master, toWorker, toMaster, wk2, rq2, c)
  BY <1>8, PhaseOK
<1>10. SystemOK(master, toWorker, toMaster, wk2, rq2)
  <2>1. OneWire(Down, toWorker, toWorker, w, c) /\ OneWire(Up, toMaster, toMaster, w, c)
    BY WiresUnchanged
  <2>2. rq2 \in SUBSET Requests /\ SameAsks(requests, rq2, c)
    BY DEF rq2
  <2> QED
    BY <1>2, <1>5, <1>9, <2>1, <2>2, WorkerStepKeeps
<1> QED
  BY <1>3, <1>10 DEF Checked, rq2

(* A check that waits has asked its target. *)
LEMMA WaitingAsks ==
  ASSUME Checked, NEW w \in Worker, worker[w].check.pc \in {"transfer", "status", "known"}
  PROVE  LET g == worker[w].check
         IN  /\ g.id \in Check /\ g \in CheckRec /\ g.target \in Worker /\ g.target # w
             /\ Asking(master, toWorker, toMaster, worker, requests, g.id, w, g.target)
<1> DEFINE c == worker[w].check.id
<1>1. /\ c \in Check /\ TransferOK(master, toWorker, toMaster, worker, requests, c)
      /\ worker[w].check \in CheckRec
  BY CheckingOK
<1>2. PICK u \in Worker : /\ Asking(master, toWorker, toMaster, worker, requests, c, w, u)
                          /\ worker[w].check.target = u
  BY <1>1, CheckSays
<1> QED
  BY <1>1, <1>2 DEF Asking

LEMMA NoAnswerRecord ==
  ASSUME NEW g \in CheckRec, g.pc = "status", NEW received
  PROVE  AskRecord(NoAnswer(g), g, received)
<1>1. CASE g.tries = 2
  <2> DEFINE k == [g EXCEPT !.pc = "known", !.answer = "UNKNOWN"]
  <2>1. k \in CheckRec /\ k.id = g.id /\ k.left = g.left /\ k.seen = g.seen /\ k.target = g.target
        /\ k.pc = "known" /\ k.answer = "UNKNOWN"
    BY DEF CheckRec, Pcs, Statuses
  <2>2. NoAnswer(g) = k
    BY <1>1 DEF NoAnswer
  <2> HIDE DEF k
  <2> QED
    BY <2>1, <2>2 DEF AskRecord
<1>2. CASE g.tries # 2
  <2> DEFINE k == [g EXCEPT !.tries = g.tries + 1]
  <2>0. g.tries \in Nat
    BY DEF CheckRec
  <2>1. k \in CheckRec /\ k.id = g.id /\ k.left = g.left /\ k.seen = g.seen /\ k.target = g.target
        /\ k.pc = "status"
    BY <2>0 DEF CheckRec, Pcs
  <2>2. NoAnswer(g) = k
    BY <1>2 DEF NoAnswer
  <2> HIDE DEF k
  <2> QED
    BY <2>1, <2>2 DEF AskRecord
<1> QED
  BY <1>1, <1>2

Knows(g, answer) == [g EXCEPT !.pc = "known", !.answer = answer]

LEMMA AnswerRecord ==
  ASSUME NEW g \in CheckRec, NEW answer \in Statuses
  PROVE  AskRecord(Knows(g, answer), g, answer)
<1> DEFINE k == [g EXCEPT !.pc = "known", !.answer = answer]
<1>1. k \in CheckRec /\ k.id = g.id /\ k.left = g.left /\ k.seen = g.seen /\ k.target = g.target
      /\ k.pc = "known" /\ k.answer = answer
  BY DEF CheckRec, Pcs
<1> HIDE DEF k
<1>2. AskRecord(k, g, answer)
  BY <1>1 DEF AskRecord
<1> QED
  BY <1>2 DEF k, Knows

LEMMA PcRecord ==
  ASSUME NEW g \in CheckRec, NEW received
  PROVE  AskRecord([g EXCEPT !.pc = "status"], g, received)
<1> DEFINE k == [g EXCEPT !.pc = "status"]
<1>1. k \in CheckRec /\ k.id = g.id /\ k.left = g.left /\ k.seen = g.seen /\ k.target = g.target
      /\ k.pc = "status"
  BY DEF CheckRec, Pcs
<1> HIDE DEF k
<1>2. AskRecord(k, g, received)
  BY <1>1 DEF AskRecord
<1> QED
  BY <1>2 DEF k

LEMMA AskStatusKeeps ==
  ASSUME Checked, NEW w \in Worker, AskStatus(w)
  PROVE  Checked'
<1> DEFINE g == worker[w].check
           c == g.id
           u == g.target
           heard == worker[u].received[c]
           k == IF heard \in {"ACCEPTED", "REJECTED"}
                THEN [g EXCEPT !.pc = "known", !.answer = heard] ELSE NoAnswer(g)
<1>1. g.pc = "status"
  BY DEF AskStatus, At
<1>2. AskStep(w, k) /\ requests' = requests
  <2>1. faults' \in Nat
    BY DEF AskStatus, Checked
  <2>2. worker' = [worker EXCEPT ![w].check = k] /\ UNCHANGED <<master, toWorker, toMaster, requests>>
    BY DEF AskStatus
  <2> HIDE DEF k
  <2> QED
    BY <2>1, <2>2 DEF AskStep, WithCheck
<1>3. /\ c \in Check /\ g \in CheckRec /\ u \in Worker
      /\ Asking(master, toWorker, toMaster, worker, requests, c, w, u)
  BY <1>1, WaitingAsks
<1>4. heard \in Statuses
  BY <1>3, CheckedWorker, WorkerFields
<1>5. AskRecord(k, g, heard)
  <2>1. AskRecord(NoAnswer(g), g, heard)
    BY <1>1, <1>3, NoAnswerRecord
  <2>2. AskRecord(Knows(g, heard), g, heard)
    BY <1>3, <1>4, AnswerRecord
  <2> QED
    BY <2>1, <2>2, Zenon DEF Knows
<1>6. requests' \in SUBSET Requests /\ SameAsks(requests, requests', c) /\ Fewer(Asks(requests, c), Asks(requests', c))
  BY <1>2, WiresUnchanged DEF SameAsks, Fewer
<1>7. worker[w].check.id = c /\ worker[w].check.pc # "idle"
  BY <1>1
<1> HIDE DEF k, c, u
<1> QED
  BY <1>2, <1>3, <1>5, <1>6, <1>7, AskKeeps

LEMMA TimeoutKeeps ==
  ASSUME Checked, NEW w \in Worker, Timeout(w)
  PROVE  Checked'
<1> DEFINE g == worker[w].check
           c == g.id
           u == g.target
           mine == {r \in requests : r.source # w}
<1>0. faults' \in Nat /\ UNCHANGED <<master, toWorker, toMaster>>
  BY DEF Timeout, Checked
<1>1. \/ /\ g.pc = "transfer" /\ requests' \in {requests, mine}
         /\ worker' = [worker EXCEPT ![w].check.pc = "status"]
      \/ /\ g.pc = "status" /\ requests' = requests
         /\ worker' = [worker EXCEPT ![w].check = NoAnswer(@)]
  BY DEF Timeout, At
<1>3. /\ c \in Check /\ g \in CheckRec /\ u \in Worker
      /\ Asking(master, toWorker, toMaster, worker, requests, c, w, u)
  BY <1>1, WaitingAsks
<1>4. /\ requests' \in SUBSET Requests /\ SameAsks(requests, requests', c)
      /\ Fewer(Asks(requests, c), Asks(requests', c))
  <2>1. requests \in SUBSET Requests
    BY WiresUnchanged
  <2>2. ASSUME NEW d \in Check \ {c} PROVE Asks(mine, d) = Asks(requests, d)
    <3>1. ASSUME NEW r \in Asks(requests, d) PROVE r.source # w
      <4>1. TransferOK(master, toWorker, toMaster, worker, requests, d)
        BY <2>2 DEF Checked, SystemOK, TransfersOK
      <4>2. Asking(master, toWorker, toMaster, worker, requests, d, r.source, r.target)
        BY <2>2, <3>1, <4>1, RequestSays
      <4>3. master.check[r.source] = d /\ master.check[w] = c
        BY <1>3, <4>2 DEF Asking, Owns
      <4> QED
        BY <2>2, <4>3
    <3> QED
      BY <3>1 DEF Asks
  <2>3. SameAsks(requests, mine, c)
    BY <2>2 DEF SameAsks
  <2>4. SameAsks(requests, requests, c)
    BY DEF SameAsks
  <2>5. requests' = requests \/ requests' = mine
    BY <1>1
  <2>6. Fewer(Asks(requests, c), Asks(requests', c)) /\ requests' \in SUBSET Requests
    BY <2>1, <2>5 DEF Fewer, Asks
  <2> HIDE DEF mine
  <2> QED
    BY <2>3, <2>4, <2>5, <2>6
<1>7. worker[w].check.id = c /\ worker[w].check.pc # "idle"
  BY <1>1
<1> DEFINE k == [g EXCEPT !.pc = "status"]
           k2 == NoAnswer(g)
<1>8. CASE g.pc = "transfer"
  <2>1. worker' = [worker EXCEPT ![w].check.pc = "status"]
    BY <1>1, <1>8
  <2>2. worker' = [worker EXCEPT ![w] = WithCheck(worker[w], k)]
    BY <2>1 DEF WithCheck
  <2>3. AskRecord(k, g, worker[u].received[c])
    BY <1>3, PcRecord
  <2> HIDE DEF k, c, u
  <2>4. AskStep(w, k)
    BY <1>0, <2>2 DEF AskStep
  <2> QED
    BY <1>3, <1>4, <1>7, <2>3, <2>4, AskKeeps
<1>9. CASE g.pc = "status"
  <2>1. worker' = [worker EXCEPT ![w].check = k2]
    BY <1>1, <1>9
  <2>2. worker' = [worker EXCEPT ![w] = WithCheck(worker[w], k2)]
    BY <2>1 DEF WithCheck
  <2>3. AskRecord(k2, g, worker[u].received[c])
    BY <1>3, <1>9, NoAnswerRecord
  <2> HIDE DEF k2, c, u
  <2>4. AskStep(w, k2)
    BY <1>0, <2>2 DEF AskStep
  <2> QED
    BY <1>3, <1>4, <1>7, <2>3, <2>4, AskKeeps
<1> QED
  BY <1>1, <1>8, <1>9

-----------------------------------------------------------------------------
(* The check thread: the end *)

ReportState(v, x) == Ended(v, x.type = "P2P_FAILURE")

ReportStep(w, c, v, ms, x) ==
  /\ worker[w].check.id = c /\ Nothing(toMaster[w], c) /\ WorkerOK(v, w) /\ SameElse(worker[w], v, c)
  /\ QuietList(ms) /\ x \in Up /\ Concerns(x, c) /\ FinishCheck(w, v, ms, x)
Reported(w, c, v, x, up2, wk2) ==
  /\ wk2[w].check.id # c /\ wk2[w].received = v.received /\ wk2[w].receiving = v.receiving
  /\ wk2[w].sent = v.sent /\ wk2[w].events = v.events /\ Held(wk2[w], c) = Held(v, c)
  /\ \A z \in Worker : z # w => wk2[z] = worker[z]
  /\ About(up2[w], c) = {x} /\ \A z \in Worker : z # w => up2[z] = toMaster[z]
  /\ TransferOK(master, toWorker, up2, wk2, requests, c) => Checked'

LEMMA Reporting ==
  ASSUME Checked, NEW w \in Worker, NEW c \in Check, NEW v, NEW ms, NEW x, ReportStep(w, c, v, ms, x)
  PROVE  \E up2, wk2 : Reported(w, c, v, x, up2, wk2)
<1> USE DEF ReportStep
<1> DEFINE v2 == ReportState(v, x)
           up2 == Sends(toMaster, w, Append(ms, x))
           wk2 == [worker EXCEPT ![w] = v2]
<1> DEFINE b == x.type = "P2P_FAILURE"
<1>1. SendAndStart(w, v2, Append(ms, x)) /\ UNCHANGED <<master, toWorker, requests, faults>>
  BY DEF FinishCheck, ReportState, Ended
<1>2. b \in BOOLEAN /\ v2 = Ended(v, b)
  BY DEF ReportState
<1> HIDE DEF b, v2, up2
<1>3. /\ WorkerOK(v2, w) /\ v2.check.id = None /\ v2.received = v.received /\ v2.receiving = v.receiving
      /\ v2.sent = v.sent /\ v2.events = v.events /\ v2.queue = v.queue
  BY <1>2, EndedOK
<1>4. SameElse(worker[w], v2, c)
  BY <1>2, EndedElse
<1>5. OneWire(Up, toMaster, up2, w, c) /\ Alone(up2[w], c, x)
  BY ReportWires DEF up2
<1>6. wk2[w] = v2 /\ \A z \in Worker : z # w => wk2[z] = worker[z]
  BY CheckedWorker
<1>7. TransferOK(master, toWorker, up2, wk2, requests, c) => Checked'
  <2>1. wk2 = [worker EXCEPT ![w] = v2] /\ up2 = Sends(toMaster, w, Append(ms, x))
    BY DEF up2
  <2> HIDE DEF wk2
  <2> QED
    BY <1>1, <1>3, <1>4, <2>1, ReportKeeps
<1> HIDE DEF wk2
<1>8. Held(v2, c) = Held(v, c)
  BY <1>3 DEF Held, Tasks
<1>9. Reported(w, c, v, x, up2, wk2)
  BY <1>3, <1>5, <1>6, <1>7, <1>8, HeldChecks DEF Alone, OneWire, Reported
<1> QED
  BY <1>9

TransferOf(c, u, tasks) == [type |-> "P2P_TRANSFER", id |-> c, target |-> u, tasks |-> tasks]
FailureOf(c, u) == [type |-> "P2P_FAILURE", id |-> c, target |-> u]
GivenState(v, c) ==
  MovedState(v, ConfirmTransfer(v.queue, c), v.events \cup {c}, v.sent \cup {c})
DroppedState(v, c) == MovedState(v, CancelTransfer(v.queue, c), v.events, v.sent)

LEMMA GivenOK ==
  ASSUME NEW v, NEW w \in Worker, WorkerOK(v, w), NEW c \in Check
  PROVE  LET v2 == GivenState(v, c)
         IN  /\ WorkerOK(v2, w) /\ SameElse(v, v2, c) /\ Held(v2, c) = {} /\ c \in v2.events /\ c \in v2.sent
             /\ QuietList(<<Status(v2, {})>>)
             /\ v2.received = v.received /\ v2.receiving = v.receiving /\ v2.check = v.check
<1> DEFINE v2 == GivenState(v, c)
           ev == v.events \cup {c}
           sn == v.sent \cup {c}
           q == ConfirmTransfer(v.queue, c)
<1>1. v \in Workers /\ v.sent \in SUBSET Check /\ v.events \in SUBSET Check
  BY WorkerFields DEF WorkerOK
<1>2. v2 = MovedState(v, q, ev, sn)
  BY DEF GivenState
<1>3. SetFor(ev, v.events, c) /\ SetFor(sn, v.sent, c) /\ c \in ev /\ c \in sn
  BY <1>1 DEF SetFor
<1>4. QueueFor(q, v, c) /\ HeldIn(q, c) = {}
  BY <1>1, ConfirmedFor
<1> HIDE DEF v2, ev, q, sn
<1>6. /\ WorkerOK(v2, w) /\ SameElse(v, v2, c) /\ v2.events = ev /\ v2.sent = sn
      /\ v2.received = v.received /\ v2.receiving = v.receiving /\ v2.check = v.check
      /\ Held(v2, c) = HeldIn(q, c)
  BY <1>2, <1>3, <1>4, MovedOK
<1>7. QuietList(<<Status(v2, {})>>)
  BY <1>6, StatusUp DEF QuietList
<1> QED
  BY <1>3, <1>4, <1>6, <1>7 DEF v2

LEMMA DroppedOK ==
  ASSUME NEW v, NEW w \in Worker, WorkerOK(v, w), NEW c \in Check
  PROVE  LET v2 == DroppedState(v, c)
         IN  /\ WorkerOK(v2, w) /\ SameElse(v, v2, c) /\ Held(v2, c) = {} /\ v2.events = v.events
             /\ v2.sent = v.sent /\ QuietList(<<Status(v2, {})>>)
             /\ v2.received = v.received /\ v2.receiving = v.receiving /\ v2.check = v.check
<1> DEFINE v2 == DroppedState(v, c)
           q == CancelTransfer(v.queue, c)
<1>1. v \in Workers /\ v.sent \in SUBSET Check /\ v.events \in SUBSET Check
  BY WorkerFields DEF WorkerOK
<1>2. v2 = MovedState(v, q, v.events, v.sent)
  BY DEF DroppedState
<1>3. SetFor(v.events, v.events, c) /\ SetFor(v.sent, v.sent, c)
  BY <1>1 DEF SetFor
<1>4. QueueFor(q, v, c) /\ HeldIn(q, c) = {}
  BY <1>1, CancelledFor
<1> HIDE DEF v2, q
<1>6. /\ WorkerOK(v2, w) /\ SameElse(v, v2, c) /\ v2.events = v.events /\ v2.sent = v.sent
      /\ v2.received = v.received /\ v2.receiving = v.receiving /\ v2.check = v.check
      /\ Held(v2, c) = HeldIn(q, c)
  BY <1>2, <1>3, <1>4, MovedOK
<1>7. QuietList(<<Status(v2, {})>>)
  BY <1>6, StatusUp DEF QuietList
<1> QED
  BY <1>4, <1>6, <1>7 DEF v2

LEMMA GiveKeeps ==
  ASSUME Checked, NEW w \in Worker, NEW u \in Worker, NEW c \in Check, worker[w].check.id = c,
         Asking(master, toWorker, toMaster, worker, requests, c, w, u),
         worker[u].received[c] = "ACCEPTED", NEW v, v = GivenState(worker[w], c),
         NEW ms, ms = <<Status(v, {})>>, NEW x, x = TransferOf(c, u, ReservedFor(worker[w].queue, c)),
         FinishCheck(w, v, ms, x)
  PROVE  Checked'
<1> DEFINE tasks == ReservedFor(worker[w].queue, c)
<1>1. /\ WorkerOK(v, w) /\ SameElse(worker[w], v, c) /\ Held(v, c) = {} /\ c \in v.events /\ c \in v.sent
      /\ QuietList(ms) /\ v.received = worker[w].received /\ v.receiving = worker[w].receiving
  BY CheckedWorker, GivenOK
<1>2. /\ ~Receiving(worker[u], c) /\ Silent(toWorker, toMaster, u, c) /\ Asks(requests, c) = {}
      /\ Held(worker[u], c) = Held(worker[w], c) /\ Known(master, c) = {Record(c, w, u, TRUE)}
  BY DEF Asking, Offered, Arriving, Answered
<1>3. tasks \in Seq(TaskRec) /\ Range(tasks) = Held(worker[w], c)
  BY CheckedWorker, ReservedTasks DEF Held, Tasks
<1> HIDE DEF tasks
<1>4. x \in Up /\ Concerns(x, c) /\ x.type = "P2P_TRANSFER" /\ x.target = u /\ x.tasks = tasks
  <2>1. x = TransferOf(c, u, tasks)
    BY DEF tasks
  <2> QED
    BY <1>3, <2>1 DEF TransferOf, Up, Concerns, TransferTypes
<1>5. Nothing(toMaster[w], c)
  BY DEF Asking, Nothing
<1>6. ReportStep(w, c, v, ms, x)
  BY <1>1, <1>4, <1>5 DEF ReportStep
<1>7. PICK up2, wk2 : Reported(w, c, v, x, up2, wk2)
  BY <1>6, Reporting
<1> DEFINE v2 == wk2[w]
<1>7a. /\ v2.check.id # c /\ v2.received = v.received /\ v2.receiving = v.receiving
       /\ v2.sent = v.sent /\ v2.events = v.events /\ Held(v2, c) = Held(v, c)
       /\ \A z \in Worker : z # w => wk2[z] = worker[z]
       /\ About(up2[w], c) = {x} /\ \A z \in Worker : z # w => up2[z] = toMaster[z]
  BY <1>7 DEF Reported
<1>8. Given(master, toWorker, up2, wk2, requests, c, w, u)
  <2>1. u # w /\ wk2[u] = worker[u] /\ up2[u] = toMaster[u]
    BY <1>7a DEF Asking
  <2>2. Others(toWorker, up2, wk2, c, w, u)
    BY <1>7a DEF Asking, Others, Silent
  <2>3. Owns(master, w, c) /\ About(toWorker[w], c) = {} /\ Held(worker[w], c) # {}
    BY DEF Asking
  <2>4. ~Receiving(v2, c) /\ v2.received[c] = "NONE"
    BY <1>1, <1>7a DEF Asking, Unmarked, Receiving
  <2>5. Unmarked(worker[u], c) /\ worker[u].check.id # c
    BY <1>2 DEF Asking, Unmarked
  <2>6. Range(x.tasks) = Held(wk2[u], c)
    BY <1>2, <1>3, <1>4, <2>1
  <2>7. Silent(toWorker, up2, u, c)
    BY <1>2, <2>1 DEF Silent
  <2> QED
    BY <1>1, <1>2, <1>4, <1>7a, <2>1, <2>2, <2>3, <2>4, <2>5, <2>6, <2>7 DEF Given
<1> QED
  BY <1>7, <1>8, PhaseOK DEF Reported

LEMMA RefusalKeeps ==
  ASSUME Checked, NEW w \in Worker, NEW u \in Worker, NEW c \in Check, worker[w].check.id = c,
         Asking(master, toWorker, toMaster, worker, requests, c, w, u),
         worker[u].received[c] = "REJECTED", NEW v, v = DroppedState(worker[w], c),
         NEW ms, ms = <<Status(v, {})>>, FinishCheck(w, v, ms, NoTransfer(c, TRUE))
  PROVE  Checked'
<1>1. /\ WorkerOK(v, w) /\ SameElse(worker[w], v, c) /\ Held(v, c) = {} /\ v.events = worker[w].events
      /\ v.sent = worker[w].sent /\ QuietList(ms)
      /\ v.received = worker[w].received /\ v.receiving = worker[w].receiving
  BY CheckedWorker, DroppedOK
<1>2. /\ ~Receiving(worker[u], c) /\ Silent(toWorker, toMaster, u, c) /\ Asks(requests, c) = {}
      /\ Held(worker[u], c) = {} /\ Known(master, c) = {Record(c, w, u, FALSE)}
  BY DEF Asking, Offered, Arriving, Answered
<1>3. Outside(worker[u], c) /\ Silent(toWorker, toMaster, w, c)
  BY <1>2 DEF Asking, Outside, Unmarked, Silent
<1>4. Droppable(master, toWorker, toMaster, worker, requests, c, w)
  <2>1. ASSUME NEW z \in Worker
        PROVE  /\ Silent(toWorker, toMaster, z, c)
               /\ z # w => Outside(worker[z], c) /\ worker[z].received[c] \in {"NONE", "REJECTED"}
    BY <1>2, <1>3 DEF Asking, Others
  <2> QED
    BY <1>2, <2>1 DEF Droppable, Asking
<1>5. DropState(master, c, w, u, TRUE)
  BY <1>2 DEF DropState
<1>6. Ending(v, c)
  BY <1>1 DEF Ending, Asking, Unmarked, Receiving
<1> QED
  BY <1>1, <1>4, <1>5, <1>6, DropKeeps

LEMMA GiveUpKeeps ==
  ASSUME Checked, NEW w \in Worker, NEW u \in Worker, NEW c \in Check, worker[w].check.id = c,
         Asking(master, toWorker, toMaster, worker, requests, c, w, u),
         NEW ms, ms = <<>>, NEW x, x = FailureOf(c, u), FinishCheck(w, worker[w], ms, x)
  PROVE  Checked'
<1> DEFINE v == worker[w]
<1>1. WorkerOK(v, w) /\ SameElse(v, v, c) /\ QuietList(ms)
  BY CheckedWorker DEF SameElse, QuietList
<1>4. x \in Up /\ Concerns(x, c) /\ x = [type |-> "P2P_FAILURE", id |-> c, target |-> u]
  BY DEF FailureOf, Up, Concerns, TransferTypes
<1>5. Nothing(toMaster[w], c)
  BY DEF Asking, Nothing
<1>6. ReportStep(w, c, v, ms, x)
  BY <1>1, <1>4, <1>5 DEF ReportStep
<1>7. PICK up2, wk2 : Reported(w, c, v, x, up2, wk2)
  BY <1>6, Reporting
<1> DEFINE v2 == wk2[w]
<1>7a. /\ v2.check.id # c /\ v2.received = v.received /\ v2.receiving = v.receiving
       /\ v2.sent = v.sent /\ v2.events = v.events /\ Held(v2, c) = Held(v, c)
       /\ \A z \in Worker : z # w => wk2[z] = worker[z]
       /\ About(up2[w], c) = {x} /\ \A z \in Worker : z # w => up2[z] = toMaster[z]
  BY <1>7 DEF Reported
<1>8. Asking(master, toWorker, up2, wk2, requests, c, w, u)
  <2>1. u # w /\ wk2[u] = worker[u] /\ up2[u] = toMaster[u]
    BY <1>7a DEF Asking
  <2>2. Others(toWorker, up2, wk2, c, w, u)
    <3>1. Others(toWorker, toMaster, worker, c, w, u)
      BY DEF Asking
    <3>2. \A z \in Worker : z # w /\ z # u => wk2[z] = worker[z] /\ up2[z] = toMaster[z]
      BY <1>7a
    <3> QED
      BY <3>1, <3>2 DEF Others, Silent
  <2>3. Unmarked(v2, c) /\ Held(v2, c) # {} /\ v2.received[c] = "NONE"
    BY <1>7a DEF Asking, Unmarked, Receiving
  <2>4. About(up2[w], c) = {[type |-> "P2P_FAILURE", id |-> c, target |-> u]}
    BY <1>4, <1>7a
  <2>5. Fate(master, toWorker, up2, wk2, requests, c, w, u)
    <3>1. \/ Offered(master, toWorker, toMaster, worker, requests, c, w, u)
          \/ Arriving(master, toWorker, toMaster, worker, requests, c, w, u)
          \/ Answered(master, toWorker, toMaster, worker, requests, c, w, u)
      BY DEF Asking
    <3>2. Offered(master, toWorker, toMaster, worker, requests, c, w, u)
            => Offered(master, toWorker, up2, wk2, requests, c, w, u)
      BY <1>7a, <2>1 DEF Offered, Silent
    <3>3. Arriving(master, toWorker, toMaster, worker, requests, c, w, u)
            => Arriving(master, toWorker, up2, wk2, requests, c, w, u)
      BY <1>7a, <2>1 DEF Arriving, Silent
    <3>4. Answered(master, toWorker, toMaster, worker, requests, c, w, u)
            => Answered(master, toWorker, up2, wk2, requests, c, w, u)
      BY <1>7a, <2>1 DEF Answered, Silent
    <3> QED
      BY <3>1, <3>2, <3>3, <3>4 DEF Fate
  <2> QED
    BY <1>7a, <2>1, <2>2, <2>3, <2>4, <2>5 DEF Asking, Fate
<1> QED
  BY <1>7, <1>8, PhaseOK DEF Reported

LEMMA ConcludeKeeps ==
  ASSUME Checked, NEW w \in Worker, Conclude(w)
  PROVE  Checked'
<1> DEFINE v == worker[w]
           c == v.check.id
           u == v.check.target
           given == GivenState(v, c)
           dropped == DroppedState(v, c)
           ms1 == <<Status(given, {})>>
           x1 == TransferOf(c, u, ReservedFor(v.queue, c))
           ms2 == <<Status(dropped, {})>>
           ms3 == <<>>
           x3 == FailureOf(c, u)
<1>0. v.check.pc = "known" /\ v \in Workers
  BY CheckedWorker DEF Conclude, At
<1>1. /\ c \in Check /\ u \in Worker /\ worker[w].check.id = c
      /\ Asking(master, toWorker, toMaster, worker, requests, c, w, u)
  BY <1>0, WaitingAsks
<1>2. [v EXCEPT !.queue = ConfirmTransfer(@, c), !.events = @ \cup {c}, !.sent = @ \cup {c}] = given
  BY DEF GivenState, MovedState
<1>3. [v EXCEPT !.queue = CancelTransfer(@, c)] = dropped
  BY <1>0 DEF DroppedState, MovedState, Workers
<1>4. CASE v.check.answer = "ACCEPTED"
  <2>1. FinishCheck(w, given, ms1, x1)
    BY <1>2, <1>4, Zenon DEF Conclude, TransferOf
  <2>2. worker[u].received[c] = "ACCEPTED"
    BY <1>0, <1>1, <1>4 DEF Asking
  <2>3. given = GivenState(v, c) /\ ms1 = <<Status(given, {})>> /\ x1 = TransferOf(c, u, ReservedFor(v.queue, c))
    OBVIOUS
  <2> HIDE DEF given, ms1, x1, c, u
  <2> QED
    BY <1>1, <2>1, <2>2, <2>3, GiveKeeps
<1>5. CASE v.check.answer = "REJECTED"
  <2>1. FinishCheck(w, dropped, ms2, NoTransfer(c, TRUE))
    <3>1. ~(v.check.answer = "ACCEPTED")
      BY <1>5
    <3> QED
      BY <1>3, <1>5, <3>1, Zenon DEF Conclude
  <2>2. worker[u].received[c] = "REJECTED"
    BY <1>0, <1>1, <1>5 DEF Asking
  <2>3. dropped = DroppedState(v, c) /\ ms2 = <<Status(dropped, {})>>
    OBVIOUS
  <2> HIDE DEF dropped, ms2, c, u
  <2> QED
    BY <1>1, <2>1, <2>2, <2>3, RefusalKeeps
<1>6. CASE v.check.answer \notin {"ACCEPTED", "REJECTED"}
  <2>1. FinishCheck(w, v, ms3, x3)
    <3>1. ~(v.check.answer = "ACCEPTED") /\ ~(v.check.answer = "REJECTED")
      BY <1>6
    <3> QED
      BY <3>1, Zenon DEF Conclude, FailureOf
  <2>2. ms3 = <<>> /\ x3 = FailureOf(c, u)
    OBVIOUS
  <2> HIDE DEF ms3, x3, c, u
  <2> QED
    BY <1>1, <2>1, <2>2, GiveUpKeeps
<1> QED
  BY <1>4, <1>5, <1>6

-----------------------------------------------------------------------------
(* The peer threads: the answer to a request *)

LEMMA QuietMany ==
  ASSUME NEW f, f \in [Worker -> Seq(Up)], Clean(f), NEW w \in Worker, NEW ms \in Seq(Up),
         \A i \in DOMAIN ms : ms[i].type \notin TransferTypes, NEW c
  PROVE  OneWire(Up, f, Sends(f, w, ms), w, c) /\ SameAbout(f, Sends(f, w, ms), w, c)
<1> DEFINE g == Sends(f, w, ms)
           q == f[w]
           p == q \o ms
<1>1. q \in Seq(Up) /\ NoTwins(q)
  BY DEF Clean
<1>2. g[w] = p /\ \A z \in Worker : z # w => g[z] = f[z]
  BY DEF Sends
<1>3. p \in Seq(Up) /\ Range(p) = Range(q) \cup Range(ms)
  BY <1>1, TasksQueued
<1>4. \A x \in Range(ms) : x.type \notin TransferTypes
  BY DEF Range
<1>5. \A d : About(p, d) = About(q, d)
  BY <1>3, <1>4 DEF About, Concerns
<1>6. \A i \in DOMAIN p : (i \in DOMAIN q /\ p[i] = q[i]) \/ p[i].type \notin TransferTypes
  <2>1. /\ Len(q) \in Nat /\ Len(ms) \in Nat /\ DOMAIN q = 1..Len(q) /\ DOMAIN ms = 1..Len(ms)
        /\ DOMAIN p = 1..(Len(q) + Len(ms))
        /\ \A i \in 1..(Len(q) + Len(ms)) : p[i] = IF i <= Len(q) THEN q[i] ELSE ms[i - Len(q)]
    BY <1>1, <1>3, ConcatProperties, LenProperties
  <2> HIDE DEF p, q
  <2>2. \A i \in 1..(Len(q) + Len(ms)) : i <= Len(q) \/ i - Len(q) \in DOMAIN ms
    BY <2>1
  <2> QED
    BY <2>1, <2>2
<1> HIDE DEF p, q
<1>7. NoTwins(p)
  <2> SUFFICES ASSUME NEW i \in DOMAIN p, NEW j \in DOMAIN p, p[i] = p[j], p[i].type \in TransferTypes
               PROVE  i = j
    BY DEF NoTwins
  <2> QED
    BY <1>1, <1>6 DEF NoTwins
<1>8. g \in [Worker -> Seq(Up)]
  BY <1>3 DEF Sends, p, q
<1> HIDE DEF g
<1>9. OneWire(Up, f, g, w, c) /\ SameAbout(f, g, w, c)
  BY <1>2, <1>5, <1>7, <1>8 DEF OneWire, Clean, SameWires, SameAbout, q
<1> QED
  BY <1>9 DEF g

Heard(g, c, answer) == IF g.pc = "transfer" /\ g.id = c THEN Knows(g, answer) ELSE g
HeardState(v, c, answer) == WithCheck(v, Heard(v.check, c, answer))
HeardCheck(k, g, c, answer) ==
  \/ k = g /\ ~(g.pc = "transfer" /\ g.id = c)
  \/ /\ k.id = c /\ g.id = c /\ g.pc = "transfer" /\ k.pc = "known" /\ k.answer = answer
     /\ k.target = g.target

LEMMA HeardOK ==
  ASSUME Checked, NEW s \in Worker, NEW c \in Check, NEW answer \in Statuses
  PROVE  LET v == worker[s]
             v2 == HeardState(v, c, answer)
         IN  /\ WorkerOK(v2, s) /\ SameElse(v, v2, c) /\ HeardCheck(v2.check, v.check, c, answer)
             /\ v2.queue = v.queue /\ v2.received = v.received /\ v2.receiving = v.receiving
             /\ v2.sent = v.sent /\ v2.events = v.events
<1> DEFINE v == worker[s]
           g == v.check
           v2 == HeardState(v, c, answer)
<1>1. v \in Workers /\ WorkerOK(v, s) /\ g \in CheckRec
  BY CheckedWorker, WorkerFields
<1>2. CASE g.pc = "transfer" /\ g.id = c
  <2> DEFINE k == Knows(g, answer)
  <2>1. AskRecord(k, g, answer)
    BY <1>1, AnswerRecord
  <2>2. k.pc = "known" /\ k.answer = answer
    <3> HIDE DEF g
    <3> QED
      BY <1>1 DEF Knows, CheckRec
  <2>3. v2 = WithCheck(v, k)
    BY <1>2 DEF HeardState, Heard
  <2> HIDE DEF k, v2
  <2>4. k \in CheckRec /\ k.id = c /\ k.target = g.target /\ CheckNext(v, k)
    BY <1>2, <2>1, <2>2 DEF AskRecord, CheckNext
  <2>5. /\ WorkerOK(v2, s) /\ SameElse(v, v2, c) /\ v2.check = k
        /\ v2.queue = v.queue /\ v2.received = v.received /\ v2.receiving = v.receiving
        /\ v2.sent = v.sent /\ v2.events = v.events
    BY <2>3, <2>4, CheckMoves
  <2>6. HeardCheck(v2.check, v.check, c, answer)
    BY <1>2, <2>2, <2>4, <2>5 DEF HeardCheck
  <2> QED
    BY <2>5, <2>6 DEF v2
<1>3. CASE ~(g.pc = "transfer" /\ g.id = c)
  <2>1. Heard(g, c, answer) = g
    BY <1>3 DEF Heard
  <2>2. v2 = v
    BY <1>1, <2>1 DEF HeardState, WithCheck, Workers
  <2>3. SameElse(v, v, c) /\ HeardCheck(v.check, v.check, c, answer)
    BY <1>3 DEF SameElse, HeardCheck
  <2> QED
    BY <1>1, <2>2, <2>3
<1> QED
  BY <1>2, <1>3

(* The state vu of the target u and the state vw of the source w. *)
BothChange(wk2, u, vu, w, vw) ==
  DOMAIN wk2 = Worker /\ wk2[u] = vu /\ wk2[w] = vw /\ \A z \in Worker : z # u /\ z # w => wk2[z] = worker[z]
Answers(v, v2, c, answer, held) ==
  /\ v2.sent = v.sent /\ v2.events = v.events /\ v2.check = v.check
  /\ v2.received[c] = answer /\ ~Receiving(v2, c)
  /\ \/ answer = "ACCEPTED" /\ Held(v2, c) = held
     \/ answer = "REJECTED" /\ Held(v2, c) = {}

LEMMA AnswerArrives ==
  ASSUME Checked, NEW w \in Worker, NEW u \in Worker, NEW c \in Check,
         Asking(master, toWorker, toMaster, worker, requests, c, w, u),
         worker[u].received[c] \in {"NONE", "UNKNOWN"}, Silent(toWorker, toMaster, u, c),
         NEW answer \in {"ACCEPTED", "REJECTED"}, Known(master, c) = {Record(c, w, u, answer = "ACCEPTED")},
         NEW v2, WorkerOK(v2, u), SameElse(worker[u], v2, c),
         Answers(worker[u], v2, c, answer, Held(worker[w], c)),
         NEW wk2, BothChange(wk2, u, v2, w, HeardState(worker[w], c, answer)),
         NEW up2, OneWire(Up, toMaster, up2, u, c), SameAbout(toMaster, up2, u, c),
         NEW rq2, rq2 \in SUBSET Requests, SameAsks(requests, rq2, c), Asks(rq2, c) = {}
  PROVE  SystemOK(master, toWorker, up2, wk2, rq2)
<1> DEFINE v == worker[w]
           vw == HeardState(v, c, answer)
<1>1. /\ WorkerOK(vw, w) /\ SameElse(v, vw, c) /\ HeardCheck(vw.check, v.check, c, answer)
      /\ vw.queue = v.queue /\ vw.received = v.received /\ vw.receiving = v.receiving
      /\ vw.sent = v.sent /\ vw.events = v.events
  <2>1. answer \in Statuses
    BY DEF Statuses
  <2> QED
    BY <2>1, HeardOK
<1> HIDE DEF vw
<1>2. wk2[u] = v2 /\ wk2[w] = vw /\ \A z \in Worker : z # u /\ z # w => wk2[z] = worker[z]
  BY DEF BothChange, vw
<1>3. u # w /\ Held(vw, c) = Held(v, c)
  BY <1>1 DEF Asking, Held, Tasks
<1>4. Silent(toWorker, up2, u, c) /\ \A z \in Worker : z # u => up2[z] = toMaster[z]
  BY DEF Silent, SameAbout, OneWire
<1>5. Answered(master, toWorker, up2, wk2, rq2, c, w, u)
  <2>1. CASE answer = "ACCEPTED"
    BY <1>2, <1>3, <1>4, <2>1 DEF Answers, Answered
  <2>2. CASE answer = "REJECTED"
    <3>1. (answer = "ACCEPTED") = FALSE
      BY <2>2
    <3> QED
      BY <1>2, <1>3, <1>4, <2>2, <3>1 DEF Answers, Answered
  <2> QED
    BY <2>1, <2>2
<1>6. AskingStays(worker, wk2, w, u, c)
  <2>1. c \notin v2.sent /\ c \notin v2.events /\ v2.check.id # c /\ v2.received[c] = answer
    BY DEF Asking, Answers
  <2>2. v.check.id = c => v.check.target = u /\ ~(v.check.pc = "known" /\ v.check.answer \in {"ACCEPTED", "REJECTED"})
    BY DEF Asking
  <2>3. CASE vw.check = v.check
    BY <1>1, <1>2, <2>1, <2>2, <2>3 DEF AskingStays
  <2>4. CASE vw.check # v.check
    BY <1>1, <1>2, <2>1, <2>2, <2>4 DEF AskingStays, HeardCheck
  <2> QED
    BY <2>3, <2>4
<1>7. OnlyBetween(toWorker, toMaster, worker, toWorker, up2, wk2, w, u, c)
  BY <1>2, <1>3, <1>4 DEF OnlyBetween
<1>8. Asking(master, toWorker, up2, wk2, rq2, c, w, u)
  BY <1>5, <1>6, <1>7, AskingNext DEF Fate
<1>9. TransferOK(master, toWorker, up2, wk2, rq2, c)
  BY <1>8, PhaseOK
<1>10. OnlyWorkers(worker, wk2, u, w)
  BY DEF BothChange, OnlyWorkers
<1>11. /\ WorkerOK(wk2[u], u) /\ WorkerOK(wk2[w], w)
       /\ SameElse(worker[u], wk2[u], c) /\ SameElse(worker[w], wk2[w], c)
  BY <1>1, <1>2
<1>12. OneWire(Down, toWorker, toWorker, u, c)
  BY WiresUnchanged
<1> QED
  BY <1>9, <1>10, <1>11, <1>12, CheckStep

AcceptingState(v, r) ==
  [v EXCEPT !.incoming = v.incoming + Len(r.tasks), !.received = [v.received EXCEPT ![r.id] = "UNKNOWN"],
            !.receiving = <<[request |-> r, timed |-> FALSE]>>]
RefusingState(v, c) == [v EXCEPT !.received = [v.received EXCEPT ![c] = "REJECTED"]]

LEMMA AcceptingOK ==
  ASSUME NEW v, NEW w \in Worker, WorkerOK(v, w), v.receiving = <<>>, NEW r \in Requests,
         HasRoom(v, Len(r.tasks)), NEW c, r.id = c
  PROVE  LET v2 == AcceptingState(v, r)
         IN  /\ WorkerOK(v2, w) /\ SameElse(v, v2, c) /\ v2.received[c] = "UNKNOWN" /\ Receiving(v2, c)
             /\ v2.receiving[1].request = r /\ ~v2.receiving[1].timed
             /\ v2.queue = v.queue /\ v2.check = v.check /\ v2.sent = v.sent /\ v2.events = v.events
<1> DEFINE v2 == AcceptingState(v, r)
           a == Len(v.queue)
           b == Cardinality(v.accepted)
           n == Len(r.tasks)
           at == [request |-> r, timed |-> FALSE]
           heard == [v.received EXCEPT ![c] = "UNKNOWN"]
<1>1. v \in Workers /\ IsFiniteSet(v.accepted) /\ IsFiniteSet(v.reassigned) /\ v.incoming = 0
  BY DEF WorkerOK
<1>2. r.tasks \in Seq(TaskRec) /\ c \in Check
  BY DEF Requests
<1>3. n \in Nat /\ a \in Nat /\ b \in Nat /\ a + b + n <= QueueSize
  <2>1. a + b + v.incoming + n <= QueueSize
    BY DEF HasRoom
  <2>2. n \in Nat /\ a \in Nat /\ b \in Nat
    BY <1>1, <1>2, WorkerFields, LenProperties, FS_CardinalityType
  <2> HIDE DEF a, b, n
  <2> QED
    BY <1>1, <2>1, <2>2
<1>4. at \in Receptions /\ at.request = r /\ ~at.timed
  BY DEF Receptions
<1>5. /\ heard \in [Check -> Statuses] /\ heard[c] = "UNKNOWN"
      /\ \A d \in Check \ {c} : heard[d] = v.received[d]
  BY <1>1, <1>2, WorkerFields DEF Statuses
<1>6. v2 = [v EXCEPT !.incoming = n, !.received = heard, !.receiving = <<at>>]
  <2>1. v.incoming + n = n
    BY <1>1, <1>3
  <2>2. v2 = [v EXCEPT !.incoming = v.incoming + n, !.received = heard, !.receiving = <<at>>]
    BY DEF AcceptingState
  <2> HIDE DEF n, heard, at, v2
  <2> QED
    BY <2>1, <2>2
<1> HIDE DEF v2, at, heard
<1>7. /\ v2 \in Workers /\ v2.check = v.check /\ v2.received = heard /\ v2.receiving = <<at>>
      /\ v2.sent = v.sent /\ v2.events = v.events /\ v2.queue = v.queue /\ v2.accepted = v.accepted
      /\ v2.incoming = n /\ v2.reassigned = v.reassigned
  <2> HIDE DEF n
  <2> QED
    BY <1>1, <1>3, <1>4, <1>5, <1>6 DEF Workers
<1>8. v2.receiving # <<>> /\ v2.receiving[1] = at
  BY <1>7
<1>9. WorkerOK(v2, w)
  <2>1. Len(v2.queue) + Cardinality(v2.accepted) + v2.incoming <= QueueSize
    BY <1>3, <1>7
  <2>2. v2.incoming = Len(v2.receiving[1].request.tasks)
    BY <1>4, <1>7, <1>8
  <2> HIDE DEF a, b, n
  <2> QED
    BY <1>1, <1>7, <1>8, <2>1, <2>2 DEF WorkerOK
<1>10. SameElse(v, v2, c) /\ Receiving(v2, c)
  <2>1. \A d \in Check \ {c} : ~Receiving(v2, d) /\ ~Receiving(v, d)
    BY <1>4, <1>8 DEF Receiving
  <2>2. Receiving(v2, c)
    BY <1>4, <1>8 DEF Receiving
  <2> QED
    BY <1>5, <1>7, <2>1, <2>2 DEF SameElse, Held, Tasks
<1> QED
  BY <1>4, <1>5, <1>7, <1>8, <1>9, <1>10 DEF v2

LEMMA RefusingOK ==
  ASSUME NEW v, NEW w \in Worker, WorkerOK(v, w), NEW c \in Check
  PROVE  LET v2 == RefusingState(v, c)
         IN  /\ WorkerOK(v2, w) /\ SameElse(v, v2, c) /\ v2.received[c] = "REJECTED"
             /\ v2.queue = v.queue /\ v2.check = v.check /\ v2.sent = v.sent /\ v2.events = v.events
             /\ v2.receiving = v.receiving
<1> DEFINE v2 == RefusingState(v, c)
           heard == [v.received EXCEPT ![c] = "REJECTED"]
<1>1. v \in Workers
  BY DEF WorkerOK
<1>2. /\ heard \in [Check -> Statuses] /\ heard[c] = "REJECTED"
      /\ \A d \in Check \ {c} : heard[d] = v.received[d]
  BY <1>1, WorkerFields DEF Statuses
<1>3. v2 = [v EXCEPT !.received = heard]
  BY DEF RefusingState
<1> HIDE DEF v2, heard
<1>4. /\ v2 \in Workers /\ v2.check = v.check /\ v2.received = heard /\ v2.receiving = v.receiving
      /\ v2.sent = v.sent /\ v2.events = v.events /\ v2.queue = v.queue /\ v2.accepted = v.accepted
      /\ v2.incoming = v.incoming /\ v2.reassigned = v.reassigned
  BY <1>1, <1>2, <1>3 DEF Workers
<1>5. WorkerOK(v2, w)
  BY <1>4 DEF WorkerOK
<1>6. SameElse(v, v2, c)
  BY <1>2, <1>4 DEF SameElse, Held, Tasks
<1> QED
  BY <1>2, <1>4, <1>5, <1>6 DEF v2

(* The state of the workers after a peer thread's step. *)
LEMMA TwoChange ==
  ASSUME Checked, NEW u \in Worker, NEW w \in Worker, u # w, NEW c, NEW k,
         worker' = [worker EXCEPT ![u].received[c] = "REJECTED", ![w].check = k]
  PROVE  BothChange(worker', u, RefusingState(worker[u], c), w, WithCheck(worker[w], k))
<1>1. DOMAIN worker = Worker
  BY CheckedWorker
<1>2. /\ DOMAIN worker' = Worker /\ worker'[w] = [worker[w] EXCEPT !.check = k]
      /\ worker'[u] = [worker[u] EXCEPT !.received[c] = "REJECTED"]
      /\ \A z \in Worker : z # u /\ z # w => worker'[z] = worker[z]
  BY <1>1
<1> QED
  BY <1>2 DEF BothChange, RefusingState, WithCheck

Without(rq, r) == rq \ {r}

LEMMA RequestTaken ==
  ASSUME Checked, NEW r \in requests
  PROVE  LET c == r.id
         IN  /\ r \in Requests /\ c \in Check /\ r.source \in Worker /\ r.target \in Worker
             /\ Asking(master, toWorker, toMaster, worker, requests, c, r.source, r.target)
             /\ Offered(master, toWorker, toMaster, worker, requests, c, r.source, r.target)
             /\ Range(r.tasks) = Held(worker[r.source], c)
             /\ Without(requests, r) \in SUBSET Requests /\ SameAsks(requests, Without(requests, r), c)
             /\ Asks(Without(requests, r), c) = {}
<1> DEFINE c == r.id
           rq2 == Without(requests, r)
<1>1. requests \in SUBSET Requests /\ r \in Requests /\ c \in Check
  BY WiresUnchanged DEF Requests
<1>2. r \in Asks(requests, c) /\ TransferOK(master, toWorker, toMaster, worker, requests, c)
  BY <1>1 DEF Asks, Checked, SystemOK, TransfersOK
<1>3. /\ Asking(master, toWorker, toMaster, worker, requests, c, r.source, r.target)
      /\ Offered(master, toWorker, toMaster, worker, requests, c, r.source, r.target)
      /\ r.source \in Worker /\ r.target \in Worker /\ Range(r.tasks) = Held(worker[r.source], c)
  <2> HIDE DEF c
  <2> QED
    BY <1>1, <1>2, RequestSays
<1>4. \A s \in Asks(requests, c) : s = r
  BY <1>2, <1>3 DEF Offered
<1>5. rq2 \in SUBSET Requests /\ Asks(rq2, c) = {}
  BY <1>1, <1>4 DEF Asks, Without
<1>6. SameAsks(requests, rq2, c)
  BY DEF SameAsks, Asks, Without
<1> HIDE DEF c, rq2
<1> QED
  BY <1>1, <1>3, <1>5, <1>6 DEF c, rq2

AcceptStep(u, r) ==
  /\ worker[u].receiving = <<>> /\ HasRoom(worker[u], Len(r.tasks))
  /\ worker' = [worker EXCEPT ![u] = AcceptingState(worker[u], r)]
  /\ toMaster' = Put(toMaster, u, TimeOf(r.id, r.source, u, "RECV"))
  /\ requests' = Without(requests, r)
  /\ UNCHANGED <<master, toWorker, faults>>
RefuseStep(u, r) ==
  /\ worker[u].receiving = <<>>
  /\ worker' = [worker EXCEPT ![u].received[r.id] = "REJECTED", ![r.source].check = Reply(r, "REJECTED")]
  /\ requests' = Without(requests, r)
  /\ UNCHANGED <<master, toWorker, toMaster, faults>>

LEMMA AcceptKeeps ==
  ASSUME Checked, NEW u \in Worker, NEW r \in requests, r.target = u, AcceptStep(u, r)
  PROVE  Checked'
<1> DEFINE c == r.id
           w == r.source
           v2 == AcceptingState(worker[u], r)
           x == TimeOf(c, w, u, "RECV")
           up2 == Put(toMaster, u, x)
           rq2 == Without(requests, r)
           wk2 == [worker EXCEPT ![u] = v2]
<1>1. /\ r \in Requests /\ c \in Check /\ w \in Worker
      /\ Asking(master, toWorker, toMaster, worker, requests, c, w, u)
      /\ Offered(master, toWorker, toMaster, worker, requests, c, w, u)
      /\ Range(r.tasks) = Held(worker[w], c)
      /\ rq2 \in SUBSET Requests /\ SameAsks(requests, rq2, c) /\ Asks(rq2, c) = {}
  BY RequestTaken
<1>2. /\ worker[u].receiving = <<>> /\ HasRoom(worker[u], Len(r.tasks)) /\ worker' = wk2
      /\ toMaster' = up2 /\ requests' = rq2 /\ UNCHANGED <<master, toWorker, faults>>
  BY DEF AcceptStep
<1> HIDE DEF c, w, up2, rq2
<1>3. /\ WorkerOK(v2, u) /\ SameElse(worker[u], v2, c) /\ v2.received[c] = "UNKNOWN" /\ Receiving(v2, c)
      /\ v2.receiving[1].request = r /\ ~v2.receiving[1].timed
      /\ v2.queue = worker[u].queue /\ v2.check = worker[u].check
      /\ v2.sent = worker[u].sent /\ v2.events = worker[u].events
  <2>1. WorkerOK(worker[u], u) /\ r.id = c
    BY CheckedWorker DEF c
  <2> HIDE DEF v2
  <2> QED
    BY <1>1, <1>2, <2>1, AcceptingOK DEF v2
<1> HIDE DEF v2
<1>4. wk2[u] = v2 /\ \A z \in Worker : z # u => wk2[z] = worker[z]
  BY CheckedWorker
<1>5. wk2 = [worker EXCEPT ![u] = v2] /\ u # w
  BY <1>1 DEF Asking
<1> HIDE DEF wk2, x
<1>6. OneWire(Up, toMaster, up2, u, c) /\ Alone(up2[u], c, x)
  <2>1. x \in Up /\ Concerns(x, c)
    BY <1>1 DEF x, TimeOf, Up, Phases, Concerns, TransferTypes
  <2>2. Nothing(toMaster[u], c)
    BY <1>1 DEF Offered, Silent, Nothing
  <2> QED
    BY <2>1, <2>2, WiresUnchanged, PutOne DEF up2
<1>7. About(up2[u], c) = {TimeOf(c, w, u, "RECV")} /\ \A z \in Worker : z # u => up2[z] = toMaster[z]
  BY <1>6 DEF Alone, OneWire, x
<1>8. Arriving(master, toWorker, up2, wk2, rq2, c, w, u)
  <2>1. Held(v2, c) = {} /\ wk2[w] = worker[w] /\ About(toWorker[u], c) = {}
    BY <1>1, <1>3, <1>4, <1>5 DEF Offered, Held, Tasks, Silent
  <2>2. r.source = w /\ r.target = u
    BY DEF w
  <2>3. Known(master, c) = {Record(c, w, u, FALSE)}
    BY <1>1 DEF Offered
  <2> QED
    BY <1>1, <1>3, <1>4, <1>7, <2>1, <2>2, <2>3 DEF Arriving
<1>9. AskingStays(worker, wk2, w, u, c)
  <2>1. c \notin v2.sent /\ c \notin v2.events /\ v2.check.id # c
    BY <1>1, <1>3 DEF Asking
  <2>2. ~(worker[w].check.id = c /\ worker[w].check.pc = "known" /\ worker[w].check.answer \in {"ACCEPTED", "REJECTED"})
    BY <1>1 DEF Asking, Offered
  <2> QED
    BY <1>4, <1>5, <2>1, <2>2 DEF AskingStays
<1>10. OnlyBetween(toWorker, toMaster, worker, toWorker, up2, wk2, w, u, c)
  BY <1>4, <1>5, <1>7, <1>1 DEF OnlyBetween
<1>11. Asking(master, toWorker, up2, wk2, rq2, c, w, u)
  BY <1>1, <1>8, <1>9, <1>10, AskingNext DEF Fate
<1>12. TransferOK(master, toWorker, up2, wk2, rq2, c)
  BY <1>1, <1>11, PhaseOK
<1>13. SystemOK(master, toWorker, up2, wk2, rq2)
  <2>1. OneWire(Down, toWorker, toWorker, u, c)
    BY WiresUnchanged
  <2> QED
    BY <1>1, <1>3, <1>5, <1>6, <1>12, <2>1, WorkerStepKeeps
<1> QED
  BY <1>2, <1>13 DEF Checked

LEMMA RefuseKeeps ==
  ASSUME Checked, NEW u \in Worker, NEW r \in requests, r.target = u, RefuseStep(u, r)
  PROVE  Checked'
<1> DEFINE c == r.id
           w == r.source
           v2 == RefusingState(worker[u], c)
           rq2 == Without(requests, r)
           k == Heard(worker[w].check, c, "REJECTED")
<1>1. /\ r \in Requests /\ c \in Check /\ w \in Worker
      /\ Asking(master, toWorker, toMaster, worker, requests, c, w, u)
      /\ Offered(master, toWorker, toMaster, worker, requests, c, w, u)
      /\ rq2 \in SUBSET Requests /\ SameAsks(requests, rq2, c) /\ Asks(rq2, c) = {}
  BY RequestTaken
<1>2. /\ worker[u].receiving = <<>> /\ requests' = rq2 /\ UNCHANGED <<master, toWorker, toMaster, faults>>
      /\ worker' = [worker EXCEPT ![u].received[c] = "REJECTED", ![w].check = k]
  <2>1. Reply(r, "REJECTED") = k
    BY DEF Reply, Heard, Knows
  <2> HIDE DEF k
  <2> QED
    BY <2>1 DEF RefuseStep
<1>3. u # w
  BY <1>1 DEF Asking
<1> HIDE DEF c, w, k, rq2
<1>4. BothChange(worker', u, v2, w, WithCheck(worker[w], k))
  BY <1>1, <1>2, <1>3, TwoChange
<1>5. WithCheck(worker[w], k) = HeardState(worker[w], c, "REJECTED")
  BY DEF HeardState, k
<1>6. /\ WorkerOK(v2, u) /\ SameElse(worker[u], v2, c) /\ v2.received[c] = "REJECTED"
      /\ v2.queue = worker[u].queue /\ v2.check = worker[u].check /\ v2.sent = worker[u].sent
      /\ v2.events = worker[u].events /\ v2.receiving = worker[u].receiving
  BY <1>1, CheckedWorker, RefusingOK
<1> HIDE DEF v2
<1>7. Answers(worker[u], v2, c, "REJECTED", Held(worker[w], c))
  <2>1. ~Receiving(v2, c)
    BY <1>2, <1>6 DEF Receiving
  <2>2. Held(v2, c) = {}
    BY <1>1, <1>6 DEF Offered, Held, Tasks
  <2> QED
    BY <1>6, <2>1, <2>2 DEF Answers
<1>8. /\ worker[u].received[c] \in {"NONE", "UNKNOWN"} /\ Silent(toWorker, toMaster, u, c)
      /\ Known(master, c) = {Record(c, w, u, "REJECTED" = "ACCEPTED")}
  <2>1. ("REJECTED" = "ACCEPTED") = FALSE
    OBVIOUS
  <2> QED
    BY <1>1, <2>1 DEF Offered
<1>9. OneWire(Up, toMaster, toMaster, u, c) /\ SameAbout(toMaster, toMaster, u, c)
  BY WiresUnchanged DEF SameAbout
<1>10. SystemOK(master, toWorker, toMaster, worker', rq2)
  <2> DEFINE wk2 == worker'
             answer == "REJECTED"
  <2>1. /\ BothChange(wk2, u, v2, w, HeardState(worker[w], c, answer)) /\ answer \in {"ACCEPTED", "REJECTED"}
        /\ Answers(worker[u], v2, c, answer, Held(worker[w], c))
        /\ Known(master, c) = {Record(c, w, u, answer = "ACCEPTED")}
    BY <1>4, <1>5, <1>7, <1>8
  <2> HIDE DEF answer, wk2
  <2>2. SystemOK(master, toWorker, toMaster, wk2, rq2)
    BY <1>1, <1>6, <1>8, <1>9, <2>1, AnswerArrives
  <2> QED
    BY <2>2 DEF wk2
<1> QED
  BY <1>2, <1>10 DEF Checked

LEMMA StartReceiveKeeps ==
  ASSUME Checked, NEW w \in Worker, StartReceive(w)
  PROVE  Checked'
<1>1. PICK r \in requests :
        /\ r.target = w /\ requests' = requests \ {r}
        /\ IF HasRoom(worker[w], Len(r.tasks))
           THEN /\ worker' = [worker EXCEPT
                     ![w].incoming = @ + Len(r.tasks),
                     ![w].received[r.id] = "UNKNOWN",
                     ![w].receiving = <<[request |-> r, timed |-> FALSE]>>]
                /\ toMaster' = [toMaster EXCEPT ![w] = Append(@,
                     [type |-> "P2P_TIME", id |-> r.id, source |-> r.source, target |-> w,
                      phase |-> "RECV"])]
           ELSE /\ worker' = [worker EXCEPT ![w].received[r.id] = "REJECTED",
                                            ![r.source].check = Reply(r, "REJECTED")]
                /\ UNCHANGED toMaster
  BY Zenon DEF StartReceive
<1>2. worker[w].receiving = <<>> /\ UNCHANGED <<master, toWorker, faults>>
  BY DEF StartReceive
<1>3. CASE HasRoom(worker[w], Len(r.tasks))
  <2>1. worker' = [worker EXCEPT ![w] = AcceptingState(worker[w], r)]
    <3>1. DOMAIN worker = Worker
      BY CheckedWorker
    <3>2. worker' = [worker EXCEPT
                       ![w].incoming = @ + Len(r.tasks),
                       ![w].received[r.id] = "UNKNOWN",
                       ![w].receiving = <<[request |-> r, timed |-> FALSE]>>]
      BY <1>1, <1>3, Zenon
    <3> QED
      BY <3>1, <3>2, Zenon DEF AcceptingState
  <2>2. toMaster' = Put(toMaster, w, TimeOf(r.id, r.source, w, "RECV"))
    BY <1>1, <1>3, Zenon DEF Put, TimeOf
  <2>3. AcceptStep(w, r)
    <3>1. requests' = Without(requests, r)
      BY <1>1 DEF Without
    <3> QED
      BY <1>2, <1>3, <2>1, <2>2, <3>1 DEF AcceptStep
  <2> QED
    BY <1>1, <2>3, AcceptKeeps
<1>4. CASE ~HasRoom(worker[w], Len(r.tasks))
  <2>1. /\ worker' = [worker EXCEPT ![w].received[r.id] = "REJECTED", ![r.source].check = Reply(r, "REJECTED")]
        /\ UNCHANGED toMaster
    BY <1>1, <1>4, Zenon
  <2>2. RefuseStep(w, r)
    <3>1. requests' = Without(requests, r)
      BY <1>1 DEF Without
    <3> QED
      BY <1>2, <2>1, <3>1 DEF RefuseStep
  <2> QED
    BY <1>1, <2>2, RefuseKeeps
<1> QED
  BY <1>3, <1>4

FinishedState(v, r) ==
  [v EXCEPT !.queue = v.queue \o r.tasks, !.incoming = v.incoming - Len(r.tasks),
            !.received = [v.received EXCEPT ![r.id] = "ACCEPTED"], !.receiving = <<>>]

LEMMA FinishedOK ==
  ASSUME NEW v, NEW w \in Worker, WorkerOK(v, w), v.receiving # <<>>, NEW r, r = v.receiving[1].request,
         NEW c, r.id = c, Held(v, c) = {}, \A t \in Range(r.tasks) : t.held = c
  PROVE  LET v2 == FinishedState(v, r)
         IN  /\ WorkerOK(v2, w) /\ SameElse(v, v2, c) /\ v2.received[c] = "ACCEPTED" /\ ~Receiving(v2, c)
             /\ Held(v2, c) = Range(r.tasks)
             /\ v2.check = v.check /\ v2.sent = v.sent /\ v2.events = v.events
<1> DEFINE v2 == FinishedState(v, r)
           a == Len(v.queue)
           b == Cardinality(v.accepted)
           n == Len(r.tasks)
           q == v.queue \o r.tasks
           heard == [v.received EXCEPT ![c] = "ACCEPTED"]
<1>1. /\ v \in Workers /\ IsFiniteSet(v.accepted) /\ IsFiniteSet(v.reassigned) /\ v.incoming = n
      /\ a + b + v.incoming <= QueueSize
  BY DEF WorkerOK
<1>2. r \in Requests /\ r.tasks \in Seq(TaskRec) /\ c \in Check /\ v.receiving[1].request.id = c
  <2>1. PICK at \in Receptions : v.receiving = <<at>>
    BY <1>1 DEF Workers
  <2>2. at.request \in Requests /\ v.receiving[1] = at
    BY <2>1 DEF Receptions
  <2>3. r \in Requests
    BY <2>2
  <2> QED
    BY <2>3 DEF Requests
<1>3. n \in Nat /\ a \in Nat /\ b \in Nat /\ v.queue \in Seq(TaskRec)
  BY <1>1, <1>2, WorkerFields, LenProperties, FS_CardinalityType
<1>4. q \in Seq(TaskRec) /\ Len(q) = a + n /\ Range(q) = Range(v.queue) \cup Range(r.tasks)
  BY <1>2, <1>3, TasksQueued
<1>5. /\ heard \in [Check -> Statuses] /\ heard[c] = "ACCEPTED"
      /\ \A d \in Check \ {c} : heard[d] = v.received[d]
  BY <1>1, <1>2, WorkerFields DEF Statuses
<1>6. v2 = [v EXCEPT !.queue = q, !.incoming = 0, !.received = heard, !.receiving = <<>>]
  <2>1. v.incoming - n = 0
    BY <1>1, <1>3
  <2>2. v2 = [v EXCEPT !.queue = q, !.incoming = v.incoming - n, !.received = heard, !.receiving = <<>>]
    BY DEF FinishedState
  <2> HIDE DEF n, heard, q, v2
  <2> QED
    BY <2>1, <2>2
<1> HIDE DEF v2, heard, q
<1>7. /\ v2 \in Workers /\ v2.check = v.check /\ v2.received = heard /\ v2.receiving = <<>>
      /\ v2.sent = v.sent /\ v2.events = v.events /\ v2.queue = q /\ v2.accepted = v.accepted
      /\ v2.incoming = 0 /\ v2.reassigned = v.reassigned
  BY <1>1, <1>4, <1>5, <1>6 DEF Workers
<1>9. WorkerOK(v2, w)
  <2>1. Len(v2.queue) + Cardinality(v2.accepted) + v2.incoming <= QueueSize
    <3>1. Len(v2.queue) = a + n /\ Cardinality(v2.accepted) = b /\ v2.incoming = 0 /\ a + b + n <= QueueSize
      BY <1>1, <1>4, <1>7
    <3> HIDE DEF a, b, n
    <3> QED
      BY <1>3, <3>1
  <2> HIDE DEF a, b, n
  <2> QED
    BY <1>1, <1>7, <2>1 DEF WorkerOK
<1>10. SameElse(v, v2, c) /\ ~Receiving(v2, c) /\ Held(v2, c) = Range(r.tasks)
  <2>1. \A d \in Check \ {c} : ~Receiving(v2, d) /\ ~Receiving(v, d)
    BY <1>2, <1>7 DEF Receiving
  <2>2. ~Receiving(v2, c)
    BY <1>7 DEF Receiving
  <2>3. \A d \in Check \ {c} : Held(v2, d) = Held(v, d)
    BY <1>4, <1>7 DEF Held, Tasks
  <2>4. Held(v2, c) = Range(r.tasks)
    BY <1>4, <1>7 DEF Held, Tasks
  <2> QED
    BY <1>5, <1>7, <2>1, <2>2, <2>3, <2>4 DEF SameElse
<1> QED
  BY <1>5, <1>7, <1>9, <1>10 DEF v2

ReceivedStatuses(q, count) ==
  [i \in 1..count |-> [type |-> "QUEUE_STATUS", size |-> Len(q) + i, confirms |-> {}]]

LEMMA ReceivedUp ==
  ASSUME NEW q \in Seq(TaskRec), NEW count \in Nat, Len(q) + count <= QueueSize
  PROVE  LET ms == ReceivedStatuses(q, count)
         IN  ms \in Seq(Up) /\ \A i \in DOMAIN ms : ms[i].type \notin TransferTypes
<1> DEFINE ms == ReceivedStatuses(q, count)
           a == Len(q)
<1>1. a \in Nat
  BY LenProperties
<1>2. \A i \in 1..count : a + i \in Size
  <2> HIDE DEF a
  <2> QED
    BY <1>1 DEF Size, a
<1>3. \A i \in 1..count : [type |-> "QUEUE_STATUS", size |-> a + i, confirms |-> {}] \in Up
  <2> HIDE DEF a
  <2> QED
    BY <1>2 DEF Up
<1>4. ms \in [1..count -> Up]
  BY <1>3 DEF ReceivedStatuses
<1>5. ms \in Seq(Up)
  BY <1>4
<1>6. \A i \in DOMAIN ms : ms[i].type = "QUEUE_STATUS"
  BY DEF ReceivedStatuses
<1> QED
  BY <1>5, <1>6 DEF TransferTypes

LEMMA FinishReceiveKeeps ==
  ASSUME Checked, NEW u \in Worker, FinishReceive(u)
  PROVE  Checked'
<1> DEFINE v == worker[u]
           at == v.receiving[1]
           r == at.request
           c == r.id
           w == r.source
           count == Len(r.tasks)
           v2 == FinishedState(v, r)
           k == Heard(worker[w].check, c, "ACCEPTED")
           ms == ReceivedStatuses(v.queue, count)
           up2 == Sends(toMaster, u, ms)
<1>1. v.receiving # <<>> /\ at.timed
  BY Zenon DEF FinishReceive
<1>2. \/ Raise("error")
      \/ /\ Len(v.queue) + count <= QueueSize
         /\ worker' = [worker EXCEPT ![u] = v2, ![w].check = k] /\ toMaster' = up2
         /\ UNCHANGED <<master, toWorker, requests, faults>>
  <2>1. Reply(r, "ACCEPTED") = k
    BY DEF Reply, Heard, Knows
  <2> DEFINE raw == [v EXCEPT !.queue = @ \o r.tasks, !.incoming = @ - count,
                              !.received[r.id] = "ACCEPTED", !.receiving = <<>>]
             told == [toMaster EXCEPT ![u] = @ \o
                 [i \in 1..count |-> [type |-> "QUEUE_STATUS", size |-> Len(v.queue) + i, confirms |-> {}]]]
  <2>2. raw = v2
    BY DEF FinishedState
  <2>2a. up2 = told
    BY DEF Sends, ReceivedStatuses
  <2>3. IF Len(v.queue) + count > QueueSize THEN Raise("error")
        ELSE /\ worker' = [worker EXCEPT ![u] = raw, ![w].check = Reply(r, "ACCEPTED")]
             /\ toMaster' = told
             /\ UNCHANGED <<master, toWorker, requests, faults, verdict>>
    BY Zenon DEF FinishReceive
  <2>4. Len(v.queue) + count \in Int
    <3>1. Len(v.queue) \in Nat /\ v \in Workers /\ WorkerOK(v, u)
      BY CheckedWorker
    <3>2. v.incoming = count /\ v.incoming \in Nat
      BY <1>1, <3>1, WorkerFields DEF WorkerOK
    <3> QED
      BY <3>1, <3>2
  <2>5. CASE Len(v.queue) + count > QueueSize
    BY <2>3, <2>5, Zenon
  <2>6. CASE ~(Len(v.queue) + count > QueueSize)
    <3>1. Len(v.queue) + count <= QueueSize
      <4> HIDE DEF count
      <4> QED
        BY <2>4, <2>6
    <3>2. /\ worker' = [worker EXCEPT ![u] = raw, ![w].check = Reply(r, "ACCEPTED")] /\ toMaster' = told
          /\ UNCHANGED <<master, toWorker, requests, faults, verdict>>
      BY <2>3, <2>6, Zenon
    <3> HIDE DEF v2, k, up2, count, r, w, raw, told
    <3> QED
      BY <2>1, <2>2, <2>2a, <3>1, <3>2
  <2> HIDE DEF v2, k, up2, count, r, w, raw, told
  <2> QED
    BY <2>5, <2>6
<1>3. CASE Raise("error")
  BY <1>3, RaiseKeeps
<1>4. CASE /\ Len(v.queue) + count <= QueueSize
           /\ worker' = [worker EXCEPT ![u] = v2, ![w].check = k] /\ toMaster' = up2
           /\ UNCHANGED <<master, toWorker, requests, faults>>
  <2>0. WorkerOK(v, u) /\ v \in Workers /\ v.queue \in Seq(TaskRec) /\ Len(v.queue) \in Nat
    BY CheckedWorker
  <2>1. c \in Check /\ count \in Nat /\ Receiving(v, c)
    <3>1. PICK a \in Receptions : v.receiving = <<a>>
      BY <1>1, <2>0 DEF Workers
    <3>2. r \in Requests
      BY <3>1 DEF Receptions
    <3>3. r.tasks \in Seq(TaskRec) /\ r.id \in Check
      BY <3>2 DEF Requests
    <3> QED
      BY <1>1, <3>3, LenProperties DEF Receiving
  <2>2. PICK s \in Worker : /\ Asking(master, toWorker, toMaster, worker, requests, c, s, u)
                            /\ Arriving(master, toWorker, toMaster, worker, requests, c, s, u)
    <3>1. TransferOK(master, toWorker, toMaster, worker, requests, c)
      BY <2>1 DEF Checked, SystemOK, TransfersOK
    <3> HIDE DEF c
    <3> QED
      BY <2>1, <3>1, ReceptionSays
  <2>3. /\ s = w /\ Range(r.tasks) = Held(worker[w], c) /\ Held(v, c) = {} /\ v.received[c] = "UNKNOWN"
        /\ Known(master, c) = {Record(c, w, u, TRUE)} /\ Silent(toWorker, toMaster, u, c)
        /\ Asks(requests, c) = {} /\ u # w
    <3>1. s = w
      BY <2>2, Zenon DEF Arriving
    <3> HIDE DEF c, w
    <3> QED
      BY <1>1, <2>2, <3>1 DEF Arriving, Asking
  <2>4. \A t \in Range(r.tasks) : t.held = c
    BY <2>3 DEF Held
  <2>4a. r = v.receiving[1].request /\ r.id = c
    OBVIOUS
  <2> HIDE DEF v2, c, r, w, k, count, up2, ms
  <2>5. /\ WorkerOK(v2, u) /\ SameElse(v, v2, c) /\ v2.received[c] = "ACCEPTED" /\ ~Receiving(v2, c)
        /\ Held(v2, c) = Range(r.tasks)
        /\ v2.check = v.check /\ v2.sent = v.sent /\ v2.events = v.events
    BY <1>1, <2>0, <2>3, <2>4, <2>4a, FinishedOK DEF v2
  <2>6. BothChange(worker', u, v2, w, WithCheck(worker[w], k))
    <3>1. DOMAIN worker = Worker /\ w \in Worker /\ u # w
      BY <2>2, <2>3, CheckedWorker
    <3>2. /\ DOMAIN worker' = Worker /\ worker'[w] = [worker[w] EXCEPT !.check = k]
          /\ worker'[u] = v2 /\ \A z \in Worker : z # u /\ z # w => worker'[z] = worker[z]
      BY <1>4, <3>1
    <3> QED
      BY <3>2 DEF BothChange, WithCheck
  <2>7. WithCheck(worker[w], k) = HeardState(worker[w], c, "ACCEPTED")
    BY DEF HeardState, k
  <2>8. Answers(v, v2, c, "ACCEPTED", Held(worker[w], c))
    BY <2>3, <2>5 DEF Answers
  <2>9. OneWire(Up, toMaster, up2, u, c) /\ SameAbout(toMaster, up2, u, c)
    <3>1. ms \in Seq(Up) /\ \A i \in DOMAIN ms : ms[i].type \notin TransferTypes
      BY <1>4, <2>0, <2>1, ReceivedUp DEF ms
    <3>2. toMaster \in [Worker -> Seq(Up)] /\ Clean(toMaster)
      BY WiresUnchanged
    <3> QED
      BY <3>1, <3>2, QuietMany DEF up2
  <2>10. requests \in SUBSET Requests /\ SameAsks(requests, requests, c)
    BY WiresUnchanged DEF SameAsks
  <2>11. SystemOK(master, toWorker, up2, worker', requests)
    <3> DEFINE wk2 == worker'
               answer == "ACCEPTED"
    <3>1. /\ BothChange(wk2, u, v2, w, HeardState(worker[w], c, answer)) /\ answer \in {"ACCEPTED", "REJECTED"}
          /\ Answers(worker[u], v2, c, answer, Held(worker[w], c))
          /\ Known(master, c) = {Record(c, w, u, answer = "ACCEPTED")}
      <4>1. ("ACCEPTED" = "ACCEPTED") = TRUE
        OBVIOUS
      <4> QED
        BY <2>3, <2>6, <2>7, <2>8, <4>1
    <3>2. /\ Asking(master, toWorker, toMaster, worker, requests, c, w, u) /\ w \in Worker
          /\ worker[u].received[c] \in {"NONE", "UNKNOWN"}
      BY <2>2, <2>3
    <3> HIDE DEF answer, wk2
    <3>3. SystemOK(master, toWorker, up2, wk2, requests)
      BY <2>1, <2>3, <2>5, <2>9, <2>10, <3>1, <3>2, AnswerArrives
    <3> QED
      BY <3>3 DEF wk2
  <2> QED
    BY <1>4, <2>11 DEF Checked
<1> HIDE DEF v2, c, r, w, k, count, up2, ms
<1> QED
  BY <1>2, <1>3, <1>4

-----------------------------------------------------------------------------
(* The specification *)

LEMMA WorkerStepsKeep ==
  ASSUME Checked, NEW w \in Worker, WorkerStep(w)
  PROVE  Checked'
BY PeersKeeps, TaskKeeps, TaskConfirmedKeeps, ProcessAckKeeps, P2PCheckKeeps, TimeAckKeeps,
   TransferConfirmedKeeps, StopKeeps DEF WorkerStep

LEMMA PeerStepsKeep ==
  ASSUME Checked, NEW w \in Worker, PeerStep(w)
  PROVE  Checked'
BY BeginCheckKeeps, QueryPeerKeeps, ChooseAndReserveKeeps, AskStatusKeeps, ConcludeKeeps,
   StartReceiveKeeps, FinishReceiveKeeps DEF PeerStep

LEMMA StepKeeps ==
  ASSUME Checked, Next
  PROVE  Checked'
<1>1. ASSUME NEW w \in Worker, HandleMessage(w) \/ WorkerStep(w) \/ PeerStep(w) PROVE Checked'
  BY <1>1, MessageKeeps, WorkerStepsKeep, PeerStepsKeep
<1>2. ASSUME NEW w \in Worker, Timeout(w) PROVE Checked'
  BY <1>2, TimeoutKeeps
<1> QED
  BY <1>1, <1>2 DEF Next, SystemStep

LEMMA StutterKeeps ==
  ASSUME Checked, UNCHANGED vars
  PROVE  Checked'
BY DEF Checked, vars

LEMMA EmptyAbout ==
  \A c : About(<<>>, c) = {} /\ About(<<[type |-> "PEERS"]>>, c) = {}
<1>1. Range(<<>>) = {} /\ Range(<<[type |-> "PEERS"]>>) = {[type |-> "PEERS"]}
  BY SingleTask
<1> QED
  BY <1>1 DEF About, Concerns, TransferTypes

LEMMA InitChecked ==
  ASSUME Init
  PROVE  Checked
<1>1. NewTask \in TaskState
  BY DEF NewTask, TaskState
<1>2. /\ <<>> \in Seq(Key) /\ [i \in Key |-> i] \in Seq(Key)
  BY DEF Key
<1>3. 0 \in Size /\ 0 <= QueueSize /\ 0 <= MaxEvents
  BY DEF Size
<1>4. [success |-> 0, failures |-> 0, moved |-> 0, reassigned |-> 0] \in Tallies
  BY DEF Tallies
<1>5. Cardinality({}) = 0 /\ IsFiniteSet({})
  BY FS_EmptySet
<1>6. master \in Masters
  BY <1>1, <1>2, <1>3, <1>4 DEF Init, Masters, None
<1>7. /\ master.checks = 0 /\ master.due = {} /\ \A w \in Worker : master.pending[w] = {} /\ master.check[w] = None
      /\ master.times = {} /\ master.transfers = {}
  BY DEF Init
<1>8. MasterOK(master)
  <2>1. Cardinality(master.due) = 0 /\ \A w \in Worker : Cardinality(master.pending[w]) = 0
    BY <1>5, <1>7, Zenon
  <2>2. master.checks + Cardinality(master.due) <= MaxEvents
    <3>1. master.checks = 0 /\ 0 + 0 <= MaxEvents
      BY <1>3, <1>7
    <3> QED
      BY <2>1, <3>1, Zenon
  <2>3. \A w \in Worker : Cardinality(master.pending[w]) <= QueueSize
    BY <1>3, <2>1, Zenon
  <2> QED
    BY <1>6, <2>2, <2>3, Zenon DEF MasterOK
<1>9. Idle \in CheckRec /\ Idle.pc = "idle" /\ Idle.id = None /\ Idle.left = {} /\ Idle.seen = {}
  BY DEF Idle, CheckRec, Pcs, Statuses
<1>10. /\ NewWorker \in Workers /\ NewWorker.accepted = {} /\ NewWorker.reassigned = {}
       /\ NewWorker.queue = <<>> /\ NewWorker.incoming = 0 /\ NewWorker.receiving = <<>>
       /\ NewWorker.check = Idle /\ NewWorker.sent = {} /\ NewWorker.events = {}
       /\ \A c \in Check : NewWorker.received[c] = "NONE"
  BY <1>9 DEF NewWorker, Workers, Statuses
<1>11. \A w \in Worker : WorkerOK(NewWorker, w)
  <2>1. Len(NewWorker.queue) = 0
    BY <1>10
  <2> QED
    BY <1>3, <1>5, <1>9, <1>10, <2>1 DEF WorkerOK
<1>12. worker = [w \in Worker |-> NewWorker] /\ requests = {} /\ faults = 0
       /\ toWorker = [w \in Worker |-> <<[type |-> "PEERS"]>>] /\ toMaster = [w \in Worker |-> <<>>]
  BY DEF Init
<1>13. <<[type |-> "PEERS"]>> \in Seq(Down) /\ <<>> \in Seq(Up)
  <2>1. [type |-> "PEERS"] \in Down
    BY DEF Down
  <2> QED
    BY <2>1
<1>14. TypesOK(master, toWorker, toMaster, worker, requests)
  BY <1>8, <1>11, <1>12, <1>13 DEF TypesOK
<1>15. \A w \in Worker : NoTwins(toWorker[w]) /\ NoTwins(toMaster[w])
  <2>1. NoTwins(<<>>) /\ NoTwins(<<[type |-> "PEERS"]>>)
    BY DEF NoTwins
  <2> QED
    BY <1>12, <2>1
<1>16. ASSUME NEW c \in Check PROVE Off(master, toWorker, toMaster, worker, requests, c)
  <2>1. Held(NewWorker, c) = {}
    BY <1>10, SingleTask DEF Held, Tasks
  <2>2. Outside(NewWorker, c) /\ NewWorker.received[c] = "NONE"
    BY <1>9, <1>10, <2>1, HeldChecks DEF Outside, Unmarked, Receiving
  <2>3. \A z \in Worker : Silent(toWorker, toMaster, z, c) /\ worker[z] = NewWorker
    BY <1>12, EmptyAbout DEF Silent
  <2> QED
    BY <1>7, <1>12, <2>2, <2>3, HeldChecks DEF Off, Known, Asks
<1>17. TransfersOK(master, toWorker, toMaster, worker, requests)
  BY <1>15, <1>16, NoPhase DEF TransfersOK
<1> QED
  BY <1>12, <1>14, <1>17 DEF Checked, SystemOK

Verdicts == {"running", "done", "unknown", "error"}

LEMMA VerdictKeeps ==
  ASSUME verdict \in Verdicts, [Next]_vars
  PROVE  verdict' \in Verdicts
<1>1. ASSUME NEW reason \in {"unknown", "error"}, Raise(reason) PROVE verdict' \in Verdicts
  BY <1>1 DEF Raise, Verdicts
<1>2. ASSUME NEW w \in Worker, HandleMessage(w) PROVE verdict' \in Verdicts
  <2>1. ASSUME NEW s, EndOfRound(w, s) PROVE verdict' \in Verdicts
    BY <2>1 DEF EndOfRound
  <2>2. CASE Ready(w)
    BY <2>1, <2>2, Zenon DEF Ready
  <2>3. CASE QueueStatus(w)
    BY <2>1, <2>3, Zenon DEF QueueStatus
  <2>4. CASE TaskAck(w)
    BY <2>1, <2>4, Zenon DEF TaskAck
  <2>5. CASE ProcessingStart(w)
    BY <1>1, <2>1, <2>5, Zenon DEF ProcessingStart
  <2>6. CASE TaskResult(w)
    BY <1>1, <2>1, <2>6, Zenon DEF TaskResult
  <2>7. CASE TransferTime(w)
    BY <1>1, <2>1, <2>7, Zenon DEF TransferTime
  <2>8. CASE TransferResult(w)
    BY <1>1, <2>1, <2>8, Zenon DEF TransferResult
  <2>9. CASE PeerCost(w)
    BY <1>1, <2>1, <2>9, Zenon DEF PeerCost
  <2>10. CASE TransferFailure(w)
    BY <1>1, <2>10, Zenon DEF TransferFailure
  <2>11. CASE StopAck(w)
    BY <1>1, <2>11 DEF StopAck, Verdicts
  <2> QED
    BY <1>2, <2>2, <2>3, <2>4, <2>5, <2>6, <2>7, <2>8, <2>9, <2>10, <2>11 DEF HandleMessage
<1>3. ASSUME NEW w \in Worker, WorkerStep(w) PROVE verdict' \in Verdicts
  <2>1. ASSUME NEW v, NEW ms, Answer(w, v, ms) PROVE verdict' \in Verdicts
    BY <2>1 DEF Answer
  <2>2. CASE HandlePeers(w)
    BY <2>1, <2>2, Zenon DEF HandlePeers
  <2>3. CASE HandleTask(w)
    BY <2>1, <2>3, Zenon DEF HandleTask
  <2>4. CASE HandleTaskConfirmed(w)
    BY <1>1, <2>1, <2>4, Zenon DEF HandleTaskConfirmed
  <2>5. CASE HandleProcessAck(w)
    BY <1>1, <2>1, <2>5, Zenon DEF HandleProcessAck
  <2>6. CASE HandleP2PCheck(w)
    BY <1>1, <2>6 DEF HandleP2PCheck
  <2>7. CASE HandleTimeAck(w)
    BY <2>1, <2>7, Zenon DEF HandleTimeAck
  <2>8. CASE HandleTransferConfirmed(w)
    BY <1>1, <2>1, <2>8, Zenon DEF HandleTransferConfirmed
  <2>9. CASE HandleStop(w)
    BY <2>1, <2>9, Zenon DEF HandleStop
  <2> QED
    BY <1>3, <2>2, <2>3, <2>4, <2>5, <2>6, <2>7, <2>8, <2>9 DEF WorkerStep
<1>4. ASSUME NEW w \in Worker, PeerStep(w) PROVE verdict' \in Verdicts
  <2>1. ASSUME NEW v, NEW ms, NEW x, FinishCheck(w, v, ms, x) PROVE verdict' \in Verdicts
    BY <2>1 DEF FinishCheck
  <2>2. CASE BeginCheck(w)
    <3>1. \/ \E v, ms, x : FinishCheck(w, v, ms, x)
          \/ UNCHANGED verdict
      BY <2>2, Zenon DEF BeginCheck
    <3> QED
      BY <2>1, <3>1
  <2>3. CASE QueryPeer(w)
    BY <2>3 DEF QueryPeer
  <2>4. CASE ChooseAndReserve(w)
    <3>1. \/ \E v, ms, x : FinishCheck(w, v, ms, x)
          \/ UNCHANGED verdict
      BY <2>4, Zenon DEF ChooseAndReserve
    <3> QED
      BY <2>1, <3>1
  <2>5. CASE AskStatus(w)
    BY <2>5 DEF AskStatus
  <2>6. CASE Conclude(w)
    <3>1. \E v, ms, x : FinishCheck(w, v, ms, x)
      BY <2>6, Zenon DEF Conclude
    <3> QED
      BY <2>1, <3>1
  <2>7. CASE StartReceive(w)
    BY <2>7 DEF StartReceive
  <2>8. CASE FinishReceive(w)
    <3>1. Raise("error") \/ UNCHANGED verdict
      BY <2>8, Zenon DEF FinishReceive
    <3> QED
      BY <1>1, <3>1
  <2> QED
    BY <1>4, <2>2, <2>3, <2>4, <2>5, <2>6, <2>7, <2>8 DEF PeerStep
<1>5. ASSUME NEW w \in Worker, Timeout(w) PROVE verdict' \in Verdicts
  BY <1>5 DEF Timeout
<1> QED
  BY <1>2, <1>3, <1>4, <1>5 DEF Next, SystemStep, vars

LEMMA CheckedTypes ==
  ASSUME Checked, verdict \in Verdicts
  PROVE  TransferTypeOK
<1>1. MasterOK(master) /\ master \in Masters
  BY DEF Checked, SystemOK, TypesOK, MasterOK
<1>2. /\ master.task \in [Key -> [state : {"WAITING", "SENT", "ACCEPTED", "PROCESSING", "DONE"},
                              owner : Worker \cup {None}, attempt : Nat,
                              failedAt : Worker \cup {None}]]
      /\ master.ready \cup master.due \cup master.stopped \subseteq Worker
      /\ master.check \in [Worker -> Check \cup {None}] /\ master.transfers \subseteq Check
      /\ master.active \in [Worker -> Key \cup {None}] /\ master.last \in Worker \cup {None}
  BY <1>1 DEF Masters, TaskState
<1>3. Range(Waiting(master)) \subseteq Key
  <2>1. master.retry \in Seq(Key) /\ master.fresh \in Seq(Key)
    BY <1>1, Fields
  <2>2. Range(master.retry \o master.fresh) = Range(master.retry) \cup Range(master.fresh)
    BY <2>1, TasksQueued
  <2>3. Range(master.retry) \subseteq Key /\ Range(master.fresh) \subseteq Key
    BY <2>1, LenProperties DEF Range
  <2> QED
    BY <2>2, <2>3 DEF Waiting
<1>4. ASSUME NEW w \in Worker
      PROVE  LET v == worker[w]
             IN  /\ master.size[w] \in 0..QueueSize /\ Cardinality(master.pending[w]) <= QueueSize
                 /\ v.incoming \in 0..QueueSize
                 /\ Len(v.queue) + Cardinality(v.accepted) + v.incoming <= QueueSize
                 /\ \A t \in Range(v.queue) : t.key \in Key /\ t.held \in Check \cup {None}
                 /\ \A t \in v.accepted \cup Range(v.current) : t.key \in Key /\ t.held = None
                 /\ v.check.pc \in {"idle", "begin", "query", "reserve", "time", "transfer",
                                    "status", "known"}
                 /\ v.received \in [Check -> Statuses] /\ v.check.answer \in Statuses
                 /\ Len(v.receiving) <= 1
  <2> DEFINE v == worker[w]
  <2>1. /\ v \in Workers /\ v.accepted \in SUBSET FreeTask
        /\ v.queue \in Seq(TaskRec) /\ Len(v.queue) \in Nat
        /\ Cardinality(v.accepted) \in Nat /\ v.incoming \in Nat
        /\ Len(v.queue) + Cardinality(v.accepted) + v.incoming <= QueueSize
    BY CheckedWorker
  <2>2. v.check \in CheckRec /\ v.received \in [Check -> Statuses]
    BY <2>1, WorkerFields
  <2>3. master.size[w] \in 0..QueueSize /\ Cardinality(master.pending[w]) <= QueueSize
    BY <1>1 DEF MasterOK, Masters, Size
  <2>4. v.incoming \in 0..QueueSize
    <3> DEFINE a == Len(v.queue)
               b == Cardinality(v.accepted)
               d == v.incoming
    <3>1. a \in Nat /\ b \in Nat /\ d \in Nat /\ a + b + d <= QueueSize
      BY <2>1
    <3> HIDE DEF a, b, d
    <3>2. d \in 0..QueueSize
      BY <3>1
    <3> QED
      BY <3>2 DEF d
  <2>5. \A t \in Range(v.queue) : t.key \in Key /\ t.held \in Check \cup {None}
    <3>1. Range(v.queue) \subseteq TaskRec
      BY <2>1, LenProperties DEF Range
    <3> QED
      BY <3>1 DEF TaskRec
  <2>6. \A t \in v.accepted \cup Range(v.current) : t.key \in Key /\ t.held = None
    <3>1. v.current = <<>> \/ \E t \in FreeTask : v.current = <<t>>
      BY <2>1 DEF Workers
    <3>2. Range(v.current) \subseteq FreeTask
      <4>1. CASE v.current = <<>>
        BY <4>1, SingleTask, Zenon
      <4>2. ASSUME NEW t \in FreeTask, v.current = <<t>> PROVE Range(v.current) \subseteq FreeTask
        <5>1. Range(v.current) = {t}
          BY <4>2, SingleTask, Zenon
        <5> QED
          BY <4>2, <5>1
      <4> QED
        BY <3>1, <4>1, <4>2, Zenon
    <3> QED
      BY <2>1, <3>2 DEF FreeTask, TaskRec
  <2>7. Len(v.receiving) <= 1
    <3>1. v.receiving = <<>> \/ \E r \in Receptions : v.receiving = <<r>>
      BY <2>1 DEF Workers
    <3>2. Len(<<>>) = 0 /\ \A r \in Receptions : Len(<<r>>) = 1
      OBVIOUS
    <3>3. Len(v.receiving) = 0 \/ Len(v.receiving) = 1
      BY <3>1, <3>2, Zenon
    <3>4. 0 <= 1 /\ 1 <= 1
      OBVIOUS
    <3> QED
      BY <3>3, <3>4, Zenon
  <2>8. v.check.pc \in Pcs /\ v.check.answer \in Statuses
    BY <2>2 DEF CheckRec
  <2> QED
    BY <2>1, <2>2, <2>3, <2>4, <2>5, <2>6, <2>7, <2>8 DEF Pcs
<1>5. ASSUME NEW r \in requests PROVE r.source # r.target /\ r.tasks # <<>>
  <2>1. /\ Asking(master, toWorker, toMaster, worker, requests, r.id, r.source, r.target)
        /\ Range(r.tasks) = Held(worker[r.source], r.id)
    BY RequestTaken
  <2>2. r.source # r.target /\ Held(worker[r.source], r.id) # {}
    BY <2>1 DEF Asking
  <2>3. Range(<<>>) = {}
    BY DEF Range
  <2> QED
    BY <2>1, <2>2, <2>3
<1> QED
  BY <1>2, <1>3, <1>4, <1>5 DEF TransferTypeOK, Verdicts

(* TransferTypeOK of every run, of the queues' room above all: what a worker
   has queued, has accepted and has promised to receive fits its ready queue,
   and the master never sets aside more slots than a queue has. *)
THEOREM TransferTyping == Spec => []TransferTypeOK
<1>1. Init => Checked /\ verdict \in Verdicts
  <2>1. Init => verdict \in Verdicts
    BY DEF Init, Verdicts
  <2> QED
    BY <2>1, InitChecked
<1>2. Checked /\ verdict \in Verdicts /\ [Next]_vars => (Checked /\ verdict \in Verdicts)'
  <2>1. SUFFICES ASSUME Checked, verdict \in Verdicts, [Next]_vars PROVE Checked' /\ verdict' \in Verdicts
    OBVIOUS
  <2>2. Checked'
    BY <2>1, StepKeeps, StutterKeeps
  <2> QED
    BY <2>1, <2>2, VerdictKeeps
<1>3. Checked /\ verdict \in Verdicts => TransferTypeOK
  BY CheckedTypes
<1> QED
  BY <1>1, <1>2, <1>3, PTL DEF Spec

=============================================================================
