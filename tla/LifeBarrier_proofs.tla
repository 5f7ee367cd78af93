------------------------- MODULE LifeBarrier_proofs -------------------------
(***************************************************************************)
(* HW4: proofs about LifeBoard and LifeBarrier for any size of the board,  *)
(* any number of workers and any canvases.  First the bands: dividing the  *)
(* board changes nothing.  Then the rounds: every band and every snapshot  *)
(* is that of the reference board.  Then the failures: the assigner blames *)
(* one that did fail.  Last the types of boards and wires.                 *)
(***************************************************************************)
EXTENDS LifeBarrier, FiniteSetTheorems, SequenceTheorems, TLAPS

-----------------------------------------------------------------------------
(* Arithmetic of the board *)

LEMMA Division ==
  ASSUME NEW a \in Nat, NEW n \in Nat \ {0}
  PROVE  a \div n \in Nat /\ n * (a \div n) <= a /\ a < n * (a \div n) + n
  BY SMT

LEMMA Wrap ==
  ASSUME NEW y \in -1..Height, Height \in Nat \ {0}
  PROVE  y % Height = IF y = -1 THEN Height - 1 ELSE IF y = Height THEN 0 ELSE y
  BY SMT

LEMMA WrapTwice ==
  ASSUME NEW y \in 0..Height, Height \in Nat \ {0}
  PROVE  (Height + y) % Height = y % Height
  BY SMT

LEMMA Ordered ==
  ASSUME NEW a \in Int, NEW b \in Int, NEW n \in Nat \ {0}, n * a < n * b
  PROVE  a < b
  BY SMT

-----------------------------------------------------------------------------
(* Bands *)

LEMMA SizesAreNat == Height \in Nat \ {0} /\ N \in Nat \ {0} /\ N <= Height /\ Rounds \in Nat
  BY LifeAssumption DEF Rounds

LEMMA BandEnds ==
  /\ First(0) = 0 /\ Past(N - 1) = Height
  /\ \A k \in Worker : Past(k) = First(k + 1)
<1>1. Height * 0 = 0 /\ 0 \div N = 0
  BY SizesAreNat, SMT
<1>2. (Height * ((N - 1) + 1)) \div N = Height
  <2>1. (N - 1) + 1 = N /\ Height * N \in Nat
    BY SizesAreNat, SMT
  <2>2. (Height * N) \div N = Height
    BY SizesAreNat, SMT
  <2> QED  BY <2>1, <2>2
<1> QED  BY <1>1, <1>2 DEF First, Past

LEMMA BandBounds ==
  ASSUME NEW k \in Worker
  PROVE  First(k) \in Nat /\ Past(k) \in Nat /\ First(k) < Past(k) /\ Past(k) <= Height
<1> DEFINE a == Height * k
           b == Height * (k + 1)
<1>0. k \in Nat /\ k < N /\ N \in Nat \ {0} /\ Height \in Nat \ {0} /\ N <= Height
  BY SizesAreNat DEF Worker
<1>1. a \in Nat /\ b \in Nat /\ b = a + Height /\ b <= Height * N
  BY <1>0, SMT
<1>2. /\ a \div N \in Nat /\ N * (a \div N) <= a
      /\ b \div N \in Nat /\ N * (b \div N) <= b /\ b < N * (b \div N) + N
  BY <1>0, <1>1, Division
<1>3. N * (a \div N) < N * (b \div N)
  BY <1>0, <1>1, <1>2, SMT
<1>4. N * (b \div N) < N * (Height + 1)
  BY <1>0, <1>1, <1>2, SMT
<1>5. a \div N < b \div N /\ b \div N < Height + 1
  BY <1>0, <1>2, <1>3, <1>4, Ordered
<1> QED  BY <1>0, <1>2, <1>5 DEF First, Past

(* Every row lies in a band. *)
LEMMA BandsCover ==
  ASSUME NEW y \in 0..Height - 1
  PROVE  \E k \in Worker : First(k) <= y /\ y < Past(k)
<1> DEFINE c == N * (y + 1) - 1
           k == c \div Height
<1>0. N \in Nat \ {0} /\ Height \in Nat \ {0} /\ y \in Nat /\ y < Height
  BY SizesAreNat
<1>1. c \in Nat /\ c < Height * N
  BY <1>0, SMT
<1>2. k \in Nat /\ Height * k <= c /\ c < Height * k + Height
  BY <1>0, <1>1, Division
<1>3. k < N
  <2>1. Height * k < Height * N
    BY <1>0, <1>1, <1>2, SMT
  <2> QED  BY <1>0, <1>2, <2>1, Ordered
<1>4. Height * (k + 1) = Height * k + Height /\ Height * k \in Nat /\ Height * (k + 1) \in Nat
  BY <1>0, <1>2, SMT
<1>5. First(k) \in Nat /\ N * First(k) <= Height * k /\ Past(k) \in Nat
      /\ Height * (k + 1) < N * Past(k) + N
  BY <1>0, <1>4, Division DEF First, Past
<1>6. N * First(k) < N * (y + 1) /\ N * (y + 1) < N * (Past(k) + 1)
  BY <1>0, <1>2, <1>4, <1>5, SMT
<1>7. First(k) < y + 1 /\ y + 1 < Past(k) + 1
  BY <1>0, <1>5, <1>6, Ordered
<1> QED  BY <1>0, <1>2, <1>3, <1>5, <1>7 DEF Worker

-----------------------------------------------------------------------------
(* Windows.  The window of a band, its halos included, is a piece of the
   window of the whole board, and it stays one when it is repainted. *)

BandWindow(P, y0, y1) ==
  Window(Band(P, y0, y1), y1 - y0, P[(y0 - 1) % Height], P[y1 % Height])

LEMMA WindowRows ==
  ASSUME NEW P, NEW y0 \in Nat, NEW y1 \in Nat, y0 < y1, y1 <= Height,
         NEW i \in 0..y1 - y0 + 1
  PROVE  BandWindow(P, y0, y1)[i] = P[(y0 - 1 + i) % Height]
<1>0. Height \in Nat \ {0}
  BY SizesAreNat
<1>1. CASE i = 0
  <2>1. y0 - 1 + i = y0 - 1
    BY <1>1
  <2> QED  BY <1>1, <2>1 DEF BandWindow, Window
<1>2. CASE i = y1 - y0 + 1
  <2>1. i # 0 /\ y0 - 1 + i = y1
    BY <1>2
  <2> QED  BY <1>2, <2>1 DEF BandWindow, Window
<1>3. CASE i \in 1..y1 - y0
  <2>1. y0 - 1 + i \in 0..Height - 1
    BY <1>0, <1>3
  <2>2. (y0 - 1 + i) % Height = y0 - 1 + i
    BY <1>0, <2>1, Wrap
  <2>3. BandWindow(P, y0, y1)[i] = Band(P, y0, y1)[i]
    BY <1>3 DEF BandWindow, Window
  <2> QED  BY <1>3, <2>2, <2>3 DEF Band
<1> QED  BY <1>1, <1>2, <1>3

LEMMA WindowIsPiece ==
  ASSUME NEW P, NEW y0 \in Nat, NEW y1 \in Nat, y0 < y1, y1 <= Height,
         NEW i \in 0..y1 - y0 + 1
  PROVE  BandWindow(P, y0, y1)[i] = BandWindow(P, 0, Height)[y0 + i]
<1>0. Height \in Nat \ {0} /\ y0 + i \in 0..Height - 0 + 1
  BY SizesAreNat
<1>1. BandWindow(P, y0, y1)[i] = P[(y0 - 1 + i) % Height]
  BY WindowRows
<1>2. BandWindow(P, 0, Height)[y0 + i] = P[(0 - 1 + (y0 + i)) % Height]
  BY <1>0, WindowRows
<1>3. 0 - 1 + (y0 + i) = y0 - 1 + i
  BY <1>0
<1> QED  BY <1>1, <1>2, <1>3

LEMMA RowNumbersAgree ==
  ASSUME NEW y0 \in 0..Height - 1, NEW i \in Nat, y0 + i <= Height + 1
  PROVE  (((y0 - 1) % Height) + i) % Height = (((0 - 1) % Height) + (y0 + i)) % Height
<1>0. Height \in Nat \ {0} /\ (0 - 1) % Height = Height - 1
  <2>1. Height \in Nat \ {0}
    BY SizesAreNat
  <2>2. 0 - 1 = -1 /\ -1 \in -1..Height
    BY <2>1
  <2> QED  BY <2>1, <2>2, Wrap
<1>1. CASE y0 = 0
  BY <1>0, <1>1
<1>2. CASE y0 > 0
  <2>1. (y0 - 1) % Height = y0 - 1
    BY <1>0, <1>2, Wrap
  <2>2. y0 - 1 + i \in 0..Height /\ Height - 1 + (y0 + i) = Height + (y0 - 1 + i)
    BY <1>0, <1>2
  <2>3. (Height + (y0 - 1 + i)) % Height = (y0 - 1 + i) % Height
    BY <1>0, <2>2, WrapTwice
  <2> QED  BY <1>0, <2>1, <2>2, <2>3
<1> QED  BY <1>1, <1>2

LEMMA PreparedIsPiece ==
  ASSUME NEW P, NEW r \in Nat, NEW y0 \in Nat, NEW y1 \in Nat, y0 < y1, y1 <= Height,
         NEW i \in 0..y1 - y0 + 1
  PROVE  Prepared(r, BandWindow(P, y0, y1), y0, y1)[i]
           = Prepared(r, BandWindow(P, 0, Height), 0, Height)[y0 + i]
<1> DEFINE w == BandWindow(P, y0, y1)
           v == BandWindow(P, 0, Height)
           j == y0 + i
<1>0. /\ Height \in Nat \ {0} /\ y0 \in 0..Height - 1
      /\ j \in Nat /\ j <= Height + 1 /\ j \in 0..Height - 0 + 1
  BY SizesAreNat
<1>1. w[i] = v[j]
  BY WindowIsPiece
<1>2. DOMAIN w = 0..y1 - y0 + 1 /\ DOMAIN v = 0..Height - 0 + 1
  BY DEF BandWindow, Window
<1>3. \A c : Slice(c, y0, y1)[i] = Slice(c, 0, Height)[j]
  <2>1. y0 - 1 + i = 0 - 1 + j
    BY <1>0
  <2> QED  BY <1>0, <2>1 DEF Slice
<1>4. \A c : Repaint(w, Slice(c, y0, y1))[i] = Repaint(v, Slice(c, 0, Height))[j]
  <2> HIDE DEF w, v, j
  <2> QED  BY <1>0, <1>1, <1>2, <1>3 DEF Repaint
<1>5. \A c : /\ DOMAIN Repaint(w, Slice(c, y0, y1)) = DOMAIN w
             /\ DOMAIN Repaint(v, Slice(c, 0, Height)) = DOMAIN v
  BY DEF Repaint
<1>6. \A c : ToBrian(Repaint(w, Slice(c, y0, y1)))[i] = ToBrian(Repaint(v, Slice(c, 0, Height)))[j]
  <2> HIDE DEF w, v, j
  <2> QED  BY <1>0, <1>2, <1>4, <1>5 DEF ToBrian
<1>7. \A c : ToCyclic(Repaint(w, Slice(c, y0, y1)), (y0 - 1) % Height)[i]
               = ToCyclic(Repaint(v, Slice(c, 0, Height)), (0 - 1) % Height)[j]
  <2>1. (((y0 - 1) % Height) + i) % Height = (((0 - 1) % Height) + j) % Height
    BY <1>0, RowNumbersAgree
  <2> HIDE DEF w, v, j
  <2> QED  BY <1>0, <1>2, <1>4, <1>5, <2>1 DEF ToCyclic
<1> HIDE DEF w, v, j
<1>8. Prepared(r, w, y0, y1)[i] = Prepared(r, v, 0, Height)[j]
  BY <1>1, <1>6, <1>7 DEF Prepared
<1> QED  BY <1>8 DEF w, v, j

(* Board.step of a band, given the rows above and below it, computes the same
   rows as reference.py does on the whole board, whatever the rules are: they
   only see the 3 x 3 cells around a cell, and the repainting only needs the
   number of the row on the whole board. *)
THEOREM Banding ==
  ASSUME NEW P, NEW r \in Nat, NEW y0 \in Nat, NEW y1 \in Nat, y0 < y1, y1 <= Height
  PROVE  BoardStep(r, Band(P, y0, y1), P[(y0 - 1) % Height], P[y1 % Height], y0, y1)
           = Band(WholeStep(r, P), y0, y1)
<1> DEFINE w == Prepared(r, BandWindow(P, y0, y1), y0, y1)
           v == Prepared(r, BandWindow(P, 0, Height), 0, Height)
<1>0. Height \in Nat \ {0} /\ Width \in Nat \ {0}
  BY SizesAreNat, LifeAssumption
<1>1. \A i \in 0..y1 - y0 + 1 : w[i] = v[y0 + i]
  BY PreparedIsPiece
<1>2. (0 - 1) % Height = Height - 1 /\ Height % Height = 0
  <2>1. 0 - 1 = -1 /\ -1 \in -1..Height /\ Height \in -1..Height /\ Height # -1
    BY <1>0
  <2> QED  BY <1>0, <2>1, Wrap
<1>3. WholeStep(r, P) = [y \in 0..Height - 1 |->
                          [x \in 0..Width - 1 |-> Cell(r, Patch(v, y + 1, x))]]
  <2>1. BandWindow(P, 0, Height) = Window(Band(P, 0, Height), Height - 0, P[Height - 1], P[0])
    BY <1>2 DEF BandWindow
  <2>2. BoardStep(r, Band(P, 0, Height), P[Height - 1], P[0], 0, Height)
          = [i \in 1..Height - 0 |-> [x \in 0..Width - 1 |-> Cell(r, Patch(v, i, x))]]
    BY <2>1 DEF BoardStep
  <2>3. \A y \in 0..Height - 1 : y + 1 \in 1..Height - 0
    BY <1>0
  <2> HIDE DEF v
  <2> QED  BY <2>2, <2>3 DEF WholeStep
<1>4. BoardStep(r, Band(P, y0, y1), P[(y0 - 1) % Height], P[y1 % Height], y0, y1)
        = [i \in 1..y1 - y0 |-> [x \in 0..Width - 1 |-> Cell(r, Patch(w, i, x))]]
  BY DEF BoardStep, BandWindow
<1> HIDE DEF w, v
<1>5. ASSUME NEW i \in 1..y1 - y0, NEW x \in 0..Width - 1
      PROVE  Patch(w, i, x) = Patch(v, (y0 - 1 + i) + 1, x)
  <2>1. ASSUME NEW o \in Offsets
        PROVE  w[i + o[1]] = v[(y0 - 1 + i) + 1 + o[1]]
    <3>1. o[1] \in {-1, 0, 1}
      BY DEF Offsets
    <3>2. i + o[1] \in 0..y1 - y0 + 1 /\ y0 + (i + o[1]) = (y0 - 1 + i) + 1 + o[1]
      BY <3>1
    <3> QED  BY <1>1, <3>2
  <2> QED  BY <2>1 DEF Patch
<1>6. \A i \in 1..y1 - y0 : y0 - 1 + i \in 0..Height - 1
  BY <1>0
<1>7. Band(WholeStep(r, P), y0, y1)
        = [i \in 1..y1 - y0 |-> [x \in 0..Width - 1 |-> Cell(r, Patch(v, (y0 - 1 + i) + 1, x))]]
  BY <1>3, <1>6 DEF Band
<1>8. \A i \in 1..y1 - y0 : [x \in 0..Width - 1 |-> Cell(r, Patch(w, i, x))]
        = [x \in 0..Width - 1 |-> Cell(r, Patch(v, (y0 - 1 + i) + 1, x))]
  BY <1>5
<1> QED  BY <1>4, <1>7, <1>8, Zenon

-----------------------------------------------------------------------------
(* The rounds *)

(* What band k and its surroundings are in the reference board of state s. *)
RowsOf(s, k) == Band(History[s], First(k), Past(k))
HaloOf(s, k) == <<History[s][(First(k) - 1) % Height], History[s][Past(k) % Height]>>
EdgesOf(s, k) == <<History[s][First(k)], History[s][Past(k) - 1]>>

(* All that may ever be written to worker k and by it. *)
Mail(k) == {Assign(k), Bye} \cup {Request(s, HaloOf(s, k)) : s \in 0..Rounds - 1}
Answers(k) == {Hello} \cup {Result(s, k, RowsOf(s + 1, k)) : s \in 0..Rounds - 1}

Counters ==
  /\ round \in 0..Rounds /\ arrived \in Nat
  /\ seen \in [Worker -> -1..Rounds - 1]
  /\ hround \in [Worker -> 0..Rounds - 1]
  /\ wround \in [Worker -> 0..Rounds]

(* Nothing on a wire is wrong, whenever it is read. *)
WiresRight ==
  /\ DOMAIN toWorker = Worker /\ DOMAIN toAssigner = Worker
  /\ \A k \in Worker : toWorker[k] \in Seq(Mail(k)) /\ toAssigner[k] \in Seq(Answers(k))

(* A worker's band is the reference board of the rounds it has played. *)
WorkersRight ==
  /\ DOMAIN wpc = Worker /\ DOMAIN wrows = Worker
  /\ \A k \in Worker :
       /\ wpc[k] \in {"new", "hello"} => wround[k] = 0
       /\ wpc[k] \in {"ready", "done"} => wrows[k] = RowsOf(wround[k], k)

HalosRight == halos = [k \in Worker |-> HaloOf(round, k)]

EdgesRight ==
  /\ DOMAIN edges = Worker
  /\ \A k \in Worker : seen[k] # -1 => edges[k] = EdgesOf(seen[k] + 1, k)

FrameRight ==
  /\ frame = [y \in 0..Height - 1 |-> frame[y]]
  /\ IsFull(round) =>
       \A k \in Worker : seen[k] = round =>
         \A y \in First(k)..Past(k) - 1 : frame[y] = History[round + 1][y]

ArrivedRight ==
  /\ \A k \in Worker : seen[k] <= round
  /\ arrived = Cardinality({k \in Worker : seen[k] = round})

BeforeRounds ==
  mpc \in {"accept", "assign", "initial"} =>
    round = 0 /\ saved = <<>> /\ frame = Canvas[0] /\ \A k \in Worker : hpc[k] = "idle"

SnapshotRight ==
  mpc = "record" => /\ round > 0
                    /\ snapshot = IF IsFull(round - 1) THEN History[round] ELSE <<>>

SavedRight ==
  /\ saved \in Seq({[state |-> s, rows |-> History[s]] : s \in 0..Rounds})
  /\ \A j \in 1..Len(saved) : saved[j].state = Full * (j - 1)
  /\ mpc \in {"start", "barrier"} => round < Full * Len(saved)
  /\ mpc = "record" => round <= Full * Len(saved)

LifeInv ==
  /\ Counters /\ WiresRight /\ WorkersRight /\ HalosRight /\ EdgesRight /\ FrameRight
  /\ ArrivedRight /\ BeforeRounds /\ SnapshotRight /\ SavedRight

-----------------------------------------------------------------------------
(* Who changes what *)

LEMMA SharedChanges ==
  ASSUME [Next]_vars
  PROVE  \/ Release
         \/ \E k \in Worker : TakeResult(k) /\ ResultDue(k)
         \/ UNCHANGED <<round, arrived, seen, edges, halos, frame>>
  BY DEF Next, vars, mainVars, sharedVars, handlerVars, wireVars, workerVars, faultVars,
         MainStep, AcceptWorker, SendAssign, StartupFails, SaveInitial, StartThread, LeaveBarrier,
         WaitForResults, Record, BarrierTimeout, MainCloses, MainJoins, MainRaises,
         MarkError, HandlerStep, HandlerReturns, SendRound, TakeResult, Woken, SendBye,
         ConnectionLost, ConnectionClosed, HandlerTimeout, HandlerCloses, HandlerRaises,
         WorkerStep, SendHello, ReadAssign, PlayRound, ReadBye, WorkerFails, WorkerTimeout,
         WorkerCrash, WorkerEnds, BecomeSlow, MainBreaks

LEMMA HandlerRoundChanges ==
  ASSUME [Next]_vars
  PROVE  (\E k \in Worker : Woken(k)) \/ UNCHANGED hround
  BY DEF Next, vars, mainVars, sharedVars, handlerVars, wireVars, workerVars, faultVars,
         MainStep, AcceptWorker, SendAssign, StartupFails, SaveInitial, StartThread, LeaveBarrier,
         WaitForResults, Release, Record, BarrierTimeout, MainCloses, MainJoins,
         MainRaises, HandlerStep, HandlerReturns, SendRound, TakeResult, CountResult, SendBye,
         ConnectionLost, ConnectionClosed, HandlerTimeout, HandlerCloses, HandlerRaises,
         WorkerStep, SendHello, ReadAssign, PlayRound, ReadBye, WorkerFails, WorkerTimeout,
         WorkerCrash, WorkerEnds, BecomeSlow, MainBreaks

LEMMA WorkerChanges ==
  ASSUME [Next]_vars
  PROVE  \/ UNCHANGED <<wpc, wround, wrows>>
         \/ \E k \in Worker : SendHello(k) \/ ReadAssign(k) \/ PlayRound(k) \/ ReadBye(k)
                             \/ WorkerEnds(k)
<1>1. CASE MainStep
  BY <1>1 DEF workerVars, MainStep, AcceptWorker, SendAssign, StartupFails, SaveInitial, StartThread,
           LeaveBarrier, WaitForResults, Release, Record, BarrierTimeout,
           MainCloses, MainJoins, MainRaises
<1>2. ASSUME NEW k \in Worker, HandlerStep(k)
      PROVE  UNCHANGED <<wpc, wround, wrows>>
  BY <1>2 DEF workerVars, HandlerStep, HandlerReturns, SendRound, TakeResult, CountResult, Woken, SendBye,
           ConnectionLost, ConnectionClosed, HandlerTimeout, HandlerCloses,
           HandlerRaises, HandlerEnds
<1>3. ASSUME NEW k \in Worker, WorkerStep(k) \/ WorkerTimeout(k) \/ WorkerCrash(k)
      PROVE  SendHello(k) \/ ReadAssign(k) \/ PlayRound(k) \/ ReadBye(k) \/ WorkerEnds(k)
  BY <1>3 DEF WorkerStep, WorkerFails, WorkerTimeout, WorkerCrash
<1>4. CASE MainBreaks \/ \E k \in Worker \cup {Main} : BecomeSlow(k)
  BY <1>4 DEF workerVars, MainBreaks, MainRaises, BecomeSlow
<1> QED  BY <1>1, <1>2, <1>3, <1>4 DEF Next, vars, workerVars

LEMMA MailChanges ==
  ASSUME [Next]_vars
  PROVE  \/ SendAssign \/ UNCHANGED toWorker
         \/ \E k \in Worker : (SendRound(k) /\ round = hround[k]) \/ SendBye(k) \/ ReadAssign(k)
                             \/ PlayRound(k) \/ ReadBye(k) \/ WorkerEnds(k)
  BY DEF Next, vars, mainVars, sharedVars, handlerVars, wireVars, workerVars, faultVars,
         MainStep, AcceptWorker, StartupFails, SaveInitial, StartThread, LeaveBarrier,
         WaitForResults, Release, Record, BarrierTimeout, MainCloses, MainJoins,
         MainRaises, HandlerStep, HandlerReturns, SendRound, TakeResult, CountResult, Woken,
         ConnectionLost, ConnectionClosed, HandlerTimeout, HandlerCloses, HandlerRaises,
         WorkerStep, SendHello, WorkerFails, WorkerTimeout, WorkerCrash, BecomeSlow, MainBreaks

LEMMA AnswerChanges ==
  ASSUME [Next]_vars
  PROVE  \/ AcceptWorker \/ UNCHANGED toAssigner
         \/ \E k \in Worker : SendHello(k) \/ (TakeResult(k) /\ ResultDue(k)) \/ PlayRound(k)
  BY DEF Next, vars, mainVars, sharedVars, handlerVars, wireVars, workerVars, faultVars,
         MainStep, SendAssign, StartupFails, SaveInitial, StartThread, LeaveBarrier,
         WaitForResults, Release, Record, BarrierTimeout, MainCloses, MainJoins,
         MainRaises, HandlerStep, HandlerReturns, SendRound, TakeResult, Woken, SendBye,
         ConnectionLost, ConnectionClosed, HandlerTimeout, HandlerCloses,
         HandlerRaises, WorkerStep, ReadAssign, ReadBye, WorkerFails, WorkerTimeout, WorkerCrash,
         WorkerEnds, BecomeSlow, MainBreaks

LEMMA MainChanges ==
  ASSUME [Next]_vars
  PROVE  MainStep \/ MainBreaks \/ UNCHANGED <<mpc, cursor, snapshot, saved>>
<1>1. ASSUME NEW k \in Worker, HandlerStep(k)
      PROVE  UNCHANGED <<mpc, cursor, snapshot, saved>>
  BY <1>1 DEF mainVars, HandlerStep, HandlerReturns, SendRound, TakeResult, CountResult, Woken, SendBye,
           ConnectionLost, ConnectionClosed, HandlerTimeout, HandlerCloses,
           HandlerRaises, HandlerEnds
<1>2. ASSUME NEW k \in Worker, WorkerStep(k) \/ WorkerTimeout(k) \/ WorkerCrash(k)
      PROVE  UNCHANGED <<mpc, cursor, snapshot, saved>>
  BY <1>2 DEF mainVars, WorkerStep, SendHello, ReadAssign, PlayRound, ReadBye, WorkerFails,
           WorkerTimeout, WorkerCrash, WorkerEnds
<1>3. CASE \E k \in Worker \cup {Main} : BecomeSlow(k)
  BY <1>3 DEF mainVars, BecomeSlow
<1> QED  BY <1>1, <1>2, <1>3 DEF Next, vars, mainVars

LEMMA HandlerChanges ==
  ASSUME [Next]_vars
  PROVE  MainStep \/ MainBreaks \/ UNCHANGED hpc \/ \E k \in Worker : HandlerStep(k)
  BY DEF Next, vars, mainVars, sharedVars, handlerVars, wireVars, workerVars, faultVars,
         WorkerStep, SendHello, ReadAssign, PlayRound, ReadBye, WorkerFails, WorkerTimeout,
         WorkerCrash, WorkerEnds, BecomeSlow

-----------------------------------------------------------------------------
(* Bands and boards *)

LEMMA Neighbours ==
  ASSUME NEW k \in Worker
  PROVE  /\ WorkerBefore(k) \in Worker /\ WorkerAfter(k) \in Worker
         /\ Past(WorkerBefore(k)) - 1 = (First(k) - 1) % Height
         /\ First(WorkerAfter(k)) = Past(k) % Height
<1>0. Height \in Nat \ {0} /\ N \in Nat \ {0} /\ k \in Nat /\ k < N
  BY SizesAreNat DEF Worker
<1>1. /\ WorkerBefore(k) = IF k = 0 THEN N - 1 ELSE k - 1
      /\ WorkerAfter(k) = IF k = N - 1 THEN 0 ELSE k + 1
  <2>1. (k - 1) % N = IF k = 0 THEN N - 1 ELSE k - 1
    BY <1>0, SMT
  <2>2. (k + 1) % N = IF k = N - 1 THEN 0 ELSE k + 1
    BY <1>0, SMT
  <2> QED  BY <2>1, <2>2 DEF WorkerBefore, WorkerAfter
<1>2. WorkerBefore(k) \in Worker /\ WorkerAfter(k) \in Worker
  BY <1>0, <1>1 DEF Worker
<1>3. Past(WorkerBefore(k)) - 1 = (First(k) - 1) % Height
  <2>1. CASE k = 0
    <3>1. Past(WorkerBefore(k)) = Height /\ First(k) = 0
      BY <1>1, <2>1, BandEnds
    <3>2. (0 - 1) % Height = Height - 1
      BY <1>0, SMT
    <3> QED  BY <3>1, <3>2
  <2>2. CASE k # 0
    <3>1. k - 1 \in Worker /\ WorkerBefore(k) = k - 1 /\ (k - 1) + 1 = k
      BY <1>0, <1>1, <2>2 DEF Worker
    <3>2. Past(k - 1) = First(k)
      BY <3>1, BandEnds
    <3>3. First(k) - 1 \in 0..Height - 1
      BY <1>0, <3>1, <3>2, BandBounds
    <3>4. (First(k) - 1) % Height = First(k) - 1
      BY <1>0, <3>3, Wrap
    <3> QED  BY <3>1, <3>2, <3>4
  <2> QED  BY <2>1, <2>2
<1>4. First(WorkerAfter(k)) = Past(k) % Height
  <2>1. CASE k = N - 1
    <3>1. First(WorkerAfter(k)) = 0 /\ Past(k) = Height
      BY <1>1, <2>1, BandEnds
    <3>2. Height % Height = 0
      BY <1>0, SMT
    <3> QED  BY <3>1, <3>2
  <2>2. CASE k # N - 1
    <3>1. k + 1 \in Worker /\ WorkerAfter(k) = k + 1
      BY <1>0, <1>1, <2>2 DEF Worker
    <3>2. Past(k) = First(k + 1)
      BY BandEnds
    <3>3. Past(k) \in 0..Height - 1
      BY <1>0, <3>1, <3>2, BandBounds
    <3>4. Past(k) % Height = Past(k)
      BY <1>0, <3>3, Wrap
    <3> QED  BY <3>1, <3>2, <3>4
  <2> QED  BY <2>1, <2>2
<1> QED  BY <1>2, <1>3, <1>4

LEMMA BoardsAreFunctions ==
  ASSUME NEW s \in 0..Rounds
  PROVE  /\ History[s] = [y \in 0..Height - 1 |-> History[s][y]]
         /\ History[s] # <<>>
<1>0. Rounds \in Nat /\ Height \in Nat \ {0}
  BY SizesAreNat
<1>1. History[s] = [y \in 0..Height - 1 |-> History[s][y]]
  <2>1. CASE s = 0
    <3>1. Canvas[0] \in Picture /\ History[0] = Canvas[0]
      BY CanvasAssumption, HistoryAssumption
    <3> QED  BY <2>1, <3>1 DEF Picture
  <2>2. CASE s # 0
    <3>1. s - 1 \in 0..Rounds - 1 /\ (s - 1) + 1 = s
      BY <1>0, <2>2
    <3>2. History[s] = WholeStep(s - 1, History[s - 1])
      BY <3>1, HistoryAssumption
    <3> QED  BY <3>2 DEF WholeStep
  <2> QED  BY <2>1, <2>2
<1>2. 0 \in DOMAIN History[s] /\ 0 \notin DOMAIN <<>>
  BY <1>0, <1>1
<1> QED  BY <1>1, <1>2

(* The rows and halos of round s give the rows of round s + 1. *)
LEMMA RowsOfNextRound ==
  ASSUME NEW s \in 0..Rounds - 1, NEW k \in Worker
  PROVE  BoardStep(s, RowsOf(s, k), HaloOf(s, k)[1], HaloOf(s, k)[2], First(k), Past(k))
           = RowsOf(s + 1, k)
<1>1. s \in Nat /\ History[s + 1] = WholeStep(s, History[s])
  BY SizesAreNat, HistoryAssumption
<1>2. First(k) \in Nat /\ Past(k) \in Nat /\ First(k) < Past(k) /\ Past(k) <= Height
  BY BandBounds
<1>3. BoardStep(s, Band(History[s], First(k), Past(k)), History[s][(First(k) - 1) % Height],
                History[s][Past(k) % Height], First(k), Past(k))
        = Band(WholeStep(s, History[s]), First(k), Past(k))
  BY <1>1, <1>2, Banding
<1> QED  BY <1>1, <1>3 DEF RowsOf, HaloOf

(* A result of round s has the right edges and, if it is full, the right rows. *)
LEMMA ResultRight ==
  ASSUME NEW s \in 0..Rounds - 1, NEW k \in Worker, NEW m,
         m = Result(s, k, RowsOf(s + 1, k))
  PROVE  /\ <<m.first, m.last>> = EdgesOf(s + 1, k)
         /\ IsFull(s) => \A y \in First(k)..Past(k) - 1 :
                           m.full[y - First(k) + 1] = History[s + 1][y]
         /\ ~IsFull(s) => m.full = <<>>
<1>1. First(k) \in Nat /\ Past(k) \in Nat /\ First(k) < Past(k)
  BY BandBounds
<1>2. \A i \in 1..Size(k) : RowsOf(s + 1, k)[i] = History[s + 1][First(k) - 1 + i]
  BY DEF RowsOf, Band, Size
<1>3. /\ Size(k) \in 1..Size(k) /\ 1 \in 1..Size(k)
      /\ First(k) - 1 + 1 = First(k) /\ First(k) - 1 + Size(k) = Past(k) - 1
  BY <1>1 DEF Size
<1>4. m.first = History[s + 1][First(k)] /\ m.last = History[s + 1][Past(k) - 1]
  BY <1>2, <1>3 DEF Result
<1>5. ASSUME IsFull(s), NEW y \in First(k)..Past(k) - 1
      PROVE  m.full[y - First(k) + 1] = History[s + 1][y]
  <2>1. y - First(k) + 1 \in 1..Size(k) /\ First(k) - 1 + (y - First(k) + 1) = y
    BY <1>1 DEF Size
  <2>2. m.full = RowsOf(s + 1, k)
    BY <1>5 DEF Result
  <2> QED  BY <1>2, <2>1, <2>2
<1>6. ~IsFull(s) => m.full = <<>>
  BY DEF Result
<1> QED  BY <1>4, <1>5, <1>6 DEF EdgesOf

LEMMA WhatMailSays ==
  ASSUME NEW k \in Worker, NEW m \in Mail(k)
  PROVE  /\ m.type = "ASSIGN" => m = Assign(k)
         /\ m.type = "ROUND" => m.round \in 0..Rounds - 1 /\ m = Request(m.round, HaloOf(m.round, k))
BY DEF Mail, Assign, Request, Bye

LEMMA WhatAnswersSay ==
  ASSUME NEW k \in Worker, NEW m \in Answers(k), m.type = "RESULT"
  PROVE  m.round \in 0..Rounds - 1 /\ m = Result(m.round, k, RowsOf(m.round + 1, k))
BY DEF Answers, Hello, Result

LEMMA HeadAndTail ==
  ASSUME NEW S, NEW q \in Seq(S), q # <<>>
  PROVE  Head(q) \in S /\ Tail(q) \in Seq(S)
BY SMT
-----------------------------------------------------------------------------
(* The invariant *)

LEMMA LifeInit == Init => LifeInv
<1> SUFFICES ASSUME Init PROVE LifeInv
  OBVIOUS
<1>0. /\ Rounds \in Nat /\ Rounds > 0 /\ N \in Nat /\ N > 0 /\ Full \in Nat /\ Full > 0
      /\ History[0] = Canvas[0]
  BY LifeAssumption, HistoryAssumption DEF Rounds
<1>1. Counters
  BY <1>0 DEF Init, Counters
<1>2. WiresRight /\ WorkersRight
  BY DEF Init, WiresRight, WorkersRight
<1>3. HalosRight
  BY <1>0 DEF Init, HalosRight, HaloOf
<1>4. EdgesRight
  BY DEF Init, EdgesRight
<1>5. FrameRight
  <2>1. frame = History[0] /\ 0 \in 0..Rounds /\ \A k \in Worker : seen[k] = -1 /\ round = 0
    BY <1>0 DEF Init
  <2> QED  BY <2>1, BoardsAreFunctions DEF FrameRight
<1>6. ArrivedRight
  <2>1. {k \in Worker : seen[k] = round} = {} /\ \A k \in Worker : seen[k] <= round
    BY DEF Init
  <2> QED  BY <2>1, FS_EmptySet DEF Init, ArrivedRight
<1>7. BeforeRounds /\ SnapshotRight
  BY DEF Init, BeforeRounds, SnapshotRight
<1>8. SavedRight
  BY DEF Init, SavedRight
<1> QED  BY <1>1, <1>2, <1>3, <1>4, <1>5, <1>6, <1>7, <1>8 DEF LifeInv

LEMMA WorkersAreFinite ==
  /\ IsFiniteSet(Worker) /\ Cardinality(Worker) = N
<1>1. N \in Nat /\ 0 \in Int /\ N - 1 \in Int
  BY SizesAreNat
<1>2. IsFiniteSet(0..N - 1) /\ Cardinality(0..N - 1) = N
  BY <1>1, FS_Interval, SMT
<1> QED  BY <1>2 DEF Worker

(* When all have arrived every handler has counted the result of the round. *)
LEMMA AllArrived ==
  ASSUME Counters, ArrivedRight, arrived >= N
  PROVE  round \in 0..Rounds - 1 /\ \A k \in Worker : seen[k] = round
<1> DEFINE here == {k \in Worker : seen[k] = round}
<1>1. IsFiniteSet(Worker) /\ Cardinality(Worker) = N /\ here \subseteq Worker
  BY WorkersAreFinite
<1>2. IsFiniteSet(here) /\ Cardinality(here) <= N
  BY <1>1, FS_Subset
<1>3. Cardinality(here) = N
  BY <1>2, SizesAreNat, FS_CardinalityType DEF ArrivedRight
<1>4. here = Worker
  BY <1>1, <1>3, FS_Subset
<1>5. 0 \in Worker
  BY SizesAreNat DEF Worker
<1>6. \A k \in Worker : seen[k] = round
  BY <1>4
<1> QED  BY <1>5, <1>6, SizesAreNat DEF Counters

LEMMA ReleaseInv ==
  ASSUME LifeInv, Release
  PROVE  Counters' /\ HalosRight' /\ EdgesRight' /\ FrameRight' /\ ArrivedRight'
<1>0. Counters /\ ArrivedRight /\ EdgesRight /\ FrameRight
  BY DEF LifeInv
<1>1. round \in 0..Rounds - 1 /\ \A k \in Worker : seen[k] = round
  BY <1>0, AllArrived DEF Release
<1>2. /\ round' = round + 1 /\ arrived' = 0 /\ halos' = NextHalos
      /\ UNCHANGED <<seen, edges, frame, hround, wround>>
  BY DEF Release, workerVars
<1>3. Counters'
  BY <1>0, <1>1, <1>2, SizesAreNat DEF Counters
<1>4. HalosRight'
  <2>1. ASSUME NEW k \in Worker
        PROVE  NextHalos[k] = HaloOf(round + 1, k)
    <3>1. WorkerBefore(k) \in Worker /\ WorkerAfter(k) \in Worker
      BY Neighbours
    <3>2. \A j \in Worker : edges[j] = EdgesOf(round + 1, j)
      BY <1>0, <1>1 DEF EdgesRight
    <3>3. NextHalos[k] = <<EdgesOf(round + 1, WorkerBefore(k))[2],
                           EdgesOf(round + 1, WorkerAfter(k))[1]>>
      BY <3>1, <3>2 DEF NextHalos
    <3> QED  BY <3>3, Neighbours DEF EdgesOf, HaloOf
  <2>2. NextHalos = [k \in Worker |-> NextHalos[k]]
    BY DEF NextHalos
  <2>3. NextHalos = [k \in Worker |-> HaloOf(round + 1, k)]
    BY <2>1, <2>2, Zenon
  <2> QED  BY <1>2, <2>3 DEF HalosRight
<1>5. EdgesRight'
  BY <1>0, <1>2 DEF EdgesRight
<1>6. \A k \in Worker : seen'[k] # round' /\ seen'[k] <= round'
  BY <1>1, <1>2
<1>7. FrameRight'
  BY <1>0, <1>2, <1>6 DEF FrameRight
<1>8. ArrivedRight'
  <2>1. {k \in Worker : seen'[k] = round'} = {}
    BY <1>6
  <2> QED  BY <1>2, <1>6, <2>1, FS_EmptySet DEF ArrivedRight
<1> QED  BY <1>3, <1>4, <1>5, <1>7, <1>8

(* The result on the wire is that of the round the handler waits for. *)
LEMMA TakenResult ==
  ASSUME LifeInv, NEW k \in Worker, TakeResult(k), ResultDue(k), NEW m, m = Head(toAssigner[k])
  PROVE  /\ round \in 0..Rounds - 1 /\ hround[k] = round
         /\ m = Result(round, k, RowsOf(round + 1, k))
<1>1. toAssigner[k] \in Seq(Answers(k)) /\ toAssigner[k] # <<>>
  BY DEF LifeInv, WiresRight, TakeResult, HasAnswer
<1>2. m \in Answers(k)
  BY <1>1, HeadAndTail
<1>3. m.type = "RESULT" /\ m.round = hround[k] /\ round = hround[k]
  BY DEF ResultDue, IsResult
<1> QED  BY <1>2, <1>3, WhatAnswersSay

LEMMA TakeResultInv ==
  ASSUME LifeInv, NEW k \in Worker, TakeResult(k), ResultDue(k)
  PROVE  Counters' /\ HalosRight' /\ EdgesRight' /\ FrameRight' /\ ArrivedRight'
<1> DEFINE m == Head(toAssigner[k])
<1>0. Counters /\ HalosRight /\ ArrivedRight /\ EdgesRight /\ FrameRight
  BY DEF LifeInv
<1>1. /\ round \in 0..Rounds - 1 /\ hround[k] = round
      /\ m = Result(round, k, RowsOf(round + 1, k))
  BY TakenResult
<1>2. /\ <<m.first, m.last>> = EdgesOf(round + 1, k)
      /\ IsFull(round) => \A y \in First(k)..Past(k) - 1 :
                            m.full[y - First(k) + 1] = History[round + 1][y]
      /\ ~IsFull(round) => m.full = <<>>
  BY <1>1, ResultRight
<1>3. /\ edges' = [edges EXCEPT ![k] = <<m.first, m.last>>]
      /\ frame' = IF m.full = <<>> THEN frame
                  ELSE [y \in 0..Height - 1 |-> IF First(k) <= y /\ y < Past(k)
                                                THEN m.full[y - First(k) + 1] ELSE frame[y]]
      /\ seen' = [seen EXCEPT ![k] = hround[k]] /\ arrived' = arrived + 1
      /\ seen[k] # hround[k] /\ UNCHANGED <<round, halos, hround, wround>>
      /\ IsResult(m, k)
  BY DEF TakeResult, CountResult, ResultDue, workerVars
<1> HIDE DEF m
<1>4. Counters' /\ HalosRight'
  BY <1>0, <1>1, <1>3 DEF Counters, HalosRight
<1>5. EdgesRight'
  BY <1>0, <1>1, <1>2, <1>3 DEF EdgesRight, Counters
<1>6. FrameRight'
  <2>1. frame' = [y \in 0..Height - 1 |-> frame'[y]]
    BY <1>0, <1>3 DEF FrameRight
  <2>2. ASSUME IsFull(round), NEW j \in Worker, seen'[j] = round,
               NEW y \in First(j)..Past(j) - 1
        PROVE  frame'[y] = History[round + 1][y]
    <3>0. m.full # <<>>
      BY <1>1, <1>3, <2>2 DEF IsResult
    <3>1. /\ m.full # <<>> /\ y \in 0..Height - 1 /\ y \in Int
          /\ First(k) \in Nat /\ Past(k) \in Nat
      <4>1. /\ First(j) \in Nat /\ Past(j) \in Nat /\ Past(j) <= Height /\ Height \in Nat
            /\ First(k) \in Nat /\ Past(k) \in Nat
        BY <2>2, BandBounds, SizesAreNat
      <4>2. y \in First(j)..Past(j) - 1
        BY <2>2
      <4> QED  BY <3>0, <4>1, <4>2
    <3>2. CASE First(k) <= y /\ y < Past(k)
      <4>1. y \in First(k)..Past(k) - 1
        BY <3>1, <3>2
      <4> QED  BY <1>2, <1>3, <2>2, <3>1, <3>2, <4>1
    <3>3. CASE ~(First(k) <= y /\ y < Past(k))
      <4>1. j # k
        BY <3>1, <3>3
      <4>2. seen[j] = round
        BY <1>0, <1>3, <2>2, <4>1 DEF Counters
      <4>3. frame[y] = History[round + 1][y]
        BY <1>0, <2>2, <4>2 DEF FrameRight
      <4> QED  BY <1>3, <3>1, <3>3, <4>3
    <3> QED  BY <3>2, <3>3
  <2> QED  BY <1>3, <2>1, <2>2 DEF FrameRight, IsFull
<1>7. ArrivedRight'
  <2> DEFINE here == {j \in Worker : seen[j] = round}
  <2>1. {j \in Worker : seen'[j] = round'} = here \cup {k} /\ k \notin here
    BY <1>0, <1>1, <1>3 DEF Counters
  <2>2. IsFiniteSet(here)
    BY WorkersAreFinite, FS_Subset
  <2>3. Cardinality(here \cup {k}) = Cardinality(here) + 1
    BY <2>1, <2>2, FS_AddElement
  <2>4. \A j \in Worker : seen'[j] <= round'
    BY <1>0, <1>1, <1>3 DEF Counters, ArrivedRight
  <2> QED  BY <1>0, <1>3, <2>1, <2>3, <2>4 DEF ArrivedRight
<1> QED  BY <1>4, <1>5, <1>6, <1>7
LEMMA CountersInv ==
  ASSUME LifeInv, [Next]_vars
  PROVE  Counters' /\ HalosRight' /\ EdgesRight' /\ FrameRight' /\ ArrivedRight'
<1>0. Counters /\ HalosRight /\ EdgesRight /\ FrameRight /\ ArrivedRight
  BY DEF LifeInv
<1>1. CASE Release
  BY <1>1, ReleaseInv
<1>2. CASE \E k \in Worker : TakeResult(k) /\ ResultDue(k)
  BY <1>2, TakeResultInv
<1>3. CASE UNCHANGED <<round, arrived, seen, edges, halos, frame>>
  <2>1. HalosRight' /\ EdgesRight' /\ FrameRight' /\ ArrivedRight'
    BY <1>0, <1>3 DEF HalosRight, EdgesRight, FrameRight, ArrivedRight
  <2>2. hround' \in [Worker -> 0..Rounds - 1]
    <3>1. CASE UNCHANGED hround
      BY <1>0, <3>1 DEF Counters
    <3>2. ASSUME NEW k \in Worker, Woken(k)
          PROVE  hround' \in [Worker -> 0..Rounds - 1]
      BY <1>0, <3>2, SizesAreNat DEF Counters, Woken, MoreRounds
    <3> QED  BY <3>1, <3>2, HandlerRoundChanges
  <2>3. wround' \in [Worker -> 0..Rounds]
    <3>1. CASE UNCHANGED wround
      BY <1>0, <3>1 DEF Counters
    <3>2. ASSUME NEW k \in Worker, PlayRound(k)
          PROVE  wround' \in [Worker -> 0..Rounds]
      BY <1>0, <3>2, SizesAreNat DEF Counters, PlayRound
    <3>3. ASSUME NEW k \in Worker, SendHello(k) \/ ReadAssign(k) \/ ReadBye(k) \/ WorkerEnds(k)
          PROVE  UNCHANGED wround
      BY <3>3 DEF SendHello, ReadAssign, ReadBye, WorkerEnds
    <3> QED  BY <3>1, <3>2, <3>3, WorkerChanges
  <2> QED  BY <1>0, <1>3, <2>1, <2>2, <2>3 DEF Counters
<1> QED  BY <1>1, <1>2, <1>3, SharedChanges

(* What worker k computes from a request on its wire, and what it answers. *)
LEMMA PlayedRound ==
  ASSUME LifeInv, NEW k \in Worker, PlayRound(k)
  PROVE  /\ wround[k] \in 0..Rounds - 1 /\ wround' = [wround EXCEPT ![k] = @ + 1]
         /\ wrows' = [wrows EXCEPT ![k] = RowsOf(wround[k] + 1, k)]
         /\ toAssigner' = [toAssigner EXCEPT
              ![k] = Append(@, Result(wround[k], k, RowsOf(wround[k] + 1, k)))]
<1> DEFINE m == Head(toWorker[k])
           s == wround[k]
<1>1. /\ toWorker[k] \in Seq(Mail(k)) /\ toWorker[k] # <<>>
      /\ m.type = "ROUND" /\ m.round = s
  BY DEF LifeInv, WiresRight, PlayRound, HasMail, IsRequest
<1>2. s \in 0..Rounds - 1 /\ m = Request(s, HaloOf(s, k))
  <2>1. m \in Mail(k)
    BY <1>1, HeadAndTail
  <2> QED  BY <1>1, <2>1, WhatMailSays
<1>3. m.top = HaloOf(s, k)[1] /\ m.bottom = HaloOf(s, k)[2]
  BY <1>2 DEF Request
<1>4. wrows[k] = RowsOf(s, k) /\ k \in DOMAIN wrows
  BY DEF LifeInv, WorkersRight, PlayRound
<1>5. /\ wrows' = [wrows EXCEPT ![k] = BoardStep(m.round, wrows[k], m.top, m.bottom,
                                                 First(k), Past(k))]
      /\ wround' = [wround EXCEPT ![k] = @ + 1]
      /\ toAssigner' = [toAssigner EXCEPT ![k] = Append(@, Result(m.round, k, wrows'[k]))]
  BY DEF PlayRound
<1>6. BoardStep(s, RowsOf(s, k), HaloOf(s, k)[1], HaloOf(s, k)[2], First(k), Past(k))
        = RowsOf(s + 1, k)
  BY <1>2, RowsOfNextRound
<1>7. wrows' = [wrows EXCEPT ![k] = RowsOf(s + 1, k)]
  BY <1>1, <1>3, <1>4, <1>5, <1>6
<1>8. wrows'[k] = RowsOf(s + 1, k)
  BY <1>4, <1>7
<1> QED  BY <1>1, <1>2, <1>5, <1>7, <1>8

LEMMA WorkersInv ==
  ASSUME LifeInv, [Next]_vars
  PROVE  WorkersRight'
<1>0. WorkersRight /\ Counters
  BY DEF LifeInv
<1>1. CASE UNCHANGED <<wpc, wround, wrows>>
  BY <1>0, <1>1 DEF WorkersRight
<1>2. ASSUME NEW k \in Worker, SendHello(k) \/ ReadBye(k) \/ WorkerEnds(k)
      PROVE  WorkersRight'
  <2>1. /\ UNCHANGED <<wround, wrows>>
        /\ \/ wpc[k] = "new" /\ wpc' = [wpc EXCEPT ![k] = "hello"]
           \/ wpc[k] = "ready" /\ wpc' = [wpc EXCEPT ![k] = "done"]
           \/ wpc' = [wpc EXCEPT ![k] = "failed"]
    BY <1>2 DEF SendHello, ReadBye, WorkerEnds, WorkerGoes
  <2> QED  BY <1>0, <2>1 DEF WorkersRight
<1>3. ASSUME NEW k \in Worker, ReadAssign(k)
      PROVE  WorkersRight'
  <2> DEFINE m == Head(toWorker[k])
  <2>1. toWorker[k] \in Seq(Mail(k)) /\ toWorker[k] # <<>> /\ m.type = "ASSIGN"
    BY <1>3 DEF LifeInv, WiresRight, ReadAssign, HasMail
  <2>2. m = Assign(k)
    BY <2>1, HeadAndTail, WhatMailSays
  <2>3. m.rows = RowsOf(0, k)
    BY <2>2, HistoryAssumption DEF Assign, RowsOf
  <2>4. /\ wpc[k] = "hello" /\ wpc' = [wpc EXCEPT ![k] = "ready"]
        /\ wrows' = [wrows EXCEPT ![k] = m.rows] /\ UNCHANGED wround
    BY <1>3 DEF ReadAssign, WorkerGoes
  <2> HIDE DEF m
  <2> QED  BY <1>0, <2>3, <2>4 DEF WorkersRight
<1>4. ASSUME NEW k \in Worker, PlayRound(k)
      PROVE  WorkersRight'
  <2>1. wpc[k] = "ready" /\ UNCHANGED wpc
    BY <1>4 DEF PlayRound
  <2>2. /\ wround' = [wround EXCEPT ![k] = @ + 1]
        /\ wrows' = [wrows EXCEPT ![k] = RowsOf(wround[k] + 1, k)]
    BY <1>4, PlayedRound
  <2> QED  BY <1>0, <2>1, <2>2 DEF WorkersRight, Counters
<1> QED  BY <1>1, <1>2, <1>3, <1>4, WorkerChanges
LEMMA QueueOps ==
  ASSUME NEW S, NEW q \in Seq(S), NEW x \in S
  PROVE  Append(q, x) \in Seq(S) /\ (q # <<>> => Tail(q) \in Seq(S)) /\ <<>> \in Seq(S)
BY SMT

(* What each step writes to a worker belongs to its mail. *)
LEMMA MailRight ==
  ASSUME LifeInv, [Next]_vars
  PROVE  DOMAIN toWorker' = Worker /\ \A k \in Worker : toWorker'[k] \in Seq(Mail(k))
<1>0. DOMAIN toWorker = Worker /\ \A k \in Worker : toWorker[k] \in Seq(Mail(k))
  BY DEF LifeInv, WiresRight
<1>1. ASSUME NEW j, NEW m, Send(j, m), j \in Worker => m \in Mail(j)
      PROVE  DOMAIN toWorker' = Worker /\ \A k \in Worker : toWorker'[k] \in Seq(Mail(k))
  <2>1. toWorker' = [toWorker EXCEPT ![j] = IF Gone(j) THEN @ ELSE Append(@, m)]
    BY <1>1 DEF Send
  <2>2. DOMAIN toWorker' = Worker
    BY <1>0, <2>1
  <2>3. ASSUME NEW k \in Worker
        PROVE  toWorker'[k] \in Seq(Mail(k))
    <3>1. CASE k = j /\ ~Gone(j)
      <4>1. toWorker'[k] = Append(toWorker[k], m) /\ m \in Mail(k)
        BY <1>0, <1>1, <2>1, <3>1
      <4> QED  BY <1>0, <4>1, QueueOps
    <3>2. CASE ~(k = j /\ ~Gone(j))
      BY <1>0, <2>1, <3>2
    <3> QED  BY <3>1, <3>2
  <2> QED  BY <2>2, <2>3
<1>2. CASE SendAssign
  <2>1. Send(cursor, Assign(cursor)) /\ Assign(cursor) \in Mail(cursor)
    BY <1>2 DEF SendAssign, Mail
  <2> QED  BY <1>1, <2>1
<1>3. ASSUME NEW k \in Worker, SendRound(k), round = hround[k]
      PROVE  DOMAIN toWorker' = Worker /\ \A j \in Worker : toWorker'[j] \in Seq(Mail(j))
  <2>1. Send(k, Request(hround[k], halos[k]))
    BY <1>3 DEF SendRound
  <2>2. hround[k] \in 0..Rounds - 1 /\ halos[k] = HaloOf(hround[k], k)
    BY <1>3 DEF LifeInv, HalosRight, Counters
  <2>3. Request(hround[k], halos[k]) \in Mail(k)
    BY <2>2 DEF Mail
  <2> QED  BY <1>1, <2>1, <2>3
<1>4. ASSUME NEW k \in Worker, SendBye(k)
      PROVE  DOMAIN toWorker' = Worker /\ \A j \in Worker : toWorker'[j] \in Seq(Mail(j))
  BY <1>1, <1>4 DEF SendBye, Mail
<1>5. ASSUME NEW k \in Worker, ReadAssign(k) \/ PlayRound(k) \/ ReadBye(k)
      PROVE  DOMAIN toWorker' = Worker /\ \A j \in Worker : toWorker'[j] \in Seq(Mail(j))
  <2>1. toWorker[k] # <<>> /\ toWorker' = [toWorker EXCEPT ![k] = Tail(@)]
    BY <1>5 DEF ReadAssign, PlayRound, ReadBye, HasMail
  <2>2. Tail(toWorker[k]) \in Seq(Mail(k))
    BY <1>0, <2>1, HeadAndTail
  <2> QED  BY <1>0, <2>1, <2>2
<1>6. ASSUME NEW k \in Worker, WorkerEnds(k)
      PROVE  DOMAIN toWorker' = Worker /\ \A j \in Worker : toWorker'[j] \in Seq(Mail(j))
  BY <1>0, <1>6 DEF WorkerEnds
<1>7. CASE UNCHANGED toWorker
  BY <1>0, <1>7
<1> QED  BY <1>2, <1>3, <1>4, <1>5, <1>6, <1>7, MailChanges

LEMMA AnswersRight ==
  ASSUME LifeInv, [Next]_vars
  PROVE  DOMAIN toAssigner' = Worker /\ \A k \in Worker : toAssigner'[k] \in Seq(Answers(k))
<1>0. DOMAIN toAssigner = Worker /\ \A k \in Worker : toAssigner[k] \in Seq(Answers(k))
  BY DEF LifeInv, WiresRight
<1>1. ASSUME NEW k \in Worker, NEW m \in Answers(k),
             toAssigner' = [toAssigner EXCEPT ![k] = Append(@, m)]
      PROVE  DOMAIN toAssigner' = Worker /\ \A j \in Worker : toAssigner'[j] \in Seq(Answers(j))
  <2>1. Append(toAssigner[k], m) \in Seq(Answers(k))
    BY <1>0, QueueOps
  <2> QED  BY <1>0, <1>1, <2>1
<1>2. ASSUME NEW k, k \in Worker => toAssigner[k] # <<>>,
             toAssigner' = [toAssigner EXCEPT ![k] = Tail(@)]
      PROVE  DOMAIN toAssigner' = Worker /\ \A j \in Worker : toAssigner'[j] \in Seq(Answers(j))
  <2>1. k \in Worker => Tail(toAssigner[k]) \in Seq(Answers(k))
    BY <1>0, <1>2, HeadAndTail
  <2> QED  BY <1>0, <1>2, <2>1
<1>3. CASE AcceptWorker
  BY <1>2, <1>3 DEF AcceptWorker, HasAnswer
<1>4. ASSUME NEW k \in Worker, TakeResult(k), ResultDue(k)
      PROVE  DOMAIN toAssigner' = Worker /\ \A j \in Worker : toAssigner'[j] \in Seq(Answers(j))
  BY <1>2, <1>4 DEF TakeResult, CountResult, HasAnswer
<1>5. ASSUME NEW k \in Worker, SendHello(k)
      PROVE  DOMAIN toAssigner' = Worker /\ \A j \in Worker : toAssigner'[j] \in Seq(Answers(j))
  BY <1>1, <1>5 DEF SendHello, Answers
<1>6. ASSUME NEW k \in Worker, PlayRound(k)
      PROVE  DOMAIN toAssigner' = Worker /\ \A j \in Worker : toAssigner'[j] \in Seq(Answers(j))
  <2>1. Result(wround[k], k, RowsOf(wround[k] + 1, k)) \in Answers(k)
    BY <1>6, PlayedRound DEF Answers
  <2> QED  BY <1>1, <1>6, <2>1, PlayedRound
<1>7. CASE UNCHANGED toAssigner
  BY <1>0, <1>7
<1> QED  BY <1>3, <1>4, <1>5, <1>6, <1>7, AnswerChanges

LEMMA BeforeRoundsInv ==
  ASSUME LifeInv, [Next]_vars
  PROVE  BeforeRounds'
<1> SUFFICES ASSUME mpc' \in {"accept", "assign", "initial"}
             PROVE  round' = 0 /\ saved' = <<>> /\ frame' = Canvas[0]
                    /\ \A k \in Worker : hpc'[k] = "idle"
  BY DEF BeforeRounds
<1>1. mpc \in {"accept", "assign", "initial"} /\ UNCHANGED saved
  <2>1. CASE MainStep
    BY <2>1 DEF MainStep, AcceptWorker, SendAssign, StartupFails, SaveInitial, StartThread,
       LeaveBarrier, WaitForResults, Release, Record, BarrierTimeout, MainCloses, MainJoins,
       MainRaises, mainVars
  <2>2. CASE MainBreaks
    BY <2>2 DEF MainBreaks, MainRaises
  <2> QED  BY <2>1, <2>2, MainChanges
<1>2. /\ round = 0 /\ saved = <<>> /\ frame = Canvas[0]
      /\ \A k \in Worker : hpc[k] = "idle"
  BY <1>1 DEF LifeInv, BeforeRounds
<1>3. \A k \in Worker : ~HandlerStep(k)
  BY <1>2 DEF HandlerStep, HandlerReturns, SendRound, TakeResult, Woken, SendBye,
     ConnectionLost, ConnectionClosed, HandlerTimeout, HandlerCloses
<1>4. UNCHANGED <<round, frame>>
  <2>1. ~Release
    BY <1>1 DEF Release
  <2>2. \A k \in Worker : ~TakeResult(k)
    BY <1>2 DEF TakeResult
  <2> QED  BY <2>1, <2>2, SharedChanges
<1>5. UNCHANGED hpc
  <2>1. MainStep => UNCHANGED hpc
    BY <1>1 DEF MainStep, AcceptWorker, SendAssign, StartupFails, SaveInitial, StartThread,
       LeaveBarrier, WaitForResults, Release, Record, BarrierTimeout, MainCloses, MainJoins,
       handlerVars
  <2>2. ~MainBreaks
    BY DEF MainBreaks, MainRaises
  <2> QED  BY <1>3, <2>1, <2>2, HandlerChanges
<1> QED  BY <1>1, <1>2, <1>4, <1>5

(* When all have arrived in a round with full bands the frame is the board. *)
LEMMA FrameComplete ==
  ASSUME LifeInv, arrived >= N, IsFull(round)
  PROVE  frame = History[round + 1]
<1>1. round \in 0..Rounds - 1 /\ \A k \in Worker : seen[k] = round
  BY AllArrived DEF LifeInv
<1>2. round + 1 \in 0..Rounds
  BY <1>1, SizesAreNat
<1>3. ASSUME NEW y \in 0..Height - 1
      PROVE  frame[y] = History[round + 1][y]
  <2>1. PICK k \in Worker : First(k) <= y /\ y < Past(k)
    BY BandsCover
  <2>2. y \in First(k)..Past(k) - 1
    BY <2>1, BandBounds, SizesAreNat
  <2> QED  BY <1>1, <2>2 DEF LifeInv, FrameRight
<1>4. frame = [y \in 0..Height - 1 |-> frame[y]]
  BY DEF LifeInv, FrameRight
<1>5. [y \in 0..Height - 1 |-> frame[y]] = [y \in 0..Height - 1 |-> History[round + 1][y]]
  BY <1>3, Zenon
<1>6. History[round + 1] = [y \in 0..Height - 1 |-> History[round + 1][y]]
  BY <1>2, BoardsAreFunctions
<1> QED  BY <1>4, <1>5, <1>6, Zenon

LEMMA SnapshotInv ==
  ASSUME LifeInv, [Next]_vars
  PROVE  SnapshotRight'
<1>0. SnapshotRight /\ Counters
  BY DEF LifeInv
<1>1. CASE Release
  <2>1. round \in 0..Rounds - 1
    BY <1>1, AllArrived DEF LifeInv, Release
  <2>2. round' = round + 1 /\ snapshot' = IF IsFull(round) THEN frame ELSE <<>>
    BY <1>1 DEF Release
  <2>3. IsFull(round) => frame = History[round + 1]
    BY <1>1, FrameComplete DEF Release
  <2>4. round' - 1 = round /\ round' > 0
    BY <2>1, <2>2
  <2>5. snapshot' = IF IsFull(round' - 1) THEN History[round'] ELSE <<>>
    BY <2>2, <2>3, <2>4
  <2> QED  BY <2>4, <2>5 DEF SnapshotRight, IsFull
<1>2. CASE ~Release
  <2>1. UNCHANGED round
    BY <1>2, SharedChanges DEF TakeResult, CountResult
  <2>2. mpc' = "record" => mpc = "record" /\ UNCHANGED snapshot
    <3>1. CASE MainStep
      BY <1>2, <3>1 DEF MainStep, AcceptWorker, SendAssign, StartupFails, SaveInitial,
         StartThread, LeaveBarrier, WaitForResults, Record, BarrierTimeout, MainCloses,
         MainJoins, MainRaises, mainVars
    <3>2. CASE MainBreaks
      BY <3>2 DEF MainBreaks, MainRaises
    <3> QED  BY <3>1, <3>2, MainChanges
  <2> QED  BY <1>0, <2>1, <2>2 DEF SnapshotRight, IsFull
<1> QED  BY <1>1, <1>2
Boards == {[state |-> s, rows |-> History[s]] : s \in 0..Rounds}

SavedBoards ==
  saved \in Seq(Boards) /\ \A j \in 1..Len(saved) : saved[j].state = Full * (j - 1)

LEMMA SavedMore ==
  ASSUME SavedBoards, NEW s \in 0..Rounds, s = Full * Len(saved),
         saved' = Append(saved, [state |-> s, rows |-> History[s]])
  PROVE  SavedBoards' /\ Len(saved') = Len(saved) + 1
<1> DEFINE b == [state |-> s, rows |-> History[s]]
<1>1. saved \in Seq(Boards) /\ b \in Boards
  BY DEF SavedBoards, Boards
<1> HIDE DEF b
<1>2. /\ saved' \in Seq(Boards) /\ Len(saved') = Len(saved) + 1 /\ Len(saved) \in Nat
      /\ \A j \in 1..Len(saved') : saved'[j] = IF j = Len(saved) + 1 THEN b ELSE saved[j]
  BY <1>1 DEF b
<1>3. b.state = s
  BY DEF b
<1>4. \A j \in 1..Len(saved') : saved'[j].state = Full * (j - 1)
  <2> SUFFICES ASSUME NEW j \in 1..Len(saved')
               PROVE  saved'[j].state = Full * (j - 1)
    OBVIOUS
  <2>1. CASE j = Len(saved) + 1
    <3>1. j - 1 = Len(saved)
      BY <1>2, <2>1
    <3> QED  BY <1>2, <1>3, <2>1, <3>1
  <2>2. CASE j # Len(saved) + 1
    <3>1. j \in 1..Len(saved)
      BY <1>2, <2>2
    <3> QED  BY <1>2, <2>2, <3>1 DEF SavedBoards
  <2> QED  BY <2>1, <2>2
<1> QED  BY <1>2, <1>4 DEF SavedBoards, Boards

(* The snapshot that Main holds is the board of the current round. *)
LEMMA SnapshotIsBoard ==
  ASSUME LifeInv, mpc = "record"
  PROVE  /\ round \in 0..Rounds /\ round > 0 /\ round <= Full * Len(saved)
         /\ snapshot # <<>> => snapshot = History[round]
         /\ snapshot = <<>> => round % Full # 0
<1>1. round \in 0..Rounds /\ round > 0 /\ round <= Full * Len(saved)
  BY DEF LifeInv, Counters, SnapshotRight, SavedRight
<1>2. snapshot = IF round % Full = 0 THEN History[round] ELSE <<>>
  <2>1. (round - 1) + 1 = round
    BY <1>1
  <2> QED  BY <2>1 DEF LifeInv, SnapshotRight, IsFull
<1>3. History[round] # <<>>
  BY <1>1, BoardsAreFunctions
<1> QED  BY <1>1, <1>2, <1>3

LEMMA SavedInv ==
  ASSUME LifeInv, [Next]_vars
  PROVE  SavedRight'
<1>0. SavedRight /\ SavedBoards /\ Counters /\ Full \in Nat \ {0} /\ Rounds \in Nat
      /\ Len(saved) \in Nat
  BY LifeAssumption, SizesAreNat DEF LifeInv, SavedRight, SavedBoards, Boards
<1> DEFINE Kept == UNCHANGED <<saved, round>>
<1>1. ASSUME Kept, mpc' \notin {"start", "barrier", "record"}
      PROVE  SavedRight'
  BY <1>0, <1>1 DEF SavedRight
<1>2. ASSUME Kept, mpc' \in {"start", "barrier"}, mpc \in {"start", "barrier"}
      PROVE  SavedRight'
  BY <1>0, <1>2 DEF SavedRight
<1>3. ASSUME Kept, mpc' = mpc
      PROVE  SavedRight'
  BY <1>0, <1>3 DEF SavedRight
<1>4. ~Release => UNCHANGED round
  BY SharedChanges DEF TakeResult, CountResult
<1>5. CASE SaveInitial
  <2>1. round = 0 /\ saved = <<>> /\ frame = History[0] /\ 0 \in 0..Rounds
    BY <1>0, <1>5, HistoryAssumption DEF LifeInv, BeforeRounds, SaveInitial
  <2>2. saved' = Append(saved, [state |-> 0, rows |-> History[0]]) /\ 0 = Full * Len(saved)
    BY <1>0, <1>5, <2>1 DEF SaveInitial
  <2>3. SavedBoards' /\ Len(saved') = 1
    BY <1>0, <2>1, <2>2, SavedMore
  <2>4. mpc' = "start" /\ round' = 0
    BY <1>5, <2>1 DEF SaveInitial, sharedVars
  <2> QED  BY <1>0, <2>3, <2>4 DEF SavedRight, SavedBoards, Boards
<1>6. CASE Release
  <2>1. round < Full * Len(saved) /\ round' = round + 1 /\ mpc' = "record" /\ UNCHANGED saved
    BY <1>0, <1>6 DEF SavedRight, Release
  <2>2. round' <= Full * Len(saved)
    BY <1>0, <2>1 DEF Counters
  <2> QED  BY <1>0, <2>1, <2>2 DEF SavedRight
<1>7. ASSUME mpc = "record", snapshot # <<>>, round = Full * Len(saved), UNCHANGED round,
             saved' = Append(saved, [state |-> round, rows |-> snapshot]), mpc' # "record"
      PROVE  SavedRight'
  <2>1. round \in 0..Rounds /\ snapshot = History[round]
    BY <1>7, SnapshotIsBoard
  <2>2. SavedBoards' /\ Len(saved') = Len(saved) + 1
    BY <1>0, <1>7, <2>1, SavedMore
  <2>3. Full * Len(saved') = Full * Len(saved) + Full
    BY <1>0, <2>2
  <2>4. round' < Full * Len(saved')
    BY <1>0, <1>7, <2>3
  <2> QED  BY <1>7, <2>2, <2>4 DEF SavedRight, SavedBoards, Boards
<1>8. CASE Record
  <2>1. CASE snapshot # <<>> /\ round # Full * Len(saved)
    BY <1>1, <1>8, <2>1 DEF Record, MainRaises, MarkError
  <2>2. CASE snapshot # <<>> /\ round = Full * Len(saved)
    <3>1. /\ mpc = "record" /\ mpc' # "record" /\ UNCHANGED round
          /\ saved' = Append(saved, [state |-> round, rows |-> snapshot])
      BY <1>8, <2>2 DEF Record, sharedVars
    <3> QED  BY <1>7, <2>2, <3>1
  <2>3. CASE snapshot = <<>>
    <3>1. mpc = "record" /\ mpc' \in {"barrier", "join"} /\ UNCHANGED <<round, saved>>
      BY <1>8, <2>3 DEF Record, sharedVars
    <3>2. round \in 0..Rounds /\ round <= Full * Len(saved) /\ round % Full # 0
      BY <2>3, <3>1, SnapshotIsBoard
    <3>3. (Full * Len(saved)) % Full = 0
      BY <1>0, SMT
    <3>4. round < Full * Len(saved)
      BY <1>0, <3>2, <3>3
    <3> QED  BY <1>0, <3>1, <3>4 DEF SavedRight
  <2> QED  BY <2>1, <2>2, <2>3
<1>9. CASE MainBreaks
  <2>1. mpc' = "closing" /\ UNCHANGED round
    BY <1>9 DEF MainBreaks, MainRaises, MarkError
  <2>2. CASE UNCHANGED saved
    BY <1>1, <2>1, <2>2
  <2>3. CASE ~UNCHANGED saved
    BY <1>7, <1>9, <2>1, <2>3 DEF MainBreaks
  <2> QED  BY <2>2, <2>3
<1>10. ASSUME ~Release, AcceptWorker \/ SendAssign \/ StartupFails \/ StartThread \/ LeaveBarrier
              \/ WaitForResults \/ BarrierTimeout \/ MainCloses \/ MainJoins
       PROVE  SavedRight'
  <2>1. /\ UNCHANGED saved
        /\ \/ mpc' = mpc \/ mpc' \notin {"start", "barrier", "record"}
           \/ mpc = "start" /\ mpc' = "barrier"
    BY <1>10 DEF AcceptWorker, SendAssign, StartupFails, StartThread, LeaveBarrier,
       WaitForResults, BarrierTimeout, MainCloses, MainJoins, MainRaises, mainVars
  <2> QED  BY <1>1, <1>2, <1>3, <1>4, <1>10, <2>1
<1>11. CASE ~Release /\ UNCHANGED <<mpc, cursor, snapshot, saved>>
  BY <1>3, <1>4, <1>11
<1> QED  BY <1>5, <1>6, <1>8, <1>9, <1>10, <1>11, MainChanges DEF MainStep

-----------------------------------------------------------------------------
(* What is on the wires, the bands, the frame and the snapshots are always
   those of the reference computation, for any board, any number of workers and
   any interleaving of threads, workers and failures. *)
THEOREM LifeInvariant == Spec => []LifeInv
<1>1. LifeInv /\ [Next]_vars => LifeInv'
  BY CountersInv, WorkersInv, MailRight, AnswersRight, BeforeRoundsInv, SnapshotInv, SavedInv
     DEF LifeInv, WiresRight
<1> QED  BY LifeInit, <1>1, PTL DEF Spec
LEMMA SameRules ==
  /\ Reference!Rounds = Rounds
  /\ \A s, p : Reference!WholeStep(s, p) = WholeStep(s, p)
<1>1. Reference!Rounds = Rounds
  BY DEF Reference!Rounds, Rounds
<1>2. ASSUME NEW s, NEW w, NEW y0, NEW y1
      PROVE  Reference!Prepared(s, w, y0, y1) = Prepared(s, w, y0, y1)
  BY Zenon DEF Reference!Prepared, Prepared, Reference!ToBrian, ToBrian, Reference!Repaint, Repaint,
     Reference!Slice, Slice, Reference!ToCyclic, ToCyclic, Reference!Brightness, Brightness,
     Reference!InRamp, InRamp, Reference!Ramp, Ramp, Reference!Space, Space, Reference!Dot, Dot,
     Reference!At, At
<1>3. ASSUME NEW s, NEW q
      PROVE  Reference!Cell(s, q) = Cell(s, q)
  BY Zenon DEF Reference!Cell, Cell, Reference!Rule1Cell, Rule1Cell, Reference!Rule2Cell, Rule2Cell,
     Reference!Rule3Cell, Rule3Cell, Reference!Around, Around, Reference!Offsets, Offsets,
     Reference!Self, Self, Reference!Beside, Beside, Reference!Brighter, Brighter,
     Reference!InRamp, InRamp, Reference!Ramp, Ramp, Reference!Space, Space, Reference!At, At,
     Reference!Plus, Plus, Reference!Cardinality, Cardinality,
     Reference!IsFiniteSet, IsFiniteSet
<1>4. ASSUME NEW s, NEW rows, NEW top, NEW bottom, NEW y0, NEW y1
      PROVE  Reference!BoardStep(s, rows, top, bottom, y0, y1)
               = BoardStep(s, rows, top, bottom, y0, y1)
  BY <1>2, <1>3, Zenon DEF Reference!BoardStep, BoardStep, Reference!Window, Window,
     Reference!Patch, Patch, Reference!Offsets, Offsets
<1>5. ASSUME NEW s, NEW p
      PROVE  Reference!WholeStep(s, p) = WholeStep(s, p)
  BY <1>4, Zenon DEF Reference!WholeStep, WholeStep, Reference!Band, Band
<1> QED  BY <1>1, <1>5

(* A step that leaves round and snapshots alone is no step of the reference. *)
LEMMA StepsImplement ==
  ASSUME LifeInv, [Next]_vars
  PROVE  [Reference!RefNext]_(Reference!refVars)
<1>0. /\ round \in 0..Rounds /\ Rounds \in Nat /\ Full \in Nat \ {0} /\ Len(saved) \in Nat
      /\ History[0] = Canvas[0]
  BY LifeAssumption, HistoryAssumption, SizesAreNat DEF LifeInv, Counters, SavedRight
<1>1. CASE UNCHANGED <<round, saved>>
  BY <1>1 DEF Reference!refVars
<1>2. ASSUME UNCHANGED round, round = Full * Len(saved),
             saved' = Append(saved, [state |-> round, rows |-> History[round]])
      PROVE  Reference!Save
  BY <1>2 DEF Reference!Save, Reference!Due, Reference!Snapshot
<1>3. CASE Release
  <2>1. /\ round \in 0..Rounds - 1 /\ round' = round + 1 /\ UNCHANGED saved
        /\ round < Full * Len(saved)
    BY <1>3, AllArrived DEF LifeInv, SavedRight, Release
  <2>2. History[round + 1] = WholeStep(round, History[round])
    BY <2>1, HistoryAssumption
  <2>3. History[round'] = Reference!WholeStep(round, History[round])
    BY <2>1, <2>2, SameRules
  <2>4. ~Reference!Due /\ round < Reference!Rounds
    BY <1>0, <2>1, SameRules DEF Reference!Due
  <2> QED  BY <2>1, <2>3, <2>4 DEF Reference!RefNext, Reference!Step
<1>4. ~Release => UNCHANGED round
  BY SharedChanges DEF TakeResult, CountResult
<1>5. CASE SaveInitial
  <2>1. round = 0 /\ saved = <<>> /\ frame = History[0] /\ UNCHANGED round
    BY <1>0, <1>5 DEF LifeInv, BeforeRounds, SaveInitial, sharedVars
  <2>2. round = Full * Len(saved)
    BY <1>0, <2>1
  <2>3. saved' = Append(saved, [state |-> round, rows |-> History[round]])
    BY <1>5, <2>1 DEF SaveInitial
  <2> QED  BY <1>2, <2>1, <2>2, <2>3 DEF Reference!RefNext
<1>6. CASE mpc = "record" /\ snapshot # <<>> /\ round = Full * Len(saved) /\ UNCHANGED round
           /\ saved' = Append(saved, [state |-> round, rows |-> snapshot])
  <2>1. snapshot = History[round]
    BY <1>6, SnapshotIsBoard
  <2> QED  BY <1>2, <1>6, <2>1 DEF Reference!RefNext
<1>7. CASE Record
  <2>1. UNCHANGED round /\ mpc = "record"
    BY <1>7 DEF Record, MainRaises, MarkError, sharedVars
  <2>2. \/ UNCHANGED saved
        \/ snapshot # <<>> /\ round = Full * Len(saved)
           /\ saved' = Append(saved, [state |-> round, rows |-> snapshot])
    BY <1>7 DEF Record
  <2> QED  BY <1>1, <1>6, <2>1, <2>2
<1>8. CASE MainBreaks
  <2>1. UNCHANGED round
    BY <1>8 DEF MainBreaks, MainRaises, MarkError
  <2> QED  BY <1>1, <1>6, <1>8, <2>1 DEF MainBreaks
<1>9. ~Release /\ ~SaveInitial /\ ~Record /\ ~MainBreaks => UNCHANGED saved
  BY MainChanges DEF MainStep, AcceptWorker, SendAssign, StartupFails, StartThread, LeaveBarrier,
     WaitForResults, BarrierTimeout, MainCloses, MainJoins, MainRaises, mainVars
<1> QED  BY <1>1, <1>3, <1>4, <1>5, <1>7, <1>8, <1>9

(* However threads, workers and failures interleave, a run of the assigner is
   a prefix of the reference computation: run_rounds leaves a round only as one
   step of the whole board and saves only its reference boards, in order. *)
THEOREM Implementation == Spec => ImplementsReference
<1>1. Init => Reference!RefInit
  BY HistoryAssumption DEF Init, Reference!RefInit
<1>2. LifeInv /\ [Next]_vars => [Reference!RefNext]_(Reference!refVars)
  BY StepsImplement
<1> QED  BY LifeInvariant, <1>1, <1>2, PTL DEF Spec, ImplementsReference, Reference!RefSpec

-----------------------------------------------------------------------------
(* The failures.  The invariant says, as long as nothing has failed, where *)
(* every handler is, what its worker has done and which message lies       *)
(* between them.                                                           *)

(* Nothing has failed and no deadline can pass. *)
Calm == error = NoError /\ slow = {}

Pcs == {"idle", "top", "recv", "waiting", "woken", "bye", "closing", "ended"}
Typed == hpc \in [Worker -> Pcs] /\ open \in [Worker -> BOOLEAN]

(* Who is blamed did fail, and Main blames itself without a fault of its own *)
(* only for a worker that crashed before the first round.                   *)
ErrorKnown ==
  /\ mpc \in {"accept", "assign", "initial"} => error = NoError
  /\ error # NoError /\ slow = {} =>
       \/ error = Main /\ mainFailed
       \/ error = Main /\ mpc = "ended" /\ saved = <<>> /\ crashed # {}
       \/ error \in Worker /\ error \in crashed

Accepted(k) == mpc # "accept" \/ k < cursor
Assigned(k) == mpc \notin {"accept", "assign"} \/ (mpc = "assign" /\ k < cursor)

(* Main has a worker to go on with, and the next snapshot is at most Full   *)
(* rounds away.                                                             *)
MainOn ==
  /\ mpc # "closing"
  /\ mpc \in {"accept", "assign", "start"} => cursor \in Worker
  /\ mpc = "initial" => cursor = 0
  /\ mpc \in {"start", "barrier"} => Full * (Len(saved) - 1) <= round
  /\ mpc = "record" => Full * (Len(saved) - 1) < round

(* Handler k is started in its turn, closes nothing before BYE, and is in   *)
(* the round of the barrier or, once woken, one behind.                     *)
Place(k) ==
  /\ hpc[k] # "closing"
  /\ hpc[k] = "idle" <=> \/ mpc \in {"accept", "assign", "initial"}
                         \/ mpc = "start" /\ cursor <= k
  /\ open[k] <=> Accepted(k) /\ hpc[k] # "ended"
  /\ hpc[k] = "idle" => hround[k] = 0 /\ round = 0 /\ seen[k] = -1
  /\ hpc[k] \in {"top", "recv"} => hround[k] = round /\ seen[k] # round
  /\ hpc[k] = "waiting" => hround[k] = round /\ seen[k] = round
  /\ hpc[k] \in {"woken", "bye", "ended"} => hround[k] + 1 = round /\ seen[k] = hround[k]
  /\ hpc[k] \in {"bye", "ended"} => round = Rounds

Answered(k) == \E rows : toAssigner[k] = <<Result(hround[k], k, rows)>>

(* What worker k has done and what lies on its two wires, at each point of  *)
(* its handler: nothing but the message that is due.                        *)
Wires(k) ==
  /\ wpc[k] = "failed" => k \in crashed /\ toWorker[k] = <<>>
  /\ ~Accepted(k) =>
       /\ toWorker[k] = <<>>
       /\ \/ wpc[k] = "new" /\ toAssigner[k] = <<>>
          \/ wpc[k] = "hello" /\ toAssigner[k] = <<Hello>>
          \/ wpc[k] = "failed" /\ toAssigner[k] \in {<<>>, <<Hello>>}
  /\ Accepted(k) /\ ~Assigned(k) =>
       toWorker[k] = <<>> /\ toAssigner[k] = <<>> /\ wpc[k] \in {"hello", "failed"}
  /\ Assigned(k) /\ hpc[k] \in {"idle", "top"} =>
       /\ toAssigner[k] = <<>>
       /\ \/ wpc[k] = "failed"
          \/ wpc[k] = "hello" /\ hround[k] = 0 /\ toWorker[k] = <<Assign(k)>>
          \/ wpc[k] = "ready" /\ wround[k] = hround[k] /\ toWorker[k] = <<>>
  /\ hpc[k] = "recv" =>
       \/ wpc[k] = "failed" /\ (toAssigner[k] = <<>> \/ Answered(k))
       \/ /\ wpc[k] = "hello" /\ hround[k] = 0 /\ toAssigner[k] = <<>>
          /\ \E h : toWorker[k] = <<Assign(k), Request(0, h)>>
       \/ /\ wpc[k] = "ready" /\ wround[k] = hround[k] /\ toAssigner[k] = <<>>
          /\ \E h : toWorker[k] = <<Request(hround[k], h)>>
       \/ wpc[k] = "ready" /\ wround[k] = hround[k] + 1 /\ toWorker[k] = <<>> /\ Answered(k)
  /\ hpc[k] \in {"waiting", "woken", "bye"} =>
       /\ toAssigner[k] = <<>>
       /\ \/ wpc[k] = "failed"
          \/ wpc[k] = "ready" /\ wround[k] = hround[k] + 1 /\ toWorker[k] = <<>>
  /\ hpc[k] = "ended" =>
       /\ toAssigner[k] = <<>>
       /\ \/ wpc[k] \in {"failed", "done"} /\ toWorker[k] = <<>>
          \/ wpc[k] = "ready" /\ wround[k] = Rounds /\ toWorker[k] = <<Bye>>

Link(k) == Place(k) /\ Wires(k)

BlameInv ==
  /\ LifeInv /\ Typed /\ ErrorKnown
  /\ Calm => MainOn /\ \A k \in Worker : Link(k)

-----------------------------------------------------------------------------
(* Short sequences *)

LEMMA Tuples ==
  /\ \A x : /\ Append(<<>>, x) = <<x>> /\ Head(<<x>>) = x /\ Tail(<<x>>) = <<>>
            /\ <<x>> # <<>>
  /\ \A x, y : /\ Append(<<x>>, y) = <<x, y>> /\ Head(<<x, y>>) = x /\ Tail(<<x, y>>) = <<y>>
               /\ <<x, y>> # <<>>
<1>1. ASSUME NEW x
      PROVE  Append(<<>>, x) = <<x>>
  BY SMT
<1>2. ASSUME NEW x
      PROVE  Head(<<x>>) = x /\ <<x>> # <<>>
  BY SMT
<1>3. ASSUME NEW x
      PROVE  Tail(<<x>>) = <<>>
  <2>1. <<x>> \in Seq({x}) /\ <<x>> # <<>> /\ Len(<<x>>) = 1
    BY SMT
  <2>2. Tail(<<x>>) \in Seq({x}) /\ Len(Tail(<<x>>)) = 0
    BY <2>1, HeadTailProperties
  <2> QED
    BY <2>2, EmptySeq
<1>4. ASSUME NEW x, NEW y
      PROVE  Append(<<x>>, y) = <<x, y>>
  <2>1. /\ <<x>> \in Seq({x, y}) /\ <<x, y>> \in Seq({x, y})
        /\ Len(<<x>>) = 1 /\ Len(<<x, y>>) = 2
        /\ <<x>>[1] = x /\ <<x, y>>[1] = x /\ <<x, y>>[2] = y
    BY SMT
  <2>2. /\ Append(<<x>>, y) \in Seq({x, y}) /\ Len(Append(<<x>>, y)) = 2
        /\ Append(<<x>>, y)[1] = x /\ Append(<<x>>, y)[2] = y
    BY <2>1, AppendProperties
  <2>3. \A i \in 1..2 : i = 1 \/ i = 2
    BY SMT
  <2>4. \A i \in 1..2 : Append(<<x>>, y)[i] = <<x, y>>[i]
    BY <2>1, <2>2, <2>3, Zenon
  <2> DEFINE s == Append(<<x>>, y)
             t == <<x, y>>
  <2>5. s \in Seq({x, y}) /\ t \in Seq({x, y}) /\ Len(s) = Len(t)
        /\ \A i \in 1..Len(s) : s[i] = t[i]
    BY <2>1, <2>2, <2>4
  <2> HIDE DEF s, t
  <2>6. s = t
    BY <2>5, SeqEqual
  <2> QED
    BY <2>6 DEF s, t
<1>5. ASSUME NEW x, NEW y
      PROVE  Head(<<x, y>>) = x /\ <<x, y>> # <<>>
  BY SMT
<1>6. ASSUME NEW x, NEW y
      PROVE  Tail(<<x, y>>) = <<y>>
  BY SMT
<1> QED
  BY <1>1, <1>2, <1>3, <1>4, <1>5, <1>6

LEMMA Sizes ==
  /\ N \in Nat \ {0} /\ Rounds \in Nat \ {0} /\ Full \in Nat \ {0}
  /\ Main \notin Worker /\ NoError \notin Worker /\ Main # NoError
  /\ \A k \in Worker : k \in Nat /\ k < N
BY LifeAssumption, SizesAreNat DEF Worker, Main, NoError, Rounds

LEMMA Kinds ==
  /\ Hello.type = "HELLO" /\ Bye.type = "BYE"
  /\ \A k : Assign(k).type = "ASSIGN"
  /\ \A r, h : Request(r, h).type = "ROUND" /\ Request(r, h).round = r
BY DEF Hello, Bye, Assign, Request

-----------------------------------------------------------------------------
(* Steps *)

LEMMA TypedStep ==
  ASSUME Typed, [Next]_vars
  PROVE  Typed'
<1> USE DEF Typed, Pcs
<1>1. CASE MainStep \/ MainBreaks
  BY <1>1 DEF MainStep, AcceptWorker, SendAssign, StartupFails, SaveInitial, StartThread,
     LeaveBarrier, WaitForResults, Release, Record, BarrierTimeout, MainCloses, MainJoins,
     MainRaises, MarkError, CloseAll, MainBreaks, sharedVars, handlerVars, wireVars
<1>2. ASSUME NEW k \in Worker, HandlerStep(k)
      PROVE  Typed'
  BY <1>2 DEF HandlerStep, HandlerReturns, SendRound, TakeResult, CountResult, Woken, SendBye,
     ConnectionLost, ConnectionClosed, HandlerTimeout, HandlerCloses, HandlerRaises, HandlerEnds,
     HandlerGoes, MarkError, CloseAll, wireVars
<1>3. ASSUME NEW k \in Worker, WorkerStep(k) \/ WorkerTimeout(k) \/ WorkerCrash(k)
      PROVE  UNCHANGED <<hpc, open>>
  BY <1>3 DEF WorkerStep, SendHello, ReadAssign, PlayRound, ReadBye, WorkerFails, WorkerTimeout,
     WorkerCrash, WorkerEnds, handlerVars
<1>4. CASE \E k \in Worker \cup {Main} : BecomeSlow(k)
  BY <1>4 DEF BecomeSlow, handlerVars, wireVars
<1>5. CASE UNCHANGED vars
  BY <1>5 DEF vars, handlerVars, wireVars
<1> QED
  BY <1>1, <1>2, <1>3, <1>4, <1>5 DEF Next

(* What may happen while nothing fails. *)
MainOf ==
  \/ AcceptWorker \/ SendAssign \/ SaveInitial \/ StartThread \/ WaitForResults \/ Release
  \/ (Record /\ UNCHANGED error) \/ MainJoins
HandlerOf(k) ==
  \/ (SendRound(k) /\ round = hround[k]) \/ (TakeResult(k) /\ ResultDue(k))
  \/ Woken(k) \/ SendBye(k)
WorkerOf(k) ==
  SendHello(k) \/ ReadAssign(k) \/ PlayRound(k) \/ ReadBye(k) \/ WorkerCrash(k)

LEMMA CalmBefore ==
  ASSUME [Next]_vars, Calm'
  PROVE  Calm
<1> USE DEF Calm
<1>1. slow = {}
  BY DEF Next, vars, mainVars, sharedVars, handlerVars, wireVars, workerVars, faultVars,
     MainStep, AcceptWorker, SendAssign, StartupFails, SaveInitial, StartThread, LeaveBarrier,
     WaitForResults, Release, Record, BarrierTimeout, MainCloses, MainJoins, MainRaises,
     HandlerStep, HandlerReturns, SendRound, TakeResult, CountResult, Woken, SendBye,
     ConnectionLost, ConnectionClosed, HandlerTimeout, HandlerCloses, HandlerRaises,
     WorkerStep, SendHello, ReadAssign, PlayRound, ReadBye, WorkerFails, WorkerTimeout,
     WorkerCrash, WorkerEnds, BecomeSlow, MainBreaks
<1>2. error = NoError
  <2>1. Main # NoError /\ \A k \in Worker : k # NoError
    BY Sizes
  <2> QED
    BY <2>1 DEF Next, vars, mainVars, sharedVars, handlerVars, wireVars, workerVars, faultVars,
     MainStep, AcceptWorker, SendAssign, StartupFails, SaveInitial, StartThread, LeaveBarrier,
     WaitForResults, Release, Record, BarrierTimeout, MainCloses, MainJoins, MainRaises, MarkError,
     HandlerStep, HandlerReturns, SendRound, TakeResult, CountResult, Woken, SendBye,
     ConnectionLost, ConnectionClosed, HandlerTimeout, HandlerCloses, HandlerRaises,
     WorkerStep, SendHello, ReadAssign, PlayRound, ReadBye, WorkerFails, WorkerTimeout,
     WorkerCrash, WorkerEnds, BecomeSlow, MainBreaks
<1> QED
  BY <1>1, <1>2

(* Where Main stands once the threads run. *)
Running == {"barrier", "record", "join"}

(* A link none of whose parts changes. *)
LEMMA LinkKept ==
  ASSUME NEW k \in Worker, Link(k), UNCHANGED <<cursor, round>>,
         mpc' = mpc \/ (mpc \in Running /\ mpc' \in Running),
         hpc'[k] = hpc[k], hround'[k] = hround[k], seen'[k] = seen[k], open'[k] = open[k],
         toWorker'[k] = toWorker[k], toAssigner'[k] = toAssigner[k],
         wpc'[k] = wpc[k], wround'[k] = wround[k], crashed \subseteq crashed'
  PROVE  Link(k)'
BY DEF Link, Place, Wires, Accepted, Assigned, Answered, Running

-----------------------------------------------------------------------------
(* Nothing fails of its own *)

LEMMA CalmFacts ==
  ASSUME BlameInv, Calm, NEW k \in Worker
  PROVE  /\ Place(k) /\ Wires(k) /\ MainOn
         /\ hpc[k] \in Pcs /\ open[k] \in BOOLEAN
         /\ round \in 0..Rounds /\ hround[k] \in 0..Rounds - 1 /\ wround[k] \in 0..Rounds
         /\ wpc[k] \in {"new", "hello"} => wround[k] = 0
         /\ mpc \in {"accept", "assign", "initial"} => hpc[k] = "idle"
BY DEF BlameInv, Link, Typed, LifeInv, Counters, WorkersRight, BeforeRounds

(* A handler that is past the start speaks to a worker that was assigned.   *)
LEMMA StartedIsAssigned ==
  ASSUME BlameInv, Calm, NEW k \in Worker, hpc[k] # "idle"
  PROVE  Accepted(k) /\ Assigned(k)
BY CalmFacts DEF Accepted, Assigned

LEMMA GoneCrashed ==
  ASSUME BlameInv, Calm, NEW k \in Worker, Gone(k), hpc[k] # "ended"
  PROVE  k \in crashed
<1>1. Place(k) /\ Wires(k) /\ hpc[k] \in Pcs /\ (hpc[k] # "idle" => Assigned(k))
  BY CalmFacts, StartedIsAssigned
<1>2. wpc[k] = "failed"
  <2>1. CASE hpc[k] = "idle" /\ ~Accepted(k)
    BY <1>1, <2>1 DEF Gone, Wires
  <2>2. CASE hpc[k] = "idle" /\ Accepted(k) /\ ~Assigned(k)
    BY <1>1, <2>2 DEF Gone, Wires
  <2>3. CASE Assigned(k)
    BY <1>1, <2>3 DEF Gone, Wires, Pcs, Place
  <2> QED
    BY <1>1, <2>1, <2>2, <2>3
<1> QED
  BY <1>1, <1>2 DEF Wires

(* The worker is sent what it expects, and its connection stays open.       *)
LEMMA WorkerNeverFails ==
  ASSUME BlameInv, Calm, NEW k \in Worker
  PROVE  ~WorkerFails(k)
<1> SUFFICES ASSUME WorkerFails(k) PROVE FALSE
  OBVIOUS
<1>0. /\ Place(k) /\ Wires(k) /\ hround[k] \in 0..Rounds - 1 /\ wround[k] \in 0..Rounds
      /\ hpc[k] \in Pcs /\ (hpc[k] # "idle" => Accepted(k) /\ Assigned(k))
      /\ Rounds \in Nat
  BY CalmFacts, StartedIsAssigned, Sizes
<1>1. ~Gone(k) /\ (WrongMessage(k) \/ Closed(k))
  BY DEF WorkerFails, WorkerEnds
<1>2. wpc[k] \notin {"done", "failed"}
  BY <1>1 DEF Gone
<1>3. ASSUME Closed(k)
      PROVE  FALSE
  <2>1. Accepted(k) /\ hpc[k] = "ended"
    BY <1>0, <1>3 DEF Closed, Accepted, Place
  <2>2. wpc[k] = "ready" /\ toWorker[k] = <<Bye>> /\ toAssigner[k] = <<>>
    BY <1>0, <1>2, <2>1 DEF Wires
  <2> QED
    BY <1>3, <2>2, Tuples DEF Closed, HasMail, HasAnswer
<1>4. ASSUME WrongMessage(k)
      PROVE  FALSE
  <2>1. toWorker[k] # <<>>
    BY <1>4 DEF WrongMessage, HasMail
  <2>2. CASE hpc[k] \in {"idle", "top"}
    BY <1>0, <1>2, <1>4, <2>1, <2>2, Tuples, Kinds DEF Wires, WrongMessage, Accepted, Assigned
  <2>3. CASE hpc[k] = "recv"
    BY <1>0, <1>2, <1>4, <2>1, <2>3, Tuples, Kinds DEF Wires, WrongMessage, IsRequest
  <2>4. CASE hpc[k] \in {"waiting", "woken", "bye"}
    BY <1>0, <1>2, <2>1, <2>4 DEF Wires
  <2>5. CASE hpc[k] = "ended"
    BY <1>0, <1>2, <1>4, <2>1, <2>5, Tuples, Kinds DEF Wires, WrongMessage
  <2> QED
    BY <1>0, <2>2, <2>3, <2>4, <2>5 DEF Place, Pcs
<1> QED
  BY <1>1, <1>3, <1>4

(* The answer a handler reads is the RESULT it waits for.                   *)
LEMMA ResultIsDue ==
  ASSUME BlameInv, Calm, NEW k \in Worker, hpc[k] = "recv", HasAnswer(k)
  PROVE  ResultDue(k)
<1>0. /\ Wires(k) /\ hround[k] = round /\ seen[k] # round /\ hround[k] \in 0..Rounds - 1
  BY CalmFacts DEF Place
<1>1. PICK rows : toAssigner[k] = <<Result(hround[k], k, rows)>>
  BY <1>0 DEF Wires, HasAnswer, Answered
<1> DEFINE m == Head(toAssigner[k])
<1>2. m = Result(hround[k], k, rows)
  BY <1>1, Tuples
<1>3. m \in Answers(k) /\ m.type = "RESULT" /\ m.round = hround[k] /\ m.worker = k
  <2>1. toAssigner[k] \in Seq(Answers(k)) /\ toAssigner[k] # <<>>
    BY DEF BlameInv, LifeInv, WiresRight, HasAnswer
  <2> QED
    BY <1>2, <2>1, HeadAndTail DEF Result
<1> HIDE DEF m
<1>4. m = Result(hround[k], k, RowsOf(hround[k] + 1, k))
  BY <1>3, WhatAnswersSay
<1>5. /\ First(k) \in Nat /\ Past(k) \in Nat /\ Size(k) \in Nat \ {0}
      /\ RowsOf(hround[k] + 1, k) = [i \in 1..Size(k) |-> History[hround[k] + 1][First(k) - 1 + i]]
  BY BandBounds DEF RowsOf, Band, Size
<1>6. Len(RowsOf(hround[k] + 1, k)) = Size(k) /\ RowsOf(hround[k] + 1, k) # <<>>
  BY <1>5
<1>7. /\ (m.full # <<>>) = IsFull(hround[k])
      /\ m.full # <<>> => m.first = m.full[1] /\ m.last = m.full[Len(m.full)]
  <2> DEFINE rs == RowsOf(hround[k] + 1, k)
  <2>1. /\ m.first = rs[1] /\ m.last = rs[Size(k)]
        /\ m.full = IF IsFull(hround[k]) THEN rs ELSE <<>>
    BY <1>4 DEF Result
  <2>2. rs # <<>> /\ Len(rs) = Size(k)
    BY <1>6
  <2> HIDE DEF rs
  <2>3. m.full # <<>> <=> IsFull(hround[k])
    BY <2>1, <2>2
  <2>4. (m.full # <<>>) = IsFull(hround[k])
    BY <2>3 DEF IsFull
  <2>5. IsFull(hround[k]) => m.first = m.full[1] /\ m.last = m.full[Len(m.full)]
    BY <2>1, <2>2
  <2> QED
    BY <2>3, <2>4, <2>5
<1>8. IsResult(m, k)
  BY <1>3, <1>7 DEF IsResult
<1> QED
  BY <1>0, <1>8 DEF ResultDue, m

LEMMA CalmSteps ==
  ASSUME BlameInv, [Next]_vars, Calm'
  PROVE  \/ UNCHANGED vars \/ MainOf
         \/ \E k \in Worker : HandlerOf(k) \/ WorkerOf(k)
<1>0. Calm /\ error' = NoError /\ slow' = {} /\ Main # NoError
  BY CalmBefore, Sizes DEF Calm
<1>1. ASSUME MainStep
      PROVE  MainOf
  <2>1. ~StartupFails /\ ~LeaveBarrier /\ ~BarrierTimeout
    BY <1>0 DEF Calm, StartupFails, LeaveBarrier, BarrierTimeout
  <2>2. ~MainCloses
    BY <1>0 DEF MainCloses, BlameInv, MainOn
  <2>3. Record => UNCHANGED error
    BY <1>0 DEF Calm
  <2> QED
    BY <1>1, <2>1, <2>2, <2>3 DEF MainStep, MainOf
<1>2. ASSUME NEW k \in Worker, HandlerStep(k)
      PROVE  HandlerOf(k)
  <2>1. ~HandlerRaises(k)
    BY <1>0, Sizes DEF Calm, HandlerRaises, MarkError
  <2>2. ~HandlerReturns(k) /\ ~ConnectionLost(k) /\ ~HandlerTimeout(k)
    BY <1>0, <2>1 DEF Calm, HandlerReturns, ConnectionLost, HandlerTimeout
  <2>3. ~ConnectionClosed(k) /\ ~HandlerCloses(k)
    <3>1. Place(k) /\ (hpc[k] # "idle" => Accepted(k))
      BY <1>0, CalmFacts, StartedIsAssigned
    <3> QED
      BY <3>1 DEF Place, ConnectionClosed, HandlerCloses
  <2>4. SendRound(k) => round = hround[k]
    BY <2>1 DEF SendRound
  <2>5. TakeResult(k) => ResultDue(k)
    BY <2>1 DEF TakeResult
  <2> QED
    BY <1>2, <2>2, <2>3, <2>4, <2>5 DEF HandlerStep, HandlerOf
<1>3. ASSUME NEW k \in Worker, WorkerStep(k) \/ WorkerTimeout(k) \/ WorkerCrash(k)
      PROVE  WorkerOf(k)
  <2>1. ~WorkerFails(k)
    BY <1>0, WorkerNeverFails
  <2>2. ~WorkerTimeout(k)
    BY <1>0 DEF Calm, WorkerTimeout
  <2> QED
    BY <1>3, <2>1, <2>2 DEF WorkerStep, WorkerOf
<1>4. ~MainBreaks /\ \A k \in Worker \cup {Main} : ~BecomeSlow(k)
  BY <1>0 DEF Calm, MainBreaks, MainRaises, MarkError, BecomeSlow
<1> QED
  BY <1>1, <1>2, <1>3, <1>4 DEF Next

-----------------------------------------------------------------------------
(* Steps of a handler and its worker *)

LEMMA HandlerLink ==
  ASSUME BlameInv, Calm, NEW k \in Worker, HandlerOf(k)
  PROVE  Link(k)'
<1>0. /\ Place(k) /\ Wires(k) /\ hround[k] \in 0..Rounds - 1 /\ Rounds \in Nat \ {0}
      /\ hpc[k] # "idle" => Accepted(k) /\ Assigned(k)
  BY CalmFacts, StartedIsAssigned, Sizes
<1>20. /\ hpc \in [Worker -> Pcs] /\ open \in [Worker -> BOOLEAN]
      /\ hround \in [Worker -> 0..Rounds - 1] /\ seen \in [Worker -> -1..Rounds - 1]
      /\ DOMAIN toWorker = Worker /\ DOMAIN toAssigner = Worker
  BY DEF BlameInv, Typed, LifeInv, Counters, WiresRight
<1> USE DEF mainVars, sharedVars, handlerVars, wireVars, workerVars, faultVars, HandlerGoes
<1>1. CASE SendRound(k) /\ round = hround[k]
  <2>1. /\ hpc[k] = "top" /\ hpc'[k] = "recv" /\ Accepted(k)' /\ Assigned(k)'
        /\ UNCHANGED <<mpc, cursor, round, hround, seen, open, toAssigner, wpc, wround, crashed>>
    BY <1>0, <1>1, <1>20 DEF SendRound, Accepted, Assigned
  <2>2. toWorker'[k] = IF Gone(k) THEN toWorker[k]
                       ELSE Append(toWorker[k], Request(hround[k], halos[k]))
    BY <1>1, <1>20 DEF SendRound, Send
  <2>3. Place(k)'
    BY <1>0, <2>1 DEF Place
  <2>4. toAssigner[k] = <<>>
    BY <1>0, <2>1 DEF Wires
  <2>5. CASE wpc[k] = "failed"
    BY <1>0, <2>1, <2>2, <2>3, <2>4, <2>5 DEF Link, Wires, Gone
  <2>6. CASE wpc[k] = "hello"
    <3>1. hround[k] = 0 /\ toWorker[k] = <<Assign(k)>>
      BY <1>0, <2>1, <2>6 DEF Wires
    <3>2. toWorker'[k] = <<Assign(k), Request(0, halos[k])>>
      BY <2>2, <2>6, <3>1, Tuples DEF Gone
    <3> QED
      BY <2>1, <2>3, <2>4, <2>6, <3>1, <3>2 DEF Link, Wires
  <2>7. CASE wpc[k] = "ready"
    <3>1. wround[k] = hround[k] /\ toWorker[k] = <<>>
      BY <1>0, <2>1, <2>7 DEF Wires
    <3>2. toWorker'[k] = <<Request(hround[k], halos[k])>>
      BY <2>2, <2>7, <3>1, Tuples DEF Gone
    <3> QED
      BY <2>1, <2>3, <2>4, <2>7, <3>1, <3>2 DEF Link, Wires
  <2> QED
    BY <1>0, <2>1, <2>5, <2>6, <2>7 DEF Wires
<1>2. CASE TakeResult(k) /\ ResultDue(k)
  <2>1. /\ hpc[k] = "recv" /\ hpc'[k] = "waiting" /\ Accepted(k)' /\ Assigned(k)'
        /\ seen'[k] = hround[k] /\ hround[k] = round /\ toAssigner'[k] = Tail(toAssigner[k])
        /\ UNCHANGED <<mpc, cursor, round, hround, open, toWorker, wpc, wround, crashed>>
    BY <1>0, <1>2, <1>20 DEF TakeResult, CountResult, ResultDue, Accepted, Assigned
  <2>2. Answered(k) /\ (wpc[k] = "failed" \/ (wpc[k] = "ready" /\ wround[k] = hround[k] + 1
                                              /\ toWorker[k] = <<>>))
    BY <1>0, <1>2, <2>1 DEF Wires, TakeResult, HasAnswer
  <2>3. toAssigner'[k] = <<>>
    BY <2>1, <2>2, Tuples DEF Answered
  <2> QED
    BY <1>0, <2>1, <2>2, <2>3 DEF Link, Place, Wires
<1>3. CASE Woken(k)
  <2>1. /\ hpc[k] = "woken" /\ hround[k] + 1 = round /\ seen[k] = hround[k]
        /\ UNCHANGED <<mpc, cursor, round, seen, open, toWorker, toAssigner, wpc, wround, crashed>>
        /\ Accepted(k)' /\ Assigned(k)'
    BY <1>0, <1>3 DEF Place, Woken, Accepted, Assigned
  <2>2. CASE MoreRounds(k)
    <3>1. hround'[k] = hround[k] + 1 /\ hpc'[k] = "top"
      BY <1>0, <1>3, <1>20, <2>1, <2>2 DEF Woken
    <3> QED
      BY <1>0, <2>1, <3>1 DEF Link, Place, Wires
  <2>3. CASE ~MoreRounds(k)
    <3>1. hround'[k] = hround[k] /\ hpc'[k] = "bye"
      BY <1>0, <1>3, <1>20, <2>1, <2>3 DEF Woken
    <3>2. round = Rounds
      BY <1>0, <2>1, <2>3 DEF MoreRounds
    <3> QED
      BY <1>0, <2>1, <3>1, <3>2 DEF Link, Place, Wires
  <2> QED
    BY <2>2, <2>3
<1>4. CASE SendBye(k)
  <2>1. /\ hpc[k] = "bye" /\ hpc'[k] = "ended" /\ open'[k] = FALSE
        /\ UNCHANGED <<mpc, cursor, round, hround, seen, toAssigner, wpc, wround, crashed>>
        /\ toWorker'[k] = IF Gone(k) THEN toWorker[k] ELSE Append(toWorker[k], Bye)
        /\ Accepted(k)' /\ Assigned(k)'
    BY <1>0, <1>4, <1>20 DEF SendBye, HandlerEnds, Send, Accepted, Assigned
  <2>2. hround[k] + 1 = Rounds /\ round = Rounds
    BY <1>0, <2>1 DEF Place
  <2>3. CASE wpc[k] = "failed"
    BY <1>0, <2>1, <2>3 DEF Link, Place, Wires, Gone
  <2>4. CASE wpc[k] # "failed"
    <3>1. /\ wpc[k] = "ready" /\ wround[k] = Rounds /\ toWorker[k] = <<>>
          /\ toAssigner[k] = <<>>
      BY <1>0, <2>1, <2>2, <2>4 DEF Wires
    <3>2. toWorker'[k] = <<Bye>>
      BY <2>1, <3>1, Tuples DEF Gone
    <3> QED
      BY <1>0, <2>1, <3>1, <3>2 DEF Link, Place, Wires
  <2> QED
    BY <2>3, <2>4
<1> QED
  BY <1>1, <1>2, <1>3, <1>4 DEF HandlerOf

LEMMA WorkerLink ==
  ASSUME BlameInv, Calm, NEW k \in Worker, WorkerOf(k)
  PROVE  Link(k)'
<1>0. /\ Place(k) /\ Wires(k) /\ hround[k] \in 0..Rounds - 1 /\ Rounds \in Nat \ {0}
      /\ wround[k] \in 0..Rounds /\ hpc[k] \in Pcs
      /\ wpc[k] \in {"new", "hello"} => wround[k] = 0
      /\ hpc[k] # "idle" => Accepted(k) /\ Assigned(k)
  BY CalmFacts, StartedIsAssigned, Sizes
<1>20. /\ wround \in [Worker -> 0..Rounds]
      /\ DOMAIN wpc = Worker /\ DOMAIN toWorker = Worker /\ DOMAIN toAssigner = Worker
  BY DEF BlameInv, LifeInv, Counters, WorkersRight, WiresRight
<1> USE DEF mainVars, sharedVars, handlerVars, wireVars, workerVars, faultVars, WorkerGoes
<1>1. UNCHANGED <<mpc, cursor, round, hpc, hround, seen, open>>
  BY DEF WorkerOf, SendHello, ReadAssign, PlayRound, ReadBye, WorkerCrash, WorkerEnds
<1>2. Place(k)' /\ (Accepted(k)' <=> Accepted(k)) /\ (Assigned(k)' <=> Assigned(k))
  BY <1>0, <1>1 DEF Place, Accepted, Assigned
<1>3. CASE SendHello(k)
  <2>1. /\ wpc[k] = "new" /\ wpc'[k] = "hello" /\ UNCHANGED <<wround, toWorker, crashed>>
        /\ toAssigner'[k] = Append(toAssigner[k], Hello)
    BY <1>3, <1>20 DEF SendHello
  <2>2. ~Accepted(k) /\ hpc[k] = "idle" /\ toAssigner[k] = <<>>
    BY <1>0, <2>1 DEF Wires, Pcs, Place
  <2>3. toAssigner'[k] = <<Hello>>
    BY <2>1, <2>2, Tuples
  <2> QED
    BY <1>0, <1>1, <1>2, <2>1, <2>2, <2>3 DEF Link, Wires, Accepted, Assigned
<1>4. CASE ReadAssign(k)
  <2>1. /\ wpc[k] = "hello" /\ wpc'[k] = "ready" /\ UNCHANGED <<wround, toAssigner, crashed>>
        /\ toWorker[k] # <<>> /\ toWorker'[k] = Tail(toWorker[k]) /\ wround[k] = 0
    BY <1>0, <1>4, <1>20 DEF ReadAssign, HasMail
  <2>2. Accepted(k) /\ Assigned(k)
    BY <1>0, <2>1 DEF Wires
  <2>3. CASE hpc[k] \in {"idle", "top"}
    <3>1. hround[k] = 0 /\ toWorker[k] = <<Assign(k)>> /\ toAssigner[k] = <<>>
      BY <1>0, <2>1, <2>2, <2>3 DEF Wires
    <3>2. toWorker'[k] = <<>>
      BY <2>1, <3>1, Tuples
    <3> QED
      BY <1>1, <1>2, <2>1, <2>2, <2>3, <3>1, <3>2 DEF Link, Wires
  <2>4. CASE hpc[k] = "recv"
    <3>1. PICK h : toWorker[k] = <<Assign(k), Request(0, h)>>
      BY <1>0, <2>1, <2>4 DEF Wires
    <3>2. toWorker'[k] = <<Request(0, h)>> /\ hround[k] = 0 /\ toAssigner[k] = <<>>
      BY <1>0, <2>1, <2>4, <3>1, Tuples DEF Wires
    <3> QED
      BY <1>1, <1>2, <2>1, <2>2, <2>4, <3>2 DEF Link, Wires
  <2> QED
    BY <1>0, <2>1, <2>3, <2>4 DEF Wires, Pcs, Place
<1>5. CASE PlayRound(k)
  <2> DEFINE m == Head(toWorker[k])
  <2>1. /\ wpc[k] = "ready" /\ UNCHANGED <<wpc, crashed>> /\ wround'[k] = wround[k] + 1
        /\ toWorker[k] # <<>> /\ toWorker'[k] = Tail(toWorker[k])
        /\ wround[k] < Rounds /\ m.type = "ROUND" /\ m.round = wround[k]
    BY <1>5, <1>20 DEF PlayRound, HasMail, IsRequest
  <2>2. \E rows : toAssigner'[k] = Append(toAssigner[k], Result(wround[k], k, rows))
    BY <1>5, <1>20, PlayedRound DEF BlameInv
  <2>3. hpc[k] = "recv"
    <3>1. hpc[k] # "ended"
      BY <1>0, <2>1, Tuples, Kinds DEF Wires
    <3> QED
      BY <1>0, <2>1, <3>1 DEF Wires, Pcs, Place, Accepted, Assigned
  <2>4. PICK h : /\ wround[k] = hround[k] /\ toAssigner[k] = <<>>
                 /\ toWorker[k] = <<Request(hround[k], h)>>
    BY <1>0, <2>1, <2>3 DEF Wires
  <2>5. toWorker'[k] = <<>> /\ \E rows : toAssigner'[k] = <<Result(hround[k], k, rows)>>
    BY <2>1, <2>2, <2>4, Tuples
  <2>6. Answered(k)' /\ Accepted(k) /\ Assigned(k)
    BY <1>0, <1>1, <2>3, <2>5 DEF Answered
  <2> HIDE DEF m
  <2> QED
    BY <1>1, <1>2, <2>1, <2>3, <2>4, <2>5, <2>6 DEF Link, Wires
<1>6. CASE ReadBye(k)
  <2>1. /\ wpc[k] = "ready" /\ wpc'[k] = "done" /\ UNCHANGED <<wround, toAssigner, crashed>>
        /\ toWorker[k] # <<>> /\ toWorker'[k] = Tail(toWorker[k]) /\ wround[k] = Rounds
    BY <1>6, <1>20 DEF ReadBye, HasMail
  <2>2. hpc[k] = "ended" /\ Accepted(k) /\ Assigned(k)
    BY <1>0, <2>1 DEF Wires, Pcs, Place, Accepted, Assigned
  <2>3. toWorker'[k] = <<>> /\ toAssigner[k] = <<>>
    BY <1>0, <2>1, <2>2, Tuples DEF Wires
  <2> QED
    BY <1>1, <1>2, <2>1, <2>2, <2>3 DEF Link, Wires
<1>7. CASE WorkerCrash(k)
  <2>1. /\ wpc[k] \notin {"done", "failed"} /\ wpc'[k] = "failed" /\ toWorker'[k] = <<>>
        /\ UNCHANGED <<wround, toAssigner>> /\ k \in crashed'
    BY <1>7, <1>20 DEF WorkerCrash, WorkerEnds, Gone
  <2>2. Answered(k)' <=> Answered(k)
    BY <1>1, <2>1 DEF Answered
  <2> QED
    BY <1>0, <1>1, <1>2, <2>1, <2>2 DEF Link, Wires
<1> QED
  BY <1>3, <1>4, <1>5, <1>6, <1>7 DEF WorkerOf

LEMMA LinksApart ==
  ASSUME BlameInv, Calm, NEW k \in Worker, NEW j \in Worker, j # k,
         HandlerOf(j) \/ WorkerOf(j)
  PROVE  Link(k)'
<1>0. /\ Link(k) /\ hpc \in [Worker -> Pcs] /\ open \in [Worker -> BOOLEAN]
      /\ hround \in [Worker -> 0..Rounds - 1] /\ seen \in [Worker -> -1..Rounds - 1]
      /\ wround \in [Worker -> 0..Rounds]
      /\ DOMAIN wpc = Worker /\ DOMAIN toWorker = Worker /\ DOMAIN toAssigner = Worker
  BY DEF BlameInv, Typed, LifeInv, Counters, WorkersRight, WiresRight
<1> USE DEF mainVars, sharedVars, handlerVars, wireVars, workerVars, faultVars, Send, HandlerGoes,
            HandlerEnds, WorkerGoes
<1>1. CASE SendRound(j) /\ round = hround[j]
  BY <1>0, <1>1, LinkKept DEF SendRound
<1>2. CASE TakeResult(j) /\ ResultDue(j)
  BY <1>0, <1>2, LinkKept DEF TakeResult, CountResult
<1>3. CASE Woken(j)
  BY <1>0, <1>3, LinkKept DEF Woken
<1>4. CASE SendBye(j)
  BY <1>0, <1>4, LinkKept DEF SendBye
<1>5. CASE SendHello(j) \/ ReadAssign(j)
  BY <1>0, <1>5, LinkKept DEF SendHello, ReadAssign
<1>6. CASE PlayRound(j)
  BY <1>0, <1>6, LinkKept DEF PlayRound
<1>7. CASE ReadBye(j) \/ WorkerCrash(j)
  BY <1>0, <1>7, LinkKept DEF ReadBye, WorkerCrash, WorkerEnds
<1> QED
  BY <1>1, <1>2, <1>3, <1>4, <1>5, <1>6, <1>7 DEF HandlerOf, WorkerOf

-----------------------------------------------------------------------------
(* Steps of Main *)

(* A snapshot is always the next one due.                                   *)
LEMMA SnapshotInOrder ==
  ASSUME LifeInv, MainOn, mpc = "record", snapshot # <<>>
  PROVE  round = Full * Len(saved)
<1>1. /\ round \in 0..Rounds /\ round > 0 /\ round <= Full * Len(saved)
      /\ Full * (Len(saved) - 1) < round /\ Full \in Nat \ {0} /\ Rounds \in Nat
      /\ Len(saved) \in Nat
  BY SnapshotIsBoard, Sizes DEF MainOn, LifeInv, SavedRight
<1>2. round % Full = 0
  <2>1. (round - 1) + 1 = round
    BY <1>1
  <2> QED
    BY <2>1 DEF LifeInv, SnapshotRight, IsFull
<1> DEFINE q == round \div Full
<1>3. q \in Nat /\ round = Full * q
  BY <1>1, <1>2
<1> HIDE DEF q
<1>4. CASE q < Len(saved)
  <2>1. PICK d \in Nat : Len(saved) - 1 = q + d
    <3>1. Len(saved) - 1 - q \in Nat /\ Len(saved) - 1 = q + (Len(saved) - 1 - q)
      BY <1>1, <1>3, <1>4
    <3> QED
      BY <3>1
  <2>2. Full * (q + d) = Full * q + Full * d /\ Full * d >= 0
    BY <1>1, <1>3
  <2> QED
    BY <1>1, <1>3, <2>1, <2>2
<1>5. CASE q > Len(saved)
  <2>1. PICK d \in Nat : q = Len(saved) + 1 + d
    <3>1. q - Len(saved) - 1 \in Nat /\ q = Len(saved) + 1 + (q - Len(saved) - 1)
      BY <1>1, <1>3, <1>5
    <3> QED
      BY <3>1
  <2>2. Full * (Len(saved) + 1 + d) = Full * Len(saved) + Full + Full * d /\ Full * d >= 0
    BY <1>1
  <2> QED
    BY <1>1, <1>3, <2>1, <2>2
<1> QED
  BY <1>1, <1>3, <1>4, <1>5

LEMMA AcceptLink ==
  ASSUME BlameInv, Calm, AcceptWorker
  PROVE  MainOn' /\ \A k \in Worker : Link(k)'
<1>1. /\ mpc = "accept" /\ cursor \in Worker /\ HasAnswer(cursor)
      /\ toAssigner' = [toAssigner EXCEPT ![cursor] = Tail(@)]
      /\ open' = [open EXCEPT ![cursor] = TRUE]
      /\ UNCHANGED <<round, hpc, hround, seen, toWorker, wpc, wround, crashed, saved>>
  BY DEF AcceptWorker, BlameInv, MainOn, sharedVars, handlerVars, workerVars, faultVars
<1>2. /\ cursor \in Nat /\ N \in Nat /\ 0 \in Worker /\ Worker = 0..N - 1
      /\ DOMAIN toAssigner = Worker /\ open \in [Worker -> BOOLEAN]
  BY <1>1, Sizes DEF Worker, BlameInv, Typed, LifeInv, WiresRight
<1>3. \/ mpc' = "accept" /\ cursor' = cursor + 1 /\ cursor + 1 < N
      \/ mpc' = "assign" /\ cursor' = 0 /\ cursor = N - 1
  BY <1>1, <1>2 DEF AcceptWorker
<1>4. MainOn'
  BY <1>2, <1>3 DEF MainOn
<1>5. ASSUME NEW k \in Worker
      PROVE  Link(k)'
  <2>1. Place(k) /\ Wires(k) /\ hpc[k] = "idle" /\ k \in Nat /\ k < N
    BY <1>1, CalmFacts, Sizes
  <2>2. (Accepted(k)' <=> Accepted(k) \/ k = cursor) /\ ~Assigned(k) /\ ~Assigned(k)'
    BY <1>1, <1>2, <1>3, <2>1 DEF Accepted, Assigned
  <2>3. Place(k)'
    BY <1>1, <1>2, <1>3, <2>1, <2>2 DEF Place
  <2>4. CASE k = cursor
    <3>1. ~Accepted(k) /\ toAssigner[k] = <<Hello>> /\ wpc[k] \in {"hello", "failed"}
      BY <1>1, <2>1, <2>4 DEF Accepted, Wires, HasAnswer
    <3>2. toAssigner'[k] = <<>>
      BY <1>1, <1>2, <2>4, <3>1, Tuples
    <3> QED
      BY <1>1, <2>1, <2>2, <2>3, <2>4, <3>1, <3>2 DEF Link, Wires
  <2>5. CASE k # cursor
    <3>1. toAssigner'[k] = toAssigner[k]
      BY <1>1, <1>2, <2>5
    <3> QED
      BY <1>1, <2>1, <2>2, <2>3, <2>5, <3>1 DEF Link, Wires
  <2> QED
    BY <2>4, <2>5
<1> QED
  BY <1>4, <1>5

LEMMA AssignLink ==
  ASSUME BlameInv, Calm, SendAssign
  PROVE  MainOn' /\ \A k \in Worker : Link(k)'
<1>1. /\ mpc = "assign" /\ cursor \in Worker
      /\ toWorker' = [toWorker EXCEPT ![cursor] = IF Gone(cursor) THEN @ ELSE Append(@, Assign(cursor))]
      /\ UNCHANGED <<round, hpc, hround, seen, open, toAssigner, wpc, wround, crashed, saved>>
  BY DEF SendAssign, Send, BlameInv, MainOn, sharedVars, handlerVars, workerVars, faultVars
<1>2. /\ cursor \in Nat /\ N \in Nat /\ 0 \in Worker /\ Worker = 0..N - 1
      /\ DOMAIN toWorker = Worker
  BY <1>1, Sizes DEF Worker, BlameInv, LifeInv, WiresRight
<1>3. \/ mpc' = "assign" /\ cursor' = cursor + 1 /\ cursor + 1 < N
      \/ mpc' = "initial" /\ cursor' = 0 /\ cursor = N - 1
  BY <1>1, <1>2 DEF SendAssign
<1>4. MainOn'
  BY <1>2, <1>3 DEF MainOn
<1>5. ASSUME NEW k \in Worker
      PROVE  Link(k)'
  <2>1. Place(k) /\ Wires(k) /\ hpc[k] = "idle" /\ k \in Nat /\ k < N
    BY <1>1, CalmFacts, Sizes
  <2>2. Accepted(k) /\ Accepted(k)' /\ (Assigned(k)' <=> Assigned(k) \/ k = cursor)
    BY <1>1, <1>2, <1>3, <2>1 DEF Accepted, Assigned
  <2>3. Place(k)'
    BY <1>1, <1>2, <1>3, <2>1, <2>2 DEF Place
  <2>4. CASE k = cursor
    <3>1. /\ ~Assigned(k) /\ toWorker[k] = <<>> /\ toAssigner[k] = <<>>
          /\ wpc[k] \in {"hello", "failed"} /\ hround[k] = 0
      BY <1>1, <2>1, <2>2, <2>4 DEF Assigned, Wires, Place
    <3>2. toWorker'[k] = IF wpc[k] = "failed" THEN <<>> ELSE <<Assign(k)>>
      BY <1>1, <1>2, <2>4, <3>1, Tuples DEF Gone
    <3> QED
      BY <1>1, <2>1, <2>2, <2>3, <2>4, <3>1, <3>2 DEF Link, Wires
  <2>5. CASE k # cursor
    <3>1. toWorker'[k] = toWorker[k]
      BY <1>1, <1>2, <2>5
    <3> QED
      BY <1>1, <2>1, <2>2, <2>3, <2>5, <3>1 DEF Link, Wires
  <2> QED
    BY <2>4, <2>5
<1> QED
  BY <1>4, <1>5

LEMMA BeginLink ==
  ASSUME BlameInv, Calm, SaveInitial \/ StartThread
  PROVE  MainOn' /\ \A k \in Worker : Link(k)'
<1>0. /\ MainOn /\ hpc \in [Worker -> Pcs] /\ N \in Nat \ {0} /\ Worker = 0..N - 1
      /\ Full \in Nat \ {0} /\ round \in 0..Rounds
      /\ \A k \in Worker : Place(k) /\ Wires(k) /\ k \in Nat
  BY CalmFacts, Sizes DEF Worker, BlameInv, Typed, LifeInv, Counters
<1>1. CASE SaveInitial
  <2>1. /\ mpc = "initial" /\ mpc' = "start" /\ Len(saved') = 1 /\ cursor = 0
        /\ UNCHANGED <<cursor, round, hpc, hround, seen, open, toWorker, toAssigner, wpc, wround,
                       crashed>>
    BY <1>0, <1>1 DEF SaveInitial, MainOn, sharedVars, handlerVars, wireVars, workerVars, faultVars
  <2>2. MainOn'
    BY <1>0, <2>1 DEF MainOn
  <2>3. ASSUME NEW k \in Worker
        PROVE  Link(k)'
    BY <1>0, <2>1 DEF Link, Place, Wires, Answered, Accepted, Assigned
  <2> QED
    BY <2>2, <2>3
<1>2. CASE StartThread
  <2>1. /\ mpc = "start" /\ cursor \in Worker /\ hpc' = [hpc EXCEPT ![cursor] = "top"]
        /\ cursor' = cursor + 1 /\ mpc' = IF cursor + 1 = N THEN "barrier" ELSE "start"
        /\ UNCHANGED <<round, saved, hround, seen, open, toWorker, toAssigner, wpc, wround, crashed>>
    BY <1>0, <1>2 DEF StartThread, MainOn, sharedVars, wireVars, workerVars, faultVars
  <2>2. MainOn'
    BY <1>0, <2>1 DEF MainOn
  <2>3. ASSUME NEW k \in Worker
        PROVE  Link(k)'
    <3>1. Accepted(k) /\ Assigned(k) /\ Accepted(k)' /\ Assigned(k)' /\ (Answered(k)' <=> Answered(k))
      BY <2>1 DEF Accepted, Assigned, Answered
    <3>2. CASE k = cursor
      <4>1. hpc[k] = "idle" /\ hpc'[k] = "top" /\ cursor' > k /\ round = 0 /\ seen[k] = -1
        BY <1>0, <2>1, <3>2 DEF Place
      <4> QED
        BY <1>0, <2>1, <3>1, <4>1 DEF Link, Place, Wires
    <3>3. CASE k # cursor
      <4>1. hpc'[k] = hpc[k] /\ (cursor' <= k <=> cursor <= k)
        BY <1>0, <2>1, <3>3
      <4>2. cursor + 1 = N => k < cursor
        BY <1>0, <2>1, <3>3
      <4>3. Place(k)'
        BY <1>0, <2>1, <3>1, <4>1, <4>2 DEF Place
      <4> QED
        BY <1>0, <2>1, <3>1, <4>1, <4>3 DEF Link, Wires
    <3> QED
      BY <3>2, <3>3
  <2> QED
    BY <2>2, <2>3
<1> QED
  BY <1>1, <1>2

LEMMA BarrierLink ==
  ASSUME BlameInv, Calm, WaitForResults \/ Release
  PROVE  MainOn' /\ \A k \in Worker : Link(k)'
<1>0. /\ MainOn /\ Full \in Nat \ {0} /\ round \in 0..Rounds /\ Len(saved) \in Nat
      /\ \A k \in Worker : /\ Link(k) /\ Place(k) /\ Wires(k) /\ hpc[k] \in Pcs
                           /\ hround[k] \in 0..Rounds - 1
  BY CalmFacts, Sizes DEF BlameInv, LifeInv, Counters, SavedRight
<1>1. CASE WaitForResults
  <2>1. UNCHANGED <<mpc, cursor, saved, round, hpc, hround, seen, open, toWorker, toAssigner, wpc,
                    wround, crashed>>
    BY <1>1 DEF WaitForResults, mainVars, handlerVars, wireVars, workerVars, faultVars
  <2> QED
    BY <1>0, <2>1, LinkKept DEF MainOn
<1>2. CASE Release
  <2>1. \A k \in Worker : seen[k] = round
    BY <1>2, AllArrived DEF Release, BlameInv, LifeInv
  <2>2. /\ mpc = "barrier" /\ mpc' = "record" /\ round' = round + 1
        /\ hpc' = [k \in Worker |-> IF hpc[k] = "waiting" THEN "woken" ELSE hpc[k]]
        /\ UNCHANGED <<cursor, saved, hround, seen, open, toWorker, toAssigner, wpc, wround, crashed>>
    BY <1>2 DEF Release, wireVars, workerVars, faultVars
  <2>3. MainOn'
    BY <1>0, <2>2 DEF MainOn
  <2>4. ASSUME NEW k \in Worker
        PROVE  Link(k)'
    <3>1. hpc[k] = "waiting"
      BY <1>0, <2>1, <2>2 DEF Place, Pcs
    <3>2. hpc'[k] = "woken" /\ Accepted(k) /\ Assigned(k) /\ Accepted(k)' /\ Assigned(k)'
      BY <2>2, <3>1 DEF Accepted, Assigned
    <3> QED
      BY <1>0, <2>1, <2>2, <3>1, <3>2 DEF Link, Place, Wires
  <2> QED
    BY <2>3, <2>4
<1> QED
  BY <1>1, <1>2

LEMMA EndLink ==
  ASSUME BlameInv, Calm, (Record /\ Calm') \/ MainJoins
  PROVE  MainOn' /\ \A k \in Worker : Link(k)'
<1>0. /\ MainOn /\ Full \in Nat \ {0} /\ round \in 0..Rounds /\ Len(saved) \in Nat
      /\ \A k \in Worker : Link(k) /\ Place(k) /\ Wires(k) /\ hpc[k] \in Pcs
  BY CalmFacts, Sizes DEF BlameInv, LifeInv, Counters, SavedRight
<1>1. CASE Record /\ Calm'
  <2>1. ~MainRaises
    BY <1>1, Sizes DEF Calm, MainRaises, MarkError
  <2>2. /\ mpc = "record" /\ mpc' \in {"barrier", "join"}
        /\ UNCHANGED <<cursor, round, hpc, hround, seen, open, toWorker, toAssigner, wpc, wround,
                       crashed>>
        /\ saved' = IF snapshot = <<>> THEN saved
                    ELSE Append(saved, [state |-> round, rows |-> snapshot])
    BY <1>1, <2>1 DEF Record, sharedVars, handlerVars, wireVars, workerVars, faultVars
  <2>3. Full * (Len(saved') - 1) <= round
    <3>1. CASE snapshot = <<>>
      BY <1>0, <2>2, <3>1 DEF MainOn
    <3>2. CASE snapshot # <<>>
      <4>1. Len(saved') = Len(saved) + 1
        BY <2>2, <3>2 DEF BlameInv, LifeInv, SavedRight
      <4>2. round = Full * Len(saved)
        BY <1>0, <2>2, <3>2, SnapshotInOrder DEF BlameInv
      <4>3. Len(saved') - 1 = Len(saved)
        BY <1>0, <4>1
      <4> QED
        BY <1>0, <4>2, <4>3
    <3> QED
      BY <3>1, <3>2
  <2>4. MainOn'
    BY <2>2, <2>3 DEF MainOn
  <2>5. \A k \in Worker : Link(k)'
    BY <1>0, <2>2, LinkKept DEF Running
  <2> QED
    BY <2>4, <2>5
<1>2. CASE MainJoins
  <2>1. /\ mpc = "join" /\ mpc' = "ended" /\ open' = [k \in Worker |-> FALSE]
        /\ \A k \in Worker : hpc[k] \in {"idle", "ended"}
        /\ UNCHANGED <<cursor, saved, round, hpc, hround, seen, toWorker, toAssigner, wpc, wround,
                       crashed>>
    BY <1>2 DEF MainJoins, CloseAll, sharedVars, handlerVars, workerVars, faultVars
  <2>2. MainOn'
    BY <1>0, <2>1 DEF MainOn
  <2>3. ASSUME NEW k \in Worker
        PROVE  Link(k)'
    <3>1. hpc[k] = "ended"
      BY <1>0, <2>1 DEF Place
    <3>2. Accepted(k) /\ Assigned(k) /\ Accepted(k)' /\ Assigned(k)'
      BY <2>1 DEF Accepted, Assigned
    <3> QED
      BY <1>0, <2>1, <3>1, <3>2 DEF Link, Place, Wires
  <2> QED
    BY <2>2, <2>3
<1> QED
  BY <1>1, <1>2

-----------------------------------------------------------------------------
(* Who is blamed *)

LEMMA ErrorChanges ==
  ASSUME [Next]_vars
  PROVE  \/ UNCHANGED error
         \/ StartupFails \/ (Record /\ MainRaises) \/ BarrierTimeout \/ MainBreaks
         \/ \E k \in Worker : HandlerStep(k) /\ HandlerRaises(k)
<1> USE DEF mainVars, sharedVars, handlerVars, wireVars, workerVars, faultVars
<1>1. CASE MainStep
  BY <1>1 DEF MainStep, AcceptWorker, SendAssign, SaveInitial, StartThread, LeaveBarrier,
     WaitForResults, Release, Record, MainCloses, MainJoins
<1>2. ASSUME NEW k \in Worker, HandlerStep(k)
      PROVE  UNCHANGED error \/ HandlerRaises(k)
  BY <1>2 DEF HandlerStep, HandlerReturns, SendRound, TakeResult, CountResult, Woken, SendBye,
     ConnectionLost, ConnectionClosed, HandlerTimeout, HandlerCloses
<1>3. ASSUME NEW k \in Worker, WorkerStep(k) \/ WorkerTimeout(k) \/ WorkerCrash(k)
      PROVE  UNCHANGED error
  BY <1>3 DEF WorkerStep, SendHello, ReadAssign, PlayRound, ReadBye, WorkerFails, WorkerTimeout,
     WorkerCrash, WorkerEnds
<1>4. CASE \E k \in Worker \cup {Main} : BecomeSlow(k)
  BY <1>4 DEF BecomeSlow
<1> QED
  BY <1>1, <1>2, <1>3, <1>4 DEF Next, vars

(* What has failed stays failed.                                            *)
LEMMA FaultsGrow ==
  ASSUME [Next]_vars
  PROVE  /\ crashed \subseteq crashed' /\ slow \subseteq slow'
         /\ mainFailed => mainFailed'
<1> USE DEF mainVars, sharedVars, handlerVars, wireVars, workerVars, faultVars
<1>1. CASE MainStep
  BY <1>1 DEF MainStep, AcceptWorker, SendAssign, StartupFails, SaveInitial, StartThread,
     LeaveBarrier, WaitForResults, Release, Record, BarrierTimeout, MainCloses, MainJoins
<1>2. ASSUME NEW k \in Worker, HandlerStep(k)
      PROVE  UNCHANGED <<crashed, slow, mainFailed>>
  BY <1>2 DEF HandlerStep, HandlerReturns, SendRound, TakeResult, CountResult, Woken, SendBye,
     ConnectionLost, ConnectionClosed, HandlerTimeout, HandlerCloses, HandlerRaises
<1>3. ASSUME NEW k \in Worker, WorkerStep(k) \/ WorkerTimeout(k) \/ WorkerCrash(k)
      PROVE  crashed \subseteq crashed' /\ UNCHANGED <<slow, mainFailed>>
  BY <1>3 DEF WorkerStep, SendHello, ReadAssign, PlayRound, ReadBye, WorkerFails, WorkerTimeout,
     WorkerCrash
<1>4. CASE MainBreaks \/ \E k \in Worker \cup {Main} : BecomeSlow(k)
  BY <1>4 DEF MainBreaks, BecomeSlow
<1> QED
  BY <1>1, <1>2, <1>3, <1>4 DEF Next, vars

(* Nothing raises an error before the first round but a failed start.       *)
LEMMA QuietStart ==
  ASSUME BlameInv, [Next]_vars, mpc' \in {"accept", "assign", "initial"}
  PROVE  error' = NoError
<1>1. mpc \in {"accept", "assign", "initial"}
  <2>1. ASSUME MainStep
        PROVE  mpc \in {"accept", "assign", "initial"}
    <3>1. CASE AcceptWorker \/ SendAssign
      BY <3>1 DEF AcceptWorker, SendAssign
    <3>2. CASE StartupFails \/ SaveInitial \/ StartThread
      BY <3>2 DEF StartupFails, SaveInitial, StartThread, MainRaises
    <3>3. CASE LeaveBarrier \/ Release \/ Record
      BY <3>3 DEF LeaveBarrier, Release, Record, MainRaises
    <3>4. CASE WaitForResults
      BY <3>4 DEF WaitForResults, mainVars
    <3>5. CASE BarrierTimeout \/ MainCloses \/ MainJoins
      BY <3>5 DEF BarrierTimeout, MainCloses, MainJoins, MainRaises
    <3> QED
      BY <2>1, <3>1, <3>2, <3>3, <3>4, <3>5 DEF MainStep
  <2>2. ~MainBreaks
    BY DEF MainBreaks, MainRaises
  <2> QED
    BY <2>1, <2>2, MainChanges
<1>2. error = NoError /\ \A k \in Worker : hpc[k] = "idle"
  BY <1>1 DEF BlameInv, ErrorKnown, LifeInv, BeforeRounds
<1>3. ~StartupFails /\ ~MainRaises /\ ~BarrierTimeout /\ ~MainBreaks
  BY DEF StartupFails, MainRaises, BarrierTimeout, MainBreaks
<1>4. \A k \in Worker : ~HandlerStep(k)
  BY <1>2 DEF HandlerStep, HandlerReturns, SendRound, TakeResult, Woken, SendBye,
     ConnectionLost, ConnectionClosed, HandlerTimeout, HandlerCloses
<1> QED
  BY <1>2, <1>3, <1>4, ErrorChanges

LEMMA ErrorStep ==
  ASSUME BlameInv, [Next]_vars
  PROVE  ErrorKnown'
<1> SUFFICES ASSUME error' # NoError, slow' = {}
             PROVE  \/ error' = Main /\ mainFailed'
                    \/ error' = Main /\ mpc' = "ended" /\ saved' = <<>> /\ crashed' # {}
                    \/ error' \in Worker /\ error' \in crashed'
  BY QuietStart DEF ErrorKnown
<1>0. /\ crashed \subseteq crashed' /\ (mainFailed => mainFailed') /\ slow = {}
      /\ Main # NoError
  BY FaultsGrow, Sizes
<1>1. CASE error # NoError
  <2>1. error' = error
    <3>1. ~StartupFails
      BY <1>1 DEF StartupFails, BlameInv, ErrorKnown
    <3>2. (\E k \in Worker : HandlerRaises(k)) \/ MainRaises => error' = error
      BY <1>1 DEF HandlerRaises, MainRaises, MarkError
    <3>3. BarrierTimeout \/ MainBreaks => MainRaises
      BY DEF BarrierTimeout, MainBreaks
    <3> QED
      BY <3>1, <3>2, <3>3, ErrorChanges
  <2>2. mpc = "ended" => UNCHANGED <<mpc, saved>>
    <3>1. mpc = "ended" => ~MainStep /\ ~MainBreaks
      BY DEF MainStep, AcceptWorker, SendAssign, StartupFails, SaveInitial, StartThread,
         LeaveBarrier, WaitForResults, Release, Record, BarrierTimeout, MainCloses, MainJoins,
         MainBreaks
    <3> QED
      BY <3>1, MainChanges
  <2> QED
    BY <1>0, <1>1, <2>1, <2>2 DEF BlameInv, ErrorKnown
<1>2. CASE error = NoError
  <2>0. Calm /\ error' # error
    BY <1>0, <1>2 DEF Calm
  <2>1. CASE StartupFails
    <3>1. /\ mpc \in {"accept", "assign"} /\ Gone(cursor) /\ cursor \in Worker
          /\ error' = Main /\ mpc' = "ended" /\ UNCHANGED saved
      BY <1>0, <2>0, <2>1 DEF StartupFails, BlameInv, MainOn
    <3>2. saved = <<>> /\ hpc[cursor] = "idle"
      BY <3>1 DEF BlameInv, LifeInv, BeforeRounds
    <3>3. cursor \in crashed
      BY <2>0, <3>1, <3>2, GoneCrashed
    <3> QED
      BY <1>0, <3>1, <3>2, <3>3
  <2>2. ~(Record /\ MainRaises)
    <3> SUFFICES ASSUME Record, MainRaises PROVE FALSE
      OBVIOUS
    <3>1. mpc = "record" /\ mpc' = "closing"
      BY DEF Record, MainRaises
    <3>2. snapshot # <<>> /\ round # Full * Len(saved)
      BY <3>1 DEF Record
    <3> QED
      BY <2>0, <3>1, <3>2, SnapshotInOrder DEF BlameInv
  <2>3. ~BarrierTimeout
    BY <1>0 DEF BarrierTimeout
  <2>4. CASE MainBreaks
    BY <1>2, <2>4 DEF MainBreaks, MainRaises, MarkError
  <2>5. ASSUME NEW k \in Worker, HandlerStep(k), HandlerRaises(k)
        PROVE  error' = k /\ k \in crashed
    <3>1. error' = k
      BY <1>2, <2>5 DEF HandlerRaises, MarkError
    <3>2. ~HandlerReturns(k) /\ ~HandlerTimeout(k)
      BY <1>0, <1>2 DEF HandlerReturns, HandlerTimeout
    <3>3. ~SendRound(k) /\ ~TakeResult(k)
      <4>1. hpc[k] = "top" => round = hround[k]
        BY <2>0, CalmFacts DEF Place
      <4>2. hpc[k] = "recv" /\ HasAnswer(k) => ResultDue(k)
        BY <2>0, ResultIsDue
      <4>3. SendRound(k) => UNCHANGED error
        BY <4>1 DEF SendRound, sharedVars
      <4>4. TakeResult(k) => UNCHANGED error
        BY <4>2 DEF TakeResult, CountResult
      <4> QED
        BY <2>0, <4>3, <4>4
    <3>4. ~Woken(k) /\ ~SendBye(k) /\ ~ConnectionClosed(k) /\ ~HandlerCloses(k)
      BY <2>0 DEF Woken, SendBye, ConnectionClosed, HandlerCloses, sharedVars
    <3>5. ConnectionLost(k)
      BY <2>5, <3>2, <3>3, <3>4 DEF HandlerStep
    <3>6. Gone(k) /\ hpc[k] # "ended"
      BY <3>5 DEF ConnectionLost
    <3> QED
      BY <2>0, <3>1, <3>6, GoneCrashed
  <2> QED
    BY <1>0, <2>0, <2>1, <2>2, <2>3, <2>4, <2>5, ErrorChanges
<1> QED
  BY <1>1, <1>2

-----------------------------------------------------------------------------
LEMMA BlameInit == Init => BlameInv
<1> SUFFICES ASSUME Init PROVE BlameInv
  OBVIOUS
<1>1. Typed /\ ErrorKnown
  BY DEF Init, Typed, Pcs, ErrorKnown
<1>2. MainOn
  BY Sizes DEF Init, MainOn, Worker
<1>3. ASSUME NEW k \in Worker
      PROVE  Link(k)
  <2>1. ~Accepted(k) /\ ~Assigned(k)
    BY Sizes DEF Init, Accepted, Assigned
  <2> QED
    BY <2>1 DEF Init, Link, Place, Wires
<1> QED
  BY <1>1, <1>2, <1>3, LifeInit DEF BlameInv

LEMMA LinksStep ==
  ASSUME BlameInv, [Next]_vars, Calm'
  PROVE  MainOn' /\ \A k \in Worker : Link(k)'
<1>0. Calm /\ MainOn /\ \A k \in Worker : Link(k)
  BY CalmBefore DEF BlameInv
<1>1. CASE UNCHANGED vars
  <2>1. UNCHANGED <<mpc, cursor, saved, round, hpc, hround, seen, open, toWorker, toAssigner, wpc,
                    wround, crashed>>
    BY <1>1 DEF vars, mainVars, sharedVars, handlerVars, wireVars, workerVars, faultVars
  <2> QED
    BY <1>0, <2>1, LinkKept DEF MainOn
<1>2. CASE MainOf
  BY <1>0, <1>2, AcceptLink, AssignLink, BeginLink, BarrierLink, EndLink DEF MainOf
<1>3. ASSUME NEW j \in Worker, HandlerOf(j) \/ WorkerOf(j)
      PROVE  MainOn' /\ \A k \in Worker : Link(k)'
  <2>1. UNCHANGED <<mpc, cursor, saved, round>>
    BY <1>3 DEF HandlerOf, WorkerOf, SendRound, HandlerRaises, TakeResult, CountResult, Woken, SendBye,
       SendHello, ReadAssign, PlayRound, ReadBye, WorkerCrash, WorkerEnds, mainVars, sharedVars
  <2>2. MainOn'
    BY <1>0, <2>1 DEF MainOn
  <2>3. \A k \in Worker : Link(k)'
    BY <1>0, <1>3, HandlerLink, WorkerLink, LinksApart
  <2> QED
    BY <2>2, <2>3
<1> QED
  BY <1>1, <1>2, <1>3, CalmSteps

LEMMA LifeStep ==
  ASSUME LifeInv, [Next]_vars
  PROVE  LifeInv'
BY CountersInv, WorkersInv, MailRight, AnswersRight, BeforeRoundsInv, SnapshotInv, SavedInv
   DEF LifeInv, WiresRight

(* The error that run_rounds raises names a worker that died, or Main after *)
(* a failure of its own or of a worker that died before the first round:    *)
(* the threads raise none against each other (barrier.py, server.py).       *)
THEOREM Blame == Spec => []RightBlame
<1>1. BlameInv /\ [Next]_vars => BlameInv'
  BY LifeStep, TypedStep, ErrorStep, LinksStep DEF BlameInv
<1>2. BlameInv => RightBlame
  BY Sizes DEF BlameInv, ErrorKnown, RightBlame
<1> QED
  BY BlameInit, <1>1, <1>2, PTL DEF Spec

-----------------------------------------------------------------------------
(* The types.  Every board of the reference consists of characters; each   *)
(* wire carries one message at a time, and at most two to a worker: its    *)
(* band with the first request, or with a BYE after an early end.          *)

(* A set of numbers has a least one. *)
LEMMA LeastNumber ==
  ASSUME NEW T, T \subseteq Nat, T # {}
  PROVE  \E n \in T : \A m \in T : n <= m
<1>1. PICK n \in T : \A m \in T : <<m, n>> \notin OpToRel(<, Nat)
  BY NatLessThanWellFounded, WFMin, Zenon
<1>2. \A m \in T : ~(m < n)
  BY <1>1 DEF OpToRel
<1> QED
  BY <1>2

(* Each rule makes a character of characters. *)
LEMMA CellTyped ==
  ASSUME NEW r \in Nat, NEW p \in [Offsets -> Char]
  PROVE  Cell(r, p) \in Char
<1>1. Self \in Offsets /\ Around \subseteq Offsets /\ Beside \subseteq Offsets
  BY DEF Self, Around, Beside, Offsets
<1>2. p[Self] \in Char /\ Space \in Char /\ At \in Char /\ Plus \in Char /\ Char \subseteq Nat
  BY <1>1 DEF Char, Space, At, Plus
<1>3. Rule1Cell(p) \in Char
  <2> DEFINE parents == {o \in Around : p[o] # Space}
             colours == {p[o] : o \in parents}
             Shared(c) == Cardinality({o \in parents : p[o] = c}) >= 2
             heir == IF \E c \in colours : Shared(c) THEN CHOOSE c \in colours : Shared(c)
                     ELSE CHOOSE c \in colours : \A d \in colours : c <= d
  <2>1. colours \subseteq Char
    BY <1>1
  <2>2. ASSUME Cardinality(parents) = 3
        PROVE  heir \in Char
    <3>1. parents # {}
      BY <2>2, FS_EmptySet
    <3>2. colours # {} /\ colours \subseteq Nat
      BY <1>2, <2>1, <3>1
    <3>3. \E c \in colours : \A d \in colours : c <= d
      BY <3>2, LeastNumber
    <3> HIDE DEF colours, Shared
    <3> QED
      BY <2>1, <3>3
  <2>3. Rule1Cell(p) = IF p[Self] # Space
                       THEN IF Cardinality(parents) \in {2, 3} THEN p[Self] ELSE Space
                       ELSE IF Cardinality(parents) # 3 THEN Space ELSE heir
    BY DEF Rule1Cell
  <2> HIDE DEF parents, heir
  <2> QED
    BY <1>2, <2>2, <2>3
<1>4. Rule2Cell(p) \in Char
  BY <1>2 DEF Rule2Cell
<1>5. Rule3Cell(p) \in Char
  BY <1>1, <1>2 DEF Rule3Cell
<1> QED
  BY <1>3, <1>4, <1>5 DEF Cell

(* A window of characters stays one when it is repainted or converted. *)
Windows(h) == [0..h + 1 -> Row]

LEMMA PreparedTyped ==
  ASSUME NEW r \in Nat, NEW h \in Nat, NEW w \in Windows(h), NEW y0 \in Nat, h = Height - y0
  PROVE  Prepared(r, w, y0, Height) \in Windows(h)
<1>0. Height \in Nat \ {0} /\ Width \in Nat \ {0} /\ Team \in Nat
  BY SizesAreNat, LifeAssumption
<1>1. Space \in Char /\ At \in Char /\ \A j \in 1..10 : Ramp[j] \in Char
  BY DEF Char, Space, At, Ramp
<1>2. \A i \in 0..h + 1, x \in 0..Width - 1 : w[i][x] \in Char
  BY DEF Windows, Row
<1>3. ASSUME NEW n \in {1, 2}
      PROVE  Repaint(w, Slice(Canvas[n], y0, Height)) \in Windows(h)
  <2> DEFINE c == Slice(Canvas[n], y0, Height)
  <2>1. ASSUME NEW i \in 0..h + 1, NEW x \in 0..Width - 1
        PROVE  c[i][x] \in Char
    <3>1. (y0 - 1 + i) % Height \in 0..Height - 1
      BY <1>0
    <3>2. Canvas[n] \in [0..Height - 1 -> Row]
      BY CanvasAssumption DEF Picture
    <3> QED
      BY <3>1, <3>2 DEF Slice, Row
  <2> HIDE DEF c
  <2>2. Repaint(w, c) = [i \in 0..h + 1 |-> [x \in 0..Width - 1 |->
          IF c[i][x] \in {Space, Dot} THEN w[i][x] ELSE c[i][x]]]
    BY DEF Repaint, Windows
  <2>3. Repaint(w, c) \in Windows(h)
    BY <1>2, <2>1, <2>2 DEF Windows, Row
  <2> QED
    BY <2>3 DEF c
<1>4. ASSUME NEW v \in Windows(h)
      PROVE  ToBrian(v) \in Windows(h)
  BY <1>1 DEF ToBrian, Windows, Row
<1>5. ASSUME NEW v \in Windows(h), NEW ytop \in Nat
      PROVE  ToCyclic(v, ytop) \in Windows(h)
  <2>1. ASSUME NEW x \in 0..Width - 1, NEW y \in 0..Height - 1
        PROVE  Brightness(x, y) \in Char
    <3>1. (x * y) % 11 \in Nat
      <4>1. x * y \in Nat
        BY <1>0
      <4> QED
        BY <4>1
    <3>2. 7 * x + 3 * y + ((x * y) % 11) + Team \in Nat
      BY <1>0, <3>1
    <3>3. ((7 * x + 3 * y + ((x * y) % 11) + Team) % 10) + 1 \in 1..10
      BY <3>2
    <3> QED
      BY <1>1, <3>3 DEF Brightness
  <2>2. \A i \in 0..h + 1 : (ytop + i) % Height \in 0..Height - 1
    BY <1>0
  <2>3. \A i \in 0..h + 1, x \in 0..Width - 1 : v[i][x] \in Char
    BY DEF Windows, Row
  <2> QED
    BY <2>1, <2>2, <2>3 DEF ToCyclic, Windows, Row
<1>6. (y0 - 1) % Height \in Nat
  BY <1>0
<1> QED
  BY <1>3, <1>4, <1>5, <1>6 DEF Prepared

LEMMA WholeTyped ==
  ASSUME NEW r \in Nat, NEW P \in Picture
  PROVE  WholeStep(r, P) \in Picture
<1> DEFINE w == Window(Band(P, 0, Height), Height - 0, P[Height - 1], P[0])
           v == Prepared(r, w, 0, Height)
<1>0. Height \in Nat \ {0} /\ Width \in Nat \ {0} /\ Height - 0 = Height
  BY SizesAreNat, LifeAssumption
<1>1. w \in Windows(Height)
  <2>1. \A i \in 1..Height : 0 - 1 + i \in 0..Height - 1
    BY <1>0
  <2>2. \A i \in 1..Height - 0 : Band(P, 0, Height)[i] \in Row
    BY <1>0, <2>1 DEF Band, Picture
  <2>3. P[Height - 1] \in Row /\ P[0] \in Row
    BY <1>0 DEF Picture
  <2> QED
    BY <1>0, <2>2, <2>3 DEF Window, Windows
<1> HIDE DEF w
<1>2. v \in Windows(Height)
  BY <1>0, <1>1, PreparedTyped
<1> HIDE DEF v
<1>3. ASSUME NEW i \in 1..Height - 0, NEW x \in 0..Width - 1
      PROVE  Cell(r, Patch(v, i, x)) \in Char
  <2>1. ASSUME NEW o \in Offsets
        PROVE  v[i + o[1]][(x + o[2]) % Width] \in Char
    <3>1. o[1] \in {-1, 0, 1} /\ o[2] \in {-1, 0, 1}
      BY DEF Offsets
    <3>2. i + o[1] \in 0..Height + 1 /\ (x + o[2]) % Width \in 0..Width - 1
      BY <1>0, <3>1
    <3> QED
      BY <1>2, <3>2 DEF Windows, Row
  <2>2. Patch(v, i, x) \in [Offsets -> Char]
    BY <2>1 DEF Patch
  <2> QED
    BY <2>2, CellTyped
<1>4. WholeStep(r, P) = [y \in 0..Height - 1 |->
        [i \in 1..Height - 0 |-> [x \in 0..Width - 1 |-> Cell(r, Patch(v, i, x))]][y + 1]]
  BY DEF WholeStep, BoardStep, w, v
<1>5. \A y \in 0..Height - 1 : y + 1 \in 1..Height - 0
  BY <1>0
<1> QED
  BY <1>3, <1>4, <1>5 DEF Picture, Row

(* By induction: there is no first board with anything but characters. *)
LEMMA BoardsTyped ==
  \A s \in 0..Rounds : History[s] \in Picture
<1> DEFINE bad == {s \in 0..Rounds : History[s] \notin Picture}
<1> SUFFICES ASSUME bad # {} PROVE FALSE
  OBVIOUS
<1>0. Rounds \in Nat /\ bad \subseteq Nat
  BY SizesAreNat
<1>1. PICK s \in bad : \A t \in bad : s <= t
  BY <1>0, LeastNumber
<1>2. s # 0
  <2>1. History[0] \in Picture
    BY HistoryAssumption, CanvasAssumption
  <2> QED
    BY <1>1, <2>1
<1>3. s - 1 \in 0..Rounds - 1 /\ s - 1 \in 0..Rounds /\ s - 1 \in Nat /\ ~(s <= s - 1) /\ (s - 1) + 1 = s
  BY <1>0, <1>1, <1>2
<1>4. History[s - 1] \in Picture
  BY <1>1, <1>3
<1>5. History[s] = WholeStep(s - 1, History[s - 1])
  BY <1>3, HistoryAssumption
<1> QED
  BY <1>1, <1>3, <1>4, <1>5, WholeTyped

(* What the assigner keeps of the board consists of characters. *)
BoardsKept ==
  /\ frame \in Picture /\ (snapshot = <<>> \/ snapshot \in Picture)
  /\ \A k \in Worker : seen[k] = -1 => edges[k] = <<>>

LEMMA BoardsKeptStep ==
  ASSUME LifeInv, BoardsKept, [Next]_vars
  PROVE  BoardsKept'
<1>0. Counters /\ frame \in Picture /\ Height \in Nat /\ Rounds \in Nat
  BY SizesAreNat DEF LifeInv, BoardsKept
<1>1. ASSUME NEW k \in Worker, TakeResult(k), ResultDue(k)
      PROVE  frame' \in Picture /\ \A j \in Worker : seen'[j] = -1 => edges'[j] = <<>>
  <2> DEFINE m == Head(toAssigner[k])
  <2>1. /\ round \in 0..Rounds - 1 /\ hround[k] = round
        /\ m = Result(round, k, RowsOf(round + 1, k))
    BY <1>1, TakenResult
  <2>2. /\ IsFull(round) => \A y \in First(k)..Past(k) - 1 :
                              m.full[y - First(k) + 1] = History[round + 1][y]
        /\ ~IsFull(round) => m.full = <<>>
    BY <2>1, ResultRight
  <2>3. /\ frame' = IF m.full = <<>> THEN frame
                    ELSE [y \in 0..Height - 1 |-> IF First(k) <= y /\ y < Past(k)
                                                  THEN m.full[y - First(k) + 1] ELSE frame[y]]
        /\ seen' = [seen EXCEPT ![k] = hround[k]]
        /\ edges' = [edges EXCEPT ![k] = <<m.first, m.last>>]
    BY <1>1 DEF TakeResult, CountResult
  <2> HIDE DEF m
  <2>4. History[round + 1] \in Picture /\ First(k) \in Nat /\ Past(k) \in Nat
    BY <1>0, <2>1, BoardsTyped, BandBounds
  <2>5. ASSUME m.full # <<>>, NEW y \in 0..Height - 1, First(k) <= y /\ y < Past(k)
        PROVE  m.full[y - First(k) + 1] \in Row
    <3>1. y \in First(k)..Past(k) - 1
      BY <1>0, <2>4, <2>5
    <3>2. m.full[y - First(k) + 1] = History[round + 1][y]
      BY <2>2, <2>5, <3>1
    <3> QED
      BY <2>4, <3>2 DEF Picture
  <2>6. frame' \in Picture
    BY <1>0, <2>3, <2>5 DEF Picture
  <2>7. ASSUME NEW j \in Worker, seen'[j] = -1
        PROVE  edges'[j] = <<>>
    <3>1. j # k
      BY <1>0, <2>1, <2>3, <2>7 DEF Counters
    <3> QED
      BY <2>3, <2>7, <3>1 DEF BoardsKept, LifeInv, EdgesRight, Counters
  <2> QED
    BY <2>6, <2>7
<1>2. frame' \in Picture /\ \A j \in Worker : seen'[j] = -1 => edges'[j] = <<>>
  <2>1. CASE Release
    BY <1>0, <2>1 DEF Release, BoardsKept
  <2> QED
    BY <1>1, <2>1, SharedChanges DEF BoardsKept
<1>3. snapshot' = <<>> \/ snapshot' \in Picture
  <2>1. CASE MainStep \/ MainBreaks
    BY <2>1 DEF BoardsKept, MainStep, AcceptWorker, SendAssign, StartupFails, SaveInitial,
       StartThread, LeaveBarrier, WaitForResults, Release, Record, BarrierTimeout, MainCloses,
       MainJoins, MainRaises, MainBreaks, mainVars
  <2> QED
    BY <2>1, MainChanges DEF BoardsKept
<1> QED
  BY <1>2, <1>3 DEF BoardsKept

(* Where everybody is, and who is reported to have failed. *)
MainPcs == {"accept", "assign", "initial", "start", "barrier", "record", "closing", "join", "ended"}
Places ==
  /\ mpc \in MainPcs /\ cursor \in 0..N
  /\ mpc \in {"accept", "assign", "start"} => cursor < N
  /\ mpc = "initial" => cursor = 0
  /\ wpc \in [Worker -> {"new", "hello", "ready", "done", "failed"}]
  /\ mwaits \in BOOLEAN /\ error \in -1..N
  /\ crashed \subseteq Worker /\ slow \subseteq 0..N /\ mainFailed \in BOOLEAN

LEMMA PlacesStep ==
  ASSUME Places, [Next]_vars
  PROVE  Places'
<1> USE DEF Places, MainPcs, mainVars, sharedVars, handlerVars, wireVars, workerVars, faultVars
<1>0. /\ N \in Nat \ {0} /\ Main \in 0..N /\ NoError = -1 /\ Main \in -1..N
      /\ Worker = 0..N - 1 /\ Worker \cup {Main} \subseteq 0..N /\ Worker \subseteq -1..N
  BY Sizes DEF Main, NoError, Worker
<1>1. ASSUME MainRaises
      PROVE  mpc' = "closing" /\ cursor' = cursor /\ wpc' = wpc /\ mwaits' = FALSE /\ error' \in -1..N
  BY <1>0, <1>1 DEF MainRaises, MarkError
<1>2. CASE AcceptWorker \/ SendAssign \/ StartThread
  <2>1. /\ cursor < N /\ UNCHANGED <<wpc, mwaits, error, crashed, slow, mainFailed>>
        /\ cursor + 1 \in 0..N /\ (cursor + 1 # N => cursor + 1 < N)
    BY <1>0, <1>2 DEF AcceptWorker, SendAssign, StartThread
  <2>2. CASE AcceptWorker
    BY <1>0, <2>1, <2>2 DEF AcceptWorker
  <2>3. CASE SendAssign
    BY <1>0, <2>1, <2>3 DEF SendAssign
  <2>4. CASE StartThread
    BY <1>0, <2>1, <2>4 DEF StartThread
  <2> QED
    BY <1>2, <2>2, <2>3, <2>4
<1>3. CASE StartupFails \/ SaveInitial \/ LeaveBarrier \/ WaitForResults \/ Release
  <2>1. CASE StartupFails
    BY <1>0, <2>1 DEF StartupFails
  <2>2. CASE SaveInitial
    BY <1>0, <2>2 DEF SaveInitial
  <2>3. CASE LeaveBarrier \/ WaitForResults
    BY <1>0, <2>3 DEF LeaveBarrier, WaitForResults
  <2>4. CASE Release
    BY <1>0, <2>4 DEF Release
  <2> QED
    BY <1>3, <2>1, <2>2, <2>3, <2>4
<1>4. CASE Record \/ BarrierTimeout \/ MainCloses \/ MainJoins \/ MainBreaks
  BY <1>0, <1>1, <1>4 DEF Record, BarrierTimeout, MainCloses, MainJoins, MainBreaks
<1>5. ASSUME NEW k \in Worker, HandlerStep(k)
      PROVE  Places'
  <2>1. CASE HandlerRaises(k)
    BY <1>0, <2>1 DEF HandlerRaises, MarkError
  <2>2. CASE TakeResult(k) /\ ~HandlerRaises(k)
    BY <2>2 DEF TakeResult, CountResult
  <2>3. CASE ~HandlerRaises(k) /\ ~TakeResult(k)
    BY <1>5, <2>3 DEF HandlerStep, HandlerReturns, SendRound, Woken, SendBye, ConnectionLost,
       ConnectionClosed, HandlerTimeout, HandlerCloses
  <2> QED
    BY <2>1, <2>2, <2>3
<1>6. ASSUME NEW k \in Worker, WorkerStep(k) \/ WorkerTimeout(k) \/ WorkerCrash(k)
      PROVE  Places'
  BY <1>0, <1>6 DEF WorkerStep, SendHello, ReadAssign, PlayRound, ReadBye, WorkerFails, WorkerTimeout,
     WorkerCrash, WorkerEnds, WorkerGoes
<1>7. CASE \E k \in Worker \cup {Main} : BecomeSlow(k)
  BY <1>0, <1>7 DEF BecomeSlow
<1>8. CASE UNCHANGED vars
  BY <1>8 DEF vars
<1> QED
  BY <1>2, <1>3, <1>4, <1>5, <1>6, <1>7, <1>8 DEF Next, MainStep

(* What may lie on the wires of worker k at each point of its handler: at   *)
(* most one request or its result, whatever has failed.                     *)
Single(q) == q = <<>> \/ \E m : q = <<m>>
Nothing(k) == toAssigner[k] = <<>>
Unasked(k) == toWorker[k] \in {<<>>, <<Assign(k)>>}
Asked(k) == \E m : m.type = "ROUND" /\ toWorker[k] \in {<<m>>, <<Assign(k), m>>}
Over(k) == toWorker[k] \in {<<Bye>>, <<Assign(k), Bye>>}

Flow(k) ==
  /\ mpc \in {"accept", "assign"} /\ cursor <= k => toWorker[k] = <<>>
  /\ mpc = "accept" /\ k < cursor => wpc[k] # "new" /\ Nothing(k) /\ toWorker[k] = <<>>
  /\ mpc \in {"assign", "initial"} => Nothing(k)
  /\ mpc = "start" /\ cursor <= k => hpc[k] = "idle"
  /\ mpc = "start" /\ hpc[k] = "idle" => Nothing(k)
  /\ wpc[k] = "new" => Nothing(k)
  /\ hpc[k] = "idle" => Unasked(k) /\ Single(toAssigner[k])
  /\ hpc[k] \in {"top", "waiting", "woken", "bye"} => Unasked(k) /\ Nothing(k)
  /\ hpc[k] = "recv" => (Unasked(k) /\ Single(toAssigner[k])) \/ (Asked(k) /\ Nothing(k))
  /\ hpc[k] \in {"closing", "ended"} =>
       ((Unasked(k) \/ Over(k)) /\ Single(toAssigner[k])) \/ (Asked(k) /\ Nothing(k))

TypeInv == LifeInv /\ Typed /\ BoardsKept /\ Places /\ \A k \in Worker : Flow(k)

(* Another part of the system does not touch the wires of worker k, nor its *)
(* handler but to wake it.                                                  *)
LEMMA FlowKept ==
  ASSUME TypeInv, NEW k \in Worker, UNCHANGED <<toWorker[k], toAssigner[k], wpc[k]>>,
         \/ hpc'[k] = hpc[k]
         \/ hpc[k] = "waiting" /\ hpc'[k] = "woken",
         UNCHANGED <<mpc, cursor>> \/ mpc' \in {"barrier", "record", "closing", "join", "ended"}
  PROVE  Flow(k)'
<1>1. Flow(k)
  BY DEF TypeInv
<1>2. Assign(k)' = Assign(k) /\ Bye' = Bye
  BY DEF Assign, Bye
<1>3. /\ Nothing(k)' = Nothing(k) /\ Unasked(k)' = Unasked(k) /\ Over(k)' = Over(k)
      /\ Asked(k)' = Asked(k) /\ Single(toAssigner[k])' = Single(toAssigner[k])
  BY <1>2 DEF Nothing, Unasked, Over, Asked, Single
<1> QED
  BY <1>1, <1>3 DEF Flow

LEMMA HandlerWakes ==
  ASSUME TypeInv, NEW k \in Worker, NEW j \in Worker, HandlerStep(k)
  PROVE  /\ UNCHANGED <<mpc, cursor, wpc>>
         /\ j # k => /\ UNCHANGED <<toWorker[j], toAssigner[j]>>
                     /\ hpc'[j] = hpc[j] \/ (hpc[j] = "waiting" /\ hpc'[j] = "woken")
<1> USE DEF mainVars, sharedVars, handlerVars, wireVars, workerVars, faultVars
<1>0. hpc \in [Worker -> Pcs] /\ DOMAIN toWorker = Worker /\ DOMAIN toAssigner = Worker
  BY DEF TypeInv, Typed, LifeInv, WiresRight
<1>1. CASE HandlerRaises(k)
  BY <1>0, <1>1 DEF HandlerRaises, MarkError
<1>2. CASE TakeResult(k) /\ ~HandlerRaises(k)
  BY <1>0, <1>2 DEF TakeResult, CountResult, HandlerGoes
<1>3. CASE ~HandlerRaises(k) /\ ~TakeResult(k)
  BY <1>0, <1>3 DEF HandlerStep, HandlerReturns, SendRound, Woken, SendBye, ConnectionLost,
     ConnectionClosed, HandlerTimeout, HandlerCloses, HandlerGoes, HandlerEnds, Send
<1> QED
  BY <1>1, <1>2, <1>3

LEMMA HandlerFlow ==
  ASSUME TypeInv, NEW k \in Worker, HandlerStep(k)
  PROVE  \A j \in Worker : Flow(j)'
<1> USE DEF mainVars, sharedVars, handlerVars, wireVars, workerVars, faultVars
<1>0. /\ hpc \in [Worker -> Pcs] /\ DOMAIN toWorker = Worker /\ DOMAIN toAssigner = Worker
      /\ Flow(k) /\ Places /\ UNCHANGED <<mpc, cursor, wpc>>
      /\ mpc = "start" /\ cursor <= k => hpc[k] = "idle"
      /\ mpc \in {"accept", "assign", "initial"} => hpc[k] = "idle"
  BY HandlerWakes DEF TypeInv, Typed, LifeInv, WiresRight, BeforeRounds, Flow
<1>1. ASSUME NEW j \in Worker, j # k
      PROVE  Flow(j)'
  BY <1>1, HandlerWakes, FlowKept
<1> SUFFICES Flow(k)'
  BY <1>1
<1>2. hpc[k] # "idle"
  BY DEF HandlerStep, HandlerReturns, SendRound, TakeResult, Woken, SendBye, ConnectionLost,
     ConnectionClosed, HandlerTimeout, HandlerCloses
<1>3. mpc \notin {"accept", "assign", "initial"} /\ ~(mpc = "start" /\ cursor <= k)
  BY <1>0, <1>2
<1>4. Assign(k)' = Assign(k) /\ Bye' = Bye
  BY DEF Assign, Bye
<1>5. ASSUME UNCHANGED <<toWorker[k], toAssigner[k]>>
      PROVE  /\ Nothing(k)' = Nothing(k) /\ Unasked(k)' = Unasked(k) /\ Over(k)' = Over(k)
             /\ Asked(k)' = Asked(k) /\ Single(toAssigner[k])' = Single(toAssigner[k])
  BY <1>4, <1>5 DEF Nothing, Unasked, Over, Asked, Single
<1>6. ASSUME UNCHANGED <<toWorker[k], toAssigner[k]>>, hpc'[k] \in {"closing", "ended"}
      PROVE  Flow(k)'
  <2>1. Nothing(k) => Single(toAssigner[k])
    BY DEF Nothing, Single
  <2>2. ((Unasked(k) \/ Over(k)) /\ Single(toAssigner[k])) \/ (Asked(k) /\ Nothing(k))
    BY <1>0, <1>2, <2>1 DEF Flow, Pcs
  <2>3. wpc[k] = "new" => Nothing(k)
    BY <1>0 DEF Flow
  <2> QED
    BY <1>0, <1>3, <1>5, <1>6, <2>2, <2>3 DEF Flow
<1>7. CASE HandlerRaises(k)
  <2>1. UNCHANGED <<toWorker[k], toAssigner[k]>> /\ hpc'[k] = "closing"
    BY <1>0, <1>7 DEF HandlerRaises, MarkError
  <2> QED
    BY <1>6, <2>1
<1>8. CASE HandlerReturns(k) \/ ConnectionClosed(k) \/ HandlerCloses(k)
  <2>1. UNCHANGED <<toWorker[k], toAssigner[k]>> /\ hpc'[k] = "ended"
    BY <1>0, <1>8 DEF HandlerReturns, ConnectionClosed, HandlerCloses, HandlerEnds, HandlerGoes
  <2> QED
    BY <1>6, <2>1
<1>9. CASE SendRound(k) /\ ~HandlerRaises(k)
  <2> DEFINE m == Request(hround[k], halos[k])
  <2>1. /\ hpc[k] = "top" /\ hpc'[k] = "recv" /\ toAssigner' = toAssigner
        /\ toWorker'[k] = IF Gone(k) THEN toWorker[k] ELSE Append(toWorker[k], m)
    BY <1>0, <1>9 DEF SendRound, Send, HandlerGoes
  <2>2. Unasked(k) /\ Nothing(k)
    BY <1>0, <2>1 DEF Flow
  <2>3. m.type = "ROUND"
    BY Kinds
  <2>4. Append(<<>>, m) = <<m>> /\ Append(<<Assign(k)>>, m) = <<Assign(k), m>>
    BY Tuples
  <2> HIDE DEF m
  <2>5. Nothing(k)' /\ (Unasked(k)' \/ Asked(k)') /\ Single(toAssigner[k])'
    BY <1>4, <2>1, <2>2, <2>3, <2>4 DEF Nothing, Unasked, Asked, Single
  <2> QED
    BY <1>0, <1>3, <2>1, <2>5 DEF Flow
<1>10. CASE TakeResult(k) /\ ~HandlerRaises(k)
  <2>1. /\ hpc[k] = "recv" /\ hpc'[k] = "waiting" /\ toWorker' = toWorker
        /\ toAssigner[k] # <<>> /\ toAssigner'[k] = Tail(toAssigner[k])
    BY <1>0, <1>10 DEF TakeResult, CountResult, HandlerGoes, HasAnswer
  <2>2. Unasked(k) /\ Single(toAssigner[k])
    BY <1>0, <2>1 DEF Flow, Nothing
  <2>3. Nothing(k)'
    BY <2>1, <2>2, Tuples DEF Single, Nothing
  <2>4. Unasked(k)'
    BY <1>4, <2>1, <2>2 DEF Unasked
  <2> QED
    BY <1>0, <1>3, <2>1, <2>3, <2>4 DEF Flow
<1>11. CASE Woken(k)
  <2>1. /\ hpc[k] = "woken" /\ hpc'[k] \in {"waiting", "top", "bye"}
        /\ UNCHANGED <<toWorker, toAssigner>>
    BY <1>0, <1>11 DEF Woken, HandlerGoes
  <2>2. Unasked(k)' /\ Nothing(k)'
    BY <1>0, <1>5, <2>1 DEF Flow
  <2> QED
    BY <1>0, <1>3, <2>1, <2>2 DEF Flow
<1>12. CASE SendBye(k)
  <2>1. /\ hpc[k] = "bye" /\ hpc'[k] = "ended" /\ toAssigner' = toAssigner
        /\ toWorker'[k] = IF Gone(k) THEN toWorker[k] ELSE Append(toWorker[k], Bye)
    BY <1>0, <1>12 DEF SendBye, Send, HandlerEnds, HandlerGoes
  <2>2. Unasked(k) /\ Nothing(k)
    BY <1>0, <2>1 DEF Flow
  <2>3. Append(<<>>, Bye) = <<Bye>> /\ Append(<<Assign(k)>>, Bye) = <<Assign(k), Bye>>
    BY Tuples
  <2>4. Nothing(k)' /\ Single(toAssigner[k])' /\ (Unasked(k)' \/ Over(k)')
    BY <1>4, <2>1, <2>2, <2>3 DEF Nothing, Unasked, Over, Single
  <2> QED
    BY <1>0, <1>3, <2>1, <2>4 DEF Flow
<1> QED
  BY <1>7, <1>8, <1>9, <1>10, <1>11, <1>12
     DEF HandlerStep, ConnectionLost, HandlerTimeout

LEMMA WorkerFlow ==
  ASSUME TypeInv, NEW k \in Worker, WorkerStep(k) \/ WorkerTimeout(k) \/ WorkerCrash(k)
  PROVE  \A j \in Worker : Flow(j)'
<1> USE DEF mainVars, sharedVars, handlerVars, wireVars, workerVars, faultVars
<1>0. /\ DOMAIN toWorker = Worker /\ DOMAIN toAssigner = Worker /\ Flow(k) /\ Places
      /\ (mpc = "start" => (cursor <= k => hpc[k] = "idle"))
      /\ mpc \in {"accept", "assign", "initial"} => hpc[k] = "idle"
      /\ hpc[k] \in Pcs /\ toWorker[k] \in Seq(Mail(k))
  BY DEF TypeInv, Typed, LifeInv, WiresRight, BeforeRounds, Flow
<1>1. UNCHANGED <<mpc, cursor, hpc>>
  BY DEF WorkerStep, SendHello, ReadAssign, PlayRound, ReadBye, WorkerFails, WorkerTimeout,
     WorkerCrash, WorkerEnds
<1>2. ASSUME NEW j \in Worker, j # k
      PROVE  Flow(j)'
  <2>1. UNCHANGED <<toWorker[j], toAssigner[j], wpc[j]>>
    BY <1>0, <1>2 DEF WorkerStep, SendHello, ReadAssign, PlayRound, ReadBye, WorkerFails,
       WorkerTimeout, WorkerCrash, WorkerEnds, WorkerGoes, Places
  <2> QED
    BY <1>1, <2>1, FlowKept
<1> SUFFICES Flow(k)'
  BY <1>2
<1>3. Assign(k)' = Assign(k) /\ Bye' = Bye
  BY DEF Assign, Bye
<1>4. Nothing(k) => Single(toAssigner[k])
  BY DEF Nothing, Single
(* The worker has read all or all but a request. *)
<1>5. ASSUME toAssigner' = toAssigner, wpc'[k] # "new", toWorker'[k] = <<>>
      PROVE  Flow(k)'
  <2>1. Single(toAssigner[k])
    BY <1>0, <1>4 DEF Flow, Pcs
  <2>2. Unasked(k)' /\ Nothing(k)' = Nothing(k) /\ Single(toAssigner[k])'
    BY <1>5, <2>1 DEF Unasked, Nothing, Single
  <2>3. toWorker'[k] = <<>>
    BY <1>5
  <2> QED
    BY <1>0, <1>1, <1>5, <2>2, <2>3 DEF Flow
<1>6. CASE SendHello(k)
  <2>1. /\ wpc[k] = "new" /\ mpc = "accept" /\ wpc'[k] = "hello" /\ toWorker' = toWorker
        /\ toAssigner'[k] = Append(toAssigner[k], Hello)
    BY <1>0, <1>6 DEF SendHello, WorkerGoes, Places
  <2>2. Nothing(k) /\ ~(k < cursor) /\ hpc[k] = "idle" /\ Unasked(k)
    BY <1>0, <2>1 DEF Flow
  <2>3. Single(toAssigner[k])' /\ Unasked(k)'
    BY <1>3, <2>1, <2>2, Tuples DEF Nothing, Unasked, Single
  <2> QED
    BY <1>0, <1>1, <2>1, <2>2, <2>3 DEF Flow
<1>7. CASE ReadAssign(k)
  <2>1. /\ wpc'[k] = "ready" /\ toAssigner' = toAssigner /\ toWorker[k] # <<>>
        /\ toWorker'[k] = Tail(toWorker[k]) /\ Head(toWorker[k]).type = "ASSIGN"
    BY <1>0, <1>7 DEF ReadAssign, WorkerGoes, HasMail, Places
  <2>2. CASE Unasked(k)
    <3>1. toWorker'[k] = <<>>
      BY <2>1, <2>2, Tuples DEF Unasked
    <3> QED
      BY <1>5, <2>1, <3>1
  <2>3. CASE Over(k)
    <3>1. toWorker[k] # <<Bye>>
      BY <2>1, Tuples, Kinds
    <3>2. toWorker'[k] = <<Bye>> /\ toWorker[k] # <<>>
      BY <2>1, <2>3, <3>1, Tuples DEF Over
    <3>3. ~Unasked(k) /\ ~Asked(k)
      <4>1. <<Assign(k), Bye>> # <<Assign(k)>>
        BY Tuples
      <4>2. ASSUME NEW m, <<Assign(k), Bye>> = <<Assign(k), m>>
            PROVE  m = Bye
        BY <4>2
      <4>3. ASSUME NEW m, <<Assign(k), Bye>> = <<m>>
            PROVE  FALSE
        <5>1. Tail(<<Assign(k), Bye>>) = <<Bye>> /\ Tail(<<m>>) = <<>> /\ <<Bye>> # <<>>
          BY Tuples
        <5> QED
          BY <4>3, <5>1
      <4> QED
        BY <2>3, <3>1, <4>1, <4>2, <4>3, Kinds DEF Over, Unasked, Asked
    <3>4. hpc[k] \in {"closing", "ended"} /\ Single(toAssigner[k])
      BY <1>0, <3>3 DEF Flow, Pcs
    <3>5. Over(k)' /\ Single(toAssigner[k])'
      BY <1>3, <2>1, <3>2, <3>4 DEF Over, Single
    <3>6. mpc \notin {"accept", "assign", "initial"} /\ ~(mpc = "start" /\ cursor <= k)
      BY <1>0, <3>4
    <3> QED
      BY <1>1, <2>1, <3>4, <3>5, <3>6 DEF Flow
  <2>4. CASE Asked(k) /\ ~Unasked(k)
    <3>1. PICK m : m.type = "ROUND" /\ toWorker[k] \in {<<m>>, <<Assign(k), m>>}
      BY <2>4 DEF Asked
    <3>2. toWorker[k] = <<Assign(k), m>>
      BY <2>1, <3>1, Tuples
    <3>3. toWorker'[k] = <<m>>
      BY <2>1, <3>2, Tuples
    <3>4. Asked(k)'
      BY <3>1, <3>3 DEF Asked
    <3>5. hpc[k] \in {"recv", "closing", "ended"}
      BY <1>0, <2>4 DEF Flow, Pcs
    <3>6. Nothing(k)
      <4>1. ~Over(k)
        <5>1. <<Assign(k), m>> = <<Assign(k), Bye>> => m = Bye
          OBVIOUS
        <5>2. Tail(<<Assign(k), m>>) = <<m>> /\ Tail(<<Bye>>) = <<>> /\ <<m>> # <<>>
          BY Tuples
        <5> QED
          BY <3>1, <3>2, <5>1, <5>2, Kinds DEF Over
      <4> QED
        BY <1>0, <2>4, <3>5, <4>1 DEF Flow
    <3>7. Nothing(k)'
      BY <2>1, <3>6 DEF Nothing
    <3>8. mpc \notin {"accept", "assign", "initial"} /\ ~(mpc = "start" /\ cursor <= k)
      BY <1>0, <3>5
    <3> QED
      BY <1>1, <2>1, <3>4, <3>5, <3>7, <3>8 DEF Flow
  <2> QED
    BY <1>0, <2>2, <2>3, <2>4 DEF Flow, Pcs
<1>8. CASE PlayRound(k)
  <2>1. /\ wpc' = wpc /\ wpc[k] = "ready" /\ toWorker[k] # <<>> /\ Head(toWorker[k]).type = "ROUND"
        /\ toWorker'[k] = Tail(toWorker[k])
        /\ \E r : toAssigner'[k] = Append(toAssigner[k], r)
    BY <1>0, <1>8 DEF PlayRound, HasMail, IsRequest
  <2>2. ~Unasked(k) /\ ~Over(k)
    BY <2>1, Tuples, Kinds DEF Unasked, Over
  <2>3. hpc[k] \in {"recv", "closing", "ended"} /\ Asked(k) /\ Nothing(k)
    BY <1>0, <2>2 DEF Flow, Pcs
  <2>4. PICK m : m.type = "ROUND" /\ toWorker[k] \in {<<m>>, <<Assign(k), m>>}
    BY <2>3 DEF Asked
  <2>5. toWorker[k] = <<m>>
    BY <2>1, <2>4, Tuples, Kinds
  <2>6. toWorker'[k] = <<>>
    BY <2>1, <2>5, Tuples
  <2>7. Unasked(k)' /\ Single(toAssigner[k])'
    BY <2>1, <2>3, <2>6, Tuples DEF Unasked, Nothing, Single
  <2>8. mpc \notin {"accept", "assign", "initial"} /\ ~(mpc = "start" /\ cursor <= k)
    BY <1>0, <2>3
  <2> QED
    BY <1>1, <2>1, <2>3, <2>7, <2>8 DEF Flow
<1>9. CASE ReadBye(k)
  <2>1. /\ wpc'[k] = "done" /\ toAssigner' = toAssigner /\ toWorker[k] # <<>>
        /\ toWorker'[k] = Tail(toWorker[k]) /\ Head(toWorker[k]).type = "BYE"
    BY <1>0, <1>9 DEF ReadBye, WorkerGoes, HasMail, Places
  <2>2. ~Unasked(k) /\ ~Asked(k)
    BY <2>1, Tuples, Kinds DEF Unasked, Asked
  <2>3. Over(k)
    BY <1>0, <2>2 DEF Flow, Pcs
  <2>4. toWorker[k] = <<Bye>>
    BY <2>1, <2>3, Tuples, Kinds DEF Over
  <2>5. toWorker'[k] = <<>>
    BY <2>1, <2>4, Tuples
  <2> QED
    BY <1>5, <2>1, <2>5
<1>10. CASE WorkerEnds(k)
  <2>1. wpc'[k] = "failed" /\ toAssigner' = toAssigner /\ toWorker'[k] = <<>>
    BY <1>0, <1>10 DEF WorkerEnds, WorkerGoes, Places
  <2> QED
    BY <1>5, <2>1
<1> QED
  BY <1>6, <1>7, <1>8, <1>9, <1>10 DEF WorkerStep, WorkerFails, WorkerTimeout, WorkerCrash

LEMMA MainFlow ==
  ASSUME TypeInv, MainStep \/ MainBreaks
  PROVE  \A k \in Worker : Flow(k)'
<1> USE DEF mainVars, sharedVars, handlerVars, wireVars, workerVars, faultVars
<1>0. /\ DOMAIN toWorker = Worker /\ DOMAIN toAssigner = Worker /\ hpc \in [Worker -> Pcs]
      /\ Places /\ BeforeRounds /\ N \in Nat \ {0}
  BY Sizes DEF TypeInv, Typed, LifeInv, WiresRight
<1> SUFFICES ASSUME NEW k \in Worker PROVE Flow(k)'
  OBVIOUS
<1>1. Flow(k) /\ k \in Nat /\ k < N /\ hpc[k] \in Pcs
  BY <1>0, Sizes DEF TypeInv
<1>2. Assign(k)' = Assign(k) /\ Bye' = Bye
  BY DEF Assign, Bye
<1>3. Nothing(k) => Single(toAssigner[k])
  BY DEF Nothing, Single
<1>4. ASSUME UNCHANGED <<toWorker[k], toAssigner[k]>>
      PROVE  /\ Nothing(k)' = Nothing(k) /\ Unasked(k)' = Unasked(k) /\ Over(k)' = Over(k)
             /\ Asked(k)' = Asked(k) /\ Single(toAssigner[k])' = Single(toAssigner[k])
  BY <1>2, <1>4 DEF Nothing, Unasked, Over, Asked, Single
<1>5. CASE AcceptWorker
  <2>1. /\ mpc = "accept" /\ toAssigner[cursor] # <<>> /\ cursor \in 0..N /\ cursor < N
        /\ toAssigner' = [toAssigner EXCEPT ![cursor] = Tail(@)]
        /\ UNCHANGED <<toWorker, hpc, wpc>> /\ hpc[k] = "idle"
        /\ \/ cursor + 1 < N /\ cursor' = cursor + 1 /\ mpc' = "accept"
           \/ ~(cursor + 1 < N) /\ cursor' = 0 /\ mpc' = "assign"
    BY <1>0, <1>5 DEF AcceptWorker, HasAnswer, BeforeRounds, Places
  <2>2. toWorker'[k] = <<>> /\ Unasked(k)'
    BY <1>0, <1>1, <2>1 DEF Flow, Unasked
  <2>3. CASE k = cursor
    <3>1. Single(toAssigner[k]) /\ toAssigner[k] # <<>> /\ wpc[k] # "new"
      BY <1>1, <2>1, <2>3 DEF Flow, Nothing
    <3>2. toAssigner'[k] = <<>>
      BY <1>0, <2>1, <2>3, <3>1, Tuples DEF Single
    <3>3. Nothing(k)' /\ Single(toAssigner[k])'
      BY <3>2 DEF Nothing, Single
    <3> QED
      BY <2>1, <2>2, <3>1, <3>3 DEF Flow
  <2>4. CASE k # cursor
    <3>1. UNCHANGED <<toWorker[k], toAssigner[k]>>
      BY <1>0, <2>1, <2>4
    <3>2. k < cursor' => k < cursor
      BY <1>1, <2>1, <2>4
    <3>3. ~(cursor + 1 < N) => k < cursor
      <4>1. cursor \in 0..N /\ cursor < N
        BY <2>1
      <4> QED
        BY <1>0, <1>1, <2>4, <4>1
    <3>4. k < cursor => wpc[k] # "new" /\ Nothing(k)
      BY <1>1, <2>1 DEF Flow
    <3>5. Single(toAssigner[k])' /\ (wpc[k] = "new" => Nothing(k)')
      BY <1>1, <1>4, <2>1, <3>1 DEF Flow
    <3>6. k < cursor => Nothing(k)'
      BY <1>4, <3>1, <3>4
    <3>7. CASE mpc' = "accept"
      BY <2>1, <2>2, <3>2, <3>4, <3>5, <3>6, <3>7 DEF Flow
    <3>8. CASE mpc' = "assign"
      <4>1. k < cursor
        BY <2>1, <3>3, <3>8
      <4> QED
        BY <2>1, <2>2, <3>4, <3>5, <3>6, <3>8, <4>1 DEF Flow
    <3> QED
      BY <2>1, <3>7, <3>8
  <2> QED
    BY <2>3, <2>4
<1>6. CASE SendAssign
  <2> DEFINE more == [toWorker EXCEPT ![cursor] = IF Gone(cursor) THEN @ ELSE Append(@, Assign(cursor))]
  <2>1. /\ mpc = "assign" /\ cursor \in 0..N /\ cursor < N
        /\ toWorker' = more
        /\ UNCHANGED <<toAssigner, hpc, wpc>> /\ hpc[k] = "idle"
        /\ \/ cursor + 1 < N /\ cursor' = cursor + 1 /\ mpc' = "assign"
           \/ ~(cursor + 1 < N) /\ cursor' = 0 /\ mpc' = "initial"
    BY <1>0, <1>6 DEF SendAssign, Send, BeforeRounds, Places
  <2>2. Nothing(k)' /\ Single(toAssigner[k])'
    BY <1>1, <2>1 DEF Flow, Nothing, Single
  <2>3. Unasked(k)'
    <3>1. CASE k = cursor
      <4>1. toWorker[k] = <<>>
        BY <1>1, <2>1, <3>1 DEF Flow
      <4>2. toWorker'[k] \in {<<>>, Append(<<>>, Assign(k))}
        BY <1>0, <2>1, <3>1, <4>1
      <4> QED
        BY <1>2, <4>2, Tuples DEF Unasked
    <3>2. CASE k # cursor
      <4>1. toWorker'[k] = toWorker[k]
        BY <1>0, <2>1, <3>2
      <4> QED
        BY <1>1, <1>2, <2>1, <4>1 DEF Flow, Unasked
    <3> QED
      BY <3>1, <3>2
  <2>4. mpc' = "assign" /\ cursor' <= k => toWorker'[k] = <<>>
    <3>1. ASSUME mpc' = "assign", cursor' <= k
          PROVE  k # cursor /\ cursor <= k
      BY <1>1, <2>1, <3>1
    <3> QED
      BY <1>0, <1>1, <2>1, <3>1 DEF Flow
  <2> QED
    BY <2>1, <2>2, <2>3, <2>4 DEF Flow
<1>7. CASE SaveInitial
  <2>1. /\ mpc = "initial" /\ mpc' = "start" /\ UNCHANGED <<toWorker, toAssigner, hpc, wpc, cursor>>
        /\ hpc[k] = "idle"
    BY <1>0, <1>7 DEF SaveInitial, BeforeRounds
  <2> QED
    BY <1>1, <1>4, <2>1 DEF Flow
<1>8. CASE StartThread
  <2>1. /\ mpc = "start" /\ cursor \in 0..N /\ cursor < N /\ cursor' = cursor + 1
        /\ hpc' = [hpc EXCEPT ![cursor] = "top"] /\ UNCHANGED <<toWorker, toAssigner, wpc>>
        /\ mpc' \in {"start", "barrier"}
    BY <1>0, <1>8 DEF StartThread, Places
  <2>2. CASE k = cursor
    <3>1. hpc[k] = "idle" /\ hpc'[k] = "top" /\ ~(cursor' <= k)
      BY <1>0, <1>1, <2>1, <2>2 DEF Flow
    <3>2. Nothing(k) /\ Unasked(k)
      BY <1>1, <2>1, <3>1 DEF Flow
    <3> QED
      BY <1>4, <2>1, <3>1, <3>2 DEF Flow
  <2>3. CASE k # cursor
    <3>1. hpc'[k] = hpc[k] /\ (cursor' <= k => cursor <= k)
      BY <1>0, <1>1, <2>1, <2>3
    <3> QED
      BY <1>1, <1>4, <2>1, <3>1 DEF Flow
  <2> QED
    BY <2>2, <2>3
<1>9. CASE \/ StartupFails \/ LeaveBarrier \/ WaitForResults \/ Release \/ Record
           \/ BarrierTimeout \/ MainCloses \/ MainJoins \/ MainBreaks
  <2>1. MainRaises => /\ UNCHANGED <<toWorker, toAssigner, wpc>> /\ mpc' = "closing"
                      /\ hpc'[k] = hpc[k] \/ (hpc[k] = "waiting" /\ hpc'[k] = "woken")
    BY <1>0 DEF MainRaises, MarkError
  <2>2. /\ UNCHANGED <<toWorker, toAssigner, wpc>>
        /\ hpc'[k] = hpc[k] \/ (hpc[k] = "waiting" /\ hpc'[k] = "woken")
        /\ mpc' \in {"barrier", "record", "closing", "join", "ended"}
    BY <1>0, <1>9, <2>1 DEF StartupFails, LeaveBarrier, WaitForResults, Release, Record,
       BarrierTimeout, MainCloses, MainJoins, MainBreaks
  <2> QED
    BY <2>2, FlowKept
<1> QED
  BY <1>5, <1>6, <1>7, <1>8, <1>9 DEF MainStep

LEMMA TypeInit == Init => TypeInv
<1> SUFFICES ASSUME Init PROVE TypeInv
  OBVIOUS
<1>1. BoardsKept
  BY CanvasAssumption DEF Init, BoardsKept
<1>2. Places
  <2>1. 0 < N /\ 0 \in 0..N /\ -1 \in -1..N
    BY Sizes
  <2> QED
    BY <2>1 DEF Init, Places, MainPcs, NoError
<1>3. ASSUME NEW k \in Worker
      PROVE  Flow(k)
  <2>1. ~(k < 0)
    BY Sizes
  <2> QED
    BY <2>1 DEF Init, Flow, Nothing, Unasked, Single
<1> QED
  BY <1>1, <1>2, <1>3, LifeInit, BlameInit DEF TypeInv, BlameInv

LEMMA TypeStep ==
  ASSUME TypeInv, [Next]_vars
  PROVE  TypeInv'
<1>1. LifeInv' /\ Typed' /\ BoardsKept' /\ Places'
  BY LifeStep, TypedStep, BoardsKeptStep, PlacesStep DEF TypeInv
<1>2. CASE UNCHANGED vars \/ \E j \in Worker \cup {Main} : BecomeSlow(j)
  <2>1. UNCHANGED <<mpc, cursor, hpc, wpc, toWorker, toAssigner>>
    BY <1>2 DEF vars, mainVars, handlerVars, wireVars, workerVars, BecomeSlow
  <2> QED
    BY <1>1, <2>1, FlowKept DEF TypeInv
<1>3. CASE ~(UNCHANGED vars \/ \E j \in Worker \cup {Main} : BecomeSlow(j))
  BY <1>1, <1>3, MainFlow, HandlerFlow, WorkerFlow DEF Next, TypeInv
<1> QED
  BY <1>2, <1>3

LEMMA LengthsOfFlow ==
  ASSUME TypeInv, NEW k \in Worker
  PROVE  Len(toWorker[k]) <= 2 /\ Len(toAssigner[k]) <= 1
<1>1. Flow(k) /\ hpc[k] \in Pcs
  BY DEF TypeInv, Typed
<1>2. Nothing(k) => Single(toAssigner[k])
  BY DEF Nothing, Single
<1>3. Single(toAssigner[k]) /\ (Unasked(k) \/ Over(k) \/ Asked(k))
  BY <1>1, <1>2 DEF Flow, Pcs
<1>4. Len(toAssigner[k]) <= 1
  <2>1. Len(<<>>) <= 1 /\ \A m : Len(<<m>>) <= 1
    OBVIOUS
  <2> QED
    BY <1>3, <2>1, Zenon DEF Single
<1>5. CASE Unasked(k)
  <2>1. Len(<<>>) <= 2 /\ Len(<<Assign(k)>>) <= 2
    OBVIOUS
  <2> QED
    BY <1>4, <1>5, <2>1, Zenon DEF Unasked
<1>6. CASE Over(k)
  <2>1. Len(<<Bye>>) <= 2 /\ Len(<<Assign(k), Bye>>) <= 2
    OBVIOUS
  <2> QED
    BY <1>4, <1>6, <2>1, Zenon DEF Over
<1>7. CASE Asked(k)
  <2>1. PICK m : toWorker[k] \in {<<m>>, <<Assign(k), m>>}
    BY <1>7 DEF Asked
  <2>2. Len(<<m>>) <= 2 /\ Len(<<Assign(k), m>>) <= 2
    OBVIOUS
  <2> QED
    BY <1>4, <2>1, <2>2, Zenon
<1> QED
  BY <1>3, <1>4, <1>5, <1>6, <1>7

(* Every variable of the assigner and the workers keeps its type, also when *)
(* workers, Main or the deadlines fail: no more than one request or result  *)
(* is under way on a connection, and boards consist of characters           *)
(* (barrier.py, server.py, rules.py).                                       *)
THEOREM LifeTyping == Spec => []LifeTypeOK
<1>1. ASSUME TypeInv
      PROVE  LifeTypeOK
  <2>1. /\ Counters /\ HalosRight /\ EdgesRight /\ ArrivedRight /\ SavedRight
        /\ Typed /\ BoardsKept /\ Places
    BY <1>1 DEF TypeInv, LifeInv
  <2>2. Rounds \in Nat /\ Height \in Nat \ {0} /\ N \in Nat \ {0}
    BY SizesAreNat
  <2>3. \A s \in 0..Rounds, y \in 0..Height - 1 : History[s][y] \in Row
    BY BoardsTyped DEF Picture
  <2>4. arrived \in 0..N
    <3> DEFINE here == {j \in Worker : seen[j] = round}
    <3>1. IsFiniteSet(Worker) /\ Cardinality(Worker) = N /\ here \subseteq Worker
      BY WorkersAreFinite
    <3>2. Cardinality(here) <= N
      BY <3>1, FS_Subset
    <3> QED
      BY <2>1, <2>2, <3>2 DEF ArrivedRight, Counters
  <2>5. \A k \in Worker : edges[k] = <<>> \/ edges[k] \in Row \X Row
    <3> SUFFICES ASSUME NEW k \in Worker, seen[k] # -1
                 PROVE  edges[k] \in Row \X Row
      BY <2>1 DEF BoardsKept
    <3>1. seen[k] + 1 \in 0..Rounds
      BY <2>1, <2>2 DEF Counters
    <3>2. First(k) \in 0..Height - 1 /\ Past(k) - 1 \in 0..Height - 1
      BY <2>2, BandBounds
    <3>3. edges[k] = EdgesOf(seen[k] + 1, k)
      BY <2>1 DEF EdgesRight
    <3> QED
      BY <2>3, <3>1, <3>2, <3>3 DEF EdgesOf
  <2>6. halos \in [Worker -> Row \X Row]
    <3>1. ASSUME NEW k \in Worker
          PROVE  HaloOf(round, k) \in Row \X Row
      <4>1. (First(k) - 1) % Height \in 0..Height - 1 /\ Past(k) % Height \in 0..Height - 1
        BY <2>2, BandBounds
      <4>2. round \in 0..Rounds
        BY <2>1 DEF Counters
      <4> QED
        BY <2>3, <4>1, <4>2 DEF HaloOf
    <3> QED
      BY <2>1, <3>1 DEF HalosRight
  <2>7. \A j \in DOMAIN saved : saved[j].state \in 0..Rounds /\ saved[j].rows \in Picture
    <3> DEFINE S == {[state |-> s, rows |-> History[s]] : s \in 0..Rounds}
    <3>1. saved \in Seq(S) /\ \A b \in S : b.state \in 0..Rounds /\ b.rows \in Picture
      BY <2>1, BoardsTyped DEF SavedRight
    <3> HIDE DEF S
    <3> QED
      BY <3>1
  <2>8. /\ mpc \in MainPcs /\ cursor \in 0..N /\ mwaits \in BOOLEAN /\ round \in 0..Rounds
        /\ error \in -1..N /\ seen \in [Worker -> -1..Rounds - 1] /\ frame \in Picture
        /\ snapshot = <<>> \/ snapshot \in Picture
        /\ hpc \in [Worker -> Pcs] /\ hround \in [Worker -> 0..Rounds - 1]
        /\ open \in [Worker -> BOOLEAN]
        /\ wpc \in [Worker -> {"new", "hello", "ready", "done", "failed"}]
        /\ wround \in [Worker -> 0..Rounds]
        /\ crashed \subseteq Worker /\ slow \subseteq 0..N /\ mainFailed \in BOOLEAN
    BY <2>1 DEF Counters, Typed, BoardsKept, Places
  <2>9. \A k \in Worker : Len(toWorker[k]) <= 2 /\ Len(toAssigner[k]) <= 1
    BY <1>1, LengthsOfFlow
  <2> QED
    BY <2>4, <2>5, <2>6, <2>7, <2>8, <2>9 DEF LifeTypeOK, MainPcs, Pcs
<1> QED
  BY TypeInit, TypeStep, <1>1, PTL DEF Spec
=============================================================================
