------------------------- MODULE ChaosLauncher_proofs -------------------------
(***************************************************************************)
(* Proofs about ChaosLauncher, for any number of workers, any bound on the *)
(* workers that are down and any intervals.                                *)
(***************************************************************************)
EXTENDS ChaosLauncher, FiniteSetTheorems, SequenceTheorems, TLAPS

USE LauncherAssumption

-----------------------------------------------------------------------------
(* The inductive invariant *)

(* Before w is ready: it has been connected or not, greeted or not. *)
Starting(w) ==
  /\ status[w] = "RUNNING" /\ mode[w] \in {"BOOTING", "RUNNING"} /\ ~rejoined[w]
  /\ IF pc = "connect" /\ cursor <= w
     THEN ~greeted[w] /\ toWorker[w] = <<>> /\ toLauncher[w] = <<>>
     ELSE \/ ~greeted[w] /\ toWorker[w] = <<"LAUNCHER">> /\ toLauncher[w] = <<>>
          \/ /\ greeted[w] /\ toWorker[w] = <<>>
             /\ toLauncher[w] = IF mode[w] = "BOOTING" THEN <<>> ELSE <<"READY">>

(* What the launcher takes w for, and how far w has come with its commands. *)
Working(w) ==
  \/ /\ status[w] = "RUNNING" /\ mode[w] = "RUNNING"
     /\ toWorker[w] = <<>> /\ toLauncher[w] = <<>> /\ ~rejoined[w]
  \/ /\ status[w] = "CRASHED" /\ toLauncher[w] = <<>> /\ ~rejoined[w]
     /\ \/ mode[w] = "RUNNING" /\ toWorker[w] = <<"CRASH">>
        \/ mode[w] = "CRASHED" /\ toWorker[w] = <<>>
  \/ /\ status[w] = "REJOINING" /\ toLauncher[w] = <<>> /\ ~rejoined[w]
     /\ \/ mode[w] = "RUNNING" /\ toWorker[w] = <<"CRASH", "RESTART">>
        \/ mode[w] = "CRASHED" /\ toWorker[w] = <<"RESTART">>
        \/ mode[w] = "REJOINING" /\ toWorker[w] = <<>>
  \/ /\ status[w] = "REJOINING" /\ mode[w] = "RUNNING" /\ toWorker[w] = <<>>
     /\ toLauncher[w] = IF rejoined[w] THEN <<>> ELSE <<"REJOINED">>

Fits(w) ==
  \/ Gone(w)
  \/ ~ready[w] /\ ~started /\ Starting(w)
  \/ ready[w] /\ pc # "connect" /\ greeted[w] /\ Working(w)

(* The plan of the next crash against the workers that are down. *)
Plan ==
  /\ pc = "connect" => ~started /\ cursor <= WorkerCount
  /\ ~started => ~finished /\ nextCrash = Never /\ Down(status) = {}
  /\ DownCount(status) <= MaxDown
  /\ nextCrash # Never => ~finished /\ ~blocked /\ DownCount(status) < MaxDown
  /\ blocked => started /\ ~finished
  /\ blocked /\ (\A w \in Worker : status[w] # "EXITED") => DownCount(status) = MaxDown
  /\ started /\ ~finished /\ nextCrash = Never /\ ~blocked => clock + MaxInterval >= Cutoff

LauncherInv == LauncherTypeOK /\ Plan /\ \A w \in Worker : Fits(w)

-----------------------------------------------------------------------------
(* Lemmas *)

(* Sequences of at most two messages. *)
Message == {"LAUNCHER", "CRASH", "RESTART", "READY", "REJOINED"}
LEMMA Wires ==
  /\ \A a \in Message : /\ Append(<<>>, a) = <<a>> /\ <<a>> # <<>>
                       /\ Head(<<a>>) = a /\ Tail(<<a>>) = <<>>
  /\ \A a, b \in Message : /\ Append(<<a>>, b) = <<a, b>> /\ <<a, b>> # <<>>
                          /\ Head(<<a, b>>) = a /\ Tail(<<a, b>>) = <<b>>
<1>1. ASSUME NEW a \in Message
      PROVE  Append(<<>>, a) = <<a>> /\ <<a>> # <<>> /\ Head(<<a>>) = a /\ Tail(<<a>>) = <<>>
  <2>1. Append(<<>>, a) = <<a>>
    OBVIOUS
  <2>2. <<a>> # <<>> /\ Head(<<a>>) = a
    OBVIOUS
  <2>3. Tail(<<a>>) = <<>>
    OBVIOUS
  <2> QED
    BY <2>1, <2>2, <2>3
<1>2. ASSUME NEW a \in Message, NEW b \in Message
      PROVE  /\ Append(<<a>>, b) = <<a, b>> /\ <<a, b>> # <<>>
             /\ Head(<<a, b>>) = a /\ Tail(<<a, b>>) = <<b>>
  <2> DEFINE x == Append(<<a>>, b)
             y == <<a, b>>
  <2>1. /\ <<a>> \in Seq(Message) /\ Len(<<a>>) = 1
        /\ y \in Seq(Message) /\ Len(y) = 2 /\ y[1] = a /\ y[2] = b
    OBVIOUS
  <2>2. x \in Seq(Message) /\ Len(x) = 2 /\ x[1] = a /\ x[2] = b
    BY <2>1, AppendProperties
  <2>3. \A i \in 1..Len(x) : x[i] = y[i]
    BY <2>1, <2>2
  <2>4. x = y
    <3> HIDE DEF x, y
    <3> QED
      BY <2>1, <2>2, <2>3, SeqEqual
  <2>5. <<a, b>> # <<>> /\ Head(<<a, b>>) = a
    OBVIOUS
  <2>6. Tail(<<a, b>>) = <<b>>
    OBVIOUS
  <2> QED
    BY <2>4, <2>5, <2>6
<1> QED
  BY <1>1, <1>2

(* Counting the workers that are down. *)
LEMMA DownCounted ==
  ASSUME NEW s
  PROVE  IsFiniteSet(Down(s)) /\ DownCount(s) \in Nat
<1>1. IsFiniteSet(Worker)
  BY FS_Interval DEF Worker
<1> QED
  BY <1>1, FS_Subset, FS_CardinalityType DEF Down, DownCount

LEMMA DownLess ==
  ASSUME NEW s, NEW t, Down(t) \subseteq Down(s)
  PROVE  DownCount(t) <= DownCount(s)
BY DownCounted, FS_Subset DEF DownCount

LEMMA DownMore ==
  ASSUME NEW s, NEW v \in Worker \ Down(s), NEW t, Down(t) = Down(s) \cup {v}
  PROVE  DownCount(t) = DownCount(s) + 1
BY DownCounted, FS_AddElement DEF DownCount

(* Not all workers are down when no more than MaxDown are. *)
LEMMA SomeUp ==
  ASSUME NEW s, DownCount(s) < MaxDown
  PROVE  \E w \in Worker : w \notin Down(s)
<1>1. Cardinality(Worker) = WorkerCount
  BY FS_Interval DEF Worker
<1>2. Down(s) = Worker => DownCount(s) = WorkerCount
  BY <1>1 DEF DownCount
<1> QED
  BY <1>2, DownCounted DEF Down

(* A planned time is before the cutoff and not yet reached. *)
LEMMA Scheduled ==
  ASSUME NEW base \in Nat, NEW t \in Schedule(base)
  PROVE  /\ t \in Nat /\ (t # Never => base < t)
         /\ t = Never => base + MaxInterval >= Cutoff
BY DEF Schedule, Never

(* A round puts no worker down but the victim, and who is restarted stays so. *)
LEMMA Restarting ==
  ASSUME LauncherTypeOK, NEW lost \in LostWriting
  PROVE  /\ AfterRestarts(lost) \in [Worker -> {"RUNNING", "CRASHED", "REJOINING", "EXITED"}]
         /\ Down(AfterRestarts(lost)) \subseteq Down(status)
         /\ DownCount(AfterRestarts(lost)) <= DownCount(status)
         /\ (\A w \in Worker : AfterRestarts(lost)[w] # "EXITED")
              => Down(AfterRestarts(lost)) = Down(status)
<1>1. lost \subseteq DueRestarts /\ DueRestarts \subseteq Down(status)
  BY DEF LostWriting, DueRestarts, Down
<1>2. AfterRestarts(lost) \in [Worker -> {"RUNNING", "CRASHED", "REJOINING", "EXITED"}]
  BY DEF LauncherTypeOK, AfterRestarts
<1>3. Down(AfterRestarts(lost)) \subseteq Down(status)
  BY <1>1 DEF LauncherTypeOK, AfterRestarts, Down
<1>4. ASSUME \A w \in Worker : AfterRestarts(lost)[w] # "EXITED"
      PROVE  Down(AfterRestarts(lost)) = Down(status)
  BY <1>1, <1>4 DEF LauncherTypeOK, AfterRestarts, DueRestarts, Down
<1> QED
  BY <1>2, <1>3, <1>4, DownLess

-----------------------------------------------------------------------------
(* The type invariant is preserved *)

LEMMA TypeInit == LauncherInit => LauncherTypeOK
<1> SUFFICES ASSUME LauncherInit
             PROVE  LauncherTypeOK
  OBVIOUS
<1>1. cursor \in 1..WorkerCount + 1 /\ clock \in Nat /\ nextCrash \in Nat
      /\ restartAt \in [Worker -> Nat]
      /\ \A w \in Worker : restartAt[w] = Never /\ restartAt[w] < Cutoff + MaxDowntime
  BY DEF LauncherInit, Never
<1>2. toWorker \in [Worker -> Seq({"LAUNCHER", "CRASH", "RESTART"})]
      /\ toLauncher \in [Worker -> Seq({"READY", "REJOINED"})]
  BY DEF LauncherInit
<1>3. pc = "connect" /\ woken \in BOOLEAN /\ started \in BOOLEAN /\ blocked \in BOOLEAN
      /\ finished \in BOOLEAN
  BY DEF LauncherInit
<1>4. /\ status \in [Worker -> {"RUNNING", "CRASHED", "REJOINING", "EXITED"}]
      /\ \A w \in Worker : status[w] # "CRASHED"
      /\ ready \in [Worker -> BOOLEAN]
      /\ mode \in [Worker -> {"BOOTING", "RUNNING", "CRASHED", "REJOINING", "STOPPED"}]
      /\ greeted \in [Worker -> BOOLEAN] /\ rejoined \in [Worker -> BOOLEAN]
  BY DEF LauncherInit
<1> QED
  BY <1>1, <1>2, <1>3, <1>4 DEF LauncherTypeOK

(* What a worker or the launcher writes to a connection. *)
LEMMA WireTypes ==
  ASSUME NEW S, NEW wires \in [Worker -> Seq(S)], NEW w \in Worker
  PROVE  /\ \A m \in S : [wires EXCEPT ![w] = Append(@, m)] \in [Worker -> Seq(S)]
         /\ wires[w] # <<>> => [wires EXCEPT ![w] = Tail(@)] \in [Worker -> Seq(S)]
         /\ [wires EXCEPT ![w] = <<>>] \in [Worker -> Seq(S)]
OBVIOUS

LEMMA TypeOfRound ==
  ASSUME LauncherInv, NoCrash \/ NobodyToCrash \/ CrashOne
  PROVE  LauncherTypeOK'
<1> USE DEF LauncherInv
<1>1. /\ finished' \in BOOLEAN /\ woken' \in BOOLEAN
      /\ UNCHANGED <<pc, cursor, started, clock, ready, mode, greeted, rejoined, toLauncher>>
  BY DEF LauncherTypeOK, NoCrash, NobodyToCrash, CrashOne, BeginRound, Finishing, workerVars
<1>2. \A v : SendCommands(v) => toWorker' \in [Worker -> Seq({"LAUNCHER", "CRASH", "RESTART"})]
  BY DEF LauncherTypeOK, SendCommands
<1>3. ASSUME NEW lost \in LostWriting
      PROVE  \A w \in Worker : (AfterRestarts(lost)[w] = "CRASHED")
               <=> (status[w] = "CRASHED" /\ w \notin DueRestarts)
  BY <1>3 DEF AfterRestarts, DueRestarts, LostWriting
<1>4. CASE NoCrash
  <2>1. PICK lost \in LostWriting : status' = AfterRestarts(lost)
    BY <1>4 DEF NoCrash
  <2>2. nextCrash' \in Nat /\ blocked' \in BOOLEAN
        /\ toWorker' \in [Worker -> Seq({"LAUNCHER", "CRASH", "RESTART"})]
    BY <1>2, <1>4 DEF NoCrash, LauncherTypeOK, Never
  <2>3. restartAt' = [w \in Worker |-> IF w \in DueRestarts THEN Never ELSE restartAt[w]]
    BY <1>4 DEF NoCrash
  <2> QED
    BY <1>1, <1>3, <2>1, <2>2, <2>3, Restarting DEF LauncherTypeOK, Never
<1>5. CASE NobodyToCrash
  <2>1. PICK lost \in LostWriting : status' = AfterRestarts(lost)
    BY <1>5 DEF NobodyToCrash
  <2>2. nextCrash' \in Nat /\ blocked' \in BOOLEAN
        /\ toWorker' \in [Worker -> Seq({"LAUNCHER", "CRASH", "RESTART"})]
    BY <1>2, <1>5 DEF NobodyToCrash, LauncherTypeOK, Never
  <2>3. restartAt' = [w \in Worker |-> IF w \in DueRestarts THEN Never ELSE restartAt[w]]
    BY <1>5 DEF NobodyToCrash
  <2> QED
    BY <1>1, <1>3, <2>1, <2>2, <2>3, Restarting DEF LauncherTypeOK, Never
<1>6. CASE CrashOne
  <2>1. PICK lost \in LostWriting :
          /\ MayCrash(AfterRestarts(lost))
          /\ \E v \in Candidates(AfterRestarts(lost)), d \in MinDowntime..MaxDowntime :
               LET crashed == [AfterRestarts(lost) EXCEPT ![v] = "CRASHED"]
                   exited == [AfterRestarts(lost) EXCEPT ![v] = "EXITED"]
               IN  /\ PlanOrBlock(crashed)
                   /\ status' \in {crashed} \cup (IF Gone(v) THEN {exited} ELSE {})
                   /\ restartAt' = [w \in Worker |->
                        IF w = v /\ status'[v] = "CRASHED" THEN clock + d
                        ELSE IF w \in DueRestarts THEN Never ELSE restartAt[w]]
                   /\ SendCommands(v)
    BY <1>6 DEF CrashOne
  <2> DEFINE slots == AfterRestarts(lost)
  <2>2. PICK v \in Candidates(slots), d \in MinDowntime..MaxDowntime :
          /\ PlanOrBlock([slots EXCEPT ![v] = "CRASHED"])
          /\ status' = [slots EXCEPT ![v] = "CRASHED"] \/ status' = [slots EXCEPT ![v] = "EXITED"]
          /\ restartAt' = [w \in Worker |->
               IF w = v /\ status'[v] = "CRASHED" THEN clock + d
               ELSE IF w \in DueRestarts THEN Never ELSE restartAt[w]]
          /\ SendCommands(v)
    BY <2>1
  <2>3. nextCrash' \in Nat /\ blocked' \in BOOLEAN
    <3>1. nextCrash' = Never \/ nextCrash' \in Schedule(clock)
      BY <2>2 DEF PlanOrBlock
    <3>2. blocked' = TRUE \/ blocked' = blocked
      BY <2>2 DEF PlanOrBlock
    <3>3. nextCrash' \in Nat
      BY <3>1, Scheduled DEF LauncherTypeOK, Never
    <3>4. blocked' \in BOOLEAN
      BY <3>2 DEF LauncherTypeOK
    <3> QED
      BY <3>3, <3>4
  <2>4. clock \in Nat /\ clock < Cutoff /\ clock + d \in Nat
        /\ clock + d # Never /\ clock + d < Cutoff + MaxDowntime
    BY <2>1 DEF MayCrash, Finishing, Plan, LauncherTypeOK, Never
  <2>5. v \in Worker /\ slots[v] = "RUNNING"
        /\ slots \in [Worker -> {"RUNNING", "CRASHED", "REJOINING", "EXITED"}]
    BY Restarting DEF Candidates
  <2>6. status' \in [Worker -> {"RUNNING", "CRASHED", "REJOINING", "EXITED"}]
        /\ \A w \in Worker : w # v => status'[w] = slots[w]
    BY <2>2, <2>5
  <2>7. restartAt' \in [Worker -> Nat]
        /\ \A w \in Worker : /\ restartAt'[w] # Never <=> status'[w] = "CRASHED"
                            /\ restartAt'[w] < Cutoff + MaxDowntime
    <3>1. restartAt' \in [Worker -> Nat]
      BY <2>2, <2>4 DEF LauncherTypeOK, Never
    <3>2. ASSUME NEW w \in Worker, w # v
          PROVE  (restartAt'[w] # Never <=> status'[w] = "CRASHED")
                 /\ restartAt'[w] < Cutoff + MaxDowntime
      BY <1>3, <2>2, <2>6, <3>2 DEF LauncherTypeOK, Never
    <3>3. (restartAt'[v] # Never <=> status'[v] = "CRASHED")
          /\ restartAt'[v] < Cutoff + MaxDowntime
      BY <1>3, <2>2, <2>4, <2>5 DEF LauncherTypeOK, Never
    <3> QED
      BY <3>1, <3>2, <3>3
  <2>8. toWorker' \in [Worker -> Seq({"LAUNCHER", "CRASH", "RESTART"})]
    BY <1>2, <2>2
  <2> QED
    BY <1>1, <2>3, <2>6, <2>7, <2>8 DEF LauncherTypeOK
<1> QED
  BY <1>4, <1>5, <1>6

LEMMA TypeOfLauncher ==
  ASSUME LauncherInv, LauncherStep
  PROVE  LauncherTypeOK'
<1> USE DEF LauncherInv
<1>1. CASE ConnectControl
  <2>1. cursor \in Worker
    BY <1>1 DEF ConnectControl, LauncherTypeOK, Plan, Worker
  <2>2. toWorker' \in [Worker -> Seq({"LAUNCHER", "CRASH", "RESTART"})]
    BY <1>1, <2>1, WireTypes DEF ConnectControl, Greet, LauncherTypeOK
  <2>3. cursor' \in 1..WorkerCount + 1
    BY <1>1, <2>1 DEF ConnectControl, Worker
  <2>4. pc' \in {"connect", "events", "ended", "failed"}
    BY <1>1 DEF ConnectControl
  <2> QED
    BY <1>1, <2>2, <2>3, <2>4
    DEF ConnectControl, LauncherTypeOK, planVars, slotVars, workerVars
<1>2. CASE StopProcesses
  BY <1>2 DEF StopProcesses, LauncherTypeOK, planVars, slotVars
<1>3. CASE NoCrash \/ NobodyToCrash \/ CrashOne
  BY <1>3, TypeOfRound
<1>4. CASE LeaveLoop
  <2>1. finished' \in BOOLEAN /\ blocked' \in BOOLEAN /\ started' \in BOOLEAN
    BY <1>4 DEF LeaveLoop, LauncherTypeOK
  <2>2. nextCrash' \in Nat
    BY <1>4 DEF LeaveLoop, LauncherTypeOK, Never
  <2> QED
    BY <1>4, <2>1, <2>2 DEF LeaveLoop, LauncherTypeOK, slotVars, workerVars
<1>5. ASSUME NEW w \in Worker, ReceiveReady(w)
      PROVE  LauncherTypeOK'
  <2>1. toLauncher' \in [Worker -> Seq({"READY", "REJOINED"})]
    BY <1>5, WireTypes DEF ReceiveReady, Receives, LauncherTypeOK
  <2>2. started' \in BOOLEAN /\ woken' \in BOOLEAN /\ ready' \in [Worker -> BOOLEAN]
    BY <1>5 DEF ReceiveReady, Receives, LauncherTypeOK
  <2>3. nextCrash' \in Nat
    BY <1>5 DEF ReceiveReady, LauncherTypeOK
  <2> QED
    BY <1>5, <2>1, <2>2, <2>3 DEF ReceiveReady, Receives, LauncherTypeOK, workerVars
<1>6. ASSUME NEW w \in Worker, ReceiveRejoined(w)
      PROVE  LauncherTypeOK'
  <2>1. toLauncher' \in [Worker -> Seq({"READY", "REJOINED"})] /\ woken' \in BOOLEAN
    BY <1>6, WireTypes DEF ReceiveRejoined, Receives, LauncherTypeOK
  <2>2. /\ status' \in [Worker -> {"RUNNING", "CRASHED", "REJOINING", "EXITED"}]
        /\ \A u \in Worker : status'[u] = "CRASHED" <=> status[u] = "CRASHED"
    BY <1>6 DEF ReceiveRejoined, LauncherTypeOK
  <2>3. blocked' \in BOOLEAN
    BY <1>6 DEF ReceiveRejoined, Unblock, LauncherTypeOK
  <2>4. nextCrash' \in Nat
    <3>1. nextCrash' = nextCrash \/ nextCrash' \in Schedule(clock)
      BY <1>6 DEF ReceiveRejoined, Unblock
    <3> QED
      BY <3>1, Scheduled DEF LauncherTypeOK
  <2> QED
    BY <1>6, <2>1, <2>2, <2>3, <2>4 DEF ReceiveRejoined, Receives, LauncherTypeOK, workerVars
<1>7. ASSUME NEW w \in Worker, ReceiveEof(w)
      PROVE  LauncherTypeOK'
  <2>1. /\ status' \in [Worker -> {"RUNNING", "CRASHED", "REJOINING", "EXITED"}]
        /\ restartAt' \in [Worker -> Nat]
        /\ \A u \in Worker : /\ restartAt'[u] # Never <=> status'[u] = "CRASHED"
                            /\ restartAt'[u] < Cutoff + MaxDowntime
    BY <1>7 DEF ReceiveEof, LauncherTypeOK, Never
  <2> QED
    BY <1>7, <2>1 DEF ReceiveEof, LauncherTypeOK, planVars, workerVars
<1> QED
  BY <1>1, <1>2, <1>3, <1>4, <1>5, <1>6, <1>7 DEF LauncherStep, ConnectFails, StartupFails

LEMMA TypeOfOthers ==
  ASSUME LauncherInv, Tick \/ \E w \in Worker : WorkerStep(w) \/ Stop(w)
  PROVE  LauncherTypeOK'
<1> USE DEF LauncherInv
<1>1. CASE Tick
  BY <1>1 DEF Tick, LauncherTypeOK, loopVars, planVars, slotVars, workerVars
<1>2. ASSUME NEW w \in Worker, WorkerStep(w) \/ Stop(w)
      PROVE  LauncherTypeOK'
  <2>1. UNCHANGED <<loopVars, planVars, clock, slotVars>>
    BY <1>2 DEF WorkerStep, Start, HandleLauncher, HandleCrash, HandleRestart, Takes, Welcome,
                SendRejoined, Stop
  <2>2. mode' \in [Worker -> {"BOOTING", "RUNNING", "CRASHED", "REJOINING", "STOPPED"}]
    BY <1>2 DEF WorkerStep, Start, HandleLauncher, HandleCrash, HandleRestart, Takes, Welcome,
                SendRejoined, Stop, LauncherTypeOK
  <2>3. greeted' \in [Worker -> BOOLEAN] /\ rejoined' \in [Worker -> BOOLEAN]
    BY <1>2 DEF WorkerStep, Start, HandleLauncher, HandleCrash, HandleRestart, Takes, Welcome,
                SendRejoined, Stop, LauncherTypeOK
  <2>4. toWorker' \in [Worker -> Seq({"LAUNCHER", "CRASH", "RESTART"})]
    <3>1. \/ toWorker' = toWorker
          \/ toWorker[w] # <<>> /\ toWorker' = [toWorker EXCEPT ![w] = Tail(@)]
      BY <1>2 DEF WorkerStep, Start, HandleLauncher, HandleCrash, HandleRestart, Takes, Welcome,
                  SendRejoined, Stop
    <3>2. toWorker \in [Worker -> Seq({"LAUNCHER", "CRASH", "RESTART"})]
      BY DEF LauncherTypeOK
    <3>3. toWorker[w] # <<>> =>
            [toWorker EXCEPT ![w] = Tail(@)] \in [Worker -> Seq({"LAUNCHER", "CRASH", "RESTART"})]
      BY <3>2, WireTypes
    <3> QED
      BY <3>1, <3>2, <3>3
  <2>5. toLauncher' \in [Worker -> Seq({"READY", "REJOINED"})]
    <3>1. \/ toLauncher' = toLauncher
          \/ toLauncher' = [toLauncher EXCEPT ![w] = Append(@, "READY")]
          \/ toLauncher' = [toLauncher EXCEPT ![w] = Append(@, "REJOINED")]
          \/ toLauncher' = [toLauncher EXCEPT ![w] = <<>>]
      BY <1>2 DEF WorkerStep, Start, HandleLauncher, HandleCrash, HandleRestart, Takes, Welcome,
                  SendRejoined, WorkerSends, Stop
    <3>2. toLauncher \in [Worker -> Seq({"READY", "REJOINED"})]
      BY DEF LauncherTypeOK
    <3>3. /\ [toLauncher EXCEPT ![w] = <<>>] \in [Worker -> Seq({"READY", "REJOINED"})]
          /\ \A m \in {"READY", "REJOINED"} :
               [toLauncher EXCEPT ![w] = Append(@, m)] \in [Worker -> Seq({"READY", "REJOINED"})]
      BY <3>2, WireTypes
    <3> QED
      BY <3>1, <3>2, <3>3
  <2> QED
    BY <2>1, <2>2, <2>3, <2>4, <2>5 DEF LauncherTypeOK, loopVars, planVars, slotVars
<1> QED
  BY <1>1, <1>2

-----------------------------------------------------------------------------
(* The plan is kept *)

LEMMA PlanOfRound ==
  ASSUME LauncherInv, NoCrash \/ NobodyToCrash \/ CrashOne
  PROVE  Plan'
<1> USE DEF LauncherInv
<1>1. /\ finished' = Finishing /\ pc = "events"
      /\ UNCHANGED <<pc, cursor, started, clock>>
      /\ clock \in Nat /\ DownCount(status) \in Nat
  BY DownCounted DEF LauncherTypeOK, NoCrash, NobodyToCrash, CrashOne, BeginRound
<1>2. CASE NoCrash
  <2>1. PICK lost \in LostWriting :
          /\ ~MayCrash(AfterRestarts(lost)) /\ status' = AfterRestarts(lost)
          /\ nextCrash' = IF Finishing THEN Never ELSE nextCrash
          /\ blocked' = (blocked /\ ~Finishing)
    BY <1>2 DEF NoCrash
  <2>2. /\ Down(status') \subseteq Down(status)
        /\ DownCount(status') <= DownCount(status) /\ DownCount(status') \in Nat
    BY <2>1, Restarting, DownCounted
  <2>3. (\A w \in Worker : status'[w] # "EXITED") =>
          (\A w \in Worker : status[w] # "EXITED") /\ Down(status') = Down(status)
    <3>1. \A w \in Worker : status[w] = "EXITED" => status'[w] = "EXITED"
      BY <2>1 DEF AfterRestarts, DueRestarts
    <3> QED
      BY <2>1, <3>1, Restarting
  <2>4. blocked' /\ (\A w \in Worker : status'[w] # "EXITED") => DownCount(status') = MaxDown
    BY <2>1, <2>3 DEF Plan, DownCount
  <2>5. nextCrash' # Never => ~finished' /\ ~blocked'
    BY <1>1, <2>1 DEF Plan
  <2>6. DownCount(status') <= MaxDown /\ (nextCrash' # Never => DownCount(status') < MaxDown)
    BY <1>1, <2>1, <2>2 DEF Plan
  <2>7. started /\ ~finished' /\ nextCrash' = Never /\ ~blocked' => clock + MaxInterval >= Cutoff
    BY <1>1, <2>1 DEF Plan, Finishing
  <2>8. ~started => ~finished' /\ nextCrash' = Never /\ Down(status') = {}
    BY <1>1, <2>1, <2>2 DEF Plan, Finishing
  <2>9. blocked' => started /\ ~finished'
    BY <1>1, <2>1 DEF Plan
  <2> QED
    BY <1>1, <2>4, <2>5, <2>6, <2>7, <2>8, <2>9 DEF Plan, DownCount
<1>3. CASE NobodyToCrash
  <2>1. PICK lost \in LostWriting :
          /\ MayCrash(AfterRestarts(lost)) /\ Candidates(AfterRestarts(lost)) = {}
          /\ status' = AfterRestarts(lost)
    BY <1>3 DEF NobodyToCrash
  <2>2. nextCrash' = Never /\ blocked' = TRUE /\ started /\ ~finished'
    BY <1>1, <1>3, <2>1 DEF NobodyToCrash, MayCrash, Plan
  <2>3. DownCount(status') < MaxDown /\ DownCount(status') \in Nat
    BY <2>1, DownCounted DEF MayCrash
  <2>4. \E w \in Worker : status'[w] = "EXITED"
    <3>1. PICK w \in Worker : w \notin Down(status')
      BY <2>3, SomeUp
    <3>2. status'[w] \in {"RUNNING", "CRASHED", "REJOINING", "EXITED"} /\ status'[w] # "RUNNING"
      BY <2>1, Restarting DEF Candidates
    <3> QED
      BY <3>1, <3>2 DEF Down
  <2> QED
    BY <1>1, <2>2, <2>3, <2>4 DEF Plan, DownCount
<1>4. CASE CrashOne
  <2>1. PICK lost \in LostWriting :
          /\ MayCrash(AfterRestarts(lost))
          /\ \E v \in Candidates(AfterRestarts(lost)), d \in MinDowntime..MaxDowntime :
               LET crashed == [AfterRestarts(lost) EXCEPT ![v] = "CRASHED"]
                   exited == [AfterRestarts(lost) EXCEPT ![v] = "EXITED"]
               IN  /\ PlanOrBlock(crashed)
                   /\ status' \in {crashed} \cup (IF Gone(v) THEN {exited} ELSE {})
    BY <1>4 DEF CrashOne
  <2> DEFINE slots == AfterRestarts(lost)
  <2>2. PICK v \in Candidates(slots) :
          /\ PlanOrBlock([slots EXCEPT ![v] = "CRASHED"])
          /\ status' = [slots EXCEPT ![v] = "CRASHED"] \/ status' = [slots EXCEPT ![v] = "EXITED"]
    BY <2>1
  <2> DEFINE crashed == [slots EXCEPT ![v] = "CRASHED"]
  <2>3. v \in Worker /\ slots[v] = "RUNNING"
        /\ slots \in [Worker -> {"RUNNING", "CRASHED", "REJOINING", "EXITED"}]
    BY Restarting DEF Candidates
  <2>4. v \notin Down(slots) /\ Down(crashed) = Down(slots) \cup {v}
    BY <2>3 DEF Down
  <2>5. DownCount(crashed) = DownCount(slots) + 1 /\ DownCount(slots) \in Nat
    <3> HIDE DEF slots, crashed
    <3> QED
      BY <2>3, <2>4, DownMore, DownCounted
  <2>6. DownCount(slots) < MaxDown /\ started /\ ~finished' /\ ~blocked /\ ~Finishing
    BY <1>1, <2>1 DEF MayCrash, Plan
  <2>7. \/ status' = crashed
        \/ v \in Worker /\ status'[v] = "EXITED" /\ Down(status') \subseteq Down(slots)
    BY <2>2, <2>3 DEF Down
  <2>8. DownCount(status') <= DownCount(crashed) /\ DownCount(status') \in Nat
    <3>1. Down(status') \subseteq Down(crashed)
      BY <2>4, <2>7
    <3> HIDE DEF crashed
    <3> QED
      BY <3>1, DownLess, DownCounted
  <2>9. CASE DownCount(crashed) >= MaxDown
    <3>1. nextCrash' = Never /\ blocked' = TRUE /\ DownCount(crashed) = MaxDown
      <4> HIDE DEF crashed, slots
      <4>1. nextCrash' = Never /\ blocked' = TRUE
        BY <2>2, <2>9 DEF PlanOrBlock, crashed, slots
      <4>2. DownCount(crashed) = MaxDown
        BY <2>5, <2>6, <2>9
      <4> QED
        BY <4>1, <4>2
    <3>2. (\A w \in Worker : status'[w] # "EXITED") => DownCount(status') = MaxDown
      <4> HIDE DEF crashed, slots
      <4> QED
        BY <2>7, <3>1
    <3> HIDE DEF crashed, slots
    <3> QED
      BY <1>1, <2>6, <2>8, <3>1, <3>2 DEF Plan, DownCount
  <2>10. CASE ~(DownCount(crashed) >= MaxDown)
    <3>1. nextCrash' \in Schedule(clock) /\ blocked' = blocked
      BY <2>2, <2>10 DEF PlanOrBlock
    <3>2. nextCrash' = Never => clock + MaxInterval >= Cutoff
      BY <1>1, <3>1, Scheduled
    <3> HIDE DEF crashed, slots
    <3>3. DownCount(status') < MaxDown
      BY <2>5, <2>8, <2>10
    <3> QED
      BY <1>1, <2>6, <2>8, <3>1, <3>2, <3>3 DEF Plan, DownCount
  <2> QED
    BY <2>9, <2>10
<1> QED
  BY <1>2, <1>3, <1>4

LEMMA PlanOfLauncher ==
  ASSUME LauncherInv, LauncherStep
  PROVE  Plan'
<1> USE DEF LauncherInv
<1>1. CASE ConnectControl
  <2>1. cursor \in Nat /\ (pc' = "connect" => cursor' <= WorkerCount)
    BY <1>1 DEF ConnectControl, LauncherTypeOK, Plan
  <2>2. UNCHANGED <<planVars, clock, status>> /\ ~started
    BY <1>1 DEF ConnectControl, Plan, slotVars
  <2> QED
    BY <2>1, <2>2 DEF Plan, planVars, DownCount, Down
<1>2. CASE StopProcesses
  BY <1>2 DEF StopProcesses, Plan, planVars, slotVars, DownCount, Down
<1>3. CASE NoCrash \/ NobodyToCrash \/ CrashOne
  BY <1>3, PlanOfRound
<1>4. CASE LeaveLoop
  <2>1. UNCHANGED <<started, clock, status>> /\ pc' = "ended"
    BY <1>4 DEF LeaveLoop, slotVars
  <2>2. finished' = (finished \/ started) /\ blocked' = (blocked /\ ~started)
        /\ nextCrash' = IF started THEN Never ELSE nextCrash
    BY <1>4 DEF LeaveLoop
  <2> QED
    BY <2>1, <2>2 DEF Plan, DownCount, Down
<1>5. ASSUME NEW w \in Worker, ReceiveReady(w)
      PROVE  Plan'
  <2>1. UNCHANGED <<pc, finished, clock, status, blocked>> /\ pc = "events"
    BY <1>5 DEF ReceiveReady, Receives
  <2>2. CASE UNCHANGED <<started, nextCrash>>
    BY <2>1, <2>2 DEF Plan, DownCount, Down
  <2>3. CASE ~started /\ started' = TRUE /\ nextCrash' \in MinFirst..MaxFirst
    <3>1. Down(status) = {} /\ DownCount(status) = 0
      BY <2>3, FS_EmptySet DEF Plan, DownCount
    <3>2. nextCrash' # Never /\ DownCount(status) < MaxDown
      BY <2>3, <3>1 DEF Never
    <3>3. DownCount(status)' = DownCount(status)
      BY <2>1 DEF DownCount, Down
    <3> QED
      BY <2>1, <2>3, <3>2, <3>3 DEF Plan
  <2> QED
    BY <1>5, <2>2, <2>3 DEF ReceiveReady
<1>6. ASSUME NEW w \in Worker, ReceiveRejoined(w)
      PROVE  Plan'
  <2>1. UNCHANGED <<pc, finished, clock, started>> /\ pc = "events" /\ clock \in Nat
    BY <1>6 DEF ReceiveRejoined, Receives, LauncherTypeOK
  <2>2. CASE UNCHANGED <<status, nextCrash, blocked>>
    BY <2>1, <2>2 DEF Plan, DownCount, Down
  <2> DEFINE back == [status EXCEPT ![w] = "RUNNING"]
  <2>3. CASE status[w] = "REJOINING" /\ status' = back /\ Unblock(back)
    <3>1. Down(status) = Down(back) \cup {w} /\ w \notin Down(back)
      BY <2>3 DEF Down, LauncherTypeOK
    <3>2. DownCount(status) = DownCount(back) + 1 /\ DownCount(back) \in Nat
      <4> HIDE DEF back
      <4> QED
        BY <3>1, DownMore, DownCounted
    <3>3. started /\ DownCount(status) <= MaxDown /\ DownCount(status') = DownCount(back)
      BY <2>3, <3>1 DEF Plan
    <3>4. CASE blocked
      <4>1. blocked' = FALSE /\ nextCrash' \in Schedule(clock) /\ ~finished
        <5> HIDE DEF back
        <5>1. DownCount(back) < MaxDown
          BY <3>2, <3>3
        <5>2. ~finished
          BY <3>4 DEF Plan
        <5> QED
          BY <2>3, <3>4, <5>1, <5>2 DEF Unblock
      <4>2. nextCrash' = Never => clock + MaxInterval >= Cutoff
        BY <2>1, <4>1, Scheduled
      <4> HIDE DEF back
      <4> QED
        BY <2>1, <3>2, <3>3, <4>1, <4>2 DEF Plan, DownCount
    <3>5. CASE ~blocked
      <4>1. blocked' = blocked /\ nextCrash' = nextCrash
        BY <2>3, <3>5 DEF Unblock
      <4> HIDE DEF back
      <4> QED
        BY <2>1, <3>2, <3>3, <3>5, <4>1 DEF Plan, DownCount
    <3> QED
      BY <3>4, <3>5
  <2> QED
    BY <1>6, <2>2, <2>3 DEF ReceiveRejoined
<1>7. ASSUME NEW w \in Worker, ReceiveEof(w)
      PROVE  Plan'
  <2>1. UNCHANGED <<pc, planVars, clock>> /\ pc = "events" /\ started
    BY <1>7 DEF ReceiveEof, AtEnd
  <2>2. status' = [status EXCEPT ![w] = "EXITED"]
    BY <1>7 DEF ReceiveEof
  <2>3. Down(status') \subseteq Down(status) /\ status'[w] = "EXITED"
    BY <2>2 DEF Down, LauncherTypeOK
  <2>4. DownCount(status') <= DownCount(status) /\ DownCount(status) \in Nat
        /\ DownCount(status') \in Nat
    BY <2>3, DownLess, DownCounted
  <2> QED
    BY <2>1, <2>3, <2>4 DEF Plan, planVars, DownCount
<1> QED
  BY <1>1, <1>2, <1>3, <1>4, <1>5, <1>6, <1>7 DEF LauncherStep, ConnectFails, StartupFails

LEMMA PlanOfOthers ==
  ASSUME LauncherInv, Tick \/ \E w \in Worker : WorkerStep(w) \/ Stop(w)
  PROVE  Plan'
<1> USE DEF LauncherInv
<1>1. UNCHANGED <<loopVars, planVars, status>> /\ clock \in Nat /\ clock' \in {clock, clock + 1}
  <2>1. CASE Tick
    BY <2>1 DEF Tick, slotVars, LauncherTypeOK
  <2>2. ASSUME NEW w \in Worker, WorkerStep(w) \/ Stop(w)
        PROVE  UNCHANGED <<loopVars, planVars, clock, slotVars>>
    BY <2>2 DEF WorkerStep, Start, HandleLauncher, HandleCrash, HandleRestart, Takes, Welcome,
                SendRejoined, Stop
  <2> QED
    BY <2>1, <2>2 DEF slotVars, LauncherTypeOK
<1>2. clock + MaxInterval >= Cutoff => clock' + MaxInterval >= Cutoff
  <2>1. clock \in Nat /\ (clock' = clock \/ clock' = clock + 1)
    BY <1>1
  <2> QED
    BY <2>1
<1>3. UNCHANGED <<pc, cursor, started, nextCrash, blocked, finished, status>>
      /\ DownCount(status') = DownCount(status)
  BY <1>1 DEF loopVars, planVars
<1> QED
  BY <1>2, <1>3 DEF Plan

-----------------------------------------------------------------------------
(* Every worker keeps fitting its slot *)

(* Fits(w) looks at the slot of w, at w and its connection, and at where the
   launcher is. *)
LEMMA Elsewhere ==
  ASSUME NEW w \in Worker, Fits(w), UNCHANGED <<pc, cursor, started>>,
         status'[w] = status[w], ready'[w] = ready[w], mode'[w] = mode[w],
         greeted'[w] = greeted[w], rejoined'[w] = rejoined[w],
         toWorker'[w] = toWorker[w], toLauncher'[w] = toLauncher[w]
  PROVE  Fits(w)'
BY DEF Fits, Gone, Starting, Working

LEMMA FitsOfConnect ==
  ASSUME LauncherInv, ConnectControl, NEW w \in Worker
  PROVE  Fits(w)'
<1> USE DEF LauncherInv
<1>1. cursor \in Worker /\ ~started /\ pc = "connect" /\ cursor' = cursor + 1 /\ Greet(cursor)
      /\ UNCHANGED <<planVars, slotVars, workerVars, toLauncher>>
  BY DEF ConnectControl, LauncherTypeOK, Plan, Worker
<1>2. CASE Gone(w)
  BY <1>1, <1>2 DEF Fits, Gone, workerVars
<1>3. CASE ~Gone(w)
  <2>1. ~ready[w] /\ Starting(w)
    BY <1>1, <1>3 DEF Fits
  <2>2. CASE w = cursor
    <3>1. toWorker[w] = <<>> /\ ~greeted[w] /\ toLauncher[w] = <<>>
      BY <1>1, <2>1, <2>2 DEF Starting, Worker
    <3>2. toWorker'[w] = <<"LAUNCHER">>
      BY <1>1, <1>3, <2>2, <3>1, Wires DEF Greet, LauncherTypeOK, Message
    <3>3. ~(cursor' <= w)
      BY <1>1, <2>2 DEF Worker
    <3> QED
      BY <1>1, <2>1, <3>1, <3>2, <3>3 DEF Fits, Starting, planVars, slotVars, workerVars
  <2>3. CASE w # cursor
    <3>1. toWorker'[w] = toWorker[w]
      BY <1>1, <2>3 DEF Greet, LauncherTypeOK
    <3>2. (pc' = "connect" /\ cursor' <= w) <=> cursor <= w
      <4>1. pc' = IF cursor = WorkerCount THEN "events" ELSE "connect"
        BY DEF ConnectControl
      <4> QED
        BY <1>1, <2>3, <4>1 DEF Worker
    <3> QED
      BY <1>1, <2>1, <3>1, <3>2 DEF Fits, Starting, planVars, slotVars, workerVars
  <2> QED
    BY <2>2, <2>3
<1> QED
  BY <1>2, <1>3

(* A round: RESTART to those who are due, CRASH to the victim. *)
LEMMA FitsOfRound ==
  ASSUME LauncherInv, NoCrash \/ NobodyToCrash \/ CrashOne, NEW w \in Worker
  PROVE  Fits(w)'
<1> USE DEF LauncherInv
<1>1. /\ UNCHANGED <<pc, cursor, started, ready, mode, greeted, rejoined, toLauncher>>
      /\ pc = "events"
  BY DEF NoCrash, NobodyToCrash, CrashOne, BeginRound, workerVars
<1>2. CASE Gone(w)
  BY <1>1, <1>2 DEF Fits, Gone
<1> SUFFICES ASSUME ~Gone(w)
             PROVE  Fits(w)'
  BY <1>2
<1>3. \E lost \in LostWriting, v \in Worker \cup {Nobody} :
        /\ SendCommands(v)
        /\ v = Nobody => status' = AfterRestarts(lost)
        /\ v # Nobody =>
             /\ MayCrash(AfterRestarts(lost)) /\ AfterRestarts(lost)[v] = "RUNNING"
             /\ \/ status' = [AfterRestarts(lost) EXCEPT ![v] = "CRASHED"]
                \/ Gone(v) /\ status' = [AfterRestarts(lost) EXCEPT ![v] = "EXITED"]
  <2>1. CASE NoCrash \/ NobodyToCrash
    BY <2>1 DEF NoCrash, NobodyToCrash
  <2>2. CASE CrashOne
    <3>1. PICK lost \in LostWriting :
            /\ MayCrash(AfterRestarts(lost))
            /\ \E v \in Candidates(AfterRestarts(lost)) :
                 LET crashed == [AfterRestarts(lost) EXCEPT ![v] = "CRASHED"]
                     exited == [AfterRestarts(lost) EXCEPT ![v] = "EXITED"]
                 IN  /\ status' \in {crashed} \cup (IF Gone(v) THEN {exited} ELSE {})
                     /\ SendCommands(v)
      BY <2>2 DEF CrashOne
    <3>2. PICK v \in Candidates(AfterRestarts(lost)) :
            /\ \/ status' = [AfterRestarts(lost) EXCEPT ![v] = "CRASHED"]
               \/ Gone(v) /\ status' = [AfterRestarts(lost) EXCEPT ![v] = "EXITED"]
            /\ SendCommands(v)
      BY <3>1
    <3>3. v \in Worker /\ AfterRestarts(lost)[v] = "RUNNING" /\ v # Nobody
      BY DEF Candidates, Worker, Nobody
    <3> QED
      BY <3>1, <3>2, <3>3
  <2> QED
    BY <2>1, <2>2
<1>4. PICK lost \in LostWriting, v \in Worker \cup {Nobody} :
        /\ SendCommands(v)
        /\ v = Nobody => status' = AfterRestarts(lost)
        /\ v # Nobody =>
             /\ MayCrash(AfterRestarts(lost)) /\ AfterRestarts(lost)[v] = "RUNNING"
             /\ \/ status' = [AfterRestarts(lost) EXCEPT ![v] = "CRASHED"]
                \/ Gone(v) /\ status' = [AfterRestarts(lost) EXCEPT ![v] = "EXITED"]
  BY <1>3
<1>5. w \notin lost /\ w # Nobody
  BY DEF LostWriting, Worker, Nobody
<1>6. AfterRestarts(lost)[w] = IF w \in DueRestarts THEN "REJOINING" ELSE status[w]
  BY <1>5 DEF AfterRestarts
<1>7. toWorker'[w] = IF w \in DueRestarts THEN Append(toWorker[w], "RESTART")
                     ELSE IF w = v THEN Append(toWorker[w], "CRASH") ELSE toWorker[w]
  BY <1>4 DEF SendCommands
<1>8. CASE w = v
  <2>1. started /\ status[w] = "RUNNING" /\ w \notin DueRestarts
    BY <1>4, <1>5, <1>6, <1>8 DEF MayCrash, Plan
  <2>2. status'[w] = "CRASHED"
    BY <1>4, <1>5, <1>8, Restarting
  <2>3. ready[w] /\ greeted[w] /\ mode[w] = "RUNNING" /\ toWorker[w] = <<>>
        /\ toLauncher[w] = <<>> /\ ~rejoined[w]
    BY <2>1 DEF Fits, Working
  <2>4. toWorker'[w] = <<"CRASH">>
    BY <1>7, <1>8, <2>1, <2>3, Wires DEF Message
  <2> QED
    BY <1>1, <2>2, <2>3, <2>4 DEF Fits, Working
<1>9. CASE w # v /\ w \in DueRestarts
  <2>1. status[w] = "CRASHED" /\ status'[w] = "REJOINING"
    <3>1. status'[w] = AfterRestarts(lost)[w]
      BY <1>4, <1>9, Restarting
    <3> QED
      BY <1>6, <1>9, <3>1 DEF DueRestarts
  <2>2. ready[w] /\ greeted[w] /\ toLauncher[w] = <<>> /\ ~rejoined[w]
        /\ \/ mode[w] = "RUNNING" /\ toWorker[w] = <<"CRASH">>
           \/ mode[w] = "CRASHED" /\ toWorker[w] = <<>>
    BY <2>1 DEF Fits, Starting, Working
  <2>3. \/ mode[w] = "RUNNING" /\ toWorker'[w] = <<"CRASH", "RESTART">>
        \/ mode[w] = "CRASHED" /\ toWorker'[w] = <<"RESTART">>
    BY <1>7, <1>9, <2>2, Wires DEF Message
  <2> QED
    BY <1>1, <2>1, <2>2, <2>3 DEF Fits, Working
<1>10. CASE w # v /\ w \notin DueRestarts
  <2>1. status'[w] = status[w] /\ toWorker'[w] = toWorker[w]
    <3>1. status'[w] = AfterRestarts(lost)[w]
      BY <1>4, <1>10, Restarting
    <3> QED
      BY <1>6, <1>7, <1>10, <3>1
  <2> QED
    BY <1>1, <2>1, Elsewhere
<1> QED
  BY <1>8, <1>9, <1>10

LEMMA FitsOfMessages ==
  ASSUME LauncherInv, NEW u \in Worker,
         ReceiveReady(u) \/ ReceiveRejoined(u) \/ ReceiveEof(u),
         NEW w \in Worker
  PROVE  Fits(w)'
<1> USE DEF LauncherInv
<1>1. UNCHANGED <<pc, cursor, mode, greeted, rejoined, toWorker>> /\ pc = "events"
  BY DEF ReceiveReady, ReceiveRejoined, ReceiveEof, Receives, AtEnd, workerVars
<1>2. CASE Gone(w)
  BY <1>1, <1>2 DEF Fits, Gone
<1>3. CASE ~Gone(w) /\ ReceiveEof(u)
  <2>1. u # w /\ status'[w] = status[w]
    BY <1>3 DEF ReceiveEof, AtEnd, LauncherTypeOK
  <2>2. UNCHANGED <<started, ready, toLauncher>>
    BY <1>3 DEF ReceiveEof, planVars
  <2> QED
    BY <1>1, <2>1, <2>2, Elsewhere
<1>4. CASE ~Gone(w) /\ ReceiveReady(u)
  <2>1. /\ toLauncher[u] # <<>> /\ Head(toLauncher[u]) = "READY"
        /\ toLauncher' = [toLauncher EXCEPT ![u] = Tail(@)]
        /\ ready' = [ready EXCEPT ![u] = TRUE] /\ status' = status
        /\ \/ ~started /\ started' = TRUE /\ \A x \in Worker \ {u} : ready[x]
           \/ started' = started
    BY <1>4 DEF ReceiveReady, Receives
  <2>2. CASE u = w
    <3>1. toLauncher[w] # <<"REJOINED">>
      BY <2>1, <2>2, Wires DEF Message
    <3>2. ~ready[w] /\ Starting(w)
      BY <1>4, <2>1, <2>2, <3>1 DEF Fits, Working
    <3>3. greeted[w] /\ toWorker[w] = <<>> /\ toLauncher[w] = <<"READY">>
          /\ mode[w] = "RUNNING" /\ status[w] = "RUNNING" /\ ~rejoined[w]
      BY <2>1, <2>2, <3>2 DEF Starting
    <3>4. toLauncher'[w] = <<>>
      BY <2>1, <2>2, <3>3, Wires DEF LauncherTypeOK, Message
    <3>5. ready'[w]
      BY <2>1, <2>2 DEF LauncherTypeOK
    <3> QED
      BY <1>1, <2>1, <3>3, <3>4, <3>5 DEF Fits, Working
  <2>3. CASE u # w
    <3>1. ready'[w] = ready[w] /\ toLauncher'[w] = toLauncher[w]
      BY <2>1, <2>3 DEF LauncherTypeOK
    <3>2. CASE started' = started
      BY <1>1, <2>1, <3>1, <3>2, Elsewhere
    <3>3. CASE ready[w]
      BY <1>1, <1>4, <2>1, <3>1, <3>3 DEF Fits, Working
    <3> QED
      BY <2>1, <2>3, <3>2, <3>3
  <2> QED
    BY <2>2, <2>3
<1>5. CASE ~Gone(w) /\ ReceiveRejoined(u)
  <2>1. /\ toLauncher[u] # <<>> /\ Head(toLauncher[u]) = "REJOINED"
        /\ toLauncher' = [toLauncher EXCEPT ![u] = Tail(@)]
        /\ started' = started /\ ready' = ready
        /\ status' = IF status[u] = "REJOINING" THEN [status EXCEPT ![u] = "RUNNING"] ELSE status
    BY <1>5 DEF ReceiveRejoined, Receives
  <2>2. CASE u = w
    <3>1. toLauncher[w] # <<"READY">>
      BY <2>1, <2>2, Wires DEF Message
    <3>2. ready[w] /\ greeted[w] /\ Working(w)
      BY <1>5, <2>1, <2>2, <3>1 DEF Fits, Starting
    <3>3. /\ status[w] = "REJOINING" /\ mode[w] = "RUNNING" /\ toWorker[w] = <<>>
          /\ toLauncher[w] = <<"REJOINED">> /\ ~rejoined[w]
      BY <2>1, <2>2, <3>2 DEF Working
    <3>4. toLauncher'[w] = <<>>
      BY <2>1, <2>2, <3>3, Wires DEF LauncherTypeOK, Message
    <3>5. status'[w] = "RUNNING"
      BY <2>1, <2>2, <3>3 DEF LauncherTypeOK
    <3> QED
      BY <1>1, <2>1, <3>2, <3>3, <3>4, <3>5 DEF Fits, Working
  <2>3. CASE u # w
    <3>1. status'[w] = status[w] /\ toLauncher'[w] = toLauncher[w]
      BY <2>1, <2>3 DEF LauncherTypeOK
    <3> QED
      BY <1>1, <2>1, <3>1, Elsewhere
  <2> QED
    BY <2>2, <2>3
<1> QED
  BY <1>2, <1>3, <1>4, <1>5

LEMMA FitsOfWorker ==
  ASSUME LauncherInv, NEW u \in Worker, WorkerStep(u) \/ Stop(u), NEW w \in Worker
  PROVE  Fits(w)'
<1> USE DEF LauncherInv
<1>1. UNCHANGED <<pc, cursor, started, status, ready>>
  BY DEF WorkerStep, Start, HandleLauncher, HandleCrash, HandleRestart, Takes, Welcome,
         SendRejoined, Stop, loopVars, planVars, slotVars
<1>2. CASE u # w
  <2>1. mode'[w] = mode[w] /\ greeted'[w] = greeted[w] /\ rejoined'[w] = rejoined[w]
    BY <1>2 DEF WorkerStep, Start, HandleLauncher, HandleCrash, HandleRestart, Takes, Welcome,
                SendRejoined, Stop, LauncherTypeOK
  <2>2. toWorker'[w] = toWorker[w] /\ toLauncher'[w] = toLauncher[w]
    BY <1>2 DEF WorkerStep, Start, HandleLauncher, HandleCrash, HandleRestart, Takes, Welcome,
                SendRejoined, WorkerSends, Stop, LauncherTypeOK
  <2> QED
    BY <1>1, <2>1, <2>2, Elsewhere
<1>3. CASE u = w /\ Gone(w)
  <2>1. mode'[w] = "STOPPED"
    BY <1>3 DEF WorkerStep, Start, HandleLauncher, HandleCrash, HandleRestart, Takes, Welcome,
                SendRejoined, Stop, Gone
  <2> QED
    BY <2>1 DEF Fits, Gone
<1>4. CASE u = w /\ ~Gone(w) /\ Start(w)
  <2>1. mode[w] = "BOOTING" /\ mode'[w] = "RUNNING" /\ ~ready[w] /\ ~started /\ Starting(w)
        /\ UNCHANGED <<greeted, rejoined, toWorker>>
    BY <1>4 DEF Start, Fits, Working, LauncherTypeOK
  <2>2. toLauncher'[w] = IF greeted[w] THEN <<"READY">> ELSE toLauncher[w]
    <3>1. toLauncher[w] = <<>>
      BY <2>1 DEF Starting
    <3> QED
      BY <1>4, <3>1, Wires DEF Start, WorkerSends, LauncherTypeOK, Message
  <2> QED
    BY <1>1, <2>1, <2>2 DEF Fits, Starting
<1>5. CASE u = w /\ ~Gone(w) /\ HandleLauncher(w)
  <2>1. /\ toWorker[w] # <<>> /\ Head(toWorker[w]) = "LAUNCHER"
        /\ toWorker' = [toWorker EXCEPT ![w] = Tail(@)]
        /\ greeted' = [greeted EXCEPT ![w] = TRUE] /\ UNCHANGED <<mode, rejoined>>
    BY <1>5 DEF HandleLauncher, Takes
  <2>2. ~ready[w] /\ ~started /\ Starting(w)
    BY <1>5, <2>1, Wires DEF Fits, Working, Message
  <2>3. ~(pc = "connect" /\ cursor <= w) /\ toWorker[w] = <<"LAUNCHER">> /\ toLauncher[w] = <<>>
    BY <2>1, <2>2 DEF Starting
  <2>4. toWorker'[w] = <<>> /\ greeted'[w]
    BY <2>1, <2>3, Wires DEF LauncherTypeOK, Message
  <2>5. toLauncher'[w] = IF mode[w] = "BOOTING" THEN <<>> ELSE <<"READY">>
    <3>1. mode[w] = "BOOTING" \/ mode[w] = "RUNNING"
      BY <2>2 DEF Starting
    <3> QED
      BY <1>5, <2>3, <3>1, Wires DEF HandleLauncher, WorkerSends, LauncherTypeOK, Message
  <2> QED
    BY <1>1, <2>1, <2>2, <2>3, <2>4, <2>5 DEF Fits, Starting
<1>6. CASE u = w /\ ~Gone(w) /\ (HandleCrash(w) \/ HandleRestart(w))
  <2>1. /\ toWorker[w] # <<>> /\ Head(toWorker[w]) \in {"CRASH", "RESTART"}
        /\ toWorker' = [toWorker EXCEPT ![w] = Tail(@)]
        /\ UNCHANGED <<greeted, rejoined, toLauncher>>
    BY <1>6 DEF HandleCrash, HandleRestart, Takes
  <2>2. ready[w] /\ pc # "connect" /\ greeted[w] /\ Working(w)
    BY <1>6, <2>1, Wires DEF Fits, Starting, Message
  <2>3. /\ toLauncher[w] = <<>> /\ ~rejoined[w]
        /\ \/ /\ status[w] = "CRASHED" /\ mode[w] = "RUNNING" /\ toWorker[w] = <<"CRASH">>
           \/ /\ status[w] = "REJOINING" /\ mode[w] = "RUNNING"
              /\ toWorker[w] = <<"CRASH", "RESTART">>
           \/ /\ status[w] = "REJOINING" /\ mode[w] = "CRASHED"
              /\ toWorker[w] = <<"RESTART">>
    BY <2>1, <2>2 DEF Working
  <2>4. \/ /\ status[w] = "CRASHED" /\ mode'[w] = "CRASHED" /\ toWorker'[w] = <<>>
        \/ /\ status[w] = "REJOINING" /\ mode'[w] = "CRASHED" /\ toWorker'[w] = <<"RESTART">>
        \/ /\ status[w] = "REJOINING" /\ mode'[w] = "REJOINING" /\ toWorker'[w] = <<>>
    <3>1. toWorker'[w] = Tail(toWorker[w])
      BY <2>1 DEF LauncherTypeOK
    <3>2. CASE HandleCrash(w)
      <4>1. mode[w] = "RUNNING" /\ mode'[w] = "CRASHED"
        BY <2>3, <3>2, Wires DEF HandleCrash, Takes, LauncherTypeOK, Message
      <4> QED
        BY <2>3, <3>1, <4>1, Wires DEF Message
    <3>3. CASE HandleRestart(w)
      <4>1. mode[w] = "CRASHED" /\ mode'[w] = "REJOINING"
        BY <2>3, <3>3, Wires DEF HandleRestart, Takes, LauncherTypeOK, Message
      <4> QED
        BY <2>3, <3>1, <4>1, Wires DEF Message
    <3> QED
      BY <1>6, <3>2, <3>3
  <2> QED
    BY <1>1, <2>1, <2>2, <2>3, <2>4 DEF Fits, Working
<1>7. CASE u = w /\ ~Gone(w) /\ (Welcome(w) \/ SendRejoined(w))
  <2>1. UNCHANGED <<greeted, toWorker>>
    BY <1>7 DEF Welcome, SendRejoined
  <2>2. ready[w] /\ pc # "connect" /\ greeted[w] /\ Working(w)
    BY <1>7 DEF Welcome, SendRejoined, Fits, Starting
  <2>3. CASE Welcome(w)
    BY <1>1, <2>1, <2>2, <2>3 DEF Welcome, Fits, Working, LauncherTypeOK
  <2>4. CASE SendRejoined(w)
    <3>1. /\ status[w] = "REJOINING" /\ mode[w] = "RUNNING" /\ toWorker[w] = <<>>
          /\ toLauncher[w] = <<>>
      BY <2>2, <2>4 DEF SendRejoined, Working
    <3>2. ~rejoined'[w] /\ mode'[w] = "RUNNING" /\ toLauncher'[w] = <<"REJOINED">>
      BY <2>4, <3>1, Wires DEF SendRejoined, WorkerSends, LauncherTypeOK, Message
    <3> QED
      BY <1>1, <2>1, <2>2, <3>1, <3>2 DEF Fits, Working
  <2> QED
    BY <1>7, <2>3, <2>4
<1>8. CASE u = w /\ Stop(w)
  BY <1>8 DEF Stop, Fits, Gone, LauncherTypeOK
<1> QED
  BY <1>2, <1>3, <1>4, <1>5, <1>6, <1>7, <1>8 DEF WorkerStep

-----------------------------------------------------------------------------
(* Theorems *)

LEMMA InvInit == LauncherInit => LauncherInv
<1> SUFFICES ASSUME LauncherInit
             PROVE  LauncherInv
  OBVIOUS
<1>1. Down(status) = {} /\ DownCount(status) = 0
  BY FS_EmptySet DEF LauncherInit, Down, DownCount
<1>2. Plan
  BY <1>1 DEF LauncherInit, Plan
<1>3. \A w \in Worker : Fits(w)
  BY DEF LauncherInit, Fits, Starting, Worker
<1> QED
  BY <1>2, <1>3, TypeInit DEF LauncherInv

LEMMA InvStep == LauncherInv /\ [LauncherNext]_vars => LauncherInv'
<1> SUFFICES ASSUME LauncherInv, [LauncherNext]_vars
             PROVE  LauncherInv'
  OBVIOUS
<1>1. CASE UNCHANGED vars
  <2>1. UNCHANGED <<pc, cursor, woken, started, clock, nextCrash, blocked, finished, status,
                    restartAt, ready, mode, greeted, rejoined, toWorker, toLauncher>>
    BY <1>1 DEF vars, loopVars, planVars, slotVars, workerVars
  <2>2. LauncherTypeOK'
    BY <2>1 DEF LauncherInv, LauncherTypeOK
  <2>3. Plan'
    BY <2>1 DEF LauncherInv, Plan, DownCount, Down
  <2>4. \A w \in Worker : Fits(w)'
    BY <2>1, Elsewhere DEF LauncherInv
  <2> QED
    BY <2>2, <2>3, <2>4 DEF LauncherInv
<1>2. CASE LauncherStep
  <2>1. \A w \in Worker : Fits(w)'
    <3> SUFFICES ASSUME NEW w \in Worker
                 PROVE  Fits(w)'
      OBVIOUS
    <3>1. CASE StopProcesses
      BY <3>1 DEF StopProcesses, Fits, Gone
    <3>2. CASE LeaveLoop
      <4>1. UNCHANGED <<cursor, started, status, ready, mode, greeted, rejoined, toWorker,
                        toLauncher>> /\ pc = "events" /\ pc' = "ended"
        BY <3>2 DEF LeaveLoop, slotVars, workerVars
      <4> QED
        BY <4>1 DEF LauncherInv, Fits, Gone, Starting, Working
    <3> QED
      BY <1>2, <3>1, <3>2, FitsOfConnect, FitsOfRound, FitsOfMessages
      DEF LauncherStep, ConnectFails, StartupFails
  <2> QED
    BY <1>2, <2>1, TypeOfLauncher, PlanOfLauncher DEF LauncherInv
<1>3. CASE Tick
  <2>1. \A w \in Worker : Fits(w)'
    <3>1. UNCHANGED <<pc, cursor, started, status, ready, mode, greeted, rejoined, toWorker,
                      toLauncher>>
      BY <1>3 DEF Tick, loopVars, planVars, slotVars, workerVars
    <3> QED
      BY <3>1, Elsewhere DEF LauncherInv
  <2> QED
    BY <1>3, <2>1, TypeOfOthers, PlanOfOthers DEF LauncherInv
<1>4. CASE \E w \in Worker : WorkerStep(w) \/ Stop(w)
  <2>1. \A w \in Worker : Fits(w)'
    BY <1>4, FitsOfWorker
  <2> QED
    BY <1>4, <2>1, TypeOfOthers, PlanOfOthers DEF LauncherInv
<1> QED
  BY <1>1, <1>2, <1>3, <1>4 DEF LauncherNext

(* The inductive invariant: every worker is where its slot and the messages
   in flight say it is, and the plan of the crashes agrees with the slots. *)
THEOREM LauncherInvariant == LauncherSpec => []LauncherInv
BY InvInit, InvStep, PTL DEF LauncherSpec

(* The variables of the launcher and of the workers keep their types. *)
THEOREM LauncherTyping == LauncherSpec => []LauncherTypeOK
BY LauncherInvariant, PTL DEF LauncherInv

(* ChaosController keeps at most max_down workers really down, however late
   its commands arrive and the workers report back. *)
THEOREM BoundedDown == LauncherSpec => []AtMostMaxDown
<1>1. LauncherInv => AtMostMaxDown
  <2> SUFFICES ASSUME LauncherInv
               PROVE  AtMostMaxDown
    OBVIOUS
  <2> DEFINE reallyDown == {w \in Worker : mode[w] \in {"CRASHED", "REJOINING"}}
  <2>1. reallyDown \subseteq Down(status)
    BY DEF LauncherInv, Fits, Gone, Starting, Working, Down
  <2>2. Cardinality(reallyDown) <= Cardinality(Down(status))
        /\ Cardinality(reallyDown) \in Nat /\ Cardinality(Down(status)) \in Nat
    BY <2>1, DownCounted, FS_Subset, FS_CardinalityType
  <2> QED
    BY <2>2 DEF LauncherInv, Plan, DownCount, AtMostMaxDown
<1> QED
  BY <1>1, LauncherInvariant, PTL

(* due_crash and mark_rejoined keep a crash planned until the cutoff unless
   max_down workers are down. *)
THEOREM Resuming == LauncherSpec => []PlanResumes
<1>1. LauncherInv => PlanResumes
  <2> SUFFICES ASSUME LauncherInv, pc = "events", started, ~finished, nextCrash = Never,
                      \A w \in Worker : ~Gone(w)
               PROVE  IF blocked THEN DownCount(status) = MaxDown ELSE clock + MaxInterval >= Cutoff
    BY DEF PlanResumes
  <2>1. \A w \in Worker : status[w] # "EXITED"
    BY DEF LauncherInv, Fits, Starting, Working
  <2> QED
    BY <2>1 DEF LauncherInv, Plan
<1> QED
  BY <1>1, LauncherInvariant, PTL

(* After a round of _event_loop next_deadline lies in the future. *)
THEOREM NoSpin == LauncherSpec => NoSpinning
<1>1. LauncherInv /\ [LauncherNext]_vars
        => [NoCrash \/ NobodyToCrash \/ CrashOne => \A t \in Alarms' : t > clock]_vars
  <2> SUFFICES ASSUME LauncherInv, NoCrash \/ NobodyToCrash \/ CrashOne
               PROVE  \A t \in Alarms' : t > clock
    OBVIOUS
  <2>1. finished' = Finishing /\ UNCHANGED <<started, clock>> /\ clock \in Nat
    BY DEF NoCrash, NobodyToCrash, CrashOne, BeginRound, LauncherInv, LauncherTypeOK
  <2>2. started' /\ ~finished' => Cutoff > clock
    <3> SUFFICES ASSUME started', ~finished'
                 PROVE  Cutoff > clock
      OBVIOUS
    <3>1. started /\ ~Finishing
      BY <2>1
    <3>2. ~(clock >= Cutoff)
      BY <3>1 DEF Finishing
    <3> QED
      BY <2>1, <3>2
  <2>3. nextCrash' # Never => nextCrash' > clock
    <3>1. CASE NoCrash
      <4>1. PICK lost \in LostWriting :
              /\ ~MayCrash(AfterRestarts(lost))
              /\ nextCrash' = IF Finishing THEN Never ELSE nextCrash
        BY <3>1 DEF NoCrash
      <4>2. nextCrash # Never => DownCount(AfterRestarts(lost)) < MaxDown
        <5>1. DownCount(AfterRestarts(lost)) <= DownCount(status)
          BY Restarting DEF LauncherInv
        <5>2. DownCount(AfterRestarts(lost)) \in Nat /\ DownCount(status) \in Nat
          BY DownCounted
        <5> QED
          BY <5>1, <5>2 DEF LauncherInv, Plan
      <4>3. nextCrash \in Nat
        BY DEF LauncherInv, LauncherTypeOK
      <4> QED
        BY <2>1, <4>1, <4>2, <4>3 DEF MayCrash
    <3>2. CASE NobodyToCrash
      BY <3>2 DEF NobodyToCrash
    <3>3. CASE CrashOne
      <4>1. nextCrash' = Never \/ nextCrash' \in Schedule(clock)
        BY <3>3 DEF CrashOne, PlanOrBlock
      <4> QED
        BY <2>1, <4>1, Scheduled
    <3> QED
      BY <3>1, <3>2, <3>3
  <2>4. ASSUME NEW w \in Worker, status'[w] = "CRASHED"
        PROVE  restartAt'[w] > clock
    <3>1. ASSUME w \notin DueRestarts, status[w] = "CRASHED"
          PROVE  restartAt[w] > clock
      BY <2>1, <3>1 DEF DueRestarts, LauncherInv, LauncherTypeOK
    <3>2. LauncherTypeOK' /\ restartAt'[w] # Never
      <4>1. LauncherTypeOK'
        BY TypeOfRound
      <4> QED
        BY <2>4, <4>1 DEF LauncherTypeOK
    <3>3. CASE NoCrash \/ NobodyToCrash
      <4>1. restartAt' = [x \in Worker |-> IF x \in DueRestarts THEN Never ELSE restartAt[x]]
        BY <3>3 DEF NoCrash, NobodyToCrash
      <4>2. w \notin DueRestarts /\ restartAt'[w] = restartAt[w]
        BY <3>2, <4>1
      <4>3. status[w] = "CRASHED"
        BY <3>2, <4>2 DEF LauncherInv, LauncherTypeOK
      <4> QED
        BY <3>1, <4>2, <4>3
    <3>4. CASE CrashOne
      <4>1. \E d \in MinDowntime..MaxDowntime :
              \/ restartAt'[w] = clock + d
              \/ w \in DueRestarts /\ restartAt'[w] = Never
              \/ w \notin DueRestarts /\ restartAt'[w] = restartAt[w]
        <5>1. PICK v \in Worker, d \in MinDowntime..MaxDowntime :
                restartAt' = [x \in Worker |->
                  IF x = v /\ status'[v] = "CRASHED" THEN clock + d
                  ELSE IF x \in DueRestarts THEN Never ELSE restartAt[x]]
          <6>1. PICK lost \in LostWriting :
                  \E v \in Candidates(AfterRestarts(lost)), d \in MinDowntime..MaxDowntime :
                    restartAt' = [x \in Worker |->
                      IF x = v /\ status'[v] = "CRASHED" THEN clock + d
                      ELSE IF x \in DueRestarts THEN Never ELSE restartAt[x]]
            BY <3>4 DEF CrashOne
          <6> QED
            BY <6>1 DEF Candidates
        <5> QED
          BY <5>1
      <4>2. CASE w \notin DueRestarts /\ restartAt'[w] = restartAt[w]
        <5>1. status[w] = "CRASHED"
          BY <3>2, <4>2 DEF LauncherInv, LauncherTypeOK
        <5> QED
          BY <3>1, <4>2, <5>1
      <4>3. ASSUME NEW d \in MinDowntime..MaxDowntime, restartAt'[w] = clock + d
            PROVE  restartAt'[w] > clock
        BY <2>1, <4>3
      <4> QED
        BY <3>2, <4>1, <4>2, <4>3
    <3> QED
      BY <3>3, <3>4
  <2> QED
    BY <2>2, <2>3, <2>4 DEF Alarms
<1> QED
  BY <1>1, LauncherInvariant, PTL DEF LauncherSpec, NoSpinning
=============================================================================
