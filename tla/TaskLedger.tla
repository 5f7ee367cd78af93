----------------------------- MODULE TaskLedger -----------------------------
(***************************************************************************)
(* What the coordinator's task table promises, whatever its threads do:    *)
(* every task is held under a numbered grant, a grant is only ever         *)
(* replaced by the next number, and the one commit of a task closes it.    *)
(* Tables (HW3/hw3/coordinator/tables.py) is shown to implement this.      *)
(***************************************************************************)
EXTENDS Naturals

CONSTANTS Task, Worker, Value, None

VARIABLES
  holder,    \* the worker holding the current grant of a task, or None
  grant,     \* number of the current grant; 0 before the first one
  outcome    \* the committed value, None while the task is open

ledgerVars == <<holder, grant, outcome>>

LedgerInit ==
  /\ holder = [k \in Task |-> None]
  /\ grant = [k \in Task |-> 0]
  /\ outcome = [k \in Task |-> None]

(* A task is handed out for the first time. *)
Grant(k, w) ==
  /\ grant[k] = 0
  /\ holder' = [holder EXCEPT ![k] = w]
  /\ grant' = [grant EXCEPT ![k] = 1]
  /\ UNCHANGED outcome

(* The grant moves to another worker under the next number, which fences   *)
(* off every result computed under an earlier one.                         *)
Regrant(k, w) ==
  /\ grant[k] > 0 /\ outcome[k] = None /\ w # holder[k]
  /\ holder' = [holder EXCEPT ![k] = w]
  /\ grant' = [grant EXCEPT ![k] = @ + 1]
  /\ UNCHANGED outcome

(* The task closes with one value. *)
Close(k, v) ==
  /\ grant[k] > 0 /\ outcome[k] = None
  /\ outcome' = [outcome EXCEPT ![k] = v]
  /\ UNCHANGED <<holder, grant>>

LedgerNext ==
  \E k \in Task :
    \/ \E w \in Worker : Grant(k, w) \/ Regrant(k, w)
    \/ \E v \in Value : Close(k, v)

LedgerSpec == LedgerInit /\ [][LedgerNext]_ledgerVars
=============================================================================
