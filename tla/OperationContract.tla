------------------------- MODULE OperationContract -------------------------
(***************************************************************************)
(* What a durable decision task promises to whoever submitted it and reads *)
(* its status and its run events, with no worker, lease, request or        *)
(* message in sight.  Every change of status is logged in the same step;   *)
(* logs of replaced runs are frozen and the current one only grows; the    *)
(* three final states are never left; a retry is a new run; a paused task  *)
(* moves only by resuming or being cancelled.                              *)
(***************************************************************************)
EXTENDS Integers, SequencesExt

CONSTANTS Ops, Runs, PausedStates

VARIABLES status,  \* the state a reader of the task sees
          run,     \* number of the current Agent Run
          log      \* the run events a subscriber replays, per run

vars == <<status, run, log>>

Outcomes == {"COMPLETED", "FAILED_RETRYABLE", "FAILED_FINAL", "PARTIAL"} \cup PausedStates

(* The task state that announces a status. *)
Announced(s) ==
  CASE s = "ACCEPTED" -> "CREATED"
    [] s = "RUNNING"  -> "UNDERSTANDING"
    [] s \in {"FAILED_RETRYABLE", "FAILED_FINAL", "PARTIAL"} -> "FAILED"
    [] OTHER          -> s

Init ==
  /\ status = [o \in Ops |-> "ABSENT"]
  /\ run = [o \in Ops |-> 0]
  /\ log = [o \in Ops |-> [n \in Runs |-> <<>>]]

(* Operation o gets status s in run n, whose log becomes events; nothing   *)
(* else moves.                                                             *)
Becomes(o, s, n, events) ==
  /\ status' = [status EXCEPT ![o] = s]
  /\ run' = [run EXCEPT ![o] = n]
  /\ log' = [log EXCEPT ![o][n] = events]

(* The current run's log grows to one that ends by announcing s. *)
Continues(o, s) ==
  LET events == log'[o][run[o]]
  IN /\ IsStrictPrefix(log[o][run[o]], events)
     /\ Last(events) = Announced(s)
     /\ Becomes(o, s, run[o], events)

Accept(o) ==
  /\ status[o] = "ABSENT"
  /\ Becomes(o, "ACCEPTED", 1, <<"CREATED">>)

Start(o) ==
  /\ status[o] \in {"ACCEPTED"} \cup PausedStates
  /\ Continues(o, "RUNNING")

Retry(o) ==
  /\ status[o] = "FAILED_RETRYABLE"
  /\ Becomes(o, "RUNNING", run[o] + 1, <<"CREATED", "UNDERSTANDING">>)

Conclude(o) ==
  /\ status[o] = "RUNNING"
  /\ \E s \in Outcomes : Continues(o, s)

(* A denied resume announces the pause once more. *)
Remind(o) ==
  /\ status[o] \in PausedStates
  /\ Continues(o, status[o])

Cancel(o) ==
  /\ status[o] \in {"ACCEPTED", "RUNNING", "FAILED_RETRYABLE", "PARTIAL"} \cup PausedStates
  /\ Continues(o, "CANCELLED")

Next ==
  \E o \in Ops :
    Accept(o) \/ Start(o) \/ Retry(o) \/ Conclude(o) \/ Remind(o) \/ Cancel(o)

Spec == Init /\ [][Next]_vars

=============================================================================
