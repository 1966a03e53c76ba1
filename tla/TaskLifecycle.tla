--------------------------- MODULE TaskLifecycle ---------------------------
(***************************************************************************)
(* The life of a durable decision-task operation: submission, claims under *)
(* a lease by orchestrator workers, execution, pause, user-confirmed       *)
(* resume, cancellation and completion, with the run-event log that every  *)
(* step writes in the same transaction                                     *)
(* (packages/task-persistence/src/index.ts, driven by                      *)
(* apps/orchestrator/src/worker.ts and decision-tasks/executor.ts).        *)
(*                                                                         *)
(* One action is one committed transaction or one process step.  A         *)
(* decision task owns one operation, so "the latest operation of the task" *)
(* is the operation itself.  Message delivery is not modelled here: an     *)
(* idle worker may be handed any operation at any time, which covers every *)
(* order, duplicate and delay of the stream.                               *)
(*                                                                         *)
(* A lease is the number of ticks it still has: Expired means that         *)
(* lease_expires_at < now, 0 that it is the present instant, NoLease that  *)
(* the column is NULL.  Handlers read the clock before they wait for a     *)
(* connection and the row lock, so a claim may be granted with part of its *)
(* lease, or all of it, already spent, and a completion that was in time   *)
(* when it read the clock may reach the row after the lease expired.       *)
(***************************************************************************)
EXTENDS Integers, SequencesExt

CONSTANTS Ops,           \* submitted operations
          Workers,       \* worker ids, one live process each
          Requests,      \* RESUME control requests
          None,          \* SQL NULL
          Lease,         \* ticks a claim lasts (leaseDurationMs)
          MaxAttempts,   \* bound: Agent Runs per operation (the code has none)
          MaxSnapshots,  \* bound: recovery facts saved per operation
          PausedStates,  \* the PAUSED_* states in use
          Stages,        \* intermediate states a Runtime may report
          Permissions    \* verdicts of evaluateRuntimeRecoveryPermissionV1 in use

RuntimeStates == {"CREATED", "UNDERSTANDING", "COMPLETED", "FAILED", "CANCELLED"}
FailureStates == {"FAILED_RETRYABLE", "FAILED_FINAL", "PARTIAL"}
FinalStates == {"COMPLETED", "FAILED_FINAL", "CANCELLED"}
Plain == {"ABSENT", "ACCEPTED", "RUNNING", "CANCELLED", "COMPLETED"} \cup FailureStates

ASSUME NoneAssumption == None \notin Ops \cup Workers \cup Requests
ASSUME BoundsAssumption ==
  Lease \in Nat /\ MaxAttempts \in Nat \ {0} /\ MaxSnapshots \in Nat
ASSUME StatesAssumption ==
  /\ PausedStates \cap (RuntimeStates \cup Plain \cup {"NONE"}) = {}
  /\ Stages \cap (RuntimeStates \cup PausedStates) = {}
ASSUME PermissionsAssumption ==
  Permissions \subseteq {"RESUME_ALLOWED", "MANUAL_VERIFICATION_REQUIRED", "RESUME_DENIED"}

NoLease == -2
Expired == -1

OpStates == Plain \cup PausedStates
TaskStates == RuntimeStates \cup PausedStates \cup Stages
Runs == 1..MaxAttempts
Snapshots == 1..MaxSnapshots
Leases == NoLease..Lease

(* What an attempt ends with: the state it reports, the run it executed,   *)
(* the task state its reported events show before that one, and the        *)
(* snapshot a pause can be resumed from.                                   *)
Outcomes == [kind : {"NONE", "COMPLETED"} \cup FailureStates \cup PausedStates,
             run : Runs \cup {0},
             before : {"CREATED"} \cup Stages \cup PausedStates,
             snapshot : Snapshots \cup {0}]
NoOutcome == [kind |-> "NONE", run |-> 0, before |-> "CREATED", snapshot |-> 0]
NoPause == [state |-> "NONE", run |-> 0, snapshot |-> 0]
Idle == [pc |-> "idle", op |-> None, run |-> 0, request |-> None, outcome |-> NoOutcome]

VARIABLES op,       \* agent_run_operations: state, run, worker, lease, paused result
          events,   \* decision_task_run_events: task states logged per run
          facts,    \* runtime_recovery_facts, in the order they were saved
          req,      \* runtime_control_requests with action RESUME
          wk,       \* what each worker process is doing
          receipts  \* the executor's in-process attempts per operation

vars == <<op, events, facts, req, wk, receipts>>

Init ==
  /\ op = [o \in Ops |-> [state |-> "ABSENT", run |-> 0, worker |-> None,
                          lease |-> NoLease, paused |-> NoPause]]
  /\ events = [o \in Ops |-> [n \in Runs |-> <<>>]]
  /\ facts = [o \in Ops |-> <<>>]
  /\ req = [r \in Requests |-> [state |-> "UNUSED", op |-> None, run |-> 0,
                                snapshot |-> 0, worker |-> None, lease |-> NoLease]]
  /\ wk = [w \in Workers |-> Idle]
  /\ receipts = [w \in Workers |-> [o \in Ops |-> NoOutcome]]

(* The log of the operation's current run. *)
CurrentLog(o) == events[o][op[o].run]

(* Mutant: an event whose state the log already holds is skipped. *)
AppendUnseenEvent(o, state) ==
  events' = [events EXCEPT ![o][op[o].run] =
               IF state \in ToSet(@) THEN @ ELSE Append(@, state)]

AppendEvent(o, state) ==
  events' = [events EXCEPT ![o][op[o].run] = Append(@, state)]

-----------------------------------------------------------------------------
(* The API and the clock. *)

(* The first submission of a command; a repetition returns the stored     *)
(* snapshot and changes nothing.                                           *)
Submit(o) ==
  /\ op[o].state = "ABSENT"
  /\ op' = [op EXCEPT ![o] = [@ EXCEPT !.state = "ACCEPTED", !.run = 1]]
  /\ events' = [events EXCEPT ![o][1] = <<"CREATED">>]
  /\ UNCHANGED <<facts, req, wk, receipts>>

(* The user confirms resuming from the snapshot the task is paused at. *)
RequestResume(r, o) ==
  /\ req[r].state = "UNUSED"
  /\ op[o].state \in PausedStates
  /\ req' = [req EXCEPT ![r] = [state |-> "ACCEPTED", op |-> o, run |-> op[o].run,
                                snapshot |-> op[o].paused.snapshot,
                                worker |-> None, lease |-> NoLease]]
  /\ UNCHANGED <<op, events, facts, wk, receipts>>

(* The user, or the account lifecycle, cancels; a claim is simply revoked. *)
Cancel(o) ==
  /\ op[o].state \notin FinalStates \cup {"ABSENT"}
  /\ op' = [op EXCEPT ![o] = [@ EXCEPT !.state = "CANCELLED", !.worker = None,
                                       !.lease = NoLease, !.paused = NoPause]]
  /\ AppendEvent(o, "CANCELLED")
  /\ UNCHANGED <<facts, req, wk, receipts>>

Elapse(lease) == IF lease > Expired THEN lease - 1 ELSE lease

Tick ==
  /\ \/ \E o \in Ops : op[o].lease > Expired
     \/ \E r \in Requests : req[r].lease > Expired
  /\ op' = [o \in Ops |-> [op[o] EXCEPT !.lease = Elapse(@)]]
  /\ req' = [r \in Requests |-> [req[r] EXCEPT !.lease = Elapse(@)]]
  /\ UNCHANGED <<events, facts, wk, receipts>>

-----------------------------------------------------------------------------
(* Claims. *)

(* Mutants: any failure may be retried; a retry stays in the failed run.   *)
ClaimableFailure(o) ==
  \/ op[o].state \in {"ACCEPTED"} \cup FailureStates
  \/ op[o].state = "RUNNING" /\ op[o].lease = Expired
SameRun(o) == op[o].run

Claimable(o) ==
  \/ op[o].state \in {"ACCEPTED", "FAILED_RETRYABLE"}
  \/ op[o].state = "RUNNING" /\ op[o].lease = Expired

ClaimedRun(o) == IF op[o].state = "FAILED_RETRYABLE" THEN op[o].run + 1 ELSE op[o].run

(* The log of the claimed run: a retry starts a new one. *)
ClaimedLog(o) ==
  LET log == IF op[o].state = "FAILED_RETRYABLE" THEN <<"CREATED">> ELSE CurrentLog(o)
  IN IF Last(log) = "UNDERSTANDING" THEN log ELSE Append(log, "UNDERSTANDING")

(* What is left of a lease counted from an earlier reading of the clock. *)
Remaining == Expired..Lease

(* A worker handed a stream message claims its operation.  The stored     *)
(* result is left as it was.                                               *)
ClaimNext(w, o) ==
  /\ wk[w].pc = "idle"
  /\ Claimable(o)
  /\ ClaimedRun(o) \in Runs
  /\ \E left \in Remaining :
       op' = [op EXCEPT ![o] = [@ EXCEPT !.state = "RUNNING", !.run = ClaimedRun(o),
                                         !.worker = w, !.lease = left]]
  /\ events' = [events EXCEPT ![o][ClaimedRun(o)] = ClaimedLog(o)]
  /\ wk' = [wk EXCEPT ![w] = [pc |-> "executing", op |-> o, run |-> ClaimedRun(o),
                              request |-> None, outcome |-> NoOutcome]]
  /\ UNCHANGED <<facts, req, receipts>>

(* Mutant: a running request is never reclaimed. *)
ClaimableRequestOnce(r) == req[r].state = "ACCEPTED"

(* Rows locked by another transaction are skipped, so the request taken    *)
(* need not be the oldest one.                                             *)
ClaimableRequest(r) ==
  \/ req[r].state = "ACCEPTED"
  \/ req[r].state = "RUNNING" /\ req[r].lease = Expired

(* Mutant: the snapshot the request was accepted for is not compared. *)
ConsistentAnySnapshot(r) ==
  LET o == req[r].op
  IN /\ IF req[r].state = "RUNNING" THEN op[o].state = "RUNNING"
                                    ELSE op[o].state \in PausedStates
     /\ op[o].paused.state # "NONE"
     /\ op[o].paused.run = req[r].run

(* The request still describes the operation it was accepted for.  Only    *)
(* the request's own lease is looked at, never the operation's.            *)
Consistent(r) ==
  LET o == req[r].op
  IN /\ IF req[r].state = "RUNNING" THEN op[o].state = "RUNNING"
                                    ELSE op[o].state \in PausedStates
     /\ op[o].paused.state # "NONE"
     /\ op[o].paused.snapshot = req[r].snapshot
     /\ op[o].paused.run = req[r].run

Permission(r) == facts[req[r].op][req[r].snapshot].permission

FailRequest(r) ==
  req' = [req EXCEPT ![r] = [@ EXCEPT !.state = "FAILED", !.worker = None,
                                      !.lease = NoLease]]

RejectControl(w, r) ==
  /\ wk[w].pc = "idle"
  /\ ClaimableRequest(r)
  /\ ~Consistent(r)
  /\ FailRequest(r)
  /\ UNCHANGED <<op, events, facts, wk, receipts>>

(* The saved facts do not allow a resume; when a person has to verify the  *)
(* side effects the pause is announced again.                              *)
DenyControl(w, r) ==
  /\ wk[w].pc = "idle"
  /\ ClaimableRequest(r)
  /\ Consistent(r)
  /\ Permission(r) # "RESUME_ALLOWED"
  /\ FailRequest(r)
  /\ IF Permission(r) = "MANUAL_VERIFICATION_REQUIRED"
       THEN AppendEvent(req[r].op, facts[req[r].op][req[r].snapshot].state)
       ELSE UNCHANGED events
  /\ UNCHANGED <<op, facts, wk, receipts>>

ClaimControl(w, r) ==
  LET o == req[r].op
  IN /\ wk[w].pc = "idle"
     /\ ClaimableRequest(r)
     /\ Consistent(r)
     /\ Permission(r) = "RESUME_ALLOWED"
     /\ \E left \in Remaining :
          /\ req' = [req EXCEPT ![r] = [@ EXCEPT !.state = "RUNNING", !.worker = w,
                                                 !.lease = left]]
          /\ op' = [op EXCEPT ![o] = [@ EXCEPT !.state = "RUNNING", !.worker = w,
                                               !.lease = left]]
     /\ IF req[r].state = "RUNNING" THEN UNCHANGED events
                                    ELSE AppendEvent(o, "UNDERSTANDING")
     /\ wk' = [wk EXCEPT ![w] = [pc |-> "executing", op |-> o, run |-> req[r].run,
                                 request |-> r, outcome |-> NoOutcome]]
     /\ UNCHANGED <<facts, receipts>>

-----------------------------------------------------------------------------
(* Execution.  Only a stream claim goes through the executor's receipts:   *)
(* an attempt found there is returned as it is, and every attempt that is  *)
(* not retryable stays there until the process ends.                       *)

Cached(w) == wk[w].request = None /\ receipts[w][wk[w].op] # NoOutcome

Return(w, outcome) ==
  /\ wk' = [wk EXCEPT ![w] = [@ EXCEPT !.pc = "reporting", !.outcome = outcome]]
  /\ receipts' = IF wk[w].request = None /\ outcome.kind # "FAILED_RETRYABLE"
                   THEN [receipts EXCEPT ![w][wk[w].op] = outcome]
                   ELSE receipts

ReplayReceipt(w) ==
  /\ wk[w].pc = "executing"
  /\ Cached(w)
  /\ wk' = [wk EXCEPT ![w] = [@ EXCEPT !.pc = "reporting",
                                    !.outcome = receipts[w][wk[w].op]]]
  /\ UNCHANGED <<op, events, facts, req, receipts>>

(* The Runtime ends the attempt with a result or an explicit failure. *)
FinishRun(w) ==
  /\ wk[w].pc = "executing"
  /\ ~Cached(w)
  /\ \/ \E before \in {"CREATED"} \cup Stages :
          Return(w, [kind |-> "COMPLETED", run |-> wk[w].run, before |-> before,
                     snapshot |-> 0])
     \/ \E kind \in FailureStates :
          Return(w, [kind |-> kind, run |-> wk[w].run, before |-> "CREATED",
                     snapshot |-> 0])
  /\ UNCHANGED <<op, events, facts, req>>

(* The Runtime pauses: the adapter saves the recovery facts before it      *)
(* returns.  The events it reports may hold an earlier pause of the run.   *)
PauseRun(w) ==
  LET o == wk[w].op
  IN /\ wk[w].pc = "executing"
     /\ ~Cached(w)
     /\ Len(facts[o]) < MaxSnapshots
     /\ \E p \in PausedStates, permission \in Permissions :
          \E before \in {"CREATED"} \cup (PausedStates \ {p}) :
            /\ facts' = [facts EXCEPT ![o] =
                 Append(@, [run |-> wk[w].run, state |-> p, permission |-> permission])]
            /\ Return(w, [kind |-> p, run |-> wk[w].run, before |-> before,
                          snapshot |-> Len(facts[o]) + 1])
     /\ UNCHANGED <<op, events, req>>

(* A resume whose committed effects cannot be trusted hands back the       *)
(* snapshot it was given.                                                  *)
KeepPaused(w) ==
  LET s == req[wk[w].request].snapshot
  IN /\ wk[w].pc = "executing"
     /\ wk[w].request # None
     /\ Return(w, [kind |-> facts[wk[w].op][s].state, run |-> wk[w].run,
                   before |-> "CREATED", snapshot |-> s])
     /\ UNCHANGED <<op, events, facts, req>>

-----------------------------------------------------------------------------
(* Completion: the clock is read first, then one transaction must find the *)
(* claim still held.                                                       *)

InTime(w) == op[wk[w].op].lease > Expired

StartCompletion(w) ==
  /\ wk[w].pc = "reporting"
  /\ InTime(w)
  /\ wk' = [wk EXCEPT ![w].pc = "completing"]
  /\ UNCHANGED <<op, events, facts, req, receipts>>

(* Mutants: the claim is not fenced by state and worker; the Agent Run of  *)
(* the outcome is not compared.                                            *)
UnfencedCompletable(w) ==
  LET o == wk[w].op  outcome == wk[w].outcome
  IN /\ op[o].state # "CANCELLED"
     /\ outcome.kind \notin FailureStates => outcome.run = op[o].run
AnyRunCompletable(w) == op[wk[w].op].state = "RUNNING" /\ op[wk[w].op].worker = w

(* Only results and pauses carry the Agent Run they belong to. *)
Completable(w) ==
  LET o == wk[w].op  outcome == wk[w].outcome
  IN /\ op[o].state = "RUNNING"
     /\ op[o].worker = w
     /\ outcome.kind \notin FailureStates => outcome.run = op[o].run

ControlHeld(w) ==
  LET r == wk[w].request
  IN r # None => req[r].state = "RUNNING" /\ req[r].worker = w /\ req[r].op = wk[w].op

Unseen(log, state) == IF state \in ToSet(log) THEN <<>> ELSE <<state>>

(* The log after a result: the reported states not logged yet, or just    *)
(* the final one when the run had paused.                                  *)
ResultLog(log, before) ==
  IF ToSet(log) \cap PausedStates = {}
    THEN log \o Unseen(log, before) \o Unseen(log, "COMPLETED")
    ELSE log \o Unseen(log, "COMPLETED")

(* The log after a pause: the reported states not logged yet, or the       *)
(* pause again when all of them were.                                      *)
PauseLog(log, before, p) ==
  LET fresh == Unseen(log, before) \o Unseen(log, p)
  IN IF fresh = <<>> /\ Last(log) # p THEN Append(log, p) ELSE log \o fresh

OutcomeLog(o, outcome) ==
  LET log == CurrentLog(o)
  IN CASE outcome.kind = "COMPLETED"   -> ResultLog(log, outcome.before)
       [] outcome.kind \in FailureStates -> Append(log, "FAILED")
       [] OTHER                          -> PauseLog(log, outcome.before, outcome.kind)

(* The stored pause must decode: its last event is the pause itself. *)
Persistable(w) ==
  LET outcome == wk[w].outcome
  IN outcome.kind \in PausedStates =>
       Last(OutcomeLog(wk[w].op, outcome)) = outcome.kind

Commit(w) ==
  LET o == wk[w].op  r == wk[w].request  outcome == wk[w].outcome
  IN /\ wk[w].pc = "completing"
     /\ Completable(w)
     /\ Persistable(w)
     /\ ControlHeld(w)
     /\ op' = [op EXCEPT ![o] =
          [@ EXCEPT !.state = outcome.kind, !.worker = None, !.lease = NoLease,
                    !.paused = IF outcome.kind \in PausedStates
                                 THEN [state |-> outcome.kind, run |-> outcome.run,
                                       snapshot |-> outcome.snapshot]
                                 ELSE NoPause]]
     /\ events' = [events EXCEPT ![o][op[o].run] = OutcomeLog(o, outcome)]
     /\ req' = IF r = None THEN req
               ELSE [req EXCEPT ![r] =
                 [@ EXCEPT !.state = IF outcome.kind \in {"COMPLETED", "PARTIAL"}
                                       THEN "COMPLETED" ELSE "FAILED",
                           !.worker = None, !.lease = NoLease]]
     /\ wk' = [wk EXCEPT ![w] = Idle]
     /\ UNCHANGED <<facts, receipts>>

NotCompletable(w) ==
  /\ \/ wk[w].pc = "reporting" /\ ~InTime(w)
     \/ wk[w].pc = "completing" /\ ~Completable(w)
     \/ wk[w].pc = "completing" /\ Completable(w) /\ Persistable(w) /\ ~ControlHeld(w)
  /\ wk' = [wk EXCEPT ![w] = Idle]
  /\ UNCHANGED <<op, events, facts, req, receipts>>

Restart(w) ==
  /\ wk' = [wk EXCEPT ![w] = Idle]
  /\ receipts' = [receipts EXCEPT ![w] = [o \in Ops |-> NoOutcome]]

(* The process dies, or an error ends it: the database or the stream is    *)
(* unavailable, or storing a pause throws because it does not decode, and  *)
(* the transaction is rolled back.                                         *)
Crash(w) ==
  /\ wk[w].pc # "idle" \/ \E o \in Ops : receipts[w][o] # NoOutcome
  /\ Restart(w)
  /\ UNCHANGED <<op, events, facts, req>>

-----------------------------------------------------------------------------
WorkerStep(w) ==
  \/ \E o \in Ops : ClaimNext(w, o)
  \/ \E r \in Requests : RejectControl(w, r) \/ DenyControl(w, r) \/ ClaimControl(w, r)
  \/ ReplayReceipt(w)
  \/ FinishRun(w)
  \/ PauseRun(w)
  \/ KeepPaused(w)
  \/ StartCompletion(w)
  \/ Commit(w)
  \/ NotCompletable(w)
  \/ Crash(w)

Next ==
  \/ \E o \in Ops : Submit(o) \/ Cancel(o)
  \/ \E r \in Requests, o \in Ops : RequestResume(r, o)
  \/ Tick
  \/ \E w \in Workers : WorkerStep(w)

Spec == Init /\ [][Next]_vars

-----------------------------------------------------------------------------
(* Properties. *)

PauseRow == [state : PausedStates \cup {"NONE"}, run : Runs \cup {0},
             snapshot : Snapshots \cup {0}]
OpRow == [state : OpStates, run : Runs \cup {0}, worker : Workers \cup {None},
          lease : Leases, paused : PauseRow]
FactRow == [run : Runs, state : PausedStates, permission : Permissions]
RequestRow == [state : {"UNUSED", "ACCEPTED", "RUNNING", "COMPLETED", "FAILED"},
               op : Ops \cup {None}, run : Runs \cup {0},
               snapshot : Snapshots \cup {0}, worker : Workers \cup {None},
               lease : Leases]
Process == [pc : {"idle", "executing", "reporting", "completing"}, op : Ops \cup {None},
            run : Runs \cup {0}, request : Requests \cup {None}, outcome : Outcomes]

(* Every row has the shape the schema and the decoders allow. *)
TypeOK ==
  /\ op \in [Ops -> OpRow]
  /\ events \in [Ops -> [Runs -> Seq(TaskStates)]]
  /\ facts \in [Ops -> Seq(FactRow)]
  /\ req \in [Requests -> RequestRow]
  /\ wk \in [Workers -> Process]
  /\ receipts \in [Workers -> [Ops -> Outcomes]]

(* The task state a subscriber must read last for each operation state. *)
ShownAs(state) ==
  CASE state = "ACCEPTED"               -> "CREATED"
    [] state = "RUNNING"                -> "UNDERSTANDING"
    [] state \in FailureStates          -> "FAILED"
    [] OTHER                            -> state

LogMatches(o) ==
  op[o].state # "ABSENT" =>
    CurrentLog(o) # <<>> /\ Last(CurrentLog(o)) = ShownAs(op[o].state)

(* What a subscriber replays is what the task is: the last event of the    *)
(* current run tells the operation's state, over every claim, reclaim,     *)
(* pause, denied resume and completion that writes the two.                *)
EventLogMatches == \A o \in Ops : LogMatches(o)

(* The positions of a log that report an outcome of the run. *)
OutcomeEvents(log) == {i \in DOMAIN log : log[i] \in {"COMPLETED", "FAILED"}}

(* However many workers, resumes and late reports compete for it, a run    *)
(* reports one outcome, and nothing follows it but a cancellation.         *)
OneOutcomePerRun ==
  \A o \in Ops, n \in Runs :
    \A i \in OutcomeEvents(events[o][n]) : \A j \in DOMAIN events[o][n] :
      j > i => events[o][n][j] = "CANCELLED"

(* A completed, finally failed or cancelled operation stays what it is     *)
(* and logs nothing more: no late report and no resume reopens it.         *)
TerminalIsFinal ==
  [][\A o \in Ops : op[o].state \in FinalStates =>
       op'[o].state = op[o].state /\ events'[o] = events[o]]_vars

(* A paused operation offers a snapshot that was saved for this very run   *)
(* in this very state.                                                     *)
PausedOnSavedSnapshot ==
  \A o \in Ops : op[o].state \in PausedStates =>
    /\ op[o].paused.state = op[o].state
    /\ op[o].paused.run = op[o].run
    /\ op[o].paused.snapshot \in DOMAIN facts[o]
    /\ LET fact == facts[o][op[o].paused.snapshot]
       IN fact.run = op[o].run /\ fact.state = op[o].state

(* A paused operation stays as it is, whoever still executes its run or    *)
(* holds an earlier request, until it is cancelled or until a resume the   *)
(* user confirmed for this very pause begins, by the worker that holds the *)
(* request and in the same run.                                            *)
PauseWaitsForUser ==
  [][\A o \in Ops :
       /\ op[o].state \in PausedStates
       /\ op'[o].state # op[o].state \/ op'[o].paused # op[o].paused
       => \/ op'[o].state = "CANCELLED"
          \/ /\ op'[o].state = "RUNNING" /\ op'[o].run = op[o].run
             /\ \E r \in Requests :
                  /\ req[r].state = "ACCEPTED" /\ req[r].op = o
                  /\ req[r].run = op[o].run /\ req[r].snapshot = op[o].paused.snapshot
                  /\ Permission(r) = "RESUME_ALLOWED"
                  /\ req'[r].state = "RUNNING" /\ req'[r].worker = op'[o].worker]_vars

(* A worker whose resume would be accepted executes the snapshot the user  *)
(* confirmed, of the current run, and its facts allow resuming.            *)
ResumesWhatWasConfirmed ==
  \A w \in Workers :
    LET o == wk[w].op  r == wk[w].request
    IN (r # None /\ op[o].state = "RUNNING" /\ op[o].worker = w /\ ControlHeld(w)) =>
         /\ op[o].run = req[r].run
         /\ op[o].paused.snapshot = req[r].snapshot
         /\ Permission(r) = "RESUME_ALLOWED"

(* A resume reported as successful left its run completed, unless a cancel *)
(* came over a partial result.                                             *)
CompletedResumeHolds ==
  \A r \in Requests : req[r].state = "COMPLETED" =>
    LET o == req[r].op
    IN op[o].run = req[r].run /\ op[o].state \in {"COMPLETED", "PARTIAL", "CANCELLED"}

(* The strengthening that makes TypeOK and EventLogMatches inductive. *)

(* Facts saved for operation o back a pause of run n in state p. *)
Saved(o, s, n, p) ==
  s \in DOMAIN facts[o] /\ facts[o][s].run = n /\ facts[o][s].state = p

OperationBound(o) ==
  /\ op[o].state # "ABSENT" => op[o].run \in Runs
  /\ op[o].paused.state # "NONE" =>
       /\ op[o].state \in PausedStates \cup {"RUNNING"}
       /\ op[o].paused.run = op[o].run
       /\ Saved(o, op[o].paused.snapshot, op[o].run, op[o].paused.state)
  /\ op[o].state \in PausedStates => op[o].paused.state = op[o].state

(* A run that is still open has reported no outcome. *)
OpenRun(o) ==
  op[o].state \in {"ACCEPTED", "RUNNING"} \cup PausedStates =>
    ToSet(CurrentLog(o)) \cap {"COMPLETED", "FAILED"} = {}

RequestBound(r) ==
  req[r].state # "UNUSED" =>
    /\ req[r].op \in Ops
    /\ req[r].run \in Runs
    /\ req[r].snapshot \in DOMAIN facts[req[r].op]
    /\ facts[req[r].op][req[r].snapshot].run = req[r].run
    /\ req[r].state = "RUNNING" => Permission(r) = "RESUME_ALLOWED"

Backed(o, outcome) ==
  outcome.kind \in PausedStates =>
    Saved(o, outcome.snapshot, outcome.run, outcome.kind)

WorkerBound(w) ==
  /\ wk[w].pc # "idle" =>
       /\ wk[w].op \in Ops
       /\ wk[w].run \in Runs
       /\ wk[w].request # None =>
            LET r == wk[w].request
            IN req[r].state # "UNUSED" /\ req[r].op = wk[w].op /\ req[r].run = wk[w].run
  /\ wk[w].pc \in {"reporting", "completing"} =>
       wk[w].outcome.kind # "NONE" /\ Backed(wk[w].op, wk[w].outcome)
  /\ \A o \in Ops : receipts[w][o] # NoOutcome =>
       receipts[w][o].kind # "NONE" /\ Backed(o, receipts[w][o])

IInv ==
  /\ TypeOK
  /\ \A o \in Ops : OperationBound(o) /\ OpenRun(o)
  /\ \A r \in Requests : RequestBound(r)
  /\ \A w \in Workers : WorkerBound(w)
  /\ EventLogMatches

(* Seen through its status, current run and logs, the operation keeps the  *)
(* promise of OperationContract.                                           *)
Contract ==
  INSTANCE OperationContract WITH
    status <- [o \in Ops |-> op[o].state],
    run <- [o \in Ops |-> op[o].run],
    log <- events

KeepsContract == Contract!Spec

=============================================================================
