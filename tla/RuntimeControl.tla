---------------------------- MODULE RuntimeControl ----------------------------
(***************************************************************************)
(* The recovery store of one Agent Run and the calls of the Runtime        *)
(* adapter that fight for its control row: runPersistent, resume, the      *)
(* cancellation of the task, and what each leaves behind when it stops at  *)
(* any point (packages/task-persistence/src/index.ts 436-1110,             *)
(* apps/orchestrator/src/runtime/coremind-agent-runtime-adapter.ts).       *)
(*                                                                         *)
(* A call is one invocation of the adapter; it draws a fresh controller    *)
(* id, so the call itself serves as its controller id.  Claims of the      *)
(* operation are left to TaskLifecycle: here a run may be started, and a   *)
(* reported pause resumed, at any time and by any number of calls.  One    *)
(* Agent Run suffices because no statement below touches two.              *)
(*                                                                         *)
(* The snapshot id is the digest of what it holds, so two pauses never     *)
(* share one.  The Runtime itself is external: it may submit its draft,    *)
(* pause, fail, time out or throw whenever it executes.                    *)
(***************************************************************************)
EXTENDS Integers, FiniteSets

CONSTANTS Calls,         \* invocations of the adapter, each with its controller id
          None,          \* SQL NULL
          Lease,         \* ticks of controlLeaseDurationMs
          MaxSnapshots,  \* bound: snapshots of the run
          PausedStates   \* the PAUSED_* states in use

ASSUME CallsAssumption == None \notin Calls
ASSUME BoundsAssumption == Lease \in Nat \ {0} /\ MaxSnapshots \in Nat
ASSUME StatesAssumption ==
  PausedStates \cap {"ABSENT", "RUNNING", "COMPLETED", "CANCELLED", "FAILED"} = {}

NoLease == -1
Snapshots == 1..MaxSnapshots
ControlStates == {"ABSENT", "RUNNING", "COMPLETED", "CANCELLED", "FAILED"} \cup PausedStates
Effects == {"none", "not_started", "started", "committed", "unknown"}
Answers == {"NONE", "RESULT", "PAUSED", "STILL_PAUSED", "CANCELLED",
            "FAILED_RETRYABLE", "FAILED_FINAL"}
Steps == {"unused", "claiming", "recording", "executing", "pausing", "storing",
          "saving", "finishing", "returned", "crashed"}

Unused == [pc |-> "unused", from |-> 0, effect |-> "none", draft |-> FALSE,
           submitted |-> FALSE, aborted |-> FALSE, target |-> "ABSENT", next |-> 0,
           answer |-> "NONE"]
NoFacts == [state |-> "ABSENT", resumable |-> FALSE, effect |-> "none"]

VARIABLES ctl,      \* runtime_control_states: the row of the run
          raw,      \* runtime_snapshot_objects
          results,  \* runtime_effect_result_bindings, by snapshot
          facts,    \* runtime_recovery_facts with their effect receipts
          calls,    \* what each call is doing and what it answered
          overrun   \* history: has a call outlived its control lease?

vars == <<ctl, raw, results, facts, calls, overrun>>

Init ==
  /\ ctl = [state |-> "ABSENT", snapshot |-> 0, controller |-> None, lease |-> NoLease]
  /\ raw = {}
  /\ results = {}
  /\ facts = [s \in Snapshots |-> NoFacts]
  /\ calls = [c \in Calls |-> Unused]
  /\ overrun = FALSE

-----------------------------------------------------------------------------
(* Whether saved facts allow a resume. *)

(* Mutant: an effect whose end is not known is resumed. *)
AnyEffectPermission(fact) ==
  IF fact.state \notin PausedStates \/ ~fact.resumable THEN "RESUME_DENIED"
  ELSE "RESUME_ALLOWED"

RecoveryPermission(fact) ==
  IF fact.state \notin PausedStates \/ ~fact.resumable THEN "RESUME_DENIED"
  ELSE IF fact.effect \in {"started", "unknown"} THEN "MANUAL_VERIFICATION_REQUIRED"
  ELSE "RESUME_ALLOWED"

RawSnapshotFound(s) == s \in raw

EffectResultFound(s) == s \in results

(* The verdict of resume on snapshot s: the stored result of a committed   *)
(* effect must be there as well.                                           *)
Verdict(s) ==
  IF facts[s].effect = "committed" /\ ~EffectResultFound(s)
       /\ RecoveryPermission(facts[s]) = "RESUME_ALLOWED"
    THEN "MANUAL_VERIFICATION_REQUIRED"
    ELSE RecoveryPermission(facts[s])

Held(c) == ctl.state = "RUNNING" /\ ctl.controller = c

Hold(c, snapshot) ==
  ctl' = [state |-> "RUNNING", snapshot |-> snapshot, controller |-> c, lease |-> Lease]

(* The call returns without a result or a pause; what it held is gone. *)
Answer(c, answer) ==
  calls' = [calls EXCEPT ![c] = [Unused EXCEPT !.pc = "returned", !.answer = answer]]

(* What the executor makes of a resume that ends without an outcome.       *)
ResumeAnswer(code) ==
  CASE code = "MANUAL_VERIFICATION_REQUIRED" -> "STILL_PAUSED"
    [] code \in {"RUNTIME_RESUME_IN_PROGRESS", "RUNTIME_RESULT_UNAVAILABLE",
                 "PERSISTENCE_UNAVAILABLE", "THROWN"} -> "FAILED_RETRYABLE"
    [] OTHER -> "FAILED_FINAL"

(* And of a first run that throws. *)
RunAnswer(code) ==
  IF code = "PERSISTENCE_UNAVAILABLE" THEN "FAILED_RETRYABLE" ELSE "FAILED_FINAL"

Throws(c, code) ==
  Answer(c, IF calls[c].from = 0 THEN RunAnswer(code) ELSE ResumeAnswer(code))

-----------------------------------------------------------------------------
(* The start of a call. *)

(* runPersistent *)
StartRun(c) ==
  /\ calls[c].pc = "unused"
  /\ calls' = [calls EXCEPT ![c].pc = "recording"]
  /\ UNCHANGED <<ctl, raw, results, facts, overrun>>

(* resume, up to its claim: the facts allow it, the result of a committed  *)
(* effect is found and its draft taken over, the raw snapshot is found.    *)
StartResume(c, s) ==
  /\ calls[c].pc = "unused"
  /\ Verdict(s) = "RESUME_ALLOWED"
  /\ RawSnapshotFound(s)
  /\ calls' = [calls EXCEPT ![c].pc = "claiming", ![c].from = s,
                            ![c].effect = facts[s].effect,
                            ![c].draft = facts[s].effect = "committed"]
  /\ UNCHANGED <<ctl, raw, results, facts, overrun>>

(* A person has to look at the effects first: the pause stands.            *)
StayPaused(c, s) ==
  /\ calls[c].pc = "unused"
  /\ Verdict(s) = "MANUAL_VERIFICATION_REQUIRED"
  /\ Answer(c, ResumeAnswer("MANUAL_VERIFICATION_REQUIRED"))
  /\ UNCHANGED <<ctl, raw, results, facts, overrun>>

(* The snapshot does not allow a resume in place.                          *)
RefuseResume(c, s) ==
  /\ calls[c].pc = "unused"
  /\ Verdict(s) = "RESUME_DENIED"
  /\ Answer(c, ResumeAnswer("RUNTIME_RESUME_DENIED"))
  /\ UNCHANGED <<ctl, raw, results, facts, overrun>>

(* A task is only ever resumed from a pause that was reported. *)
Reported(s) ==
  \E c \in Calls : calls[c].pc = "returned" /\ calls[c].answer = "PAUSED" /\ calls[c].next = s

Resume(c, s) ==
  /\ Reported(s)
  /\ StartResume(c, s) \/ StayPaused(c, s) \/ RefuseResume(c, s)

(* What claimRuntimeResume finds. *)
ResumeStatus(c) ==
  IF ctl.snapshot # calls[c].from THEN "DENIED"
  ELSE IF ctl.state = "RUNNING" /\ ctl.lease > 0 THEN "BUSY"
  ELSE IF ctl.state = "COMPLETED" THEN "UNCHANGED"
  ELSE IF ctl.state # "RUNNING" /\ ctl.state \notin PausedStates THEN "DENIED"
  ELSE "ACQUIRED"

ClaimResume(c) ==
  /\ calls[c].pc = "claiming"
  /\ \/ /\ ResumeStatus(c) = "ACQUIRED"
        /\ Hold(c, ctl.snapshot)
        /\ calls' = [calls EXCEPT ![c].pc = "recording"]
     \/ /\ ResumeStatus(c) = "BUSY"
        /\ Answer(c, ResumeAnswer("RUNTIME_RESUME_IN_PROGRESS"))
        /\ UNCHANGED ctl
     \/ /\ ResumeStatus(c) = "UNCHANGED"
        /\ Answer(c, ResumeAnswer("RUNTIME_RESULT_UNAVAILABLE"))
        /\ UNCHANGED ctl
     \/ /\ ResumeStatus(c) = "DENIED"
        /\ Answer(c, ResumeAnswer("RUNTIME_RESUME_DENIED"))
        /\ UNCHANGED ctl
  /\ UNCHANGED <<raw, results, facts, overrun>>

(* Mutant: the lease of another controller is not looked at. *)
MayRecordAnyLease(c) ==
  \/ ctl.state = "ABSENT"
  \/ ctl.state = "RUNNING" /\ (ctl.controller = c \/ ctl.snapshot = 0)

(* Mutant: a failed run may be started again. *)
MayRecordAfterFailure(c) ==
  \/ ctl.state \in {"ABSENT", "FAILED"}
  \/ ctl.state = "RUNNING" /\ (ctl.controller = c \/ (ctl.snapshot = 0 /\ ctl.lease = 0))

MayRecord(c) ==
  \/ ctl.state = "ABSENT"
  \/ ctl.state = "RUNNING" /\ (ctl.controller = c \/ (ctl.snapshot = 0 /\ ctl.lease = 0))

(* recordRuntimeRunning, the last thing before the Runtime executes. *)
RecordRunning(c) ==
  /\ calls[c].pc = "recording"
  /\ MayRecord(c)
  /\ Hold(c, ctl.snapshot)
  /\ calls' = [calls EXCEPT ![c].pc = "executing"]
  /\ UNCHANGED <<raw, results, facts, overrun>>

RecordRefused(c) ==
  /\ calls[c].pc = "recording"
  /\ ~MayRecord(c)
  /\ Throws(c, "PERSISTENCE_UNAVAILABLE")
  /\ UNCHANGED <<ctl, raw, results, facts, overrun>>

-----------------------------------------------------------------------------
(* The Runtime. *)

(* The Runtime asks for the permission to call the tool. *)
AskPermission(c) ==
  /\ calls[c].pc = "executing"
  /\ calls[c].effect = "none" /\ ~calls[c].draft
  /\ calls' = [calls EXCEPT ![c].effect = "not_started"]
  /\ UNCHANGED <<ctl, raw, results, facts, overrun>>

(* submit_decision_draft runs once: a second call throws, and a draft that *)
(* was taken over counts as the first.                                     *)
SubmitDraft(c) ==
  /\ calls[c].pc = "executing"
  /\ ~calls[c].draft
  /\ calls' = [calls EXCEPT ![c].effect = "started", ![c].draft = TRUE,
                            ![c].submitted = TRUE]
  /\ UNCHANGED <<ctl, raw, results, facts, overrun>>

EffectEnds(c) ==
  /\ calls[c].pc = "executing"
  /\ calls[c].effect = "started"
  /\ \E end \in {"committed", "unknown"} : calls' = [calls EXCEPT ![c].effect = end]
  /\ UNCHANGED <<ctl, raw, results, facts, overrun>>

(* The poll of every 50 ms: it aborts the Runtime when the run is          *)
(* cancelled, and also when it cannot find out.                            *)
PollCancelled(c) ==
  /\ calls[c].pc = "executing"
  /\ ~calls[c].aborted
  /\ ctl.state = "CANCELLED"
  /\ calls' = [calls EXCEPT ![c].aborted = TRUE]
  /\ UNCHANGED <<ctl, raw, results, facts, overrun>>

PollFails(c) ==
  /\ calls[c].pc = "executing"
  /\ ~calls[c].aborted
  /\ calls' = [calls EXCEPT ![c].aborted = TRUE]
  /\ UNCHANGED <<ctl, raw, results, facts, overrun>>

(* An aborted attempt reports that the Runtime was cancelled and leaves    *)
(* the control row as it is.                                               *)
Aborted(c) ==
  /\ calls[c].pc = "executing"
  /\ calls[c].aborted
  /\ Answer(c, "CANCELLED")
  /\ UNCHANGED <<ctl, raw, results, facts, overrun>>

Finish(c, target, next, answer) ==
  calls' = [calls EXCEPT ![c] = [Unused EXCEPT !.pc = "finishing", !.from = calls[c].from,
                                   !.target = target, !.next = next, !.answer = answer]]

(* The Runtime succeeds.  Without a draft a first run throws, a resume     *)
(* throws after it has completed the control row.                          *)
Succeed(c) ==
  /\ calls[c].pc = "executing"
  /\ \/ calls[c].draft /\ Finish(c, "COMPLETED", calls[c].from, "RESULT")
     \/ ~calls[c].draft /\ calls[c].from = 0 /\ Throws(c, "THROWN")
     \/ /\ ~calls[c].draft /\ calls[c].from # 0
        /\ Finish(c, "COMPLETED", calls[c].from, ResumeAnswer("THROWN"))
  /\ UNCHANGED <<ctl, raw, results, facts, overrun>>

(* A timeout may be retried, unless it ends a resume. *)
Fail(c) ==
  /\ calls[c].pc = "executing"
  /\ \E answer \in {"FAILED_RETRYABLE", "FAILED_FINAL"} :
       /\ answer = "FAILED_RETRYABLE" => calls[c].from = 0
       /\ Finish(c, "FAILED", calls[c].from, answer)
  /\ UNCHANGED <<ctl, raw, results, facts, overrun>>

(* The egress guard refuses, or anything else throws. *)
Throw(c) ==
  /\ calls[c].pc = "executing"
  /\ Throws(c, "THROWN")
  /\ UNCHANGED <<ctl, raw, results, facts, overrun>>

(* Snapshots are taken in order; which digest a new one has means nothing. *)
Fresh(s) ==
  LET Taken(n) == n \in raw \/ \E d \in Calls : calls[d].next = n
  IN ~Taken(s) /\ \A n \in 1..(s - 1) : Taken(n)

Pause(c) ==
  /\ calls[c].pc = "executing"
  /\ \E state \in PausedStates, s \in Snapshots :
       /\ Fresh(s)
       /\ calls' = [calls EXCEPT ![c] = [@ EXCEPT !.pc = "pausing", !.target = state,
                                   !.next = s, !.draft = FALSE, !.submitted = FALSE,
                                   !.aborted = FALSE]]
  /\ UNCHANGED <<ctl, raw, results, facts, overrun>>

-----------------------------------------------------------------------------
(* buildPausedOutcome: each of its writes is a transaction of its own. *)

PutRawSnapshot(c) ==
  /\ calls[c].pc = "pausing"
  /\ raw' = raw \cup {calls[c].next}
  /\ calls' = [calls EXCEPT ![c].pc = "storing"]
  /\ UNCHANGED <<ctl, results, facts, overrun>>

PutEffectResult(c) ==
  /\ calls[c].pc = "storing"
  /\ results' = IF calls[c].effect = "committed" THEN results \cup {calls[c].next}
                                                 ELSE results
  /\ calls' = [calls EXCEPT ![c].pc = "saving"]
  /\ UNCHANGED <<ctl, raw, facts, overrun>>

(* What saving facts does to the control row: a row without a snapshot is  *)
(* bound to this one, whoever controls it.                                 *)
BindSnapshot(state, s) ==
  ctl' = CASE ctl.state = "ABSENT" -> [ctl EXCEPT !.state = state, !.snapshot = s]
           [] ctl.state = "RUNNING" /\ ctl.snapshot = 0 -> [ctl EXCEPT !.snapshot = s]
           [] OTHER -> ctl

(* saveRecoveryFacts.  The transaction fails when an object is missing,    *)
(* and when the trace repeats a receipt an earlier snapshot already holds: *)
(* its id is taken, so the new snapshot is left without it.                *)
SaveRecoveryFacts(c) ==
  LET s == calls[c].next
  IN /\ calls[c].pc = "saving"
     /\ s \in raw
     /\ calls[c].effect = "committed" => s \in results
     /\ \E resumable \in BOOLEAN :
          facts' = [facts EXCEPT ![s] = [state |-> calls[c].target,
                                         resumable |-> resumable,
                                         effect |-> calls[c].effect]]
     /\ BindSnapshot(calls[c].target, s)
     /\ Finish(c, calls[c].target, s, "PAUSED")
     /\ UNCHANGED <<raw, results, overrun>>

RepeatedReceipt(c) ==
  /\ calls[c].pc = "saving"
  /\ calls[c].from # 0 /\ facts[calls[c].from].effect # "none"
  /\ Throws(c, "PERSISTENCE_UNAVAILABLE")
  /\ UNCHANGED <<ctl, raw, results, facts, overrun>>

-----------------------------------------------------------------------------
(* completeRuntimeControl. *)

(* The snapshot the row is expected to hold: a first run that paused has   *)
(* bound its own, a resume the one it started from.                        *)
Expected(c) ==
  IF calls[c].from = 0 /\ calls[c].target \in PausedStates THEN calls[c].next
                                                          ELSE calls[c].from

MayComplete(c) == Held(c) /\ ctl.snapshot = Expected(c)

(* Mutant: the row keeps the snapshot the call started from. *)
CompleteKeepingSnapshot(c) ==
  /\ calls[c].pc = "finishing"
  /\ MayComplete(c)
  /\ ctl' = [state |-> calls[c].target, snapshot |-> calls[c].from,
             controller |-> None, lease |-> NoLease]
  /\ calls' = [calls EXCEPT ![c].pc = "returned"]
  /\ UNCHANGED <<raw, results, facts, overrun>>

Complete(c) ==
  /\ calls[c].pc = "finishing"
  /\ MayComplete(c)
  /\ ctl' = [state |-> calls[c].target, snapshot |-> calls[c].next,
             controller |-> None, lease |-> NoLease]
  /\ calls' = [calls EXCEPT ![c].pc = "returned"]
  /\ UNCHANGED <<raw, results, facts, overrun>>

(* The row already says what this call wants to write.  Only a failure,    *)
(* which carries no events, can be the same as another call's.             *)
AlreadyComplete(c) ==
  /\ calls[c].pc = "finishing"
  /\ ~MayComplete(c)
  /\ calls[c].target = "FAILED"
  /\ ctl.state = "FAILED" /\ ctl.snapshot = calls[c].next
  /\ calls' = [calls EXCEPT ![c].pc = "returned"]
  /\ UNCHANGED <<ctl, raw, results, facts, overrun>>

CompleteRefused(c) ==
  /\ calls[c].pc = "finishing"
  /\ ~MayComplete(c)
  /\ ~(calls[c].target = "FAILED" /\ ctl.state = "FAILED" /\ ctl.snapshot = calls[c].next)
  /\ Throws(c, "PERSISTENCE_UNAVAILABLE")
  /\ UNCHANGED <<ctl, raw, results, facts, overrun>>

-----------------------------------------------------------------------------
(* What happens around a call. *)

Started == {"claiming", "recording", "executing", "pausing", "storing", "saving",
            "finishing"}

(* PostgreSQL does not answer a step that needs it. *)
Unavailable(c) ==
  /\ calls[c].pc \in Started \ {"executing"}
  /\ Throws(c, "PERSISTENCE_UNAVAILABLE")
  /\ UNCHANGED <<ctl, raw, results, facts, overrun>>

Crash(c) ==
  /\ calls[c].pc \in Started
  /\ calls' = [calls EXCEPT ![c] = [Unused EXCEPT !.pc = "crashed"]]
  /\ UNCHANGED <<ctl, raw, results, facts, overrun>>

(* requestRuntimeCancel writes the row whatever it says. *)
CancelTask ==
  /\ ctl.state # "CANCELLED"
  /\ ctl' = [ctl EXCEPT !.state = "CANCELLED", !.controller = None, !.lease = NoLease]
  /\ UNCHANGED <<raw, results, facts, calls, overrun>>

MayCancel == ctl.state \notin {"ABSENT", "COMPLETED", "FAILED", "CANCELLED"}

(* cancel of the adapter that executes c, or of one that executes nothing. *)
CancelRuntime(aborting) ==
  /\ MayCancel
  /\ ctl' = [ctl EXCEPT !.state = "CANCELLED", !.controller = None, !.lease = NoLease]
  /\ \A c \in aborting : calls[c].pc = "executing"
  /\ calls' = [c \in Calls |-> IF c \in aborting THEN [calls[c] EXCEPT !.aborted = TRUE]
                                                 ELSE calls[c]]
  /\ UNCHANGED <<raw, results, facts, overrun>>

(* The lease lasts five seconds longer than the Runtime may run, but       *)
(* nothing stops a call that is late all the same.                         *)
Tick ==
  /\ ctl.lease > 0
  /\ ctl' = [ctl EXCEPT !.lease = @ - 1]
  /\ overrun' = (overrun \/ (ctl.lease = 1 /\ calls[ctl.controller].pc \in Started))
  /\ UNCHANGED <<raw, results, facts, calls>>

Runtime(c) ==
  \/ AskPermission(c) \/ SubmitDraft(c) \/ EffectEnds(c)
  \/ Succeed(c) \/ Fail(c) \/ Throw(c) \/ Pause(c)

Adapter(c) ==
  \/ ClaimResume(c) \/ RecordRunning(c) \/ RecordRefused(c)
  \/ PollCancelled(c) \/ PollFails(c) \/ Aborted(c)
  \/ PutRawSnapshot(c) \/ PutEffectResult(c)
  \/ SaveRecoveryFacts(c) \/ RepeatedReceipt(c)
  \/ Complete(c) \/ AlreadyComplete(c) \/ CompleteRefused(c)
  \/ Unavailable(c)

Next ==
  \/ \E c \in Calls : StartRun(c) \/ Runtime(c) \/ Adapter(c) \/ Crash(c)
  \/ \E c \in Calls, s \in Snapshots : Resume(c, s)
  \/ CancelTask
  \/ \E aborting \in {{}} \cup {{c} : c \in Calls} : CancelRuntime(aborting)
  \/ Tick

Spec == Init /\ [][Next]_vars

-----------------------------------------------------------------------------
(* Properties. *)

Call == [pc : Steps, from : Snapshots \cup {0}, effect : Effects, draft : BOOLEAN,
         submitted : BOOLEAN, aborted : BOOLEAN, target : ControlStates,
         next : Snapshots \cup {0}, answer : Answers]

(* Every row and call has its type. *)
TypeOK ==
  /\ ctl \in [state : ControlStates, snapshot : Snapshots \cup {0},
              controller : Calls \cup {None}, lease : NoLease..Lease]
  /\ raw \subseteq Snapshots
  /\ results \subseteq Snapshots
  /\ facts \in [Snapshots -> [state : {"ABSENT"} \cup PausedStates,
                              resumable : BOOLEAN, effect : Effects]]
  /\ calls \in [Calls -> Call]
  /\ overrun \in BOOLEAN

(* A run that is paused, or that was reported paused, has everything a     *)
(* resume needs: the facts of that pause, its raw snapshot, and the result *)
(* of a committed effect (saveRecoveryFacts before completeRuntimeControl, *)
(* whoever saved, completed, crashed or took over in between).             *)
Recoverable(s, state) ==
  /\ facts[s].state = state
  /\ s \in raw
  /\ facts[s].effect = "committed" => s \in results

PauseIsRecoverable ==
  /\ ctl.state \in PausedStates => ctl.snapshot # 0 /\ Recoverable(ctl.snapshot, ctl.state)
  /\ \A c \in Calls : calls[c].pc = "returned" /\ calls[c].answer = "PAUSED" =>
       calls[c].next # 0 /\ Recoverable(calls[c].next, calls[c].target)

(* The rows are well formed, and a pause is never stored without them.     *)
RecoverableState == TypeOK /\ PauseIsRecoverable

(* From the start of the run, and from every snapshot, at most one call    *)
(* reports a result or a pause, however many executed: the others lost the *)
(* control row and may only report a failure.                              *)
Reports(c) == calls[c].pc = "returned" /\ calls[c].answer \in {"RESULT", "PAUSED"}

OneReportPerStart ==
  \A c, d \in Calls : Reports(c) /\ Reports(d) /\ calls[c].from = calls[d].from => c = d

(* An attempt that resumes never submits a draft again that may already    *)
(* have been submitted before the pause (the receipts deny it, or the      *)
(* stored result is reused).                                               *)
NoRepeatedSubmission ==
  \A c \in Calls : calls[c].submitted /\ calls[c].from # 0 =>
    facts[calls[c].from].effect \in {"none", "not_started"}

(* However often an attempt is repeated or taken over, it counts once and  *)
(* its draft is submitted once.                                            *)
CountsOnce == OneReportPerStart /\ NoRepeatedSubmission

(* A result or failure of the run is final, except that cancelling the     *)
(* task covers it, and a cancelled run is never taken up again.            *)
ControlIsFinal ==
  [][/\ ctl.state = "CANCELLED" => ctl'.state = "CANCELLED"
     /\ ctl.state \in {"COMPLETED", "FAILED"} => ctl'.state \in {ctl.state, "CANCELLED"}
    ]_vars

(* As long as no call has outlived its lease, the Runtime never executes   *)
(* twice at a time for a run, and whoever holds the control row can        *)
(* complete it.                                                            *)
OneExecutor ==
  ~overrun => Cardinality({c \in Calls : calls[c].pc = "executing"}) <= 1

HolderCanComplete ==
  \A c \in Calls :
    ~overrun /\ calls[c].pc = "finishing" /\ Held(c) => ctl.snapshot = Expected(c)

(* Within the leases the holder of the row executes alone and can end what *)
(* it began.                                                               *)
HolderIsAlone == OneExecutor /\ HolderCanComplete
=============================================================================
