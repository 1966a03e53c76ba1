------------------------- MODULE RuntimeControlProofs -------------------------
(***************************************************************************)
(* Proofs about RuntimeControl for every set of calls and paused states,   *)
(* every lease and every bound on the snapshots.                           *)
(*                                                                         *)
(* TypeOK; PauseInv, that what a call or the row says of a pause has been  *)
(* saved; TurnInv, that the control row leaves a snapshot for good once a  *)
(* report was made from it; EffectInv, that a draft is submitted by those  *)
(* only who were not given one; and ControlInv, who controls the row while *)
(* no call has outlived its lease.                                         *)
(***************************************************************************)
EXTENDS RuntimeControl, FiniteSetTheorems, TLAPS

(* The calls that end, ended or will end in a pause. *)
Pausing(c) == calls[c].target \in PausedStates

Resumed(c) == calls[c].from # 0

(* What a call has on its way. *)
CallInv(c) ==
  /\ calls[c].pc = "unused" => ~Resumed(c)
  /\ calls[c].pc = "claiming" => Resumed(c)
  /\ calls[c].pc \in {"pausing", "storing", "saving"} => Pausing(c) /\ calls[c].next # 0
  /\ Pausing(c) => calls[c].pc \in {"pausing", "storing", "saving", "finishing", "returned"}
                   /\ calls[c].next # 0
  /\ calls[c].answer = "PAUSED" => Pausing(c) /\ calls[c].pc \in {"finishing", "returned"}
  /\ calls[c].answer = "RESULT" =>
       calls[c].target = "COMPLETED" /\ calls[c].pc \in {"finishing", "returned"}
  /\ calls[c].pc = "finishing" => calls[c].target \in PausedStates \cup {"COMPLETED", "FAILED"}
  /\ calls[c].pc = "finishing" /\ ~Pausing(c) => calls[c].next = calls[c].from
  /\ calls[c].pc = "finishing" /\ Pausing(c) => calls[c].answer = "PAUSED"

CallsInv == \A c \in Calls : CallInv(c)

(* What is said of a pause has been saved, once and for all. *)
PauseInv ==
  /\ \A s \in Snapshots : facts[s].state # "ABSENT" => s \in raw
  /\ \A c \in Calls : Resumed(c) => facts[calls[c].from].state # "ABSENT"
  /\ \A c \in Calls : calls[c].answer = "PAUSED" => Recoverable(calls[c].next, calls[c].target)
  /\ ctl.snapshot # 0 => facts[ctl.snapshot].state # "ABSENT"
  /\ ctl.state \in PausedStates => ctl.snapshot # 0 /\ Recoverable(ctl.snapshot, ctl.state)
  /\ \A c \in Calls : calls[c].pc \in {"pausing", "storing", "saving"} =>
                        facts[calls[c].next].state = "ABSENT"
  /\ \A c, d \in Calls : Pausing(c) /\ Pausing(d) /\ calls[c].next = calls[d].next => c = d

Over == ctl.state \in {"COMPLETED", "CANCELLED", "FAILED"}

(* The row has left, for good, what a report was made from. *)
TurnInv ==
  /\ ctl.state = "ABSENT" => ctl.snapshot = 0
  /\ \A c \in Calls : (Resumed(c) \/ calls[c].answer = "PAUSED") /\ ~Over => ctl.snapshot # 0
  /\ \A c \in Calls : Pausing(c) /\ Resumed(c) /\ calls[c].pc # "returned" =>
       /\ ctl.snapshot # calls[c].next
       /\ \A d \in Calls : Reports(d) => calls[d].from # calls[c].next
  /\ \A c \in Calls : Reports(c) /\ ~Resumed(c) /\ ~Over =>
       /\ ctl.snapshot # 0
       /\ \A d \in Calls \ {c} : Pausing(d) /\ ~Resumed(d) => ctl.snapshot # calls[d].next
  /\ \A c \in Calls : Reports(c) /\ Resumed(c) /\ ~Over => ctl.snapshot # calls[c].from

(* Who has no draft yet, and was given none, may submit one. *)
EffectInv ==
  \A c \in Calls :
    /\ Resumed(c) /\ calls[c].pc \in {"claiming", "recording", "executing"} /\ ~calls[c].draft =>
         facts[calls[c].from].effect \in {"none", "not_started"}
    /\ calls[c].submitted => calls[c].pc = "executing"
    /\ Resumed(c) /\ calls[c].submitted =>
         facts[calls[c].from].effect \in {"none", "not_started"}

InControl(c) ==
  \/ calls[c].pc \in {"executing", "pausing", "storing", "saving", "finishing"}
  \/ calls[c].pc = "recording" /\ Resumed(c)

ControlInv ==
  /\ \A c \in Calls : Held(c) =>
       /\ calls[c].pc \notin {"unused", "claiming"}
       /\ calls[c].pc = "recording" => Resumed(c)
  /\ ~overrun => \A c \in Calls : InControl(c) => (Held(c) /\ ctl.lease > 0) \/ ctl.state = "CANCELLED"
  /\ ~overrun => \A c \in Calls : InControl(c) /\ Held(c) =>
       ctl.snapshot = IF calls[c].pc = "finishing" THEN Expected(c) ELSE calls[c].from
  /\ ~overrun => \A c, d \in Calls :
       calls[c].pc = "executing" /\ calls[d].pc = "executing" => c = d

-----------------------------------------------------------------------------
(* The rows and calls have their types.                                    *)

(* The answers that are given are answers. *)
LEMMA AnswersTyped ==
  /\ Unused \in Call
  /\ \A code \in {"RUNTIME_RESUME_DENIED", "RUNTIME_RESUME_IN_PROGRESS", "THROWN",
                  "RUNTIME_RESULT_UNAVAILABLE", "PERSISTENCE_UNAVAILABLE",
                  "MANUAL_VERIFICATION_REQUIRED"} :
       /\ RunAnswer(code) \in {"FAILED_RETRYABLE", "FAILED_FINAL"}
       /\ ResumeAnswer(code) \in {"STILL_PAUSED", "FAILED_RETRYABLE", "FAILED_FINAL"}
BY DEF Unused, Call, Steps, Effects, ControlStates, Answers, RunAnswer, ResumeAnswer

(* A call that has its answer without a report. *)
Answered(c) ==
  \E answer \in {"STILL_PAUSED", "FAILED_RETRYABLE", "FAILED_FINAL", "CANCELLED"} :
    Answer(c, answer)

(* Throwing ends a call with an answer that reports nothing. *)
LEMMA ThrowsAnswered ==
  ASSUME NEW c \in Calls, NEW code \in {"THROWN", "PERSISTENCE_UNAVAILABLE"}, Throws(c, code)
  PROVE  Answered(c)
BY AnswersTyped DEF Throws, Answered

(* An answer leaves the calls well typed. *)
LEMMA AnsweredTyped ==
  ASSUME TypeOK, NEW c \in Calls, Answered(c)
  PROVE  calls' \in [Calls -> Call]
<1>1. PICK answer \in Answers : Answer(c, answer)
  BY DEF Answered, Answers
<1>2. [Unused EXCEPT !.pc = "returned", !.answer = answer] \in Call
  BY AnswersTyped DEF Call, Steps
<1> QED
  BY <1>1, <1>2 DEF Answer, TypeOK

(* So does what a call wants to write to the control row. *)
LEMMA FinishTyped ==
  ASSUME TypeOK, NEW c \in Calls, NEW target \in ControlStates, NEW next \in Snapshots \cup {0},
         NEW answer \in Answers, Finish(c, target, next, answer)
  PROVE  calls' \in [Calls -> Call]
<1>0. calls[c] \in Call
  BY DEF TypeOK
<1>1. [Unused EXCEPT !.pc = "finishing", !.from = calls[c].from, !.target = target,
                     !.next = next, !.answer = answer] \in Call
  BY <1>0, AnswersTyped DEF Call, Steps
<1> QED
  BY <1>1 DEF Finish, TypeOK

(* The steps that end a call without a report, whatever they found. *)
Ends(c) ==
  \/ \E s \in Snapshots : StayPaused(c, s) \/ RefuseResume(c, s)
  \/ RecordRefused(c) \/ Aborted(c) \/ Throw(c) \/ RepeatedReceipt(c) \/ CompleteRefused(c)
  \/ Unavailable(c)
  \/ ClaimResume(c) /\ ResumeStatus(c) # "ACQUIRED"
  \/ Succeed(c) /\ ~calls[c].draft /\ ~Resumed(c)

(* They give their answer and change nothing else. *)
LEMMA EndsAnswered ==
  ASSUME NEW c \in Calls, Ends(c)
  PROVE  Answered(c) /\ UNCHANGED <<ctl, raw, results, facts, overrun>>
<1>1. CASE \E s \in Snapshots : StayPaused(c, s) \/ RefuseResume(c, s)
  BY <1>1, AnswersTyped DEF StayPaused, RefuseResume, Answered
<1>2. CASE RecordRefused(c) \/ Throw(c) \/ RepeatedReceipt(c) \/ CompleteRefused(c) \/ Unavailable(c)
  BY <1>2, ThrowsAnswered DEF RecordRefused, Throw, RepeatedReceipt, CompleteRefused, Unavailable
<1>3. CASE Aborted(c)
  BY <1>3 DEF Aborted, Answered
<1>4. CASE ClaimResume(c) /\ ResumeStatus(c) # "ACQUIRED"
  BY <1>4, AnswersTyped DEF ClaimResume, Answered
<1>5. CASE Succeed(c) /\ ~calls[c].draft /\ ~Resumed(c)
  BY <1>5, ThrowsAnswered DEF Succeed, Resumed
<1> QED
  BY <1>1, <1>2, <1>3, <1>4, <1>5 DEF Ends

(* The Runtime ends with a result or fails. *)
Concludes(c) == Fail(c) \/ (Succeed(c) /\ (calls[c].draft \/ Resumed(c)))

(* It goes on to complete the row, with a result or without. *)
LEMMA ConcludesFinishing ==
  ASSUME NEW c \in Calls, Concludes(c)
  PROVE  /\ calls[c].pc = "executing" /\ UNCHANGED <<ctl, raw, results, facts, overrun>>
         /\ \/ Finish(c, "COMPLETED", calls[c].from, "RESULT")
            \/ \E target \in {"COMPLETED", "FAILED"},
                  answer \in {"STILL_PAUSED", "FAILED_RETRYABLE", "FAILED_FINAL"} :
                 Finish(c, target, calls[c].from, answer)
BY AnswersTyped DEF Concludes, Fail, Succeed, Resumed

(* Every step is one of these. *)
LEMMA NextSteps ==
  ASSUME Next
  PROVE  \/ \E c \in Calls :
              \/ Ends(c) \/ Concludes(c) \/ StartRun(c)
              \/ \E s \in Snapshots : Reported(s) /\ StartResume(c, s)
              \/ ClaimResume(c) /\ ResumeStatus(c) = "ACQUIRED"
              \/ RecordRunning(c) \/ AskPermission(c) \/ SubmitDraft(c) \/ EffectEnds(c)
              \/ PollCancelled(c) \/ PollFails(c) \/ Pause(c)
              \/ PutRawSnapshot(c) \/ PutEffectResult(c) \/ SaveRecoveryFacts(c)
              \/ Complete(c) \/ AlreadyComplete(c) \/ Crash(c)
         \/ CancelTask \/ \E aborting \in {{}} \cup {{c} : c \in Calls} : CancelRuntime(aborting)
         \/ Tick
BY Zenon DEF Next, Runtime, Adapter, Resume, Ends, Concludes, Resumed

(* Every step keeps the rows and calls typed. *)
LEMMA TypeStep ==
  ASSUME TypeOK, CallsInv, [Next]_vars
  PROVE  TypeOK'
<1> USE BoundsAssumption
<1>0. /\ ctl.state \in ControlStates /\ ctl.snapshot \in Snapshots \cup {0}
      /\ ctl.controller \in Calls \cup {None} /\ ctl.lease \in NoLease..Lease
      /\ calls \in [Calls -> Call] /\ facts \in [Snapshots -> [state : {"ABSENT"} \cup PausedStates,
                              resumable : BOOLEAN, effect : Effects]]
  BY DEF TypeOK
<1>00. Lease \in NoLease..Lease /\ NoLease \in NoLease..Lease
  BY DEF NoLease
<1>1. CASE UNCHANGED vars
  BY <1>1 DEF TypeOK, vars
<1>2. ASSUME NEW c \in Calls, Ends(c) PROVE TypeOK'
  BY <1>2, EndsAnswered, AnsweredTyped DEF TypeOK
<1>3. ASSUME NEW c \in Calls, Concludes(c) PROVE TypeOK'
  <2>0. calls[c].from \in Snapshots \cup {0}
    BY <1>0 DEF Call
  <2>1. calls' \in [Calls -> Call]
    <3>1. \E target \in {"COMPLETED", "FAILED"}, answer \in Answers :
            Finish(c, target, calls[c].from, answer)
      BY <1>3, ConcludesFinishing DEF Answers
    <3>2. {"COMPLETED", "FAILED"} \subseteq ControlStates
      BY DEF ControlStates
    <3> QED
      BY <2>0, <3>1, <3>2, FinishTyped
  <2> QED
    BY <1>3, <2>1, ConcludesFinishing DEF TypeOK
<1>4. ASSUME NEW c \in Calls,
             StartRun(c) \/ AskPermission(c) \/ SubmitDraft(c) \/ EffectEnds(c)
               \/ PollCancelled(c) \/ PollFails(c)
      PROVE TypeOK'
  <2>0. calls[c] \in Call
    BY <1>0
  <2>1. PICK new \in Call : calls' = [calls EXCEPT ![c] = new]
    <3>1. \A pc \in Steps : [calls[c] EXCEPT !.pc = pc] \in Call
      BY <2>0 DEF Call
    <3>2. \A e \in Effects : [calls[c] EXCEPT !.effect = e] \in Call
      BY <2>0 DEF Call
    <3>3. [calls[c] EXCEPT !.effect = "started", !.draft = TRUE, !.submitted = TRUE] \in Call
      BY <2>0 DEF Call, Effects
    <3>4. [calls[c] EXCEPT !.aborted = TRUE] \in Call
      BY <2>0 DEF Call
    <3>5. CASE StartRun(c)
      BY <3>5, <3>1 DEF StartRun, Steps
    <3>6. CASE AskPermission(c)
      BY <3>6, <3>2 DEF AskPermission, Effects
    <3>7. CASE SubmitDraft(c)
      BY <3>7, <3>3 DEF SubmitDraft
    <3>8. CASE EffectEnds(c)
      BY <3>8, <3>2 DEF EffectEnds, Effects
    <3>9. CASE PollCancelled(c) \/ PollFails(c)
      BY <3>9, <3>4 DEF PollCancelled, PollFails
    <3> QED
      BY <1>4, <3>5, <3>6, <3>7, <3>8, <3>9
  <2>2. UNCHANGED <<ctl, raw, results, facts, overrun>>
    BY <1>4 DEF StartRun, AskPermission, SubmitDraft, EffectEnds, PollCancelled, PollFails
  <2>3. calls' \in [Calls -> Call]
    BY <1>0, <2>1
  <2> QED
    BY <2>2, <2>3 DEF TypeOK
<1>5. ASSUME NEW c \in Calls, NEW s \in Snapshots, StartResume(c, s) PROVE TypeOK'
  <2>0. calls[c] \in Call /\ facts[s].effect \in Effects
    BY <1>0
  <2>1. [calls[c] EXCEPT !.pc = "claiming", !.from = s, !.effect = facts[s].effect,
                         !.draft = facts[s].effect = "committed"] \in Call
    BY <2>0 DEF Call, Steps
  <2>2. calls' \in [Calls -> Call]
    BY <1>0, <1>5, <2>1 DEF StartResume
  <2> QED
    BY <1>5, <2>2 DEF TypeOK, StartResume
<1>6. ASSUME NEW c \in Calls,
             (ClaimResume(c) /\ ResumeStatus(c) = "ACQUIRED") \/ RecordRunning(c)
      PROVE TypeOK'
  <2>0. calls[c] \in Call
    BY <1>0
  <2>1. PICK pc \in Steps : calls' = [calls EXCEPT ![c].pc = pc]
    BY <1>6 DEF ClaimResume, RecordRunning, Steps
  <2>2. calls' \in [Calls -> Call]
    <3>1. [calls[c] EXCEPT !.pc = pc] \in Call
      BY <2>0 DEF Call
    <3> QED
      BY <1>0, <2>1, <3>1
  <2>3. ctl' = [state |-> "RUNNING", snapshot |-> ctl.snapshot, controller |-> c, lease |-> Lease]
    BY <1>6 DEF ClaimResume, RecordRunning, Hold
  <2>4. UNCHANGED <<raw, results, facts, overrun>>
    BY <1>6 DEF ClaimResume, RecordRunning
  <2> QED
    BY <1>0, <1>00, <2>2, <2>3, <2>4 DEF TypeOK, ControlStates
<1>7. ASSUME NEW c \in Calls, Pause(c) PROVE TypeOK'
  <2>0. calls[c] \in Call
    BY <1>0
  <2>1. PICK state \in PausedStates, s \in Snapshots :
          calls' = [calls EXCEPT ![c] = [@ EXCEPT !.pc = "pausing", !.target = state,
                                   !.next = s, !.draft = FALSE, !.submitted = FALSE,
                                   !.aborted = FALSE]]
    BY <1>7 DEF Pause
  <2>2. [calls[c] EXCEPT !.pc = "pausing", !.target = state,
                                   !.next = s, !.draft = FALSE, !.submitted = FALSE,
                                   !.aborted = FALSE] \in Call
    BY <2>0 DEF Call, Steps, ControlStates
  <2>3. calls' \in [Calls -> Call]
    BY <1>0, <2>1, <2>2
  <2> QED
    BY <1>7, <2>3 DEF TypeOK, Pause
<1>8. ASSUME NEW c \in Calls, PutRawSnapshot(c) \/ PutEffectResult(c)
             \/ Complete(c) \/ AlreadyComplete(c) \/ Crash(c)
      PROVE calls' \in [Calls -> Call] /\ UNCHANGED <<facts, overrun>>
  <2>0. calls[c] \in Call /\ Unused \in Call
    BY <1>0, AnswersTyped
  <2>1. \A pc \in Steps : [calls[c] EXCEPT !.pc = pc] \in Call /\ [Unused EXCEPT !.pc = pc] \in Call
    BY <2>0 DEF Call
  <2> QED
    BY <1>0, <1>8, <2>1 DEF PutRawSnapshot, PutEffectResult, Complete, AlreadyComplete, Crash, Steps
<1>9. ASSUME NEW c \in Calls, PutRawSnapshot(c) \/ PutEffectResult(c) PROVE TypeOK'
  <2>1. calls[c].next \in Snapshots
    BY <1>0, <1>9 DEF Call, CallsInv, CallInv, PutRawSnapshot, PutEffectResult
  <2> QED
    BY <1>8, <1>9, <2>1 DEF TypeOK, PutRawSnapshot, PutEffectResult
<1>10. ASSUME NEW c \in Calls, AlreadyComplete(c) \/ Crash(c) PROVE TypeOK'
  BY <1>8, <1>10 DEF TypeOK, AlreadyComplete, Crash
<1>11. ASSUME NEW c \in Calls, Complete(c) PROVE TypeOK'
  <2>1. calls[c].next \in Snapshots \cup {0} /\ calls[c].target \in ControlStates
    BY <1>0 DEF Call
  <2>2. ctl' \in [state : ControlStates, snapshot : Snapshots \cup {0},
              controller : Calls \cup {None}, lease : NoLease..Lease]
    BY <1>0, <1>00, <1>11, <2>1 DEF Complete
  <2> QED
    BY <1>8, <1>11, <2>2 DEF TypeOK, Complete
<1>12. ASSUME NEW c \in Calls, SaveRecoveryFacts(c) PROVE TypeOK'
  <2>1. /\ calls[c].next \in Snapshots /\ calls[c].target \in PausedStates
        /\ calls[c].effect \in Effects
    BY <1>0, <1>12 DEF Call, CallsInv, CallInv, SaveRecoveryFacts, Pausing
  <2>2. calls' \in [Calls -> Call]
    BY <1>12, <2>1, FinishTyped DEF SaveRecoveryFacts, ControlStates, Answers
  <2>3. facts' \in [Snapshots -> [state : {"ABSENT"} \cup PausedStates,
                              resumable : BOOLEAN, effect : Effects]]
    <3>1. PICK resumable \in BOOLEAN :
            facts' = [facts EXCEPT ![calls[c].next] = [state |-> calls[c].target,
                        resumable |-> resumable, effect |-> calls[c].effect]]
      BY <1>12 DEF SaveRecoveryFacts
    <3> QED
      BY <1>0, <2>1, <3>1
  <2>4. /\ DOMAIN ctl = {"state", "snapshot", "controller", "lease"}
        /\ ctl' = [state |-> ctl'.state, snapshot |-> ctl'.snapshot,
                   controller |-> ctl.controller, lease |-> ctl.lease]
        /\ ctl'.state \in {ctl.state, calls[c].target}
        /\ ctl'.snapshot \in {ctl.snapshot, calls[c].next}
    BY <1>12 DEF SaveRecoveryFacts, BindSnapshot, TypeOK
  <2> QED
    BY <1>0, <1>12, <2>1, <2>2, <2>3, <2>4 DEF TypeOK, SaveRecoveryFacts, ControlStates
<1>13. CASE CancelTask
  BY <1>0, <1>00, <1>13 DEF TypeOK, CancelTask, ControlStates
<1>14. ASSUME NEW aborting \in {{}} \cup {{c} : c \in Calls}, CancelRuntime(aborting) PROVE TypeOK'
  <2>1. \A c \in Calls : [calls[c] EXCEPT !.aborted = TRUE] \in Call
    BY <1>0 DEF Call
  <2>2. calls' \in [Calls -> Call]
    BY <1>0, <1>14, <2>1 DEF CancelRuntime
  <2> QED
    BY <1>0, <1>00, <1>14, <2>2 DEF TypeOK, CancelRuntime, ControlStates
<1>15. CASE Tick
  <2>1. ctl.lease - 1 \in NoLease..Lease
    BY <1>0, <1>15 DEF Tick, NoLease
  <2> QED
    BY <1>0, <1>15, <2>1 DEF TypeOK, Tick
<1> QED
  BY <1>1, <1>2, <1>3, <1>4, <1>5, <1>6, <1>7, <1>9, <1>10, <1>11, <1>12, <1>13, <1>14, <1>15,
     NextSteps

(* A call that is gone holds nothing and reports nothing. *)
Gone(c) ==
  /\ \A d \in Calls \ {c} : calls'[d] = calls[d]
  /\ calls'[c].pc \in {"returned", "crashed"} /\ calls'[c].answer \notin {"RESULT", "PAUSED"}
  /\ calls'[c].from = 0 /\ calls'[c].next = 0 /\ calls'[c].target = "ABSENT"
  /\ calls'[c].submitted = FALSE /\ calls'[c].draft = FALSE
  /\ UNCHANGED <<ctl, raw, results, facts, overrun>>

(* A call that ends without a report, or stops, is gone. *)
LEMMA GoneSteps ==
  ASSUME TypeOK, NEW c \in Calls, Ends(c) \/ Crash(c)
  PROVE  Gone(c)
<1>0. calls \in [Calls -> Call]
  BY DEF TypeOK
<1>1. CASE Ends(c)
  <2>1. PICK answer \in {"STILL_PAUSED", "FAILED_RETRYABLE", "FAILED_FINAL", "CANCELLED"} :
          Answer(c, answer)
    BY <1>1, EndsAnswered DEF Answered
  <2> QED
    BY <1>0, <1>1, <2>1, EndsAnswered DEF Gone, Answer, Unused
<1>2. CASE Crash(c)
  BY <1>0, <1>2 DEF Gone, Crash, Unused
<1> QED
  BY <1>1, <1>2

(* The Runtime has concluded: nothing is saved, the row may be completed. *)
Concluded(c) ==
  /\ \A d \in Calls \ {c} : calls'[d] = calls[d]
  /\ calls[c].pc = "executing" /\ calls'[c].pc = "finishing"
  /\ calls'[c].from = calls[c].from /\ calls'[c].next = calls[c].from
  /\ calls'[c].target \in {"COMPLETED", "FAILED"} /\ calls'[c].answer # "PAUSED"
  /\ calls'[c].answer = "RESULT" => calls'[c].target = "COMPLETED"
  /\ calls'[c].submitted = FALSE
  /\ UNCHANGED <<ctl, raw, results, facts, overrun>>

(* What a conclusion leaves the call with. *)
LEMMA ConcludedSteps ==
  ASSUME TypeOK, NEW c \in Calls, Concludes(c)
  PROVE  Concluded(c)
<1>0. calls \in [Calls -> Call]
  BY DEF TypeOK
<1>1. CASE Finish(c, "COMPLETED", calls[c].from, "RESULT")
  BY <1>0, <1>1, ConcludesFinishing DEF Concluded, Finish, Unused
<1>2. ASSUME NEW target \in {"COMPLETED", "FAILED"},
             NEW answer \in {"STILL_PAUSED", "FAILED_RETRYABLE", "FAILED_FINAL"},
             Finish(c, target, calls[c].from, answer)
      PROVE Concluded(c)
  BY <1>0, <1>2, ConcludesFinishing DEF Concluded, Finish, Unused
<1> QED
  BY <1>1, <1>2, ConcludesFinishing

(* The facts of a pause are saved: the row is bound to them if it has none. *)
Saved(c) ==
  /\ \A d \in Calls \ {c} : calls'[d] = calls[d]
  /\ calls[c].pc = "saving" /\ calls'[c].pc = "finishing"
  /\ calls'[c].from = calls[c].from /\ calls'[c].next = calls[c].next
  /\ calls'[c].target = calls[c].target /\ calls'[c].answer = "PAUSED"
  /\ calls'[c].submitted = FALSE
  /\ calls[c].next \in raw
  /\ calls[c].effect = "committed" => calls[c].next \in results
  /\ \A s \in Snapshots \ {calls[c].next} : facts'[s] = facts[s]
  /\ facts'[calls[c].next].state = calls[c].target /\ facts'[calls[c].next].effect = calls[c].effect
  /\ ctl'.controller = ctl.controller /\ ctl'.lease = ctl.lease
  /\ \/ ctl.state = "ABSENT" /\ ctl'.state = calls[c].target /\ ctl'.snapshot = calls[c].next
     \/ ctl.state = "RUNNING" /\ ctl.snapshot = 0 /\ ctl'.state = "RUNNING"
          /\ ctl'.snapshot = calls[c].next
     \/ ctl.state # "ABSENT" /\ ~(ctl.state = "RUNNING" /\ ctl.snapshot = 0) /\ ctl' = ctl
  /\ UNCHANGED <<raw, results, overrun>>
(* saveRecoveryFacts saves them, and binds the row as said. *)
LEMMA SavedSteps ==
  ASSUME TypeOK, CallsInv, NEW c \in Calls, SaveRecoveryFacts(c)
  PROVE  Saved(c)
<1>0. /\ calls \in [Calls -> Call] /\ calls[c].next \in Snapshots
      /\ facts \in [Snapshots -> [state : {"ABSENT"} \cup PausedStates,
                                  resumable : BOOLEAN, effect : Effects]]
      /\ ctl \in [state : ControlStates, snapshot : Snapshots \cup {0},
              controller : Calls \cup {None}, lease : NoLease..Lease]
  BY DEF TypeOK, Call, CallsInv, CallInv, SaveRecoveryFacts
<1>1. /\ \A d \in Calls \ {c} : calls'[d] = calls[d]
      /\ calls[c].pc = "saving" /\ calls'[c].pc = "finishing"
      /\ calls'[c].from = calls[c].from /\ calls'[c].next = calls[c].next
      /\ calls'[c].target = calls[c].target /\ calls'[c].answer = "PAUSED"
      /\ calls'[c].submitted = FALSE
  BY <1>0 DEF SaveRecoveryFacts, Finish, Unused
<1>2. /\ \A s \in Snapshots \ {calls[c].next} : facts'[s] = facts[s]
      /\ facts'[calls[c].next].state = calls[c].target
      /\ facts'[calls[c].next].effect = calls[c].effect
  <2>1. PICK resumable \in BOOLEAN :
          facts' = [facts EXCEPT ![calls[c].next] = [state |-> calls[c].target,
                      resumable |-> resumable, effect |-> calls[c].effect]]
    BY DEF SaveRecoveryFacts
  <2> QED
    BY <1>0, <2>1
<1>3. /\ ctl'.controller = ctl.controller /\ ctl'.lease = ctl.lease
      /\ \/ ctl.state = "ABSENT" /\ ctl'.state = calls[c].target /\ ctl'.snapshot = calls[c].next
         \/ ctl.state = "RUNNING" /\ ctl.snapshot = 0 /\ ctl'.state = "RUNNING"
              /\ ctl'.snapshot = calls[c].next
         \/ ctl.state # "ABSENT" /\ ~(ctl.state = "RUNNING" /\ ctl.snapshot = 0) /\ ctl' = ctl
  <2>1. BindSnapshot(calls[c].target, calls[c].next)
    BY DEF SaveRecoveryFacts
  <2>2. CASE ctl.state = "ABSENT"
    <3>1. ctl' = [ctl EXCEPT !.state = calls[c].target, !.snapshot = calls[c].next]
      BY <2>1, <2>2 DEF BindSnapshot
    <3> QED
      BY <1>0, <2>2, <3>1
  <2>3. CASE ctl.state = "RUNNING" /\ ctl.snapshot = 0
    <3>1. ctl' = [ctl EXCEPT !.snapshot = calls[c].next]
      BY <2>1, <2>3 DEF BindSnapshot
    <3> QED
      BY <1>0, <2>3, <3>1
  <2>4. CASE ctl.state # "ABSENT" /\ ~(ctl.state = "RUNNING" /\ ctl.snapshot = 0)
    BY <2>1, <2>4 DEF BindSnapshot
  <2> QED
    BY <2>2, <2>3, <2>4
<1> QED
  BY <1>1, <1>2, <1>3 DEF Saved, SaveRecoveryFacts

(* The steps before a call ends or pauses: its target, snapshot and answer *)
(* are those of a call that is still to be made.                           *)
Works(c, before, after) ==
  /\ \A d \in Calls \ {c} : calls'[d] = calls[d]
  /\ calls[c].pc = before /\ calls'[c].pc = after
  /\ calls'[c].target = calls[c].target /\ calls'[c].next = calls[c].next
  /\ calls'[c].answer = calls[c].answer
  /\ UNCHANGED <<raw, results, facts, overrun>>

SameFrom(c) == calls'[c].from = calls[c].from
SameDraft(c) == calls'[c].draft = calls[c].draft /\ calls'[c].submitted = calls[c].submitted

(* What each step from the start of a call to the Runtime changes. *)
LEMMA WorkSteps ==
  ASSUME TypeOK, NEW c \in Calls
  PROVE  /\ StartRun(c) => Works(c, "unused", "recording") /\ SameFrom(c) /\ SameDraft(c)
                             /\ UNCHANGED ctl
         /\ \A s \in Snapshots : StartResume(c, s) =>
              /\ Works(c, "unused", "claiming") /\ calls'[c].from = s /\ UNCHANGED ctl
              /\ calls'[c].submitted = calls[c].submitted
              /\ calls'[c].draft = (facts[s].effect = "committed")
         /\ ClaimResume(c) /\ ResumeStatus(c) = "ACQUIRED" =>
              /\ Works(c, "claiming", "recording") /\ SameFrom(c) /\ SameDraft(c)
              /\ Hold(c, ctl.snapshot)
         /\ RecordRunning(c) => Works(c, "recording", "executing") /\ SameFrom(c) /\ SameDraft(c)
         /\ AskPermission(c) \/ EffectEnds(c) \/ PollCancelled(c) \/ PollFails(c) =>
              /\ Works(c, "executing", "executing") /\ SameFrom(c) /\ SameDraft(c)
              /\ UNCHANGED ctl
         /\ SubmitDraft(c) =>
              Works(c, "executing", "executing") /\ SameFrom(c) /\ UNCHANGED ctl
<1>0. calls \in [Calls -> Call] /\ calls[c] \in Call
  BY DEF TypeOK
<1> USE DEF Works, SameFrom, SameDraft
<1>1. ASSUME StartRun(c)
      PROVE Works(c, "unused", "recording") /\ SameFrom(c) /\ SameDraft(c) /\ UNCHANGED ctl
  BY <1>0, <1>1 DEF StartRun, Call
<1>2. ASSUME NEW s \in Snapshots, StartResume(c, s)
      PROVE /\ Works(c, "unused", "claiming") /\ calls'[c].from = s /\ UNCHANGED ctl
            /\ calls'[c].submitted = calls[c].submitted
            /\ calls'[c].draft = (facts[s].effect = "committed")
  <2>1. calls'[c] = [calls[c] EXCEPT !.pc = "claiming", !.from = s, !.effect = facts[s].effect,
                                     !.draft = facts[s].effect = "committed"]
    BY <1>0, <1>2 DEF StartResume
  <2>2. \A d \in Calls \ {c} : calls'[d] = calls[d]
    BY <1>0, <1>2 DEF StartResume
  <2>3. \A e \in {TRUE, FALSE} : [calls[c] EXCEPT !.pc = "claiming", !.from = s, !.effect = facts[s].effect,
                                     !.draft = e].draft = e
    BY <1>0 DEF Call
  <2>4. calls'[c].draft = (facts[s].effect = "committed")
    BY <2>1, <2>3, Zenon
  <2>5. PICK e \in {TRUE, FALSE} : calls'[c] = [calls[c] EXCEPT !.pc = "claiming", !.from = s,
                                     !.effect = facts[s].effect, !.draft = e]
    BY <2>1, Zenon
  <2>6. /\ calls'[c].from = s /\ calls'[c].pc = "claiming"
        /\ calls'[c].target = calls[c].target /\ calls'[c].next = calls[c].next
        /\ calls'[c].answer = calls[c].answer /\ calls'[c].submitted = calls[c].submitted
    BY <1>0, <2>5 DEF Call
  <2> QED
    BY <1>2, <2>2, <2>4, <2>6 DEF StartResume
<1>3. ASSUME ClaimResume(c), ResumeStatus(c) = "ACQUIRED"
      PROVE /\ Works(c, "claiming", "recording") /\ SameFrom(c) /\ SameDraft(c)
            /\ Hold(c, ctl.snapshot)
  BY <1>0, <1>3 DEF ClaimResume, Call
<1>4. ASSUME RecordRunning(c)
      PROVE Works(c, "recording", "executing") /\ SameFrom(c) /\ SameDraft(c)
  BY <1>0, <1>4 DEF RecordRunning, Call
<1>5. ASSUME AskPermission(c) \/ EffectEnds(c)
      PROVE Works(c, "executing", "executing") /\ SameFrom(c) /\ SameDraft(c) /\ UNCHANGED ctl
  <2>1. PICK e : calls' = [calls EXCEPT ![c].effect = e]
    BY <1>5 DEF AskPermission, EffectEnds
  <2> QED
    BY <1>0, <1>5, <2>1 DEF AskPermission, EffectEnds, Call
<1>6. ASSUME PollCancelled(c) \/ PollFails(c)
      PROVE Works(c, "executing", "executing") /\ SameFrom(c) /\ SameDraft(c) /\ UNCHANGED ctl
  <2>1. calls' = [calls EXCEPT ![c].aborted = TRUE]
    BY <1>6 DEF PollCancelled, PollFails
  <2> QED
    BY <1>0, <1>6, <2>1 DEF PollCancelled, PollFails, Call
<1>7. ASSUME SubmitDraft(c)
      PROVE Works(c, "executing", "executing") /\ SameFrom(c) /\ UNCHANGED ctl
  BY <1>0, <1>7 DEF SubmitDraft, Call
<1> QED
  BY <1>1, <1>2, <1>3, <1>4, <1>5, <1>6, <1>7, Zenon DEF Works, SameFrom, SameDraft

(* The steps from a pause to its saved facts. *)
Follows(c, before, after) ==
  /\ \A d \in Calls \ {c} : calls'[d] = calls[d]
  /\ calls[c].pc = before /\ calls'[c].pc = after
  /\ calls'[c].target = calls[c].target /\ calls'[c].next = calls[c].next
  /\ calls'[c].answer = calls[c].answer /\ calls'[c].from = calls[c].from
  /\ calls'[c].submitted = calls[c].submitted

(* The writes of a pause and the completion of the row are such steps. *)
LEMMA FollowSteps ==
  ASSUME TypeOK, NEW c \in Calls
  PROVE  /\ PutRawSnapshot(c) => Follows(c, "pausing", "storing")
         /\ PutEffectResult(c) => Follows(c, "storing", "saving")
         /\ Complete(c) \/ AlreadyComplete(c) => Follows(c, "finishing", "returned")
<1>0. calls \in [Calls -> Call] /\ calls[c] \in Call
  BY DEF TypeOK
<1> QED
  BY <1>0 DEF Follows, Call, PutRawSnapshot, PutEffectResult, Complete, AlreadyComplete

(* A pause takes a snapshot of its own. *)
Paused(c, state, s) ==
  /\ \A d \in Calls \ {c} : calls'[d] = calls[d]
  /\ calls[c].pc = "executing" /\ calls'[c].pc = "pausing"
  /\ calls'[c].target = state /\ calls'[c].next = s
  /\ calls'[c].answer = calls[c].answer /\ calls'[c].from = calls[c].from
  /\ calls'[c].submitted = FALSE
  /\ s \notin raw /\ \A d \in Calls : calls[d].next # s
  /\ UNCHANGED <<ctl, raw, results, facts, overrun>>

(* A pause is one with a snapshot no one has. *)
LEMMA PauseSteps ==
  ASSUME TypeOK, NEW c \in Calls, Pause(c)
  PROVE  \E state \in PausedStates, s \in Snapshots : Paused(c, state, s)
<1>0. calls \in [Calls -> Call] /\ calls[c] \in Call
  BY DEF TypeOK
<1>1. PICK state \in PausedStates, s \in Snapshots :
        /\ Fresh(s)
        /\ calls' = [calls EXCEPT ![c] = [@ EXCEPT !.pc = "pausing", !.target = state,
                                   !.next = s, !.draft = FALSE, !.submitted = FALSE,
                                   !.aborted = FALSE]]
  BY DEF Pause
<1>2. s \notin raw /\ \A d \in Calls : calls[d].next # s
  BY <1>1 DEF Fresh
<1>3. Paused(c, state, s)
  BY <1>0, <1>1, <1>2 DEF Paused, Call, Pause
<1> QED
  BY <1>3

(* Aborting the executions of the cancelled run changes nothing else. *)
LEMMA AbortSteps ==
  ASSUME TypeOK, NEW aborting \in {{}} \cup {{c} : c \in Calls}, CancelRuntime(aborting)
  PROVE  /\ \A c \in Calls :
              /\ calls'[c].pc = calls[c].pc /\ calls'[c].from = calls[c].from
              /\ calls'[c].target = calls[c].target /\ calls'[c].next = calls[c].next
              /\ calls'[c].answer = calls[c].answer /\ SameDraft(c)
         /\ ctl'.state = "CANCELLED" /\ ctl'.snapshot = ctl.snapshot
         /\ UNCHANGED <<raw, results, facts, overrun>>
<1>0. calls \in [Calls -> Call]
  BY DEF TypeOK
<1>1. \A c \in Calls : calls'[c] = calls[c] \/ calls'[c] = [calls[c] EXCEPT !.aborted = TRUE]
  BY <1>0 DEF CancelRuntime
<1> QED
  BY <1>0, <1>1 DEF SameDraft, TypeOK, CancelRuntime, Call

(* What a call has on its way stays consistent. *)
LEMMA CallStep ==
  ASSUME TypeOK, CallsInv, [Next]_vars
  PROVE  CallsInv'
<1> USE StatesAssumption
<1>0. calls \in [Calls -> Call]
  BY DEF TypeOK
<1>00. \A d \in Calls : CallInv(d)
  BY DEF CallsInv
<1>1. CASE UNCHANGED vars
  BY <1>1 DEF CallsInv, CallInv, Pausing, Resumed, vars
<1>2. ASSUME NEW c \in Calls, Gone(c) PROVE CallsInv'
  BY <1>0, <1>00, <1>2 DEF Gone, CallsInv, CallInv, Pausing, Resumed
<1>3. ASSUME NEW c \in Calls, Concluded(c) PROVE CallsInv'
  BY <1>0, <1>00, <1>3 DEF Concluded, CallsInv, CallInv, Pausing, Resumed
<1>4. ASSUME NEW c \in Calls, Saved(c) PROVE CallsInv'
  BY <1>0, <1>00, <1>4 DEF Saved, CallsInv, CallInv, Pausing, Resumed
<1>5. ASSUME NEW c \in Calls, NEW before, NEW after, Works(c, before, after),
             before \in {"unused", "claiming", "recording", "executing"},
             after \in {"claiming", "recording", "executing"},
             after = "claiming" => calls'[c].from # 0
      PROVE CallsInv'
  BY <1>0, <1>00, <1>5 DEF Works, CallsInv, CallInv, Pausing, Resumed
<1>6. ASSUME NEW c \in Calls, NEW state \in PausedStates, NEW s \in Snapshots, Paused(c, state, s)
      PROVE CallsInv'
  BY <1>0, <1>00, <1>6 DEF Paused, CallsInv, CallInv, Pausing, Resumed, Snapshots
<1>7. ASSUME NEW c \in Calls, PutRawSnapshot(c) \/ PutEffectResult(c) PROVE CallsInv'
  BY <1>0, <1>00, <1>7, FollowSteps DEF Follows, CallsInv, CallInv, Pausing, Resumed
<1>8. ASSUME NEW c \in Calls, Complete(c) \/ AlreadyComplete(c) PROVE CallsInv'
  <2>1. Follows(c, "finishing", "returned")
    BY <1>8, FollowSteps
  <2> QED
    BY <1>0, <1>00, <2>1 DEF Follows, CallsInv, CallInv, Pausing, Resumed
<1>9. CASE CancelTask \/ Tick
  BY <1>9 DEF CancelTask, Tick, CallsInv, CallInv, Pausing, Resumed
<1>10. ASSUME NEW aborting \in {{}} \cup {{c} : c \in Calls}, CancelRuntime(aborting)
       PROVE CallsInv'
  BY <1>0, <1>00, <1>10, AbortSteps DEF CallsInv, CallInv, Pausing, Resumed
<1> HIDE StatesAssumption
<1>11. ASSUME NEW c \in Calls,
              \/ Ends(c) \/ Crash(c) \/ Concludes(c) \/ SaveRecoveryFacts(c) \/ Pause(c)
              \/ PutRawSnapshot(c) \/ PutEffectResult(c) \/ Complete(c) \/ AlreadyComplete(c)
       PROVE CallsInv'
  BY <1>2, <1>3, <1>4, <1>6, <1>7, <1>8, <1>11, GoneSteps, ConcludedSteps, SavedSteps, PauseSteps
<1>12. ASSUME NEW c \in Calls,
              \/ StartRun(c) \/ \E s \in Snapshots : StartResume(c, s)
              \/ ClaimResume(c) /\ ResumeStatus(c) = "ACQUIRED"
              \/ RecordRunning(c) \/ AskPermission(c) \/ SubmitDraft(c) \/ EffectEnds(c)
              \/ PollCancelled(c) \/ PollFails(c)
       PROVE CallsInv'
  <2>1. \E before \in {"unused", "claiming", "recording", "executing"},
           after \in {"claiming", "recording", "executing"} :
             Works(c, before, after) /\ (after = "claiming" => calls'[c].from # 0)
    <3>1. ASSUME NEW s \in Snapshots, StartResume(c, s)
          PROVE Works(c, "unused", "claiming") /\ calls'[c].from # 0
      BY <3>1, WorkSteps DEF Snapshots
    <3> QED
      BY <1>12, <3>1, WorkSteps
  <2> QED
    BY <1>5, <2>1
<1> QED
  BY <1>1, <1>9, <1>10, <1>11, <1>12, NextSteps

(* What the row says after each kind of step. *)
LEMMA TickSteps ==
  ASSUME TypeOK, Tick
  PROVE  /\ ctl'.state = ctl.state /\ ctl'.snapshot = ctl.snapshot
         /\ ctl'.controller = ctl.controller /\ ctl'.lease = ctl.lease - 1
         /\ overrun' = (overrun \/ (ctl.lease = 1 /\ calls[ctl.controller].pc \in Started))
         /\ ctl.lease > 0 /\ UNCHANGED <<raw, results, facts, calls>>
BY DEF TypeOK, Tick

(* requestRuntimeCancel keeps the snapshot. *)
LEMMA CancelSteps ==
  ASSUME TypeOK, CancelTask
  PROVE  /\ ctl'.state = "CANCELLED" /\ ctl'.snapshot = ctl.snapshot
         /\ UNCHANGED <<raw, results, facts, calls, overrun>>
BY DEF TypeOK, CancelTask

(* completeRuntimeControl moves the row to what the call carries. *)
LEMMA CompleteSteps ==
  ASSUME TypeOK, NEW c \in Calls, Complete(c)
  PROVE  /\ Held(c) /\ ctl.snapshot = Expected(c)
         /\ ctl'.state = calls[c].target /\ ctl'.snapshot = calls[c].next
         /\ ctl'.controller = None /\ ctl'.lease = NoLease
         /\ UNCHANGED <<raw, results, facts, overrun>>
BY DEF TypeOK, Complete, MayComplete

(* What was saved of a pause stays saved. *)
LEMMA PauseStep ==
  ASSUME TypeOK, CallsInv, PauseInv, [Next]_vars
  PROVE  PauseInv'
<1>0. /\ calls \in [Calls -> Call] /\ raw \subseteq Snapshots /\ results \subseteq Snapshots
      /\ facts \in [Snapshots -> [state : {"ABSENT"} \cup PausedStates,
                                  resumable : BOOLEAN, effect : Effects]]
      /\ ctl.snapshot \in Snapshots \cup {0}
  BY DEF TypeOK
<1>00. \A d \in Calls : CallInv(d) /\ calls[d].next \in Snapshots \cup {0}
                          /\ calls[d].from \in Snapshots \cup {0}
  BY <1>0 DEF CallsInv, Call
<1>01. 0 \notin Snapshots /\ \A state \in PausedStates : state \notin {"ABSENT", "RUNNING", "COMPLETED", "CANCELLED", "FAILED"}
  BY StatesAssumption DEF Snapshots
<1>1. CASE UNCHANGED vars
  BY <1>1 DEF PauseInv, Pausing, Resumed, Recoverable, vars
<1>2. ASSUME NEW c \in Calls, Gone(c) PROVE PauseInv'
  BY <1>0, <1>00, <1>01, <1>2 DEF Gone, PauseInv, Pausing, Resumed, Recoverable
<1>3. ASSUME NEW c \in Calls, Concluded(c) PROVE PauseInv'
  BY <1>0, <1>00, <1>01, <1>3 DEF Concluded, PauseInv, CallInv, Pausing, Resumed, Recoverable
<1>4. ASSUME NEW c \in Calls, Saved(c) PROVE PauseInv'
  <2>1. /\ Pausing(c) /\ calls[c].next \in Snapshots /\ facts[calls[c].next].state = "ABSENT"
    BY <1>00, <1>4 DEF CallInv, Saved, PauseInv
  <2>2. \A s \in Snapshots : facts[s].state # "ABSENT" => facts'[s] = facts[s]
    BY <1>4, <2>1 DEF Saved
  <2>3. \A s \in Snapshots : facts[s].state # "ABSENT" => facts'[s].state # "ABSENT"
    BY <2>2
  <2>4. /\ facts'[calls[c].next].state = calls[c].target /\ calls[c].next \in raw'
        /\ facts'[calls[c].next].effect = "committed" => calls[c].next \in results'
    BY <1>4 DEF Saved
  <2>5. \A s \in Snapshots : facts'[s].state # "ABSENT" => s \in raw'
    BY <1>4, <2>1 DEF Saved, PauseInv
  <2>6. \A d \in Calls : calls'[d].from # 0 => facts'[calls'[d].from].state # "ABSENT"
    BY <1>00, <1>4, <2>3 DEF Saved, PauseInv, Resumed
  <2>7. \A d \in Calls : calls'[d].answer = "PAUSED" =>
          /\ facts'[calls'[d].next].state = calls'[d].target /\ calls'[d].next \in raw'
          /\ facts'[calls'[d].next].effect = "committed" => calls'[d].next \in results'
    <3> SUFFICES ASSUME NEW d \in Calls, calls'[d].answer = "PAUSED"
                 PROVE  /\ facts'[calls'[d].next].state = calls'[d].target /\ calls'[d].next \in raw'
                        /\ facts'[calls'[d].next].effect = "committed" => calls'[d].next \in results'
      OBVIOUS
    <3>1. CASE d = c
      BY <1>4, <2>4, <3>1 DEF Saved
    <3>2. CASE d # c
      <4>1. /\ calls'[d] = calls[d] /\ Recoverable(calls[d].next, calls[d].target)
            /\ calls[d].next \in Snapshots /\ calls[d].target \in PausedStates
        BY <1>00, <1>4, <3>2 DEF Saved, PauseInv, CallInv, Pausing
      <4>2. facts'[calls[d].next] = facts[calls[d].next]
        BY <1>01, <2>2, <4>1 DEF Recoverable
      <4> QED
        BY <1>4, <4>1, <4>2 DEF Saved, Recoverable
    <3> QED
      BY <3>1, <3>2
  <2>8. ctl'.snapshot # 0 => facts'[ctl'.snapshot].state # "ABSENT"
    BY <1>0, <1>01, <1>4, <2>1, <2>3, <2>4 DEF Saved, PauseInv, Pausing
  <2>9. ctl'.state \in PausedStates =>
          /\ ctl'.snapshot # 0
          /\ facts'[ctl'.snapshot].state = ctl'.state /\ ctl'.snapshot \in raw'
          /\ facts'[ctl'.snapshot].effect = "committed" => ctl'.snapshot \in results'
    <3>1. CASE ctl.state = "ABSENT"
      BY <1>01, <1>4, <2>1, <2>4, <3>1 DEF Saved
    <3>2. CASE ctl.state = "RUNNING"
      BY <1>01, <1>4, <3>2 DEF Saved
    <3>3. CASE ctl.state \notin {"ABSENT", "RUNNING"}
      <4>1. ctl' = ctl
        BY <1>4, <3>3 DEF Saved
      <4> QED
        BY <1>0, <1>01, <1>4, <2>2, <4>1 DEF Saved, PauseInv, Recoverable
    <3> QED
      BY <3>1, <3>2, <3>3
  <2>10. \A d \in Calls : calls'[d].pc \in {"pausing", "storing", "saving"} =>
                             facts'[calls'[d].next].state = "ABSENT"
    BY <1>00, <1>01, <1>4, <2>1 DEF Saved, PauseInv, CallInv, Pausing
  <2>11. \A d, e \in Calls :
           calls'[d].target \in PausedStates /\ calls'[e].target \in PausedStates
             /\ calls'[d].next = calls'[e].next => d = e
    BY <1>4 DEF Saved, PauseInv, Pausing
  <2> QED
    BY <2>5, <2>6, <2>7, <2>8, <2>9, <2>10, <2>11 DEF PauseInv, Resumed, Pausing, Recoverable
<1>5. ASSUME NEW c \in Calls, NEW before, NEW after, Works(c, before, after),
             before \in {"unused", "claiming", "recording", "executing"},
             after \in {"claiming", "recording", "executing"},
             ctl'.snapshot = ctl.snapshot, ctl'.state \in {ctl.state, "RUNNING"},
             SameFrom(c) \/ Reported(calls'[c].from)
      PROVE PauseInv'
  <2>1. calls'[c].from # 0 => facts[calls'[c].from].state # "ABSENT"
    BY <1>00, <1>01, <1>5 DEF SameFrom, Reported, PauseInv, Resumed, Recoverable, CallInv, Pausing
  <2>2. ~Pausing(c)
    BY <1>00, <1>5 DEF CallInv, Works
  <2> QED
    BY <1>0, <1>00, <1>01, <1>5, <2>1, <2>2 DEF Works, PauseInv, Pausing, Resumed, Recoverable
<1>6. ASSUME NEW c \in Calls, NEW state \in PausedStates, NEW s \in Snapshots, Paused(c, state, s)
      PROVE PauseInv'
  BY <1>0, <1>00, <1>01, <1>6 DEF Paused, PauseInv, CallInv, Pausing, Resumed, Recoverable
<1>7. ASSUME NEW c \in Calls, PutRawSnapshot(c) \/ PutEffectResult(c) PROVE PauseInv'
  <2>1. /\ raw \subseteq raw' /\ results \subseteq results' /\ UNCHANGED <<ctl, facts>>
    BY <1>7 DEF PutRawSnapshot, PutEffectResult
  <2>2. PICK before \in {"pausing", "storing"}, after \in {"storing", "saving"} :
          Follows(c, before, after)
    BY <1>7, FollowSteps
  <2> QED
    BY <1>0, <1>00, <1>01, <2>1, <2>2 DEF Follows, PauseInv, CallInv, Pausing, Resumed, Recoverable
<1>8. ASSUME NEW c \in Calls, Complete(c) \/ AlreadyComplete(c) PROVE PauseInv'
  <2>1. Follows(c, "finishing", "returned") /\ UNCHANGED <<raw, results, facts>>
    BY <1>8, FollowSteps, CompleteSteps DEF AlreadyComplete
  <2>2. \/ ctl' = ctl
        \/ ctl'.state = calls[c].target /\ ctl'.snapshot = calls[c].next
    BY <1>8, CompleteSteps DEF AlreadyComplete
  <2>3. /\ ctl'.snapshot # 0 => facts[ctl'.snapshot].state # "ABSENT"
        /\ ctl'.state \in PausedStates => ctl'.snapshot # 0 /\ Recoverable(ctl'.snapshot, ctl'.state)
    <3>1. CASE ctl' = ctl
      BY <3>1 DEF PauseInv
    <3>2. CASE ctl'.state = calls[c].target /\ ctl'.snapshot = calls[c].next
      <4>1. CASE Pausing(c)
        BY <1>00, <1>01, <2>1, <3>2, <4>1 DEF Follows, PauseInv, CallInv, Pausing, Recoverable
      <4>2. CASE ~Pausing(c)
        BY <1>00, <1>01, <2>1, <3>2, <4>2 DEF Follows, PauseInv, CallInv, Pausing, Resumed
      <4> QED
        BY <4>1, <4>2
    <3> QED
      BY <2>2, <3>1, <3>2
  <2> QED
    <3>1. \A d \in Calls :
            /\ calls'[d].from = calls[d].from /\ calls'[d].answer = calls[d].answer
            /\ calls'[d].next = calls[d].next /\ calls'[d].target = calls[d].target
            /\ calls'[d].pc \in {"pausing", "storing", "saving"} => calls'[d].pc = calls[d].pc
      BY <2>1 DEF Follows
    <3> QED
      BY <2>1, <2>3, <3>1 DEF PauseInv, Pausing, Resumed, Recoverable
<1>9. CASE CancelTask \/ Tick
  BY <1>0, <1>01, <1>9, CancelSteps, TickSteps DEF PauseInv, Pausing, Resumed, Recoverable
<1>10. ASSUME NEW aborting \in {{}} \cup {{c} : c \in Calls}, CancelRuntime(aborting)
       PROVE PauseInv'
  BY <1>0, <1>01, <1>10, AbortSteps DEF PauseInv, Pausing, Resumed, Recoverable
<1>11. ASSUME NEW c \in Calls,
              \/ Ends(c) \/ Crash(c) \/ Concludes(c) \/ SaveRecoveryFacts(c) \/ Pause(c)
              \/ PutRawSnapshot(c) \/ PutEffectResult(c) \/ Complete(c) \/ AlreadyComplete(c)
       PROVE PauseInv'
  BY <1>2, <1>3, <1>4, <1>6, <1>7, <1>8, <1>11, GoneSteps, ConcludedSteps, SavedSteps, PauseSteps
<1>12. ASSUME NEW c \in Calls,
              \/ StartRun(c) \/ \E s \in Snapshots : Reported(s) /\ StartResume(c, s)
              \/ ClaimResume(c) /\ ResumeStatus(c) = "ACQUIRED"
              \/ RecordRunning(c) \/ AskPermission(c) \/ SubmitDraft(c) \/ EffectEnds(c)
              \/ PollCancelled(c) \/ PollFails(c)
       PROVE PauseInv'
  <2>1. \E before \in {"unused", "claiming", "recording", "executing"},
           after \in {"claiming", "recording", "executing"} : Works(c, before, after)
    BY <1>12, WorkSteps, Zenon
  <2>2. SameFrom(c) \/ Reported(calls'[c].from)
    BY <1>12, WorkSteps
  <2>3. ctl'.snapshot = ctl.snapshot /\ ctl'.state \in {ctl.state, "RUNNING"}
    <3>1. UNCHANGED ctl \/ Hold(c, ctl.snapshot)
      BY <1>12, WorkSteps, Zenon DEF RecordRunning
    <3> QED
      BY <3>1 DEF Hold
  <2> QED
    BY <1>5, <2>1, <2>2, <2>3
<1> QED
  BY <1>1, <1>9, <1>10, <1>11, <1>12, NextSteps

(* What has an outcome is never taken up again, and the row leaves a      *)
(* snapshot only when it is completed.                                    *)
LEMMA AcquiredSteps ==
  ASSUME TypeOK, NEW c \in Calls,
         (ClaimResume(c) /\ ResumeStatus(c) = "ACQUIRED") \/ RecordRunning(c)
  PROVE  /\ ~Over /\ Hold(c, ctl.snapshot)
         /\ ctl'.state = "RUNNING" /\ ctl'.snapshot = ctl.snapshot
<1>1. ~Over
  BY StatesAssumption DEF Over, ClaimResume, ResumeStatus, RecordRunning, MayRecord
<1>2. Hold(c, ctl.snapshot)
  BY DEF ClaimResume, RecordRunning
<1> QED
  BY <1>1, <1>2 DEF Hold

(* The snapshot of a pause that is not reported yet is where no one is.   *)
LEMMA TurnStep ==
  ASSUME TypeOK, CallsInv, PauseInv, TurnInv, OneReportPerStart, [Next]_vars
  PROVE  TurnInv' /\ OneReportPerStart'
<1> DEFINE Goal == TurnInv' /\ OneReportPerStart'
<1>0. /\ calls \in [Calls -> Call] /\ raw \subseteq Snapshots
      /\ facts \in [Snapshots -> [state : {"ABSENT"} \cup PausedStates,
                                  resumable : BOOLEAN, effect : Effects]]
      /\ ctl.snapshot \in Snapshots \cup {0} /\ ctl.state \in ControlStates
  BY DEF TypeOK
<1>00. \A d \in Calls : CallInv(d) /\ calls[d].next \in Snapshots \cup {0}
                          /\ calls[d].from \in Snapshots \cup {0}
  BY <1>0 DEF CallsInv, Call
<1>01. 0 \notin Snapshots /\ \A state \in PausedStates : state \notin {"ABSENT", "RUNNING", "COMPLETED", "CANCELLED", "FAILED"}
  BY StatesAssumption DEF Snapshots
<1>02. /\ \A s \in Snapshots : facts[s].state # "ABSENT" => s \in raw
       /\ ctl.snapshot # 0 => ctl.snapshot \in raw
       /\ \A d \in Calls : Resumed(d) => calls[d].from \in raw
       /\ \A d, e \in Calls : Pausing(d) /\ Pausing(e) /\ calls[d].next = calls[e].next => d = e
       /\ ctl.state \in PausedStates => ctl.snapshot # 0
  BY <1>0, <1>00 DEF PauseInv, Resumed
<1>1. CASE UNCHANGED vars
  BY <1>1 DEF TurnInv, OneReportPerStart, Reports, Pausing, Resumed, Over, vars
<1>2. ASSUME NEW c \in Calls, Gone(c) PROVE Goal
  BY <1>0, <1>00, <1>01, <1>2
  DEF Gone, TurnInv, OneReportPerStart, Reports, Pausing, Resumed, Over
<1>3. ASSUME NEW c \in Calls, Concluded(c) PROVE Goal
  BY <1>0, <1>00, <1>01, <1>3
  DEF Concluded, TurnInv, OneReportPerStart, Reports, Pausing, Resumed, Over
<1>4. ASSUME NEW c \in Calls, Saved(c) PROVE Goal
  <2>1. /\ Pausing(c) /\ calls[c].next \in Snapshots /\ facts[calls[c].next].state = "ABSENT"
    BY <1>00, <1>4 DEF CallInv, Saved, PauseInv
  <2>2. \/ ctl'.state = ctl.state /\ ctl'.snapshot = ctl.snapshot /\ ctl.state # "ABSENT"
             /\ (Over \/ ctl.snapshot # 0)
        \/ ctl.snapshot = 0 /\ ~Over /\ ctl'.snapshot = calls[c].next
             /\ ctl'.state \notin {"ABSENT", "COMPLETED", "CANCELLED", "FAILED"}
    BY <1>0, <1>01, <1>02, <1>4, <2>1 DEF Saved, TurnInv, Over, ControlStates, Pausing
  <2>3. /\ \A d \in Calls : Reports(d)' <=> Reports(d)
        /\ \A d \in Calls : /\ calls'[d].from = calls[d].from /\ calls'[d].next = calls[d].next
                            /\ calls'[d].target = calls[d].target
                            /\ calls'[d].pc # "returned" => calls[d].pc # "returned"
                            /\ calls'[d].answer = "PAUSED" => calls[d].answer = "PAUSED" \/ d = c
    BY <1>4 DEF Saved, Reports
  <2>4. OneReportPerStart'
    BY <2>3 DEF OneReportPerStart
  <2>5. CASE ctl'.state = ctl.state /\ ctl'.snapshot = ctl.snapshot /\ ctl.state # "ABSENT"
             /\ (Over \/ ctl.snapshot # 0)
    BY <2>3, <2>4, <2>5 DEF TurnInv, Pausing, Resumed, Over
  <2>6. CASE ctl.snapshot = 0 /\ ~Over /\ ctl'.snapshot = calls[c].next
             /\ ctl'.state \notin {"ABSENT", "COMPLETED", "CANCELLED", "FAILED"}
    <3>1. \A d \in Calls : ~Resumed(d) /\ ~Reports(d)
      <4>1. \A d \in Calls : Reports(d) => calls[d].from = 0
        BY <2>6 DEF TurnInv, Resumed
      <4> QED
        BY <2>6, <4>1 DEF TurnInv, Resumed
    <3> QED
      BY <1>01, <2>1, <2>3, <2>4, <2>6, <3>1 DEF TurnInv, Pausing, Resumed, Over
  <2> QED
    BY <2>2, <2>5, <2>6
<1>5. ASSUME NEW c \in Calls, NEW before, NEW after, Works(c, before, after),
             before \in {"unused", "claiming", "recording", "executing"},
             after \in {"claiming", "recording", "executing"},
             ctl'.snapshot = ctl.snapshot,
             ctl' = ctl \/ (~Over /\ ctl'.state = "RUNNING"),
             SameFrom(c) \/ Reported(calls'[c].from)
      PROVE Goal
  <2>1. \A d \in Calls : Reports(d)' <=> Reports(d)
    BY <1>00, <1>5 DEF Works, Reports
  <2>2. ~Pausing(c) /\ ~Pausing(c)'
    BY <1>00, <1>5 DEF CallInv, Works, Pausing
  <2>3. calls'[c].from # 0 /\ ~Over => ctl.snapshot # 0
    BY <1>5 DEF SameFrom, Reported, TurnInv, Resumed
  <2>4. Over' <=> Over
    BY <1>5 DEF Over
  <2>5. \A d \in Calls : Reports(d) => calls'[d] = calls[d]
    BY <1>5 DEF Works, Reports
  <2>6. OneReportPerStart'
    BY <2>1, <2>5 DEF OneReportPerStart
  <2>7. \A d \in Calls : Pausing(d)' => Pausing(d) /\ calls'[d] = calls[d]
    BY <1>5, <2>2 DEF Works, Pausing
  <2>8. \A d \in Calls : (calls'[d].from # 0 \/ calls'[d].answer = "PAUSED") /\ ~Over => ctl.snapshot # 0
    BY <1>5, <2>3 DEF Works, TurnInv, Resumed
  <2>9. ctl'.state = "ABSENT" => ctl'.snapshot = 0
    BY <1>5 DEF TurnInv
  <2> QED
    BY <1>5, <2>1, <2>4, <2>5, <2>6, <2>7, <2>8, <2>9 DEF TurnInv, Pausing, Resumed
<1>6. ASSUME NEW c \in Calls, NEW state \in PausedStates, NEW s \in Snapshots, Paused(c, state, s)
      PROVE Goal
  <2>1. /\ ctl.snapshot # s /\ \A d \in Calls : calls[d].from # s /\ calls[d].next # s
    BY <1>01, <1>02, <1>6 DEF Paused, Resumed
  <2> QED
    BY <1>0, <1>00, <1>01, <1>6, <2>1
    DEF Paused, TurnInv, OneReportPerStart, Reports, Pausing, Resumed, Over
<1>7. ASSUME NEW c \in Calls, PutRawSnapshot(c) \/ PutEffectResult(c) PROVE Goal
  <2>1. UNCHANGED <<ctl, facts>>
    BY <1>7 DEF PutRawSnapshot, PutEffectResult
  <2>2. PICK before \in {"pausing", "storing"}, after \in {"storing", "saving"} :
          Follows(c, before, after)
    BY <1>7, FollowSteps
  <2> QED
    BY <1>0, <1>00, <1>01, <2>1, <2>2
    DEF Follows, TurnInv, OneReportPerStart, Reports, Pausing, Resumed, Over
<1>8. ASSUME NEW c \in Calls, Complete(c) PROVE Goal
  <2>1. /\ Follows(c, "finishing", "returned")
        /\ ctl.state = "RUNNING" /\ ctl.snapshot = Expected(c)
        /\ ctl'.state = calls[c].target /\ ctl'.snapshot = calls[c].next
    BY <1>8, FollowSteps, CompleteSteps DEF Held
  <2>2. /\ \A d \in Calls \ {c} : calls'[d] = calls[d] /\ (Reports(d)' <=> Reports(d))
        /\ calls'[c].target = calls[c].target /\ calls'[c].next = calls[c].next
        /\ calls'[c].answer = calls[c].answer /\ calls'[c].from = calls[c].from
        /\ calls[c].pc = "finishing" /\ calls'[c].pc = "returned"
    BY <2>1 DEF Follows, Reports
  <2>3. ~Over /\ (Over' <=> ~Pausing(c)) /\ ctl'.state # "ABSENT"
    BY <1>00, <1>01, <2>1, <2>2 DEF Over, Pausing, CallInv
  <2>4. Pausing(c) => calls[c].next # 0 /\ calls[c].answer = "PAUSED"
    BY <1>00, <2>2 DEF CallInv
  <2>5. ~Pausing(c) => calls[c].next = calls[c].from
    BY <1>00, <2>2 DEF CallInv
  <2>6. ctl.snapshot = IF Pausing(c) /\ ~Resumed(c) THEN calls[c].next ELSE calls[c].from
    BY <2>1 DEF Expected, Pausing, Resumed
  (* No one else has reported from where c started. *)
  <2>7. \A d \in Calls : Reports(d) => calls[d].from # calls[c].from
    <3>1. ASSUME NEW d \in Calls, Reports(d), calls[d].from = calls[c].from PROVE FALSE
      <4>0. c # d
        BY <2>2, <3>1 DEF Reports
      <4>1. CASE Resumed(c)
        BY <2>3, <2>6, <3>1, <4>1 DEF TurnInv, Resumed
      <4>2. CASE ~Resumed(c)
        BY <2>3, <2>6, <3>1, <4>0, <4>2 DEF TurnInv, Resumed
      <4> QED
        BY <4>1, <4>2
    <3> QED
      BY <3>1
  <2>8. OneReportPerStart'
    BY <2>2, <2>7 DEF OneReportPerStart, Reports
  <2>9. \A d \in Calls : Pausing(d) /\ Resumed(d) /\ calls[d].pc # "returned" =>
          ctl.snapshot # calls[d].next
    BY DEF TurnInv
  (* The pauses on their way: the row does not move to one of them. *)
  <2>10. \A d \in Calls : Pausing(d) /\ Resumed(d) /\ calls[d].pc # "returned" /\ d # c =>
           /\ calls[c].next # calls[d].next
           /\ calls[c].from # calls[d].next
    <3>1. SUFFICES ASSUME NEW d \in Calls, Pausing(d), Resumed(d), calls[d].pc # "returned", d # c
                   PROVE  calls[c].next # calls[d].next /\ calls[c].from # calls[d].next
      OBVIOUS
    <3>2. calls[d].next # 0 /\ ctl.snapshot # calls[d].next
      BY <1>00, <2>9, <3>1 DEF CallInv
    <3>3. calls[c].from # calls[d].next
      BY <2>6, <3>2 DEF Resumed
    <3> QED
      BY <1>02, <2>5, <3>1, <3>3
  <2>11. \A d \in Calls : calls'[d].target \in PausedStates /\ calls'[d].from # 0
             /\ calls'[d].pc # "returned" =>
           /\ ctl'.snapshot # calls'[d].next
           /\ \A e \in Calls : Reports(e)' => calls'[e].from # calls'[d].next
    <3> SUFFICES ASSUME NEW d \in Calls, calls'[d].target \in PausedStates, calls'[d].from # 0,
                        calls'[d].pc # "returned"
                 PROVE  /\ ctl'.snapshot # calls'[d].next
                        /\ \A e \in Calls : Reports(e)' => calls'[e].from # calls'[d].next
      OBVIOUS
    <3>1. d # c /\ calls'[d] = calls[d] /\ Pausing(d) /\ Resumed(d) /\ calls[d].pc # "returned"
      BY <2>2 DEF Pausing, Resumed
    <3>2. calls[c].next # calls[d].next /\ calls[c].from # calls[d].next
      BY <2>10, <3>1
    <3>3. \A e \in Calls : Reports(e) => calls[e].from # calls[d].next
      BY <3>1 DEF TurnInv
    <3> QED
      BY <2>1, <2>2, <3>1, <3>2, <3>3
  <2>12. \A d \in Calls : calls'[d].from # 0 \/ calls'[d].answer = "PAUSED" =>
           Over' \/ ctl'.snapshot # 0
    BY <2>1, <2>3, <2>4
  <2>13. \A d \in Calls : Reports(d)' /\ calls'[d].from = 0 /\ ~Over' =>
           /\ ctl'.snapshot # 0
           /\ \A e \in Calls \ {d} : calls'[e].target \in PausedStates /\ calls'[e].from = 0 =>
                ctl'.snapshot # calls'[e].next
    <3> SUFFICES ASSUME NEW d \in Calls, Reports(d)', calls'[d].from = 0, ~Over',
                        NEW e \in Calls \ {d}, calls'[e].target \in PausedStates, calls'[e].from = 0,
                        ctl'.snapshot = calls'[e].next
                 PROVE  FALSE
      BY <2>1, <2>3, <2>4
    <3>1. Pausing(c) /\ Pausing(e) /\ calls[c].next = calls[e].next
      BY <2>1, <2>2, <2>3 DEF Pausing
    <3>2. c = e
      BY <1>02, <3>1
    <3>3. Reports(d) /\ ~Resumed(d) /\ ~Resumed(c) /\ d # c
      BY <2>2, <3>2 DEF Resumed
    <3>4. ctl.snapshot # calls[c].next
      BY <2>3, <3>1, <3>3 DEF TurnInv
    <3> QED
      BY <2>6, <3>1, <3>3, <3>4
  <2>14. \A d \in Calls : Reports(d)' /\ calls'[d].from # 0 /\ ~Over' => ctl'.snapshot # calls'[d].from
    <3> SUFFICES ASSUME NEW d \in Calls, Reports(d)', calls'[d].from # 0, ~Over',
                        ctl'.snapshot = calls'[d].from
                 PROVE  FALSE
      OBVIOUS
    <3>1. Pausing(c) /\ calls[c].next = calls[d].from
      BY <2>1, <2>2, <2>3
    <3>2. CASE d = c
      <4>1. ctl.snapshot # calls[c].next /\ ctl.snapshot = calls[c].from
        BY <2>2, <2>6, <2>9, <3>1, <3>2 DEF Resumed
      <4> QED
        BY <3>1, <3>2, <4>1
    <3>3. CASE d # c
      <4>1. Reports(d) /\ Resumed(d)
        BY <2>2, <3>3 DEF Resumed
      <4>2. CASE Resumed(c)
        BY <2>2, <3>1, <4>1, <4>2 DEF TurnInv
      <4>3. CASE ~Resumed(c)
        BY <2>3, <2>6, <3>1, <4>1, <4>3 DEF TurnInv
      <4> QED
        BY <4>2, <4>3
    <3> QED
      BY <3>2, <3>3
  <2> QED
    BY <2>3, <2>8, <2>11, <2>12, <2>13, <2>14 DEF TurnInv, Pausing, Resumed
<1>9. ASSUME NEW c \in Calls, AlreadyComplete(c) PROVE Goal
  <2>1. Follows(c, "finishing", "returned") /\ UNCHANGED ctl /\ calls[c].target = "FAILED"
    BY <1>9, FollowSteps DEF AlreadyComplete
  <2>2. ~Pausing(c) /\ calls[c].answer \notin {"RESULT", "PAUSED"}
    BY <1>00, <1>01, <2>1 DEF CallInv, Pausing
  <2>3. \A d \in Calls : (Reports(d)' <=> Reports(d)) /\ (Pausing(d)' <=> Pausing(d))
    BY <2>1, <2>2 DEF Follows, Reports, Pausing
  <2> QED
    BY <1>0, <2>1, <2>2, <2>3
    DEF Follows, TurnInv, OneReportPerStart, Resumed, Over
<1>10. ASSUME \/ Tick \/ CancelTask
              \/ \E aborting \in {{}} \cup {{c} : c \in Calls} : CancelRuntime(aborting)
       PROVE Goal
  <2>1. /\ \A c \in Calls :
             /\ calls'[c].pc = calls[c].pc /\ calls'[c].from = calls[c].from
             /\ calls'[c].target = calls[c].target /\ calls'[c].next = calls[c].next
             /\ calls'[c].answer = calls[c].answer
        /\ ctl'.snapshot = ctl.snapshot /\ ctl'.state \in {ctl.state, "CANCELLED"}
    BY <1>10, TickSteps, CancelSteps, AbortSteps
  <2>2. \A d \in Calls : (Reports(d)' <=> Reports(d)) /\ (Pausing(d)' <=> Pausing(d))
                         /\ (Resumed(d)' <=> Resumed(d))
    BY <2>1 DEF Reports, Pausing, Resumed
  <2>3. (~Over)' => ~Over
    BY <2>1 DEF Over
  <2>4. OneReportPerStart'
    BY <2>1, <2>2 DEF OneReportPerStart
  <2>5. TurnInv'
    BY <2>1, <2>2, <2>3 DEF TurnInv
  <2> QED
    BY <2>4, <2>5
<1> HIDE DEF Goal
<1>11. ASSUME NEW c \in Calls,
              \/ Ends(c) \/ Crash(c) \/ Concludes(c) \/ SaveRecoveryFacts(c) \/ Pause(c)
              \/ PutRawSnapshot(c) \/ PutEffectResult(c) \/ Complete(c) \/ AlreadyComplete(c)
       PROVE Goal
  BY <1>2, <1>3, <1>4, <1>6, <1>7, <1>8, <1>9, <1>11, GoneSteps, ConcludedSteps, SavedSteps, PauseSteps
<1>12. ASSUME NEW c \in Calls,
              \/ StartRun(c) \/ \E s \in Snapshots : Reported(s) /\ StartResume(c, s)
              \/ ClaimResume(c) /\ ResumeStatus(c) = "ACQUIRED"
              \/ RecordRunning(c) \/ AskPermission(c) \/ SubmitDraft(c) \/ EffectEnds(c)
              \/ PollCancelled(c) \/ PollFails(c)
       PROVE Goal
  <2>1. \E before \in {"unused", "claiming", "recording", "executing"},
           after \in {"claiming", "recording", "executing"} : Works(c, before, after)
    BY <1>12, WorkSteps, Zenon
  <2>2. SameFrom(c) \/ Reported(calls'[c].from)
    BY <1>12, WorkSteps
  <2>3. ctl'.snapshot = ctl.snapshot /\ (ctl' = ctl \/ (~Over /\ ctl'.state = "RUNNING"))
    <3>1. ctl' = ctl \/ (ClaimResume(c) /\ ResumeStatus(c) = "ACQUIRED") \/ RecordRunning(c)
      BY <1>12, WorkSteps, Zenon
    <3> QED
      BY <3>1, AcquiredSteps
  <2> QED
    BY <1>5, <2>1, <2>2, <2>3
<1>13. Goal
  BY <1>1, <1>10, <1>11, <1>12, NextSteps DEF Goal
<1> QED
  BY <1>13 DEF Goal

(* A draft is submitted by who had none: the facts a call resumed from do *)
(* not change, and they are asked before it takes over.                   *)
LEMMA EffectStep ==
  ASSUME TypeOK, CallsInv, PauseInv, EffectInv, [Next]_vars
  PROVE  EffectInv'
<1> DEFINE Goal == EffectInv'
<1>0. /\ calls \in [Calls -> Call]
      /\ facts \in [Snapshots -> [state : {"ABSENT"} \cup PausedStates,
                                  resumable : BOOLEAN, effect : Effects]]
  BY DEF TypeOK
<1>00. \A d \in Calls : CallInv(d) /\ calls[d].from \in Snapshots \cup {0}
                          /\ calls[d].submitted \in BOOLEAN /\ calls[d].draft \in BOOLEAN
  BY <1>0 DEF CallsInv, Call
<1>1. CASE UNCHANGED vars
  BY <1>1 DEF EffectInv, Resumed, vars
<1>2. ASSUME NEW c \in Calls, Gone(c) PROVE Goal
  BY <1>0, <1>00, <1>2 DEF Gone, EffectInv, Resumed
<1>3. ASSUME NEW c \in Calls, Concluded(c) PROVE Goal
  BY <1>0, <1>00, <1>3 DEF Concluded, EffectInv, Resumed
<1>4. ASSUME NEW c \in Calls, Saved(c) PROVE Goal
  <2>1. \A d \in Calls : Resumed(d) => facts'[calls[d].from] = facts[calls[d].from]
    BY <1>00, <1>4 DEF PauseInv, Resumed, Saved
  <2>2. \A d \in Calls : calls'[d].from = calls[d].from
    BY <1>4 DEF Saved
  <2> QED
    BY <1>0, <1>00, <1>4, <2>1, <2>2 DEF Saved, EffectInv, Resumed
<1>5. ASSUME NEW c \in Calls,
             NEW before \in {"unused", "claiming", "recording", "executing"},
             NEW after \in {"claiming", "recording", "executing"},
             Works(c, before, after), SameFrom(c), SameDraft(c),
             after = "executing" \/ before # "executing"
      PROVE Goal
  BY <1>0, <1>00, <1>5 DEF Works, SameFrom, SameDraft, EffectInv, CallInv, Resumed
<1>6. ASSUME NEW c \in Calls, NEW s \in Snapshots, StartResume(c, s) PROVE Goal
  <2>1. /\ Works(c, "unused", "claiming") /\ calls'[c].from = s
        /\ calls'[c].submitted = calls[c].submitted
        /\ calls'[c].draft = (facts[s].effect = "committed")
    BY <1>6, WorkSteps
  <2>2. facts[s].effect \in {"none", "not_started", "committed"}
    <3>1. facts[s].effect \in Effects /\ facts[s].effect \notin {"started", "unknown"}
      BY <1>0, <1>6 DEF StartResume, Verdict, RecoveryPermission
    <3> QED
      BY <3>1 DEF Effects
  <2>3. calls[c].submitted = FALSE
    BY <1>00, <2>1 DEF EffectInv, Works
  <2>4. ~calls'[c].draft => facts[s].effect \in {"none", "not_started"}
    BY <2>1, <2>2
  <2> HIDE <1>6
  <2> QED
    BY <1>0, <1>00, <2>1, <2>3, <2>4 DEF Works, EffectInv, Resumed
<1>7. ASSUME NEW c \in Calls, SubmitDraft(c) PROVE Goal
  <2>1. Works(c, "executing", "executing") /\ SameFrom(c) /\ ~calls[c].draft
    BY <1>7, WorkSteps DEF SubmitDraft
  <2> QED
    BY <1>0, <1>00, <2>1 DEF Works, SameFrom, EffectInv, Resumed
<1>8. ASSUME NEW c \in Calls, NEW state \in PausedStates, NEW s \in Snapshots, Paused(c, state, s)
      PROVE Goal
  BY <1>0, <1>00, <1>8 DEF Paused, EffectInv, Resumed
<1>9. ASSUME NEW c \in Calls,
             PutRawSnapshot(c) \/ PutEffectResult(c) \/ Complete(c) \/ AlreadyComplete(c)
      PROVE Goal
  <2>1. UNCHANGED facts
    BY <1>9, CompleteSteps DEF PutRawSnapshot, PutEffectResult, AlreadyComplete
  <2>2. \E before \in {"pausing", "storing", "finishing"}, after \in {"storing", "saving", "returned"} :
          Follows(c, before, after)
    BY <1>9, FollowSteps, Zenon
  <2> QED
    BY <1>0, <1>00, <2>1, <2>2 DEF Follows, EffectInv, Resumed
<1>10. ASSUME \/ Tick \/ CancelTask
              \/ \E aborting \in {{}} \cup {{c} : c \in Calls} : CancelRuntime(aborting)
       PROVE Goal
  <2>1. /\ \A c \in Calls : /\ calls'[c].pc = calls[c].pc /\ calls'[c].from = calls[c].from
                            /\ SameDraft(c)
        /\ UNCHANGED facts
    BY <1>10, TickSteps, CancelSteps, AbortSteps DEF SameDraft
  <2> QED
    BY <1>0, <1>00, <2>1 DEF SameDraft, EffectInv, Resumed
<1> HIDE DEF Goal
<1>11. ASSUME NEW c \in Calls,
              \/ Ends(c) \/ Crash(c) \/ Concludes(c) \/ SaveRecoveryFacts(c) \/ Pause(c)
              \/ PutRawSnapshot(c) \/ PutEffectResult(c) \/ Complete(c) \/ AlreadyComplete(c)
       PROVE Goal
  BY <1>2, <1>3, <1>4, <1>8, <1>9, <1>11, GoneSteps, ConcludedSteps, SavedSteps, PauseSteps
<1>12. ASSUME NEW c \in Calls,
              \/ StartRun(c)
              \/ ClaimResume(c) /\ ResumeStatus(c) = "ACQUIRED"
              \/ RecordRunning(c) \/ AskPermission(c) \/ EffectEnds(c)
              \/ PollCancelled(c) \/ PollFails(c)
       PROVE Goal
  <2>1. SameFrom(c) /\ SameDraft(c)
    BY <1>12, WorkSteps, Zenon
  <2>2. \/ Works(c, "unused", "recording") \/ Works(c, "claiming", "recording")
        \/ Works(c, "recording", "executing") \/ Works(c, "executing", "executing")
    BY <1>12, WorkSteps, Zenon
  <2> QED
    BY <1>5, <2>1, <2>2
<1>13. ASSUME NEW c \in Calls, \E s \in Snapshots : Reported(s) /\ StartResume(c, s) PROVE Goal
  BY <1>6, <1>13
<1>14. ASSUME Next PROVE Goal
  BY <1>7, <1>10, <1>11, <1>12, <1>13, <1>14, NextSteps, Zenon
<1>15. Goal
  BY <1>1, <1>14 DEF Goal
<1> QED
  BY <1>15 DEF Goal

(* A call takes the row over only when no other call is in control of it,  *)
(* unless one of them has outlived its lease.                              *)
LEMMA ControlStep ==
  ASSUME TypeOK, CallsInv, TurnInv, ControlInv, [Next]_vars
  PROVE  ControlInv'
<1> DEFINE Goal == ControlInv'
<1>0. /\ calls \in [Calls -> Call] /\ ctl.state \in ControlStates
      /\ ctl.lease \in NoLease..Lease /\ Lease \in Nat \ {0}
      /\ overrun \in BOOLEAN
  BY BoundsAssumption DEF TypeOK
<1>00. \A d \in Calls : CallInv(d)
  BY DEF CallsInv
<1>01. \A state \in PausedStates : state \notin {"ABSENT", "RUNNING", "COMPLETED", "CANCELLED", "FAILED"}
  BY StatesAssumption
<1>02. \A c, d \in Calls : Held(c) /\ Held(d) => c = d
  BY DEF Held
<1>1. CASE UNCHANGED vars
  BY <1>1 DEF ControlInv, InControl, Held, Expected, Resumed, vars
<1>2. ASSUME NEW c \in Calls, Gone(c) PROVE Goal
  BY <1>0, <1>2 DEF Gone, ControlInv, InControl, Held, Expected, Resumed
<1>3. ASSUME NEW c \in Calls, Concluded(c) PROVE Goal
  <2>1. Expected(c)' = calls[c].from /\ Resumed(c)' = Resumed(c)
    BY <1>01, <1>3 DEF Concluded, Expected, Resumed
  <2>2. \A d \in Calls \ {c} : Expected(d)' = Expected(d)
    BY <1>3 DEF Concluded, Expected
  <2> QED
    BY <1>0, <1>3, <2>1, <2>2 DEF Concluded, ControlInv, InControl, Held, Resumed
<1>4. ASSUME NEW c \in Calls, Saved(c) PROVE Goal
  <2>1. Pausing(c) /\ InControl(c) /\ InControl(c)' /\ ctl'.lease = ctl.lease /\ overrun' = overrun
    BY <1>00, <1>4 DEF CallInv, Saved, InControl
  <2>2. \A d \in Calls : Held(d)' <=> Held(d)
    BY <1>01, <1>4, <2>1 DEF Saved, Held, Pausing
  <2>3. \A d \in Calls \ {c} : (InControl(d)' <=> InControl(d)) /\ calls'[d] = calls[d]
                                 /\ Expected(d)' = Expected(d)
    BY <1>4 DEF Saved, InControl, Resumed, Expected
  <2>4. ctl.state = "CANCELLED" => ctl' = ctl
    BY <1>4 DEF Saved
  <2>5. ~overrun => \A d \in Calls : InControl(d)' => (Held(d)' /\ ctl'.lease > 0) \/ ctl'.state = "CANCELLED"
    BY <2>1, <2>2, <2>3, <2>4 DEF ControlInv
  <2>6. ~overrun /\ Held(c) => ctl'.snapshot = Expected(c)'
    <3>1. ASSUME ~overrun, Held(c) PROVE ctl'.snapshot = Expected(c)'
      <4>1. ctl.snapshot = calls[c].from /\ ctl.state = "RUNNING"
        BY <1>4, <2>1, <3>1 DEF ControlInv, Saved, Held
      <4> QED
        BY <1>4, <2>1, <4>1 DEF Saved, Expected, Pausing
    <3> QED
      BY <3>1
  <2>7. ~overrun => \A d \in Calls : InControl(d)' /\ Held(d)' =>
          ctl'.snapshot = IF calls'[d].pc = "finishing" THEN Expected(d)' ELSE calls'[d].from
    <3> SUFFICES ASSUME ~overrun, NEW d \in Calls, InControl(d)', Held(d)'
                 PROVE ctl'.snapshot = IF calls'[d].pc = "finishing" THEN Expected(d)' ELSE calls'[d].from
      OBVIOUS
    <3>1. CASE d = c
      BY <1>4, <2>2, <2>6, <3>1 DEF Saved
    <3>2. CASE d # c
      <4>1. Held(d) /\ ctl.state # "CANCELLED"
        BY <2>2 DEF Held
      <4>2. Held(c)
        BY <2>1, <4>1 DEF ControlInv
      <4> QED
        BY <1>02, <3>2, <4>1, <4>2
    <3> QED
      BY <3>1, <3>2
  <2>8. \A d \in Calls : Held(d)' =>
          /\ calls'[d].pc \notin {"unused", "claiming"}
          /\ calls'[d].pc = "recording" => calls'[d].from # 0
    BY <1>4, <2>2 DEF Saved, ControlInv, Resumed
  <2>9. \A d, e \in Calls : calls'[d].pc = "executing" /\ calls'[e].pc = "executing" =>
          calls[d].pc = "executing" /\ calls[e].pc = "executing"
    BY <1>4 DEF Saved
  <2> QED
    BY <2>1, <2>5, <2>7, <2>8, <2>9 DEF ControlInv, Resumed
<1>5. ASSUME NEW c \in Calls, StartRun(c) PROVE Goal
  <2>1. Works(c, "unused", "recording") /\ SameFrom(c) /\ UNCHANGED ctl
    BY <1>5, WorkSteps
  <2>2. ~Held(c) /\ ~Resumed(c)
    BY <1>00, <2>1 DEF Works, CallInv, ControlInv
  <2> QED
    BY <1>0, <2>1, <2>2 DEF Works, SameFrom, ControlInv, InControl, Held, Expected, Resumed
<1>6. ASSUME NEW c \in Calls, NEW s \in Snapshots, StartResume(c, s) PROVE Goal
  <2>1. Works(c, "unused", "claiming") /\ UNCHANGED ctl
    BY <1>6, WorkSteps
  <2>2. ~Held(c)
    BY <2>1 DEF Works, ControlInv
  <2> QED
    BY <1>0, <2>1, <2>2 DEF Works, ControlInv, InControl, Held, Expected, Resumed
(* Taking over and starting: no other call is in control. *)
<1>7. ASSUME NEW c \in Calls, NEW before \in {"claiming", "recording"},
             NEW after \in {"recording", "executing"},
             Works(c, before, after), SameFrom(c), Hold(c, ctl.snapshot),
             after = "recording" => Resumed(c),
             \A d \in Calls \ {c} : ~overrun => ~InControl(d),
             ~overrun => ctl.snapshot = calls[c].from
      PROVE Goal
  <2>1. /\ ctl'.state = "RUNNING" /\ ctl'.controller = c /\ ctl'.lease > 0
        /\ ctl'.snapshot = ctl.snapshot
    BY <1>0, <1>7 DEF Hold
  <2>2. \A d \in Calls : Held(d)' <=> d = c
    BY <2>1 DEF Held
  <2>3. \A d \in Calls \ {c} : ~overrun' => ~InControl(d)' /\ calls'[d].pc # "executing"
    BY <1>7 DEF Works, InControl, Resumed
  <2>4. \A d \in Calls : Held(d)' => d = c /\ calls'[c].pc = after /\ calls'[c].from = calls[c].from
    BY <1>7, <2>2 DEF Works, SameFrom
  <2>5. overrun' = overrun
    BY <1>7 DEF Works
  <2>6. \A d \in Calls : Held(d)' =>
          /\ calls'[d].pc \notin {"unused", "claiming", "finishing"}
          /\ calls'[d].pc = "recording" => calls'[d].from # 0
          /\ ~overrun => ctl'.snapshot = calls'[d].from
    BY <1>7, <2>1, <2>4 DEF Resumed
  <2>7. ~overrun' => \A d \in Calls : InControl(d)' => Held(d)' /\ ctl'.lease > 0
    BY <2>1, <2>2, <2>3
  <2>8. ~overrun' => \A d, e \in Calls : calls'[d].pc = "executing" /\ calls'[e].pc = "executing" => d = e
    BY <2>3
  <2> QED
    BY <2>5, <2>6, <2>7, <2>8 DEF ControlInv, Resumed
<1>8. ASSUME NEW c \in Calls, ClaimResume(c), ResumeStatus(c) = "ACQUIRED" PROVE Goal
  <2>1. Works(c, "claiming", "recording") /\ SameFrom(c) /\ Hold(c, ctl.snapshot)
    BY <1>8, WorkSteps
  <2>2. /\ ctl.snapshot = calls[c].from /\ ~(ctl.state = "RUNNING" /\ ctl.lease > 0)
        /\ ctl.state # "CANCELLED"
    BY <1>01, <1>8 DEF ResumeStatus
  <2>3. \A d \in Calls : ~overrun => ~InControl(d)
    BY <2>2 DEF ControlInv, Held
  <2>4. Resumed(c)
    BY <1>00, <2>1 DEF Works, CallInv
  <2> QED
    BY <1>7, <2>1, <2>2, <2>3, <2>4
<1>9. ASSUME NEW c \in Calls, RecordRunning(c) PROVE Goal
  <2>1. Works(c, "recording", "executing") /\ SameFrom(c) /\ Hold(c, ctl.snapshot) /\ MayRecord(c)
    BY <1>9, WorkSteps DEF RecordRunning
  <2>2. CASE ctl.state = "RUNNING" /\ ctl.controller = c
    <3>1. InControl(c) /\ Held(c)
      BY <2>1, <2>2 DEF Works, InControl, ControlInv, Held
    <3>2. ~overrun => ctl.snapshot = calls[c].from
      BY <2>1, <3>1 DEF Works, ControlInv
    <3>3. \A d \in Calls \ {c} : ~overrun => ~InControl(d)
      BY <1>02, <2>2, <3>1 DEF ControlInv
    <3> QED
      BY <1>7, <2>1, <3>2, <3>3
  <2>3. CASE ctl.state = "ABSENT" \/ (ctl.state = "RUNNING" /\ ctl.snapshot = 0 /\ ctl.lease = 0)
    <3>1. \A d \in Calls : ~overrun => ~InControl(d)
      BY <2>3 DEF ControlInv, Held
    <3>2. ctl.snapshot = 0
      BY <2>3 DEF TurnInv
    <3>3. ~overrun => calls[c].from = 0
      BY <2>1, <3>1 DEF Works, InControl, Resumed
    <3> QED
      BY <1>7, <2>1, <3>1, <3>2, <3>3
  <2> QED
    BY <2>1, <2>2, <2>3 DEF MayRecord
<1>10. ASSUME NEW c \in Calls, Works(c, "executing", "executing"), SameFrom(c), UNCHANGED ctl PROVE Goal
  <2>1. \A d \in Calls : /\ calls'[d].pc = calls[d].pc /\ calls'[d].from = calls[d].from
                         /\ calls'[d].next = calls[d].next /\ calls'[d].target = calls[d].target
    BY <1>10 DEF Works, SameFrom
  <2> QED
    BY <1>10, <2>1 DEF Works, ControlInv, InControl, Held, Expected, Resumed
<1>11. ASSUME NEW c \in Calls, NEW state \in PausedStates, NEW s \in Snapshots, Paused(c, state, s)
       PROVE Goal
  BY <1>0, <1>11 DEF Paused, ControlInv, InControl, Held, Expected, Resumed
<1>12. ASSUME NEW c \in Calls, PutRawSnapshot(c) \/ PutEffectResult(c) PROVE Goal
  <2>1. UNCHANGED <<ctl, overrun>>
    BY <1>12 DEF PutRawSnapshot, PutEffectResult
  <2>2. PICK before \in {"pausing", "storing"}, after \in {"storing", "saving"} :
          Follows(c, before, after)
    BY <1>12, FollowSteps
  <2> QED
    BY <1>0, <2>1, <2>2 DEF Follows, ControlInv, InControl, Held, Expected, Resumed
<1>13. ASSUME NEW c \in Calls, Complete(c) PROVE Goal
  <2>1. /\ Follows(c, "finishing", "returned") /\ Held(c) /\ ctl'.state = calls[c].target
        /\ UNCHANGED overrun
    BY <1>13, FollowSteps, CompleteSteps
  <2>2. ctl'.state # "RUNNING"
    BY <1>00, <1>01, <2>1 DEF Follows, CallInv
  <2>3. \A d \in Calls : ~Held(d)'
    BY <2>2 DEF Held
  <2>4. \A d \in Calls : ~overrun => ~InControl(d)'
    <3>1. \A d \in Calls \ {c} : ~overrun => ~InControl(d)
      BY <1>02, <2>1 DEF ControlInv, Held
    <3> QED
      BY <2>1, <3>1 DEF Follows, InControl, Resumed
  <2> QED
    BY <2>1, <2>3, <2>4 DEF ControlInv, InControl
<1>14. ASSUME NEW c \in Calls, AlreadyComplete(c) PROVE Goal
  <2>1. Follows(c, "finishing", "returned") /\ UNCHANGED <<ctl, overrun>>
    BY <1>14, FollowSteps DEF AlreadyComplete
  <2> QED
    BY <1>0, <2>1 DEF Follows, ControlInv, InControl, Held, Expected, Resumed
<1>15. ASSUME CancelTask \/ \E aborting \in {{}} \cup {{c} : c \in Calls} : CancelRuntime(aborting)
       PROVE Goal
  <2>1. /\ \A c \in Calls : calls'[c].pc = calls[c].pc
        /\ ctl'.state = "CANCELLED" /\ overrun' = overrun
    BY <1>15, CancelSteps, AbortSteps
  <2>2. \A d \in Calls : ~Held(d)'
    BY <2>1 DEF Held
  <2> QED
    BY <2>1, <2>2 DEF ControlInv
<1>16. ASSUME Tick PROVE Goal
  <2>1. /\ ctl'.state = ctl.state /\ ctl'.snapshot = ctl.snapshot
        /\ ctl'.controller = ctl.controller /\ ctl'.lease = ctl.lease - 1
        /\ overrun' = (overrun \/ (ctl.lease = 1 /\ calls[ctl.controller].pc \in Started))
        /\ ctl.lease > 0 /\ calls' = calls
    BY <1>16, TickSteps
  <2>2. \A d \in Calls : (Held(d)' <=> Held(d)) /\ (InControl(d)' <=> InControl(d))
                         /\ Expected(d)' = Expected(d)
    BY <2>1 DEF Held, InControl, Resumed, Expected
  <2>3. ~overrun' => ~overrun /\ ~(ctl.lease = 1 /\ calls[ctl.controller].pc \in Started)
    BY <1>0, <2>1
  <2>4. \A d \in Calls : InControl(d) /\ Held(d) => calls[ctl.controller].pc \in Started
    BY DEF InControl, Held, Started
  <2>5. ~overrun' => \A d \in Calls : InControl(d) => (Held(d) /\ ctl'.lease > 0) \/ ctl.state = "CANCELLED"
    BY <1>0, <2>1, <2>3, <2>4 DEF ControlInv, NoLease
  <2> QED
    BY <2>1, <2>2, <2>3, <2>5 DEF ControlInv, Resumed
<1> HIDE DEF Goal
<1>17. ASSUME NEW c \in Calls,
              \/ Ends(c) \/ Crash(c) \/ Concludes(c) \/ SaveRecoveryFacts(c) \/ Pause(c)
              \/ PutRawSnapshot(c) \/ PutEffectResult(c) \/ Complete(c) \/ AlreadyComplete(c)
       PROVE Goal
  BY <1>2, <1>3, <1>4, <1>11, <1>12, <1>13, <1>14, <1>17,
     GoneSteps, ConcludedSteps, SavedSteps, PauseSteps
<1>18. ASSUME NEW c \in Calls,
              AskPermission(c) \/ SubmitDraft(c) \/ EffectEnds(c) \/ PollCancelled(c) \/ PollFails(c)
       PROVE Goal
  <2>1. Works(c, "executing", "executing") /\ SameFrom(c) /\ UNCHANGED ctl
    BY <1>18, WorkSteps, Zenon
  <2> QED
    BY <1>10, <2>1
<1>19. ASSUME NEW c \in Calls, \E s \in Snapshots : Reported(s) /\ StartResume(c, s) PROVE Goal
  BY <1>6, <1>19
<1>20. ASSUME Next PROVE Goal
  BY <1>5, <1>8, <1>9, <1>15, <1>16, <1>17, <1>18, <1>19, <1>20, NextSteps, Zenon
<1>21. Goal
  BY <1>1, <1>20 DEF Goal
<1> QED
  BY <1>21 DEF Goal

-----------------------------------------------------------------------------
(* The theorems.                                                           *)

IInv == /\ TypeOK /\ CallsInv /\ PauseInv
        /\ TurnInv /\ OneReportPerStart /\ EffectInv /\ ControlInv

(* Before the first call nothing is stored and no one has started. *)
LEMMA Starts == Init => IInv
<1> SUFFICES ASSUME Init PROVE IInv
  OBVIOUS
<1> USE StatesAssumption
<1>1. TypeOK
  <2>1. calls \in [Calls -> Call]
    BY AnswersTyped DEF Init
  <2>2. ctl \in [state : ControlStates, snapshot : Snapshots \cup {0},
                controller : Calls \cup {None}, lease : NoLease..Lease]
    BY BoundsAssumption DEF Init, ControlStates, NoLease
  <2> QED
    BY <2>1, <2>2 DEF Init, TypeOK, NoFacts, Effects
<1>2. CallsInv
  BY DEF Init, CallsInv, CallInv, Unused, Pausing, Resumed
<1>3. PauseInv
  BY DEF Init, PauseInv, Unused, NoFacts, Pausing, Resumed
<1>4. TurnInv /\ OneReportPerStart
  BY DEF Init, TurnInv, OneReportPerStart, Unused, Pausing, Resumed, Reports, Over
<1>5. EffectInv
  BY DEF Init, EffectInv, Unused, Resumed
<1>6. ControlInv
  BY DEF Init, ControlInv, Unused, Resumed, InControl, Held
<1> QED
  BY <1>1, <1>2, <1>3, <1>4, <1>5, <1>6 DEF IInv

(* The invariant of the recovery store and of all calls together. *)
THEOREM ControlInvariant == Spec => []IInv
<1>1. IInv /\ [Next]_vars => IInv'
  BY TypeStep, CallStep, PauseStep, TurnStep, EffectStep, ControlStep DEF IInv
<1> QED
  BY Starts, <1>1, PTL DEF Spec

(* A run that is paused, or that was reported paused, has the facts of     *)
(* that pause, its raw snapshot and the result of a committed effect,      *)
(* whoever saved, completed, crashed or took over in between               *)
(* (buildPausedOutcome, saveRecoveryFacts, completeRuntimeControl).        *)
THEOREM RecoverableStateHolds == Spec => []RecoverableState
<1>1. IInv => RecoverableState
  <2> SUFFICES ASSUME IInv PROVE RecoverableState
    OBVIOUS
  <2>1. \A c \in Calls : calls[c].answer = "PAUSED" =>
          calls[c].next # 0 /\ Recoverable(calls[c].next, calls[c].target)
    BY DEF IInv, PauseInv, CallsInv, CallInv
  <2> QED
    BY <2>1 DEF IInv, RecoverableState, PauseIsRecoverable, PauseInv
<1> QED
  BY ControlInvariant, <1>1, PTL

(* From the start of the run and from every snapshot at most one call      *)
(* reports a result or a pause, and a resumed call submits no draft that   *)
(* may have been submitted before (claimRuntimeResume,                     *)
(* completeRuntimeControl, the receipts recoveryPermission reads).         *)
THEOREM CountsOnceHolds == Spec => []CountsOnce
<1>1. IInv => CountsOnce
  BY DEF IInv, CountsOnce, NoRepeatedSubmission, EffectInv, Resumed
<1> QED
  BY ControlInvariant, <1>1, PTL

(* As long as no call has outlived its lease, the Runtime never executes   *)
(* twice at a time, and who holds the control row can complete it          *)
(* (claimRuntimeResume, recordRuntimeRunning, completeRuntimeControl).     *)
THEOREM HolderIsAloneHolds == Spec => []HolderIsAlone
<1>1. ControlInv => OneExecutor
  <2> SUFFICES ASSUME ControlInv, ~overrun
               PROVE  Cardinality({c \in Calls : calls[c].pc = "executing"}) <= 1
    BY DEF OneExecutor
  <2> DEFINE Executing == {c \in Calls : calls[c].pc = "executing"}
  <2>1. CASE Executing = {}
    BY <2>1, FS_EmptySet
  <2>2. CASE Executing # {}
    <3>1. PICK c : c \in Executing
      BY <2>2
    <3>2. Executing = {c}
      BY <3>1 DEF ControlInv
    <3>3. Cardinality({c}) = 1
      BY FS_Singleton
    <3> QED
      BY <3>2, <3>3
  <2> QED
    BY <2>1, <2>2
<1>2. ControlInv => HolderCanComplete
  BY DEF ControlInv, HolderCanComplete, InControl
<1>3. IInv => HolderIsAlone
  BY <1>1, <1>2 DEF IInv, HolderIsAlone
<1> QED
  BY ControlInvariant, <1>3, PTL

(* What the row says once it has an outcome. *)
LEMMA FinalStep ==
  ASSUME IInv, [Next]_vars
  PROVE  /\ ctl.state = "CANCELLED" => ctl'.state = "CANCELLED"
         /\ ctl.state \in {"COMPLETED", "FAILED"} => ctl'.state \in {ctl.state, "CANCELLED"}
<1> SUFFICES ASSUME Over PROVE ctl'.state \in {ctl.state, "CANCELLED"}
  BY DEF Over
<1>0. TypeOK /\ CallsInv
  BY DEF IInv
<1>1. CASE UNCHANGED vars
  BY <1>1 DEF vars
<1>2. ASSUME NEW c \in Calls,
             \/ Ends(c) \/ Crash(c) \/ Concludes(c) \/ SaveRecoveryFacts(c) \/ Pause(c)
             \/ PutRawSnapshot(c) \/ PutEffectResult(c) \/ Complete(c) \/ AlreadyComplete(c)
      PROVE ctl' = ctl
  <2>1. ASSUME SaveRecoveryFacts(c) PROVE ctl' = ctl
    BY <1>0, <2>1, SavedSteps DEF Saved, Over
  <2>2. ~Complete(c)
    BY <1>0, CompleteSteps DEF Held, Over
  <2>3. ASSUME Pause(c) PROVE ctl' = ctl
    BY <2>3 DEF Pause
  <2>4. ASSUME PutRawSnapshot(c) \/ PutEffectResult(c) \/ AlreadyComplete(c) PROVE ctl' = ctl
    BY <2>4 DEF PutRawSnapshot, PutEffectResult, AlreadyComplete
  <2>5. ASSUME Ends(c) \/ Crash(c) \/ Concludes(c) PROVE ctl' = ctl
    BY <1>0, <2>5, GoneSteps, ConcludedSteps DEF Gone, Concluded
  <2> QED
    BY <1>2, <2>1, <2>2, <2>3, <2>4, <2>5
<1>3. ASSUME NEW c \in Calls,
             \/ StartRun(c)
             \/ \E s \in Snapshots : Reported(s) /\ StartResume(c, s)
             \/ ClaimResume(c) /\ ResumeStatus(c) = "ACQUIRED"
             \/ RecordRunning(c)
             \/ AskPermission(c) \/ SubmitDraft(c) \/ EffectEnds(c)
             \/ PollCancelled(c) \/ PollFails(c)
      PROVE ctl' = ctl
  <2>1. ctl' = ctl \/ (ClaimResume(c) /\ ResumeStatus(c) = "ACQUIRED") \/ RecordRunning(c)
    BY <1>0, <1>3, WorkSteps, Zenon
  <2> QED
    BY <1>0, <2>1, AcquiredSteps
<1>4. CASE \/ Tick \/ CancelTask
           \/ \E aborting \in {{}} \cup {{c} : c \in Calls} : CancelRuntime(aborting)
  BY <1>0, <1>4, TickSteps, CancelSteps, AbortSteps
<1> QED
  BY <1>1, <1>2, <1>3, <1>4, NextSteps

(* A result or failure of the run stands, except that cancelling the task  *)
(* covers it, and a cancelled run is never taken up again                  *)
(* (requestRuntimeCancel, claimRuntimeResume, recordRuntimeRunning).       *)
THEOREM ControlIsFinalHolds == Spec => ControlIsFinal
<1>1. IInv /\ [Next]_vars =>
        [/\ ctl.state = "CANCELLED" => ctl'.state = "CANCELLED"
         /\ ctl.state \in {"COMPLETED", "FAILED"} => ctl'.state \in {ctl.state, "CANCELLED"}]_vars
  BY FinalStep
<1> QED
  BY ControlInvariant, <1>1, PTL DEF Spec, ControlIsFinal
=============================================================================
