---------------------------- MODULE TaskDelivery ----------------------------
(***************************************************************************)
(* How an accepted operation reaches a worker: the outbox row written with *)
(* the submission, the publisher that copies it to a Redis stream and      *)
(* repeats it, the consumer group's pending list and the acknowledgements  *)
(* of the worker loop (packages/task-persistence/src/publisher.ts and      *)
(* runOnce in index.ts).  The steps of the operation itself are those of   *)
(* TaskLifecycle; here a worker only claims what it was handed.            *)
(*                                                                         *)
(* Everything that goes wrong spends one of MaxFaults faults: a crash, an  *)
(* unreachable or emptied Redis, a claim that waited for its row until     *)
(* part of the lease was gone, a lease that runs out under a live worker.  *)
(***************************************************************************)
EXTENDS TaskLifecycle

CONSTANTS Messages,  \* bound: stream entries that exist at one time
          MaxFaults  \* bound: faults of one behaviour

ASSUME DeliveryAssumption == None \notin Messages /\ MaxFaults \in Nat

VARIABLES outbox,  \* outbox_messages: is the row due, was it ever published
          stream,  \* per entry its operation and whether it is free (does not
                   \* exist), new, pending with a consumer, or pending long enough
                   \* to be claimed by another read
          group,   \* the consumer group exists
          inbox,   \* where each worker's loop is, and the entry it was handed
          faults

delivery == <<outbox, stream, group, inbox, faults>>
allVars == <<op, events, facts, req, wk, receipts, outbox, stream, group, inbox, faults>>

Free == [state |-> "free", op |-> None]
AtTop == [stage |-> "top", message |-> None, op |-> None]

DeliveryInit ==
  /\ Init
  /\ outbox = [o \in Ops |-> [due |-> TRUE, published |-> FALSE]]
  /\ stream = [m \in Messages |-> Free]
  /\ group = TRUE
  /\ inbox = [w \in Workers |-> AtTop]
  /\ faults = 0

(* A step that is a fault when bad holds. *)
Spend(bad) ==
  /\ bad => faults < MaxFaults
  /\ faults' = IF bad THEN faults + 1 ELSE faults

-----------------------------------------------------------------------------
(* Users and time. *)

SubmitTask(o) == Submit(o) /\ UNCHANGED delivery
CancelTask(o) == Cancel(o) /\ UNCHANGED delivery
ConfirmResume(r, o) == RequestResume(r, o) /\ UNCHANGED delivery

(* A live worker's claim is about to run out before it reported. *)
RunsOut ==
  \E w \in Workers :
    /\ wk[w].pc \in {"executing", "reporting"}
    /\ op[wk[w].op].worker = w
    /\ op[wk[w].op].lease = 0

PassTime ==
  /\ Tick
  /\ Spend(RunsOut)
  /\ UNCHANGED <<outbox, stream, group, inbox>>

(* retryDelayMs or republishDelayMs has passed. *)
BecomeDue(o) ==
  /\ ~outbox[o].due
  /\ outbox' = [outbox EXCEPT ![o].due = TRUE]
  /\ UNCHANGED <<vars, stream, group, inbox, faults>>

(* pendingClaimIdleMs has passed since the entry was last delivered. *)
BecomeIdle(m) ==
  /\ stream[m].state = "pending"
  /\ stream' = [stream EXCEPT ![m].state = "idle"]
  /\ UNCHANGED <<vars, outbox, group, inbox, faults>>

-----------------------------------------------------------------------------
(* The publisher: one row, one entry added to Redis, then the row marked. *)

(* Mutant: only rows never published are published. *)
PublishableOnce(o) == op[o].state # "ABSENT" /\ outbox[o].due /\ ~outbox[o].published

Publishable(o) ==
  /\ op[o].state # "ABSENT"
  /\ outbox[o].due
  /\ \/ ~outbox[o].published
     \/ op[o].state \in {"ACCEPTED", "FAILED_RETRYABLE"}
     \/ op[o].state = "RUNNING" /\ op[o].lease = Expired

(* An entry id is never used again while somebody holds the old entry. *)
AddEntry(o) ==
  \E m \in Messages :
    /\ stream[m] = Free
    /\ \A w \in Workers : inbox[w].message # m
    /\ stream' = [stream EXCEPT ![m] = [state |-> "new", op |-> o]]

Publish(o) ==
  /\ Publishable(o)
  /\ AddEntry(o)
  /\ outbox' = [outbox EXCEPT ![o] = [due |-> FALSE, published |-> TRUE]]
  /\ UNCHANGED <<vars, group, inbox, faults>>

(* Redis is unreachable or its answer is lost: the entry may have been     *)
(* added, the row is only postponed.                                       *)
PublishFails(o) ==
  /\ Publishable(o)
  /\ AddEntry(o) \/ UNCHANGED stream
  /\ outbox' = [outbox EXCEPT ![o].due = FALSE]
  /\ Spend(TRUE)
  /\ UNCHANGED <<vars, group, inbox>>

(* The publisher dies after adding the entry; the row stays as it was. *)
PublisherCrash(o) ==
  /\ Publishable(o)
  /\ AddEntry(o)
  /\ Spend(TRUE)
  /\ UNCHANGED <<vars, outbox, group, inbox>>

(* Redis comes back empty: entries and the consumer group are gone. *)
LoseStream ==
  /\ stream' = [m \in Messages |-> Free]
  /\ group' = FALSE
  /\ Spend(TRUE)
  /\ UNCHANGED <<vars, outbox, inbox>>

-----------------------------------------------------------------------------
(* The worker loop: resume requests first, then one entry of the stream. *)

GoTo(w, stage) == inbox' = [inbox EXCEPT ![w] = [@ EXCEPT !.stage = stage]]
GoToTop(w) == inbox' = [inbox EXCEPT ![w] = AtTop]

Turn(w) == wk[w].pc = "idle" /\ inbox[w].stage = "top"

NoRequest(w) ==
  /\ Turn(w)
  /\ ~\E r \in Requests : ClaimableRequest(r)
  /\ GoTo(w, "reading")
  /\ UNCHANGED <<vars, outbox, stream, group, faults>>

(* A request that is refused counts as none: the loop goes on to read. *)
RefuseRequest(w, r) ==
  /\ Turn(w)
  /\ RejectControl(w, r) \/ DenyControl(w, r)
  /\ GoTo(w, "reading")
  /\ UNCHANGED <<outbox, stream, group, faults>>

TakeRequest(w, r) ==
  /\ Turn(w)
  /\ ClaimControl(w, r)
  /\ Spend(op'[req[r].op].lease < Lease)
  /\ UNCHANGED <<outbox, stream, group, inbox>>

Readable(m) == stream[m].state \in {"new", "idle"}

Read(w, m) ==
  /\ inbox[w].stage = "reading"
  /\ group
  /\ Readable(m)
  /\ stream' = [stream EXCEPT ![m].state = "pending"]
  /\ inbox' = [inbox EXCEPT ![w] = [stage |-> "handed", message |-> m, op |-> stream[m].op]]
  /\ UNCHANGED <<vars, outbox, group, faults>>

ReadNothing(w) ==
  /\ inbox[w].stage = "reading"
  /\ group
  /\ ~\E m \in Messages : Readable(m)
  /\ GoToTop(w)
  /\ UNCHANGED <<vars, outbox, stream, group, faults>>

(* Without its group the read throws and ends the process; the next one    *)
(* creates the group again, from the start of the stream.                  *)
ReadThrows(w) ==
  /\ inbox[w].stage = "reading"
  /\ ~group
  /\ Restart(w)
  /\ group' = TRUE
  /\ GoToTop(w)
  /\ UNCHANGED <<op, events, facts, req, outbox, stream, faults>>

(* The operation of the entry the worker was handed. *)
Handed(w) == inbox[w].op

TakeTask(w, o) ==
  /\ inbox[w].stage = "handed"
  /\ Handed(w) = o
  /\ ClaimNext(w, o)
  /\ Spend(op'[o].lease < Lease)
  /\ GoTo(w, "claimed")
  /\ UNCHANGED <<outbox, stream, group>>

(* Mutant: a cancelled operation is not taken for a finished one. *)
FinishedUnlessCancelled(o) == op[o].state \in {"COMPLETED", "FAILED_FINAL", "PARTIAL"}

Finished(o) == op[o].state \in {"COMPLETED", "FAILED_FINAL", "PARTIAL", "CANCELLED"}

(* The bound on Agent Runs keeps this retry from being claimed. *)
OutOfAttempts(o) == op[o].state = "FAILED_RETRYABLE" /\ op[o].run = MaxAttempts

Defer(w) ==
  /\ inbox[w].stage = "handed"
  /\ ~Claimable(Handed(w)) \/ OutOfAttempts(Handed(w))
  /\ ~Finished(Handed(w))
  /\ GoToTop(w)
  /\ UNCHANGED <<vars, outbox, stream, group, faults>>

SkipFinished(w) ==
  /\ inbox[w].stage = "handed"
  /\ ~Claimable(Handed(w))
  /\ Finished(Handed(w))
  /\ GoTo(w, "acking")
  /\ UNCHANGED <<vars, outbox, stream, group, faults>>

(* A retryable failure is left for redelivery, any other outcome is        *)
(* acknowledged; a resume has no entry to acknowledge.                     *)
Settle(w) ==
  /\ Commit(w)
  /\ IF inbox[w].stage = "claimed" /\ wk[w].outcome.kind # "FAILED_RETRYABLE"
       THEN GoTo(w, "acking") ELSE GoToTop(w)
  /\ UNCHANGED <<outbox, stream, group, faults>>

Refused(w) ==
  /\ NotCompletable(w)
  /\ GoToTop(w)
  /\ UNCHANGED <<outbox, stream, group, faults>>

Acknowledge(w) ==
  /\ inbox[w].stage = "acking"
  /\ stream' = [stream EXCEPT ![inbox[w].message] = Free]
  /\ GoToTop(w)
  /\ UNCHANGED <<vars, outbox, group, faults>>

Work(w) ==
  /\ ReplayReceipt(w) \/ FinishRun(w) \/ PauseRun(w) \/ KeepPaused(w) \/ StartCompletion(w)
  /\ UNCHANGED delivery

(* Storing the pause throws: the error ends the process, which comes back  *)
(* empty; no fault is needed.                                              *)
Throw(w) ==
  /\ wk[w].pc = "completing"
  /\ Completable(w)
  /\ ~Persistable(w)
  /\ Restart(w)
  /\ GoToTop(w)
  /\ UNCHANGED <<op, events, facts, req, outbox, stream, group, faults>>

Die(w) ==
  /\ wk[w] # Idle \/ inbox[w] # AtTop
  /\ Restart(w)
  /\ GoToTop(w)
  /\ Spend(TRUE)
  /\ UNCHANGED <<op, events, facts, req, outbox, stream, group>>

-----------------------------------------------------------------------------
Loop(w) ==
  \/ NoRequest(w)
  \/ \E r \in Requests : RefuseRequest(w, r) \/ TakeRequest(w, r)
  \/ \E m \in Messages : Read(w, m)
  \/ ReadNothing(w)
  \/ ReadThrows(w)
  \/ \E o \in Ops : TakeTask(w, o)
  \/ Defer(w)
  \/ SkipFinished(w)
  \/ Work(w)
  \/ Settle(w)
  \/ Refused(w)
  \/ Acknowledge(w)
  \/ Throw(w)

DeliveryNext ==
  \/ \E o \in Ops : SubmitTask(o) \/ CancelTask(o) \/ BecomeDue(o)
  \/ \E r \in Requests, o \in Ops : ConfirmResume(r, o)
  \/ PassTime
  \/ \E m \in Messages : BecomeIdle(m)
  \/ \E o \in Ops : Publish(o) \/ PublishFails(o) \/ PublisherCrash(o)
  \/ LoseStream
  \/ \E w \in Workers : Loop(w) \/ Die(w)

DeliverySpec == DeliveryInit /\ [][DeliveryNext]_allVars

(* Time passes, and the publisher's and the workers' endless loops go on.  *)
(* Nothing is assumed of users, of what the Runtime answers or of faults.  *)
Fairness ==
  /\ WF_allVars(PassTime)
  /\ \A o \in Ops : WF_allVars(BecomeDue(o)) /\ WF_allVars(Publish(o))
  /\ \A m \in Messages : WF_allVars(BecomeIdle(m))
  /\ \A w \in Workers : WF_allVars(Loop(w))

FairSpec == DeliverySpec /\ Fairness

-----------------------------------------------------------------------------
(* Properties. *)

Open(o) == op[o].state \in {"ACCEPTED", "RUNNING", "FAILED_RETRYABLE"}

(* A process that keeps a pause or result of an earlier Agent Run among    *)
(* its receipts reports it for the retry, which is refused.                *)
KeepsOldReceipt(o) ==
  \E w \in Workers :
    receipts[w][o].kind \in {"COMPLETED"} \cup PausedStates /\ receipts[w][o].run # op[o].run

(* Whatever is lost, duplicated or late and whoever dies, an operation     *)
(* that was accepted ends, or pauses for a person; a retry is waited for   *)
(* as long as the bound on Agent Runs allows it.  The old receipt is the   *)
(* one exception.                                                          *)
SettlesUnlessOldReceipt ==
  \A o \in Ops : Open(o) ~> (~Open(o) \/ OutOfAttempts(o) \/ KeepsOldReceipt(o))

(* A confirmed resume is answered: the request ends completed or failed.   *)
ResumeAnswered ==
  \A r \in Requests : req[r].state = "ACCEPTED" ~> req[r].state \in {"COMPLETED", "FAILED"}

(* The stream forgets a final operation: every entry that is there, or is  *)
(* still published for it, is acknowledged in the end.                     *)
EntriesDrain ==
  \A o \in Ops :
    op[o].state \in FinalStates ~> [](\A m \in Messages : stream[m].op # o)

=============================================================================
