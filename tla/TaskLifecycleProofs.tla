------------------------ MODULE TaskLifecycleProofs ------------------------
(***************************************************************************)
(* Proofs about TaskLifecycle for every set of operations, workers and     *)
(* requests and every lease and bound.  IInv is inductive: one lemma per   *)
(* action, one step per conjunct.  The last section: TaskDelivery takes no *)
(* step of the operations that TaskLifecycle does not allow.               *)
(***************************************************************************)
EXTENDS TaskDelivery, TLAPS

-----------------------------------------------------------------------------
(* The values the actions write have the types of the fields they go to. *)
LEMMA ValuesTyped ==
  /\ Plain \subseteq OpStates /\ PausedStates \subseteq OpStates
  /\ FailureStates \subseteq OpStates
  /\ {"ABSENT", "ACCEPTED", "RUNNING", "CANCELLED", "COMPLETED"} \subseteq OpStates
  /\ RuntimeStates \subseteq TaskStates /\ PausedStates \subseteq TaskStates
  /\ Stages \subseteq TaskStates
  /\ NoLease \in Leases /\ Expired \in Leases /\ Remaining \subseteq Leases
  /\ 1 \in Runs /\ 0 \notin Runs /\ Runs \subseteq Int
  /\ NoPause \in PauseRow /\ NoOutcome \in Outcomes /\ Idle \in Process
<1>1. NoPause \in PauseRow
  BY DEF NoPause, PauseRow
<1>2. NoOutcome \in Outcomes
  BY DEF NoOutcome, Outcomes
<1>3. Idle \in Process
  BY <1>2 DEF Idle, Process
<1> QED
  BY <1>1, <1>2, <1>3, BoundsAssumption
  DEF OpStates, Plain, TaskStates, Leases, NoLease, Expired, Remaining, Runs

(* The special states are no PAUSED_* state and no stage. *)
LEMMA StatesApart ==
  /\ \A p \in PausedStates :
       /\ p \notin {"ABSENT", "ACCEPTED", "RUNNING", "CANCELLED", "COMPLETED", "NONE"}
       /\ p \notin {"CREATED", "UNDERSTANDING", "FAILED"}
       /\ p \notin FailureStates /\ p \notin FinalStates
  /\ \A g \in Stages : g \notin {"CREATED", "UNDERSTANDING", "COMPLETED", "FAILED", "CANCELLED"}
BY StatesAssumption DEF RuntimeStates, Plain, FailureStates, FinalStates

(* The task state shown for each operation state.                          *)
LEMMA ShownStates ==
  /\ ShownAs("ACCEPTED") = "CREATED" /\ ShownAs("RUNNING") = "UNDERSTANDING"
  /\ \A s \in FailureStates : ShownAs(s) = "FAILED"
  /\ \A s \in {"COMPLETED", "CANCELLED"} \cup PausedStates : ShownAs(s) = s
BY StatesApart DEF ShownAs, FailureStates

(* Updating fields of a stored row leaves a row. *)
LEMMA OpRowUpdate ==
  ASSUME NEW row \in OpRow, NEW s \in OpStates, NEW n \in Runs \cup {0},
         NEW v \in Workers \cup {None}, NEW l \in Leases, NEW p \in PauseRow
  PROVE  /\ [row EXCEPT !.state = s, !.run = n] \in OpRow
         /\ [row EXCEPT !.state = s, !.run = n, !.worker = v, !.lease = l] \in OpRow
         /\ [row EXCEPT !.state = s, !.worker = v, !.lease = l] \in OpRow
         /\ [row EXCEPT !.state = s, !.worker = v, !.lease = l, !.paused = p] \in OpRow
         /\ [row EXCEPT !.lease = l] \in OpRow
BY DEF OpRow

(* Updating a stored control request leaves a request row.                 *)
LEMMA RequestRowUpdate ==
  ASSUME NEW row \in RequestRow, NEW s \in {"RUNNING", "COMPLETED", "FAILED"},
         NEW v \in Workers \cup {None}, NEW l \in Leases
  PROVE  /\ [row EXCEPT !.state = s, !.worker = v, !.lease = l] \in RequestRow
         /\ [row EXCEPT !.lease = l] \in RequestRow
BY DEF RequestRow

(* A process that reports an outcome is a process. *)
LEMMA ReportingProcess ==
  ASSUME NEW p \in Process, NEW outcome \in Outcomes
  PROVE  [p EXCEPT !.pc = "reporting", !.outcome = outcome] \in Process
BY DEF Process

(* An operation an action does not write, and whose facts stay, keeps its  *)
(* part of the invariant.                                                  *)
LEMMA Untouched ==
  ASSUME IInv, NEW o \in Ops, op'[o] = op[o], events'[o] = events[o],
         facts'[o] = facts[o]
  PROVE  OperationBound(o)' /\ OpenRun(o)' /\ LogMatches(o)'
BY DEF IInv, OperationBound, OpenRun, EventLogMatches, LogMatches, CurrentLog, Saved

(* A request an action does not write keeps its part while facts stay. *)
LEMMA UntouchedRequest ==
  ASSUME IInv, NEW r \in Requests, req'[r] = req[r], facts' = facts
  PROVE  RequestBound(r)'
BY DEF IInv, RequestBound, Permission

(* A worker an action does not touch keeps its part, as long as facts stay *)
(* and no request forgets what it is for.                                  *)
LEMMA UntouchedWorker ==
  ASSUME IInv, NEW w \in Workers, wk'[w] = wk[w], receipts'[w] = receipts[w],
         facts' = facts,
         \A r \in Requests : req[r].state # "UNUSED" =>
           req'[r].state # "UNUSED" /\ req'[r].op = req[r].op /\ req'[r].run = req[r].run
  PROVE  WorkerBound(w)'
<1>1. WorkerBound(w) /\ wk[w] \in Process
  BY DEF IInv, TypeOK
<1> QED
  BY <1>1 DEF WorkerBound, Backed, Saved, Process

-----------------------------------------------------------------------------
(* Logs. *)
LEMMA Appended ==
  ASSUME NEW log \in Seq(TaskStates), NEW e \in TaskStates
  PROVE  /\ Append(log, e) \in Seq(TaskStates) /\ Append(log, e) # <<>>
         /\ Last(Append(log, e)) = e
         /\ ToSet(Append(log, e)) = ToSet(log) \cup {e}
<1>1. Append(log, e) \in Seq(TaskStates) /\ Append(log, e) # <<>> /\ Last(Append(log, e)) = e
  BY DEF Last
<1>2. ToSet(Append(log, e)) = ToSet(log) \cup {e}
  <2>1. DOMAIN Append(log, e) = DOMAIN log \cup {Len(log) + 1}
    OBVIOUS
  <2>2. \A i \in DOMAIN log : Append(log, e)[i] = log[i]
    OBVIOUS
  <2>3. Append(log, e)[Len(log) + 1] = e
    OBVIOUS
  <2> QED
    BY <2>1, <2>2, <2>3 DEF ToSet
<1> QED
  BY <1>1, <1>2

(* Adding what was not seen keeps the log typed and adds at most that. *)
LEMMA AddedUnseen ==
  ASSUME NEW log \in Seq(TaskStates), NEW seen, NEW e \in TaskStates
  PROVE  /\ log \o Unseen(seen, e) \in Seq(TaskStates)
         /\ ToSet(log \o Unseen(seen, e)) \subseteq ToSet(log) \cup {e}
         /\ e \notin ToSet(seen) => log \o Unseen(seen, e) = Append(log, e)
         /\ e \in ToSet(seen) => log \o Unseen(seen, e) = log
<1>1. log \o <<>> = log /\ log \o <<e>> = Append(log, e)
  OBVIOUS
<1>2. CASE e \in ToSet(seen)
  <2>1. Unseen(seen, e) = <<>>
    BY <1>2 DEF Unseen
  <2> QED
    BY <1>1, <1>2, <2>1
<1>3. CASE e \notin ToSet(seen)
  <2>1. Unseen(seen, e) = <<e>>
    BY <1>3 DEF Unseen
  <2>2. log \o Unseen(seen, e) = Append(log, e)
    BY <1>1, <2>1
  <2> QED
    BY <1>3, <2>2, Appended
<1> QED
  BY <1>2, <1>3

(* A result closes the log with the COMPLETED event. *)
LEMMA ResultCloses ==
  ASSUME NEW log \in Seq(TaskStates), NEW before \in TaskStates \ {"COMPLETED"},
         "COMPLETED" \notin ToSet(log)
  PROVE  /\ ResultLog(log, before) \in Seq(TaskStates)
         /\ ResultLog(log, before) # <<>>
         /\ Last(ResultLog(log, before)) = "COMPLETED"
<1>1. "COMPLETED" \in TaskStates
  BY ValuesTyped DEF RuntimeStates
<1>2. CASE ToSet(log) \cap PausedStates = {}
  <2> DEFINE mid == log \o Unseen(log, before)
  <2>1. mid \in Seq(TaskStates)
    BY AddedUnseen
  <2>2. ResultLog(log, before) = Append(mid, "COMPLETED")
    BY <1>1, <1>2, <2>1, AddedUnseen DEF ResultLog
  <2> QED
    BY <1>1, <2>1, <2>2, Appended
<1>3. CASE ToSet(log) \cap PausedStates # {}
  <2>1. ResultLog(log, before) = log \o Unseen(log, "COMPLETED")
    BY <1>3 DEF ResultLog
  <2>2. ResultLog(log, before) = Append(log, "COMPLETED")
    BY <1>1, <2>1, AddedUnseen
  <2> QED
    BY <1>1, <2>2, Appended
<1> QED
  BY <1>2, <1>3

(* A pause adds no outcome to the log. *)
LEMMA PauseKeepsOpen ==
  ASSUME NEW log \in Seq(TaskStates), NEW p \in PausedStates,
         NEW before \in {"CREATED"} \cup Stages \cup PausedStates
  PROVE  /\ PauseLog(log, before, p) \in Seq(TaskStates)
         /\ ToSet(PauseLog(log, before, p)) \subseteq ToSet(log) \cup {before, p}
         /\ log # <<>> => PauseLog(log, before, p) # <<>>
<1>1. before \in TaskStates /\ p \in TaskStates
  BY ValuesTyped DEF RuntimeStates
<1> DEFINE mid == log \o Unseen(log, before)
           fresh == Unseen(log, before) \o Unseen(log, p)
<1>2. mid \in Seq(TaskStates) /\ ToSet(mid) \subseteq ToSet(log) \cup {before}
  BY <1>1, AddedUnseen
<1>3. mid \o Unseen(log, p) \in Seq(TaskStates)
      /\ ToSet(mid \o Unseen(log, p)) \subseteq ToSet(log) \cup {before, p}
  <2>1. /\ mid \o Unseen(log, p) \in Seq(TaskStates)
        /\ ToSet(mid \o Unseen(log, p)) \subseteq ToSet(mid) \cup {p}
    BY <1>1, <1>2, AddedUnseen
  <2> QED
    BY <1>2, <2>1
<1>4. log \o fresh = mid \o Unseen(log, p)
  <2>1. Unseen(log, before) \in Seq(TaskStates) /\ Unseen(log, p) \in Seq(TaskStates)
    BY <1>1 DEF Unseen
  <2> QED
    BY <2>1
<1>5. Append(log, p) \in Seq(TaskStates) /\ ToSet(Append(log, p)) = ToSet(log) \cup {p}
  BY <1>1, Appended
<1>6. PauseLog(log, before, p) \in {Append(log, p), log \o fresh}
  BY DEF PauseLog
<1>7. log # <<>> => Append(log, p) # <<>> /\ log \o fresh # <<>>
  <2>1. fresh \in Seq(TaskStates)
    BY <1>1 DEF Unseen
  <2> HIDE DEF fresh
  <2> QED
    BY <1>1, <2>1
<1> QED
  BY <1>3, <1>4, <1>5, <1>6, <1>7

-----------------------------------------------------------------------------
(* Initially nothing is stored and every worker is idle. *)
LEMMA InitEstablishes == Init => IInv
<1> SUFFICES ASSUME Init PROVE IInv
  OBVIOUS
<1>1. TypeOK
  <2>1. op \in [Ops -> OpRow]
    BY ValuesTyped DEF Init, OpRow
  <2>2. req \in [Requests -> RequestRow]
    BY ValuesTyped DEF Init, RequestRow
  <2> QED
    BY <2>1, <2>2, ValuesTyped DEF Init, TypeOK
<1>2. \A o \in Ops : OperationBound(o) /\ OpenRun(o) /\ LogMatches(o)
  BY StatesApart DEF Init, OperationBound, OpenRun, LogMatches, NoPause
<1>3. \A r \in Requests : RequestBound(r)
  BY DEF Init, RequestBound
<1>4. \A w \in Workers : WorkerBound(w)
  BY DEF Init, WorkerBound, Idle
<1> QED
  BY <1>1, <1>2, <1>3, <1>4 DEF IInv, EventLogMatches

(* submit: the new operation's first run holds one CREATED event.          *)
LEMMA SubmitKeeps ==
  ASSUME IInv, NEW o \in Ops, Submit(o)
  PROVE  IInv'
<1> USE DEF Submit
<1>1. op[o] \in OpRow /\ op \in [Ops -> OpRow]
  BY DEF IInv, TypeOK
<1>2. events \in [Ops -> [Runs -> Seq(TaskStates)]]
  BY DEF IInv, TypeOK
<1>3. TypeOK'
  <2>1. op' \in [Ops -> OpRow]
    BY <1>1, ValuesTyped, OpRowUpdate
  <2>2. <<"CREATED">> \in Seq(TaskStates)
    BY ValuesTyped DEF RuntimeStates
  <2>3. events' \in [Ops -> [Runs -> Seq(TaskStates)]]
    BY <1>2, <2>2
  <2> QED
    BY <2>1, <2>3 DEF IInv, TypeOK
<1>4. ASSUME NEW x \in Ops PROVE (OperationBound(x) /\ OpenRun(x) /\ LogMatches(x))'
  <2>1. CASE x = o
    <3>1. op'[x].state = "ACCEPTED" /\ op'[x].run = 1 /\ op'[x].paused = op[x].paused
      BY <2>1, <1>1 DEF OpRow
    <3>2. op[x].paused.state = "NONE"
      BY <2>1, StatesApart DEF IInv, OperationBound
    <3>3. CurrentLog(x)' = <<"CREATED">>
      BY <2>1, <3>1, <1>2, ValuesTyped DEF CurrentLog
    <3>4. OperationBound(x)'
      BY <3>1, <3>2, StatesApart, ValuesTyped DEF OperationBound
    <3>5. ToSet(<<"CREATED">>) = {"CREATED"}
      BY DEF ToSet
    <3>6. OpenRun(x)'
      BY <3>1, <3>3, <3>5 DEF OpenRun
    <3>7. LogMatches(x)'
      BY <3>1, <3>3, ShownStates DEF LogMatches, Last
    <3> QED
      BY <3>4, <3>6, <3>7
  <2>2. CASE x # o
    BY <2>2, <1>1, <1>2, Untouched
  <2> QED
    BY <2>1, <2>2
<1>5. \A r \in Requests : RequestBound(r)'
  BY UntouchedRequest
<1>6. \A w \in Workers : WorkerBound(w)'
  BY UntouchedWorker
<1> QED
  BY <1>3, <1>4, <1>5, <1>6 DEF IInv, EventLogMatches

(* A new event goes to the end of the current run's log and nowhere else. *)
LEMMA EventAppended ==
  ASSUME IInv, NEW o \in Ops, op[o].state # "ABSENT", NEW e \in TaskStates,
         AppendEvent(o, e)
  PROVE  /\ events' \in [Ops -> [Runs -> Seq(TaskStates)]]
         /\ events'[o][op[o].run] = Append(CurrentLog(o), e)
         /\ CurrentLog(o) \in Seq(TaskStates)
         /\ \A x \in Ops \ {o} : events'[x] = events[x]
<1>1. op[o].run \in Runs /\ events \in [Ops -> [Runs -> Seq(TaskStates)]]
  BY DEF IInv, TypeOK, OperationBound
<1>2. CurrentLog(o) \in Seq(TaskStates)
  BY <1>1 DEF CurrentLog
<1> QED
  BY <1>1, <1>2, Appended DEF AppendEvent, CurrentLog

(* requestRuntimeResume: the new request names the snapshot the operation is *)
(* paused at, which is saved.                                              *)
LEMMA RequestResumeKeeps ==
  ASSUME IInv, NEW r \in Requests, NEW o \in Ops, RequestResume(r, o)
  PROVE  IInv'
<1> USE DEF RequestResume
<1>1. /\ op[o] \in OpRow /\ req \in [Requests -> RequestRow]
      /\ op[o].paused.state = op[o].state /\ op[o].run \in Runs
      /\ op[o].paused.run = op[o].run
      /\ Saved(o, op[o].paused.snapshot, op[o].run, op[o].paused.state)
  BY StatesApart DEF IInv, TypeOK, OperationBound
<1>2. TypeOK'
  <2>1. op[o].paused.snapshot \in Snapshots \cup {0}
    BY <1>1 DEF OpRow, PauseRow
  <2>2. req' \in [Requests -> RequestRow]
    BY <1>1, <2>1, ValuesTyped DEF RequestRow
  <2> QED
    BY <2>2 DEF IInv, TypeOK
<1>3. \A x \in Ops : (OperationBound(x) /\ OpenRun(x) /\ LogMatches(x))'
  BY Untouched
<1>4. ASSUME NEW q \in Requests PROVE RequestBound(q)'
  <2>1. CASE q = r
    BY <2>1, <1>1 DEF RequestBound, Saved
  <2>2. CASE q # r
    BY <2>2, <1>1, UntouchedRequest
  <2> QED
    BY <2>1, <2>2
<1>5. \A w \in Workers : WorkerBound(w)'
  <2>1. \A q \in Requests : req[q].state # "UNUSED" => req'[q] = req[q]
    BY <1>1
  <2> QED
    BY <2>1, UntouchedWorker
<1> QED
  BY <1>2, <1>3, <1>4, <1>5 DEF IInv, EventLogMatches

(* requestRuntimeCancel: the pause is dropped and the log ends in CANCELLED. *)
LEMMA CancelKeeps ==
  ASSUME IInv, NEW o \in Ops, Cancel(o)
  PROVE  IInv'
<1> USE DEF Cancel
<1>1. op \in [Ops -> OpRow] /\ op[o].state # "ABSENT" /\ op[o].run \in Runs
  BY DEF IInv, TypeOK, OperationBound
<1>2. /\ events' \in [Ops -> [Runs -> Seq(TaskStates)]]
      /\ events'[o][op[o].run] = Append(CurrentLog(o), "CANCELLED")
      /\ CurrentLog(o) \in Seq(TaskStates) /\ "CANCELLED" \in TaskStates
      /\ \A x \in Ops \ {o} : events'[x] = events[x]
  <2>1. "CANCELLED" \in TaskStates
    BY ValuesTyped DEF RuntimeStates
  <2> QED
    BY <1>1, <2>1, EventAppended
<1>3. TypeOK'
  <2>1. op' \in [Ops -> OpRow]
    BY <1>1, ValuesTyped, OpRowUpdate
  <2> QED
    BY <1>2, <2>1 DEF IInv, TypeOK
<1>4. ASSUME NEW x \in Ops PROVE (OperationBound(x) /\ OpenRun(x) /\ LogMatches(x))'
  <2>1. CASE x = o
    <3>1. op'[x].state = "CANCELLED" /\ op'[x].run = op[o].run
          /\ op'[x].paused.state = "NONE"
      BY <2>1, <1>1 DEF OpRow, NoPause
    <3>2. CurrentLog(x)' = Append(CurrentLog(o), "CANCELLED")
      BY <2>1, <3>1, <1>2 DEF CurrentLog
    <3>3. OperationBound(x)' /\ OpenRun(x)'
      BY <3>1, <1>1, StatesApart DEF OperationBound, OpenRun
    <3>4. LogMatches(x)'
      BY <3>1, <3>2, <1>2, Appended, ShownStates DEF LogMatches
    <3> QED
      BY <3>3, <3>4
  <2>2. CASE x # o
    BY <2>2, <1>1, <1>2, Untouched
  <2> QED
    BY <2>1, <2>2
<1>5. \A r \in Requests : RequestBound(r)'
  BY UntouchedRequest
<1>6. \A w \in Workers : WorkerBound(w)'
  BY UntouchedWorker
<1> QED
  BY <1>3, <1>4, <1>5, <1>6 DEF IInv, EventLogMatches

(* Time only shortens leases.                                              *)
LEMMA TickKeeps ==
  ASSUME IInv, Tick
  PROVE  IInv'
<1> USE DEF Tick
<1>1. op \in [Ops -> OpRow] /\ req \in [Requests -> RequestRow]
  BY DEF IInv, TypeOK
<1>2. \A l \in Leases : Elapse(l) \in Leases
  BY BoundsAssumption DEF Elapse, Leases, Expired, NoLease
<1>3. TypeOK'
  <2>1. ASSUME NEW o \in Ops PROVE op'[o] \in OpRow
    <3>1. op[o] \in OpRow /\ Elapse(op[o].lease) \in Leases
      BY <1>1, <1>2 DEF OpRow
    <3> QED
      BY <3>1, <1>1 DEF OpRow
  <2>2. ASSUME NEW r \in Requests PROVE req'[r] \in RequestRow
    <3>1. req[r] \in RequestRow /\ Elapse(req[r].lease) \in Leases
      BY <1>1, <1>2 DEF RequestRow
    <3> QED
      BY <3>1, <1>1 DEF RequestRow
  <2> QED
    BY <2>1, <2>2 DEF IInv, TypeOK
<1>4. ASSUME NEW x \in Ops PROVE (OperationBound(x) /\ OpenRun(x) /\ LogMatches(x))'
  <2>1. op'[x].state = op[x].state /\ op'[x].run = op[x].run /\ op'[x].paused = op[x].paused
    BY <1>1 DEF OpRow
  <2>2. OperationBound(x) /\ OpenRun(x) /\ LogMatches(x)
    BY DEF IInv, EventLogMatches
  <2> QED
    BY <2>1, <2>2 DEF OperationBound, OpenRun, LogMatches, CurrentLog, Saved
<1>5. ASSUME NEW r \in Requests
      PROVE /\ req'[r].state = req[r].state /\ req'[r].op = req[r].op
            /\ req'[r].run = req[r].run /\ req'[r].snapshot = req[r].snapshot
  BY <1>1 DEF RequestRow
<1>6. ASSUME NEW r \in Requests PROVE RequestBound(r)'
  <2>1. RequestBound(r)
    BY DEF IInv
  <2> QED
    BY <2>1, <1>5 DEF RequestBound, Permission
<1>7. \A w \in Workers : WorkerBound(w)'
  BY <1>5, UntouchedWorker
<1> QED
  BY <1>3, <1>4, <1>6, <1>7 DEF IInv, EventLogMatches

(* Whichever run a claim takes, its log ends as running and is still open. *)
LEMMA ClaimedLogOpen ==
  ASSUME IInv, NEW o \in Ops, Claimable(o)
  PROVE  /\ op[o].state # "ABSENT" /\ op[o].run \in Runs
         /\ ClaimedLog(o) \in Seq(TaskStates) /\ ClaimedLog(o) # <<>>
         /\ Last(ClaimedLog(o)) = "UNDERSTANDING"
         /\ ToSet(ClaimedLog(o)) \cap {"COMPLETED", "FAILED"} = {}
<1> DEFINE log == IF op[o].state = "FAILED_RETRYABLE" THEN <<"CREATED">> ELSE CurrentLog(o)
<1>1. op[o].state # "ABSENT" /\ op[o].run \in Runs
  BY DEF Claimable, IInv, OperationBound
<1>2. "CREATED" \in TaskStates /\ "UNDERSTANDING" \in TaskStates
  BY ValuesTyped DEF RuntimeStates
<1>3. log \in Seq(TaskStates) /\ log # <<>> /\ ToSet(log) \cap {"COMPLETED", "FAILED"} = {}
  <2>1. CASE op[o].state = "FAILED_RETRYABLE"
    <3>1. ToSet(<<"CREATED">>) = {"CREATED"}
      BY DEF ToSet
    <3> QED
      BY <2>1, <3>1, <1>2
  <2>2. CASE op[o].state # "FAILED_RETRYABLE"
    <3>1. CurrentLog(o) \in Seq(TaskStates)
      BY <1>1 DEF IInv, TypeOK, CurrentLog
    <3>2. OpenRun(o) /\ LogMatches(o)
      BY DEF IInv, EventLogMatches
    <3> QED
      BY <2>2, <3>1, <3>2, <1>1 DEF Claimable, OpenRun, LogMatches
  <2> QED
    BY <2>1, <2>2
<1>4. ClaimedLog(o) = IF Last(log) = "UNDERSTANDING" THEN log ELSE Append(log, "UNDERSTANDING")
  BY DEF ClaimedLog
<1> HIDE DEF log
<1> QED
  BY <1>1, <1>2, <1>3, <1>4, Appended

(* claimNext: the claimed run, fresh or continued, shows UNDERSTANDING.    *)
LEMMA ClaimNextKeeps ==
  ASSUME IInv, NEW w \in Workers, NEW o \in Ops, ClaimNext(w, o)
  PROVE  IInv'
<1>1. op \in [Ops -> OpRow] /\ events \in [Ops -> [Runs -> Seq(TaskStates)]]
      /\ wk \in [Workers -> Process]
  BY DEF IInv, TypeOK
<1>6. PICK left \in Remaining :
        op' = [op EXCEPT ![o] = [@ EXCEPT !.state = "RUNNING", !.run = ClaimedRun(o),
                                          !.worker = w, !.lease = left]]
  BY DEF ClaimNext
<1>7. /\ ClaimedRun(o) \in Runs /\ Claimable(o)
      /\ events' = [events EXCEPT ![o][ClaimedRun(o)] = ClaimedLog(o)]
      /\ wk' = [wk EXCEPT ![w] = [pc |-> "executing", op |-> o, run |-> ClaimedRun(o),
                                  request |-> None, outcome |-> NoOutcome]]
      /\ facts' = facts /\ req' = req /\ receipts' = receipts
  BY DEF ClaimNext
<1>2. TypeOK'
  <2>1. op' \in [Ops -> OpRow]
    BY <1>1, <1>6, <1>7, ValuesTyped, OpRowUpdate
  <2>2. events' \in [Ops -> [Runs -> Seq(TaskStates)]]
    BY <1>1, <1>7, ClaimedLogOpen
  <2>3. wk' \in [Workers -> Process]
    BY <1>1, <1>7, ValuesTyped DEF Process
  <2> QED
    BY <1>7, <2>1, <2>2, <2>3 DEF IInv, TypeOK
<1>3. ASSUME NEW x \in Ops PROVE (OperationBound(x) /\ OpenRun(x) /\ LogMatches(x))'
  <2>1. CASE x = o
    <3>1. op'[x].state = "RUNNING" /\ op'[x].run = ClaimedRun(o) /\ op'[x].paused = op[o].paused
      BY <2>1, <1>1, <1>6 DEF OpRow
    <3>2. CurrentLog(x)' = ClaimedLog(o)
      BY <2>1, <3>1, <1>1, <1>7 DEF CurrentLog
    <3>3. OperationBound(x)'
      <4>1. op[o].paused.state # "NONE" => ClaimedRun(o) = op[o].run
        BY StatesApart DEF IInv, OperationBound, ClaimedRun, FailureStates
      <4>2. OperationBound(o)
        BY DEF IInv
      <4> QED
        BY <2>1, <3>1, <4>1, <4>2, <1>7, StatesApart DEF OperationBound, Saved
    <3>4. OpenRun(x)' /\ LogMatches(x)'
      BY <3>1, <3>2, <1>7, ClaimedLogOpen, ShownStates DEF OpenRun, LogMatches
    <3> QED
      BY <3>3, <3>4
  <2>2. CASE x # o
    BY <2>2, <1>1, <1>6, <1>7, Untouched
  <2> QED
    BY <2>1, <2>2
<1>4. \A r \in Requests : RequestBound(r)'
  BY <1>7, UntouchedRequest
<1>5. ASSUME NEW v \in Workers PROVE WorkerBound(v)'
  <2>1. CASE v = w
    <3>1. WorkerBound(w)
      BY DEF IInv
    <3>2. wk'[w].pc = "executing" /\ wk'[w].op = o /\ wk'[w].run = ClaimedRun(o)
          /\ wk'[w].request = None
      BY <1>1, <1>7
    <3> QED
      BY <2>1, <3>1, <3>2, <1>7 DEF WorkerBound, Backed, Saved
  <2>2. CASE v # w
    BY <2>2, <1>1, <1>7, UntouchedWorker
  <2> QED
    BY <2>1, <2>2
<1> QED
  BY <1>2, <1>3, <1>4, <1>5 DEF IInv, EventLogMatches

(* A failed request keeps describing what it was accepted for. *)
LEMMA FailRequestKeeps ==
  ASSUME IInv, NEW r \in Requests, req[r].state # "UNUSED", FailRequest(r), facts' = facts
  PROVE  /\ req' \in [Requests -> RequestRow]
         /\ \A q \in Requests : RequestBound(q)'
         /\ \A q \in Requests : req[q].state # "UNUSED" =>
              req'[q].state # "UNUSED" /\ req'[q].op = req[q].op /\ req'[q].run = req[q].run
<1> USE DEF FailRequest
<1>1. req \in [Requests -> RequestRow]
  BY DEF IInv, TypeOK
<1>2. req' \in [Requests -> RequestRow]
  BY <1>1, ValuesTyped, RequestRowUpdate
<1>3. req'[r].state = "FAILED" /\ req'[r].op = req[r].op /\ req'[r].run = req[r].run
      /\ req'[r].snapshot = req[r].snapshot
  BY <1>1 DEF RequestRow
<1>4. \A q \in Requests \ {r} : req'[q] = req[q]
  BY <1>1
<1>5. ASSUME NEW q \in Requests PROVE RequestBound(q)'
  <2>1. CASE q = r
    <3>1. RequestBound(r)
      BY DEF IInv
    <3> QED
      BY <2>1, <3>1, <1>3 DEF RequestBound
  <2>2. CASE q # r
    BY <2>2, <1>4, UntouchedRequest
  <2> QED
    BY <2>1, <2>2
<1> QED
  BY <1>2, <1>3, <1>4, <1>5

(* An inconsistent request is failed and nothing else changes.             *)
LEMMA RejectControlKeeps ==
  ASSUME IInv, NEW w \in Workers, NEW r \in Requests, RejectControl(w, r)
  PROVE  IInv'
<1> USE DEF RejectControl
<1>1. /\ req' \in [Requests -> RequestRow]
      /\ \A q \in Requests : RequestBound(q)'
      /\ \A q \in Requests : req[q].state # "UNUSED" =>
           req'[q].state # "UNUSED" /\ req'[q].op = req[q].op /\ req'[q].run = req[q].run
  BY FailRequestKeeps DEF ClaimableRequest
<1>2. TypeOK'
  BY <1>1 DEF IInv, TypeOK
<1>3. \A x \in Ops : (OperationBound(x) /\ OpenRun(x) /\ LogMatches(x))'
  BY Untouched
<1>4. \A v \in Workers : WorkerBound(v)'
  BY <1>1, UntouchedWorker
<1> QED
  BY <1>1, <1>2, <1>3, <1>4 DEF IInv, EventLogMatches

(* What a worker knows of the operation when a request is consistent. *)
LEMMA ConsistentRequest ==
  ASSUME IInv, NEW r \in Requests, ClaimableRequest(r), Consistent(r)
  PROVE  /\ req[r].op \in Ops /\ req[r].run \in Runs /\ req[r].state # "UNUSED"
         /\ op[req[r].op].run \in Runs
         /\ op[req[r].op].state \in PausedStates \cup {"RUNNING"}
         /\ req[r].state = "ACCEPTED" =>
              /\ op[req[r].op].state \in PausedStates
              /\ facts[req[r].op][req[r].snapshot].state = op[req[r].op].state
         /\ req[r].state = "RUNNING" =>
              /\ op[req[r].op].state = "RUNNING"
              /\ Permission(r) = "RESUME_ALLOWED"
<1>1. RequestBound(r) /\ req[r].state # "UNUSED"
  BY DEF IInv, ClaimableRequest
<1>2. req[r].op \in Ops /\ OperationBound(req[r].op)
  BY <1>1 DEF IInv, RequestBound
<1> QED
  BY <1>1, <1>2, StatesApart DEF Consistent, RequestBound, OperationBound, Saved

(* A request whose facts deny it: only a paused operation has the pause    *)
(* appended again, so its log still shows the state it is in.              *)
LEMMA DenyControlKeeps ==
  ASSUME IInv, NEW w \in Workers, NEW r \in Requests, DenyControl(w, r)
  PROVE  IInv'
<1> USE DEF DenyControl
<1> DEFINE o == req[r].op
<1>1. /\ req' \in [Requests -> RequestRow]
      /\ \A q \in Requests : RequestBound(q)'
      /\ \A q \in Requests : req[q].state # "UNUSED" =>
           req'[q].state # "UNUSED" /\ req'[q].op = req[q].op /\ req'[q].run = req[q].run
  BY FailRequestKeeps DEF ClaimableRequest
<1>2. /\ o \in Ops /\ op[o].run \in Runs /\ op[o].state \in PausedStates
      /\ facts[o][req[r].snapshot].state = op[o].state
  BY ConsistentRequest DEF ClaimableRequest
<1>3. op[o].state # "ABSENT" /\ op[o].state \in TaskStates
  BY <1>2, StatesApart, ValuesTyped
<1>4. CASE Permission(r) = "MANUAL_VERIFICATION_REQUIRED"
  <2>1. /\ events' \in [Ops -> [Runs -> Seq(TaskStates)]]
        /\ events'[o][op[o].run] = Append(CurrentLog(o), op[o].state)
        /\ CurrentLog(o) \in Seq(TaskStates)
        /\ \A x \in Ops \ {o} : events'[x] = events[x]
    <3>1. AppendEvent(o, op[o].state)
      BY <1>2, <1>4
    <3> HIDE DEF o
    <3> QED
      BY <1>2, <1>3, <3>1, EventAppended
  <2>2. TypeOK'
    BY <1>1, <2>1 DEF IInv, TypeOK
  <2>3. ASSUME NEW x \in Ops PROVE (OperationBound(x) /\ OpenRun(x) /\ LogMatches(x))'
    <3>1. CASE x = o
      <4>1. CurrentLog(x)' = Append(CurrentLog(o), op[o].state)
        BY <2>1, <3>1 DEF CurrentLog
      <4>2. OperationBound(x) /\ OpenRun(x)
        BY DEF IInv
      <4>3. OpenRun(x)'
        <5>1. op' = op
          OBVIOUS
        <5> HIDE DEF o, DenyControl
        <5>2. ToSet(CurrentLog(x)') = ToSet(CurrentLog(x)) \cup {op[o].state}
          BY <3>1, <4>1, <2>1, <1>3, Appended
        <5>3. op[o].state \notin {"COMPLETED", "FAILED"}
          BY <1>2, StatesApart
        <5> QED
          BY <3>1, <4>2, <5>1, <5>2, <5>3, <1>2 DEF OpenRun
      <4>4. LogMatches(x)'
        BY <3>1, <4>1, <2>1, <1>2, <1>3, Appended, ShownStates DEF LogMatches
      <4> QED
        BY <4>2, <4>3, <4>4 DEF OperationBound, Saved
    <3>2. CASE x # o
      BY <3>2, <2>1, Untouched
    <3> QED
      BY <3>1, <3>2
  <2>4. \A v \in Workers : WorkerBound(v)'
    BY <1>1, UntouchedWorker
  <2> QED
    BY <1>1, <2>2, <2>3, <2>4 DEF IInv, EventLogMatches
<1>5. CASE Permission(r) # "MANUAL_VERIFICATION_REQUIRED"
  <2>1. TypeOK'
    BY <1>1, <1>5 DEF IInv, TypeOK
  <2>2. \A x \in Ops : (OperationBound(x) /\ OpenRun(x) /\ LogMatches(x))'
    BY <1>5, Untouched
  <2>3. \A v \in Workers : WorkerBound(v)'
    BY <1>1, UntouchedWorker
  <2> QED
    BY <1>1, <2>1, <2>2, <2>3 DEF IInv, EventLogMatches
<1> QED
  BY <1>4, <1>5

(* claimNextRuntimeControl: a resumed run shows UNDERSTANDING; a reclaimed one *)
(* already does, because its request and its operation are both RUNNING.   *)
LEMMA ClaimControlKeeps ==
  ASSUME IInv, NEW w \in Workers, NEW r \in Requests, ClaimControl(w, r)
  PROVE  IInv'
<1> DEFINE o == req[r].op
<1>1. /\ o \in Ops /\ req[r].run \in Runs /\ req[r].state # "UNUSED" /\ op[o].run \in Runs
      /\ op[o].state \in PausedStates \cup {"RUNNING"}
      /\ req[r].state = "ACCEPTED" => op[o].state \in PausedStates
      /\ req[r].state = "RUNNING" => op[o].state = "RUNNING"
      /\ req[r].state \in {"ACCEPTED", "RUNNING"}
  BY ConsistentRequest DEF ClaimControl, ClaimableRequest
<1>2. op \in [Ops -> OpRow] /\ req \in [Requests -> RequestRow] /\ wk \in [Workers -> Process]
      /\ events \in [Ops -> [Runs -> Seq(TaskStates)]]
  BY DEF IInv, TypeOK
<1>3. PICK left \in Remaining :
      /\ op' = [op EXCEPT ![o] = [@ EXCEPT !.state = "RUNNING", !.worker = w, !.lease = left]]
      /\ req' = [req EXCEPT ![r] = [@ EXCEPT !.state = "RUNNING", !.worker = w, !.lease = left]]
      /\ wk' = [wk EXCEPT ![w] = [pc |-> "executing", op |-> o, run |-> req[r].run,
                                  request |-> r, outcome |-> NoOutcome]]
      /\ facts' = facts /\ receipts' = receipts
      /\ IF req[r].state = "RUNNING" THEN events' = events ELSE AppendEvent(o, "UNDERSTANDING")
      /\ Permission(r) = "RESUME_ALLOWED"
  BY DEF ClaimControl
<1> HIDE DEF o
<1>4. /\ events' \in [Ops -> [Runs -> Seq(TaskStates)]]
      /\ \A x \in Ops \ {o} : events'[x] = events[x]
      /\ events'[o][op[o].run] # <<>> /\ Last(events'[o][op[o].run]) = "UNDERSTANDING"
      /\ ToSet(events'[o][op[o].run]) \cap {"COMPLETED", "FAILED"} = {}
  <2>1. OpenRun(o) /\ LogMatches(o)
    BY <1>1 DEF IInv, EventLogMatches
  <2>2. ToSet(CurrentLog(o)) \cap {"COMPLETED", "FAILED"} = {} /\ op[o].state # "ABSENT"
    BY <1>1, <2>1, StatesApart DEF OpenRun
  <2>3. CASE req[r].state = "RUNNING"
    BY <1>1, <1>2, <1>3, <2>1, <2>2, <2>3, ShownStates DEF LogMatches, CurrentLog
  <2>4. CASE req[r].state # "RUNNING"
    <3>1. "UNDERSTANDING" \in TaskStates /\ AppendEvent(o, "UNDERSTANDING")
      BY <1>3, <2>4, ValuesTyped DEF RuntimeStates
    <3>2. /\ events' \in [Ops -> [Runs -> Seq(TaskStates)]]
          /\ events'[o][op[o].run] = Append(CurrentLog(o), "UNDERSTANDING")
          /\ CurrentLog(o) \in Seq(TaskStates)
          /\ \A x \in Ops \ {o} : events'[x] = events[x]
      BY <1>1, <2>2, <3>1, EventAppended
    <3>3. /\ Append(CurrentLog(o), "UNDERSTANDING") # <<>>
          /\ Last(Append(CurrentLog(o), "UNDERSTANDING")) = "UNDERSTANDING"
          /\ ToSet(Append(CurrentLog(o), "UNDERSTANDING"))
               = ToSet(CurrentLog(o)) \cup {"UNDERSTANDING"}
      BY <3>1, <3>2, Appended
    <3> QED
      BY <2>2, <3>2, <3>3
  <2> QED
    BY <2>3, <2>4
<1>5. TypeOK'
  <2>1. op' \in [Ops -> OpRow]
    BY <1>1, <1>2, <1>3, ValuesTyped, OpRowUpdate
  <2>2. req' \in [Requests -> RequestRow]
    BY <1>2, <1>3, ValuesTyped, RequestRowUpdate
  <2>3. wk' \in [Workers -> Process]
    BY <1>1, <1>2, <1>3, ValuesTyped DEF Process
  <2> QED
    BY <1>3, <1>4, <2>1, <2>2, <2>3 DEF IInv, TypeOK
<1>6. ASSUME NEW x \in Ops PROVE (OperationBound(x) /\ OpenRun(x) /\ LogMatches(x))'
  <2>1. CASE x = o
    <3>1. op'[x].state = "RUNNING" /\ op'[x].run = op[o].run /\ op'[x].paused = op[o].paused
      BY <2>1, <1>2, <1>3 DEF OpRow
    <3>2. OperationBound(o)
      BY <1>1 DEF IInv
    <3>3. OperationBound(x)'
      BY <2>1, <3>1, <3>2, <1>1, <1>3, StatesApart DEF OperationBound, Saved
    <3> QED
      BY <2>1, <3>1, <3>3, <1>4, ShownStates DEF OpenRun, LogMatches, CurrentLog
  <2>2. CASE x # o
    BY <2>2, <1>1, <1>2, <1>3, <1>4, Untouched
  <2> QED
    BY <2>1, <2>2
<1>7. ASSUME NEW q \in Requests
      PROVE /\ req'[q].op = req[q].op /\ req'[q].run = req[q].run
            /\ req'[q].snapshot = req[q].snapshot
            /\ req[q].state # "UNUSED" => req'[q].state # "UNUSED"
  BY <1>2, <1>3 DEF RequestRow
<1>8. ASSUME NEW q \in Requests PROVE RequestBound(q)'
  <2>1. RequestBound(q)
    BY DEF IInv
  <2>2. CASE q = r
    BY <2>1, <2>2, <1>1, <1>3, <1>7 DEF RequestBound, Permission
  <2>3. CASE q # r
    BY <2>3, <1>2, <1>3, UntouchedRequest
  <2> QED
    BY <2>2, <2>3
<1>9. ASSUME NEW v \in Workers PROVE WorkerBound(v)'
  <2>1. CASE v = w
    <3>1. WorkerBound(w)
      BY DEF IInv
    <3>2. wk'[w].pc = "executing" /\ wk'[w].op = o /\ wk'[w].run = req[r].run
          /\ wk'[w].request = r
      BY <1>2, <1>3
    <3> QED
      BY <2>1, <3>1, <3>2, <1>1, <1>3, <1>7, SMTT(20) DEF WorkerBound, Backed, Saved, o
  <2>2. CASE v # w
    BY <2>2, <1>2, <1>3, <1>7, UntouchedWorker
  <2> QED
    BY <2>1, <2>2
<1> QED
  BY <1>5, <1>6, <1>8, <1>9 DEF IInv, EventLogMatches

-----------------------------------------------------------------------------
(* Whatever an attempt returns, as long as a pause it reports is saved.    *)
LEMMA ReturnKeeps ==
  ASSUME IInv, NEW w \in Workers, wk[w].pc = "executing",
         NEW outcome \in Outcomes, outcome.kind # "NONE", Return(w, outcome),
         UNCHANGED <<op, events, req>>, facts' \in [Ops -> Seq(FactRow)],
         \A o \in Ops : \A s \in DOMAIN facts[o] :
           s \in DOMAIN facts'[o] /\ facts'[o][s] = facts[o][s],
         outcome.kind \in PausedStates =>
           LET saved == facts'[wk[w].op]
           IN /\ outcome.snapshot \in DOMAIN saved
              /\ saved[outcome.snapshot].run = outcome.run
              /\ saved[outcome.snapshot].state = outcome.kind
  PROVE  IInv'
<1> USE DEF Return
<1>1. wk \in [Workers -> Process] /\ receipts \in [Workers -> [Ops -> Outcomes]]
  BY DEF IInv, TypeOK
<1>2. /\ wk[w].op \in Ops
      /\ wk'[w].op = wk[w].op /\ wk'[w].run = wk[w].run /\ wk'[w].request = wk[w].request
      /\ wk'[w].pc = "reporting" /\ wk'[w].outcome = outcome
  BY <1>1 DEF IInv, WorkerBound, Process
<1>3. TypeOK'
  <2>1. wk' \in [Workers -> Process]
    BY <1>1, ReportingProcess
  <2>2. receipts' \in [Workers -> [Ops -> Outcomes]]
    BY <1>1
  <2> QED
    BY <2>1, <2>2 DEF IInv, TypeOK
<1>4. ASSUME NEW o \in Ops PROVE (OperationBound(o) /\ OpenRun(o) /\ LogMatches(o))'
  <2>1. OperationBound(o) /\ OpenRun(o) /\ LogMatches(o)
    BY DEF IInv, EventLogMatches
  <2> QED
    BY <2>1 DEF OperationBound, Saved, OpenRun, LogMatches, CurrentLog
<1>5. ASSUME NEW r \in Requests PROVE RequestBound(r)'
  <2>1. RequestBound(r)
    BY DEF IInv
  <2> QED
    BY <2>1 DEF RequestBound, Permission
<1>6. ASSUME NEW v \in Workers PROVE WorkerBound(v)'
  <2>1. WorkerBound(v) /\ WorkerBound(w)
    BY DEF IInv
  <2>2. CASE v = w
    <3>1. \A o \in Ops : receipts'[w][o] # NoOutcome =>
            receipts'[w][o].kind # "NONE" /\ Backed(o, receipts[w][o])'
      <4> SUFFICES ASSUME NEW o \in Ops, receipts'[w][o] # NoOutcome
                   PROVE  receipts'[w][o].kind # "NONE" /\ Backed(o, receipts[w][o])'
        OBVIOUS
      <4>1. CASE receipts'[w][o] = receipts[w][o]
        BY <2>1, <4>1 DEF WorkerBound, Backed, Saved
      <4>2. CASE receipts'[w][o] # receipts[w][o]
        <5>1. o = wk[w].op /\ receipts'[w][o] = outcome
          BY <1>1, <1>2, <4>2
        <5> QED
          BY <5>1 DEF Backed, Saved
      <4> QED
        BY <4>1, <4>2
    <3>2. wk'[w].outcome.kind # "NONE" /\ Backed(wk[w].op, wk[w].outcome)'
      BY <1>2 DEF Backed, Saved
    <3> QED
      BY <2>1, <2>2, <1>2, <3>1, <3>2 DEF WorkerBound
  <2>3. CASE v # w
    <3>1. wk'[v] = wk[v] /\ receipts'[v] = receipts[v] /\ wk[v] \in Process
      BY <1>1, <2>3
    <3>2. \A o \in Ops : \A s, n, p : Saved(o, s, n, p) => Saved(o, s, n, p)'
      BY DEF Saved
    <3>3. \A o \in Ops : Backed(o, receipts[v][o]) => Backed(o, receipts[v][o])'
      BY <3>1, <3>2 DEF Backed
    <3>4. wk[v].op \in Ops /\ Backed(wk[v].op, wk[v].outcome)
            => Backed(wk[v].op, wk[v].outcome)'
      BY <3>1, <3>2 DEF Backed
    <3> QED
      BY <2>1, <3>1, <3>3, <3>4, ZenonT(60) DEF WorkerBound, Process
  <2> QED
    BY <2>2, <2>3
<1> QED
  BY <1>3, <1>4, <1>5, <1>6 DEF IInv, EventLogMatches

(* A replayed receipt was backed when it was stored, and facts only grow.  *)
LEMMA ReplayReceiptKeeps ==
  ASSUME IInv, NEW w \in Workers, ReplayReceipt(w)
  PROVE  IInv'
<1> DEFINE outcome == receipts[w][wk[w].op]
<1>1. wk[w].op \in Ops /\ WorkerBound(w) /\ receipts \in [Workers -> [Ops -> Outcomes]]
      /\ facts \in [Ops -> Seq(FactRow)]
  BY DEF ReplayReceipt, IInv, WorkerBound, TypeOK
<1>2. outcome \in Outcomes /\ outcome.kind # "NONE" /\ Backed(wk[w].op, outcome)
  BY <1>1 DEF ReplayReceipt, Cached, WorkerBound
<1>3. [receipts EXCEPT ![w][wk[w].op] = outcome] = receipts
  BY <1>1
<1>4. Return(w, outcome)
  BY <1>3 DEF ReplayReceipt, Return
<1> HIDE DEF outcome
<1>5. wk[w].pc = "executing" /\ UNCHANGED <<op, events, req>> /\ facts' = facts
  BY DEF ReplayReceipt
<1> QED
  BY <1>1, <1>2, <1>4, <1>5, ReturnKeeps DEF Backed, Saved

(* A finished attempt reports no pause, so nothing has to be saved.        *)
LEMMA FinishRunKeeps ==
  ASSUME IInv, NEW w \in Workers, FinishRun(w)
  PROVE  IInv'
<1>1. wk[w].pc = "executing" /\ UNCHANGED <<op, events, req>> /\ facts' = facts
      /\ facts \in [Ops -> Seq(FactRow)] /\ wk[w].run \in Runs
  BY DEF FinishRun, IInv, TypeOK, WorkerBound
<1>2. PICK outcome \in Outcomes :
        Return(w, outcome) /\ outcome.kind \in FailureStates \cup {"COMPLETED"}
  <2>1. CASE \E before \in {"CREATED"} \cup Stages :
               Return(w, [kind |-> "COMPLETED", run |-> wk[w].run, before |-> before,
                          snapshot |-> 0])
    BY <1>1, <2>1 DEF Outcomes
  <2>2. CASE \E kind \in FailureStates :
               Return(w, [kind |-> kind, run |-> wk[w].run, before |-> "CREATED",
                          snapshot |-> 0])
    BY <1>1, <2>2 DEF Outcomes
  <2> QED
    BY <2>1, <2>2 DEF FinishRun
<1>3. outcome.kind # "NONE" /\ outcome.kind \notin PausedStates
  BY <1>2, StatesApart DEF FailureStates
<1> QED
  BY <1>1, <1>2, <1>3, ReturnKeeps

(* A pausing attempt saves the facts of the snapshot it reports.           *)
LEMMA PauseRunKeeps ==
  ASSUME IInv, NEW w \in Workers, PauseRun(w)
  PROVE  IInv'
<1> DEFINE o == wk[w].op
<1>1. /\ wk[w].pc = "executing" /\ UNCHANGED <<op, events, req>>
      /\ facts \in [Ops -> Seq(FactRow)] /\ wk[w].run \in Runs /\ o \in Ops
      /\ Len(facts[o]) < MaxSnapshots
  BY DEF PauseRun, IInv, TypeOK, WorkerBound
<1>2. PICK p \in PausedStates, permission \in Permissions,
           before \in {"CREATED"} \cup PausedStates :
        /\ facts' = [facts EXCEPT ![o] =
             Append(@, [run |-> wk[w].run, state |-> p, permission |-> permission])]
        /\ Return(w, [kind |-> p, run |-> wk[w].run, before |-> before,
                      snapshot |-> Len(facts[o]) + 1])
  BY DEF PauseRun
<1> DEFINE row == [run |-> wk[w].run, state |-> p, permission |-> permission]
           outcome == [kind |-> p, run |-> wk[w].run, before |-> before,
                       snapshot |-> Len(facts[o]) + 1]
<1>3. row \in FactRow
  BY <1>1 DEF FactRow
<1>4. outcome \in Outcomes /\ outcome.kind # "NONE"
  BY <1>1, <1>2, StatesApart, BoundsAssumption DEF Outcomes, Snapshots
<1>5. Return(w, outcome) /\ facts' = [facts EXCEPT ![o] = Append(@, row)]
      /\ row.run = outcome.run /\ row.state = outcome.kind
      /\ outcome.snapshot = Len(facts[o]) + 1
  BY <1>2
<1> HIDE DEF o, row, outcome
<1>6. facts' \in [Ops -> Seq(FactRow)]
  BY <1>1, <1>3, <1>5
<1>7. \A x \in Ops : \A s \in DOMAIN facts[x] :
        s \in DOMAIN facts'[x] /\ facts'[x][s] = facts[x][s]
  BY <1>1, <1>3, <1>5
<1>8. facts'[o] = Append(facts[o], row) /\ outcome.snapshot \in DOMAIN facts'[o]
      /\ facts'[o][outcome.snapshot] = row
  BY <1>1, <1>3, <1>5
<1> QED
  BY <1>1, <1>4, <1>5, <1>6, <1>7, <1>8, ReturnKeeps DEF o

(* What a log holds at one of its positions is one of its rows.            *)
LEMMA EntryOfLog ==
  ASSUME NEW S, NEW log \in Seq(S), NEW i \in DOMAIN log
  PROVE  log[i] \in S
OBVIOUS

(* A resume handed back reports the snapshot its own request is for.       *)
LEMMA KeepPausedKeeps ==
  ASSUME IInv, NEW w \in Workers, KeepPaused(w)
  PROVE  IInv'
<1> DEFINE o == wk[w].op
           r == wk[w].request
           s == req[r].snapshot
           outcome == [kind |-> facts[o][s].state, run |-> wk[w].run,
                       before |-> "CREATED", snapshot |-> s]
<1>1. /\ wk[w].pc = "executing" /\ UNCHANGED <<op, events, req>> /\ facts' = facts
      /\ facts \in [Ops -> Seq(FactRow)] /\ wk[w].run \in Runs /\ o \in Ops
      /\ r \in Requests /\ req[r] \in RequestRow
      /\ req[r].state # "UNUSED" /\ req[r].op = o /\ req[r].run = wk[w].run
      /\ Return(w, outcome)
  BY DEF KeepPaused, IInv, TypeOK, WorkerBound, Process
<1>2. s \in DOMAIN facts[o] /\ facts[o][s].run = wk[w].run
  BY <1>1 DEF IInv, RequestBound
<1>3. facts[o][s] \in FactRow /\ s \in Snapshots \cup {0}
  <2>1. facts[o] \in Seq(FactRow)
    BY <1>1
  <2>2. facts[o][s] \in FactRow
    BY <1>2, <2>1, EntryOfLog
  <2>3. s \in Snapshots \cup {0}
    <3> HIDE DEF r
    <3>1. req[r] \in RequestRow
      BY <1>1
    <3> QED
      BY <3>1 DEF RequestRow
  <2> QED
    BY <2>2, <2>3
<1>4. outcome \in Outcomes /\ outcome.kind # "NONE"
  BY <1>1, <1>3, StatesApart DEF FactRow, Outcomes
<1>5. outcome.snapshot = s /\ outcome.run = wk[w].run /\ outcome.kind = facts[o][s].state
  OBVIOUS
<1> HIDE DEF outcome
<1> QED
  BY <1>1, <1>2, <1>4, <1>5, ReturnKeeps

(* Reading the clock before a completion changes nothing it relies on.     *)
LEMMA StartCompletionKeeps ==
  ASSUME IInv, NEW w \in Workers, StartCompletion(w)
  PROVE  IInv'
<1>1. /\ wk[w].pc = "reporting" /\ wk' = [wk EXCEPT ![w].pc = "completing"]
      /\ UNCHANGED <<op, events, facts, req, receipts>>
  BY DEF StartCompletion
<1>2. wk \in [Workers -> Process]
  BY DEF IInv, TypeOK
<1>3. [wk[w] EXCEPT !.pc = "completing"] \in Process
  BY <1>2 DEF Process
<1>4. TypeOK'
  BY <1>1, <1>2, <1>3 DEF IInv, TypeOK
<1>5. ASSUME NEW o \in Ops PROVE (OperationBound(o) /\ OpenRun(o) /\ LogMatches(o))'
  BY <1>1, Untouched
<1>6. ASSUME NEW r \in Requests PROVE RequestBound(r)'
  BY <1>1, UntouchedRequest
<1>7. ASSUME NEW v \in Workers PROVE WorkerBound(v)'
  <2>1. CASE v = w
    <3>1. WorkerBound(w)
      BY DEF IInv
    <3>2. /\ wk'[w].pc = "completing" /\ wk'[w].op = wk[w].op /\ wk'[w].run = wk[w].run
          /\ wk'[w].request = wk[w].request /\ wk'[w].outcome = wk[w].outcome
      BY <1>1, <1>2 DEF Process
    <3> QED
      BY <2>1, <3>1, <3>2, <1>1 DEF WorkerBound, Backed, Saved
  <2>2. CASE v # w
    BY <2>2, <1>1, <1>2, UntouchedWorker
  <2> QED
    BY <2>1, <2>2
<1> QED
  BY <1>4, <1>5, <1>6, <1>7 DEF IInv, EventLogMatches

(* A completion that is accepted finds the operation running, its log open *)
(* and a pause it reports saved.                                           *)
LEMMA Reported ==
  ASSUME IInv, NEW w \in Workers, wk[w].pc = "completing", Completable(w)
  PROVE  /\ wk[w].op \in Ops /\ op[wk[w].op].state = "RUNNING"
         /\ op[wk[w].op].run \in Runs
         /\ CurrentLog(wk[w].op) \in Seq(TaskStates) /\ CurrentLog(wk[w].op) # <<>>
         /\ ToSet(CurrentLog(wk[w].op)) \cap {"COMPLETED", "FAILED"} = {}
         /\ wk[w].outcome \in Outcomes
         /\ wk[w].outcome.kind \in {"COMPLETED"} \cup FailureStates \cup PausedStates
         /\ wk[w].outcome.kind \in PausedStates =>
              /\ wk[w].outcome.run = op[wk[w].op].run
              /\ Saved(wk[w].op, wk[w].outcome.snapshot, op[wk[w].op].run, wk[w].outcome.kind)
<1>1. WorkerBound(w) /\ wk[w] \in Process
  BY DEF IInv, TypeOK
<1>2. wk[w].op \in Ops /\ op[wk[w].op].state = "RUNNING"
  BY <1>1 DEF WorkerBound, Completable
<1>3. op[wk[w].op].run \in Runs /\ CurrentLog(wk[w].op) \in Seq(TaskStates)
  BY <1>2 DEF IInv, TypeOK, OperationBound, CurrentLog
<1>4. ToSet(CurrentLog(wk[w].op)) \cap {"COMPLETED", "FAILED"} = {}
  BY <1>2 DEF IInv, OpenRun
<1>7. CurrentLog(wk[w].op) # <<>>
  BY <1>2 DEF IInv, EventLogMatches, LogMatches
<1>5. wk[w].outcome \in Outcomes
      /\ wk[w].outcome.kind \in {"COMPLETED"} \cup FailureStates \cup PausedStates
  BY <1>1 DEF Process, Outcomes, WorkerBound
<1>6. wk[w].outcome.kind \in PausedStates =>
        wk[w].outcome.run = op[wk[w].op].run /\ Backed(wk[w].op, wk[w].outcome)
  BY <1>1, StatesApart DEF Completable, WorkerBound
<1> QED
  BY <1>2, <1>3, <1>4, <1>5, <1>6, <1>7 DEF Backed

(* The log a completion leaves ends by showing the outcome; it is open     *)
(* again only after a pause.                                               *)
LEMMA OutcomeShown ==
  ASSUME IInv, NEW w \in Workers, wk[w].pc = "completing", Completable(w), Persistable(w)
  PROVE  LET log == OutcomeLog(wk[w].op, wk[w].outcome)
             kind == wk[w].outcome.kind
         IN /\ log \in Seq(TaskStates) /\ log # <<>> /\ Last(log) = ShownAs(kind)
            /\ kind \in PausedStates => ToSet(log) \cap {"COMPLETED", "FAILED"} = {}
<1> DEFINE outcome == wk[w].outcome
           old == CurrentLog(wk[w].op)
           log == OutcomeLog(wk[w].op, outcome)
<1>1. old \in Seq(TaskStates) /\ old # <<>> /\ ToSet(old) \cap {"COMPLETED", "FAILED"} = {}
      /\ outcome.kind \in {"COMPLETED"} \cup FailureStates \cup PausedStates
      /\ outcome.before \in {"CREATED"} \cup Stages \cup PausedStates
  BY Reported DEF Outcomes
<1>2. outcome.before \in TaskStates /\ outcome.before \notin {"COMPLETED", "FAILED"}
      /\ "FAILED" \in TaskStates
  BY <1>1, StatesApart, ValuesTyped DEF RuntimeStates
<1>3. CASE outcome.kind = "COMPLETED"
  <2>1. log = ResultLog(old, outcome.before)
    BY <1>3 DEF OutcomeLog, FailureStates
  <2> HIDE DEF log, old, outcome
  <2>2. log \in Seq(TaskStates) /\ log # <<>> /\ Last(log) = "COMPLETED"
    BY <1>1, <1>2, <2>1, ResultCloses
  <2> QED
    BY <1>3, <2>2, StatesApart, ShownStates DEF log, outcome
<1>4. CASE outcome.kind \in FailureStates
  <2>1. log = Append(old, "FAILED")
    BY <1>4 DEF OutcomeLog, FailureStates
  <2> HIDE DEF log, old, outcome
  <2>2. log \in Seq(TaskStates) /\ log # <<>> /\ Last(log) = "FAILED"
    BY <1>1, <1>2, <2>1, Appended
  <2> QED
    BY <1>4, <2>2, StatesApart, ShownStates DEF log, outcome
<1>5. CASE outcome.kind \in PausedStates
  <2>1. log = PauseLog(old, outcome.before, outcome.kind)
    BY <1>5, StatesApart DEF OutcomeLog
  <2>2. Last(log) = outcome.kind
    BY <1>5 DEF Persistable
  <2> HIDE DEF log, old, outcome
  <2>4. log \in Seq(TaskStates) /\ log # <<>>
        /\ ToSet(log) \subseteq ToSet(old) \cup {outcome.before, outcome.kind}
    BY <1>1, <1>5, <2>1, PauseKeepsOpen
  <2>5. ToSet(log) \cap {"COMPLETED", "FAILED"} = {}
    BY <1>1, <1>2, <1>5, <2>4, StatesApart
  <2> QED
    BY <1>5, <2>2, <2>4, <2>5, ShownStates DEF log, outcome
<1> QED
  BY <1>1, <1>3, <1>4, <1>5

(* A completion: the pause it stores is saved, its log shows the outcome,  *)
(* and the request it answers stays bound.                                 *)
LEMMA CommitKeeps ==
  ASSUME IInv, NEW w \in Workers, Commit(w)
  PROVE  IInv'
<1> DEFINE o == wk[w].op
           r == wk[w].request
           outcome == wk[w].outcome
           log == OutcomeLog(o, outcome)
           paused == IF outcome.kind \in PausedStates
                       THEN [state |-> outcome.kind, run |-> outcome.run,
                             snapshot |-> outcome.snapshot]
                       ELSE NoPause
           answer == IF outcome.kind \in {"COMPLETED", "PARTIAL"}
                       THEN "COMPLETED" ELSE "FAILED"
<1>1. /\ op \in [Ops -> OpRow] /\ req \in [Requests -> RequestRow]
      /\ wk \in [Workers -> Process] /\ events \in [Ops -> [Runs -> Seq(TaskStates)]]
  BY DEF IInv, TypeOK
<1>2. /\ wk[w].pc = "completing" /\ Completable(w) /\ Persistable(w)
      /\ op' = [op EXCEPT ![o] = [@ EXCEPT !.state = outcome.kind, !.worker = None,
                                           !.lease = NoLease, !.paused = paused]]
      /\ events' = [events EXCEPT ![o][op[o].run] = log]
      /\ req' = IF r = None THEN req
                ELSE [req EXCEPT ![r] = [@ EXCEPT !.state = answer, !.worker = None,
                                                  !.lease = NoLease]]
      /\ wk' = [wk EXCEPT ![w] = Idle] /\ facts' = facts /\ receipts' = receipts
  BY DEF Commit
<1>3. /\ o \in Ops /\ op[o].run \in Runs /\ outcome \in Outcomes
      /\ outcome.kind \in {"COMPLETED"} \cup FailureStates \cup PausedStates
      /\ outcome.kind \in PausedStates =>
           outcome.run = op[o].run /\ Saved(o, outcome.snapshot, op[o].run, outcome.kind)
  BY <1>2, Reported
<1>4. /\ log \in Seq(TaskStates) /\ log # <<>> /\ Last(log) = ShownAs(outcome.kind)
      /\ outcome.kind \in PausedStates => ToSet(log) \cap {"COMPLETED", "FAILED"} = {}
  BY <1>2, OutcomeShown
<1>5. r # None => r \in Requests /\ req[r].state # "UNUSED"
  BY <1>1, <1>2 DEF IInv, WorkerBound, Process
<1>6. paused \in PauseRow
  BY <1>3, ValuesTyped DEF PauseRow, Outcomes
<1>7. answer \in {"COMPLETED", "FAILED"}
  OBVIOUS
<1>8. /\ paused.state # "NONE" => outcome.kind \in PausedStates
      /\ outcome.kind \in PausedStates =>
           paused.state = outcome.kind /\ paused.run = outcome.run
           /\ paused.snapshot = outcome.snapshot
  BY DEF NoPause
<1> HIDE DEF o, r, outcome, log, paused, answer
<1>9. TypeOK'
  <2>1. op' \in [Ops -> OpRow]
    BY <1>1, <1>2, <1>3, <1>6, ValuesTyped, OpRowUpdate
  <2>2. req' \in [Requests -> RequestRow]
    BY <1>1, <1>2, <1>5, <1>7, ValuesTyped, RequestRowUpdate
  <2>3. wk' \in [Workers -> Process] /\ events' \in [Ops -> [Runs -> Seq(TaskStates)]]
    BY <1>1, <1>2, <1>3, <1>4, ValuesTyped
  <2> QED
    BY <1>2, <2>1, <2>2, <2>3 DEF IInv, TypeOK
<1>10. ASSUME NEW x \in Ops PROVE (OperationBound(x) /\ OpenRun(x) /\ LogMatches(x))'
  <2>1. CASE x = o
    <3>1. op'[x].state = outcome.kind /\ op'[x].run = op[x].run /\ op'[x].paused = paused
          /\ events'[x][op[x].run] = log
      BY <2>1, <1>1, <1>2, <1>3 DEF OpRow
    <3>2. OperationBound(x)'
      BY <2>1, <3>1, <1>2, <1>3, <1>8, StatesApart DEF OperationBound, Saved
    <3>3. OpenRun(x)'
      BY <3>1, <1>3, <1>4, StatesApart DEF OpenRun, CurrentLog, FailureStates
    <3>4. LogMatches(x)'
      BY <3>1, <1>4 DEF LogMatches, CurrentLog
    <3> QED
      BY <3>2, <3>3, <3>4
  <2>2. CASE x # o
    BY <2>2, <1>1, <1>2, Untouched
  <2> QED
    BY <2>1, <2>2
<1>11. ASSUME NEW q \in Requests
       PROVE  RequestBound(q)' /\ (req[q].state # "UNUSED" =>
                req'[q].state # "UNUSED" /\ req'[q].op = req[q].op /\ req'[q].run = req[q].run)
  <2>1. CASE q = r /\ r # None
    <3>1. RequestBound(q)
      BY DEF IInv
    <3>2. req'[q].state = answer /\ req'[q].op = req[q].op /\ req'[q].run = req[q].run
          /\ req'[q].snapshot = req[q].snapshot
      BY <2>1, <1>1, <1>2 DEF RequestRow
    <3> QED
      BY <2>1, <3>1, <3>2, <1>2, <1>5, <1>7 DEF RequestBound
  <2>2. CASE ~(q = r /\ r # None)
    <3>1. req'[q] = req[q]
      BY <2>2, <1>1, <1>2
    <3> QED
      BY <3>1, <1>2, UntouchedRequest
  <2> QED
    BY <2>1, <2>2
<1>12. ASSUME NEW v \in Workers PROVE WorkerBound(v)'
  <2>1. CASE v = w
    <3>1. WorkerBound(w)
      BY DEF IInv
    <3>2. wk'[w].pc = "idle"
      BY <1>1, <1>2 DEF Idle
    <3> QED
      BY <2>1, <3>1, <3>2, <1>2 DEF WorkerBound, Backed, Saved
  <2>2. CASE v # w
    BY <2>2, <1>1, <1>2, <1>11, UntouchedWorker
  <2> QED
    BY <2>1, <2>2
<1> QED
  BY <1>9, <1>10, <1>11, <1>12 DEF IInv, EventLogMatches

(* A worker that ends its attempt without a write, keeping or losing its   *)
(* receipts, disturbs only its own part.                                   *)
LEMMA LeavingKeeps ==
  ASSUME IInv, NEW w \in Workers, UNCHANGED <<op, events, facts, req>>,
         wk' = [wk EXCEPT ![w] = Idle],
         receipts' \in {receipts, [receipts EXCEPT ![w] = [o \in Ops |-> NoOutcome]]}
  PROVE  IInv'
<1>1. wk \in [Workers -> Process] /\ receipts \in [Workers -> [Ops -> Outcomes]]
  BY DEF IInv, TypeOK
<1>2. TypeOK'
  <2>1. wk' \in [Workers -> Process]
    BY <1>1, ValuesTyped
  <2>2. receipts' \in [Workers -> [Ops -> Outcomes]]
    <3>1. [o \in Ops |-> NoOutcome] \in [Ops -> Outcomes]
      BY ValuesTyped
    <3> QED
      BY <1>1, <3>1
  <2> QED
    BY <2>1, <2>2 DEF IInv, TypeOK
<1>3. ASSUME NEW o \in Ops PROVE (OperationBound(o) /\ OpenRun(o) /\ LogMatches(o))'
  BY Untouched
<1>4. ASSUME NEW r \in Requests PROVE RequestBound(r)'
  BY UntouchedRequest
<1>5. ASSUME NEW v \in Workers PROVE WorkerBound(v)'
  <2>1. CASE v = w
    <3>1. WorkerBound(w)
      BY DEF IInv
    <3>2. wk'[w].pc = "idle"
      BY <1>1 DEF Idle
    <3>3. \A o \in Ops : receipts'[w][o] \in {receipts[w][o], NoOutcome}
      BY <1>1
    <3> QED
      BY <2>1, <3>1, <3>2, <3>3 DEF WorkerBound, Backed, Saved
  <2>2. CASE v # w
    BY <2>2, <1>1, UntouchedWorker
  <2> QED
    BY <2>1, <2>2
<1> QED
  BY <1>2, <1>3, <1>4, <1>5 DEF IInv, EventLogMatches

(* Steps that write nothing keep the invariant. *)
LEMMA StutterKeeps ==
  ASSUME IInv, UNCHANGED vars
  PROVE  IInv'
<1> USE DEF vars
<1>1. TypeOK'
  BY DEF IInv, TypeOK
<1>2. ASSUME NEW o \in Ops PROVE (OperationBound(o) /\ OpenRun(o) /\ LogMatches(o))'
  BY Untouched
<1>3. ASSUME NEW r \in Requests PROVE RequestBound(r)'
  BY UntouchedRequest
<1>4. ASSUME NEW w \in Workers PROVE WorkerBound(w)'
  BY UntouchedWorker
<1> QED
  BY <1>1, <1>2, <1>3, <1>4 DEF IInv, EventLogMatches

(* Every step of the system keeps the invariant. *)
LEMMA NextKeeps == IInv /\ [Next]_vars => IInv'
<1> SUFFICES ASSUME IInv, [Next]_vars PROVE IInv'
  OBVIOUS
<1>1. ASSUME NEW o \in Ops, Submit(o) PROVE IInv'
  BY <1>1, SubmitKeeps
<1>2. ASSUME NEW o \in Ops, Cancel(o) PROVE IInv'
  BY <1>2, CancelKeeps
<1>3. ASSUME NEW r \in Requests, NEW o \in Ops, RequestResume(r, o) PROVE IInv'
  BY <1>3, RequestResumeKeeps
<1>4. CASE Tick
  BY <1>4, TickKeeps
<1>5. ASSUME NEW w \in Workers, WorkerStep(w) PROVE IInv'
  <2>1. ASSUME NEW o \in Ops, ClaimNext(w, o) PROVE IInv'
    BY <2>1, ClaimNextKeeps
  <2>2. ASSUME NEW r \in Requests, RejectControl(w, r) PROVE IInv'
    BY <2>2, RejectControlKeeps
  <2>3. ASSUME NEW r \in Requests, DenyControl(w, r) PROVE IInv'
    BY <2>3, DenyControlKeeps
  <2>4. ASSUME NEW r \in Requests, ClaimControl(w, r) PROVE IInv'
    BY <2>4, ClaimControlKeeps
  <2>5. CASE ReplayReceipt(w)
    BY <2>5, ReplayReceiptKeeps
  <2>6. CASE FinishRun(w)
    BY <2>6, FinishRunKeeps
  <2>7. CASE PauseRun(w)
    BY <2>7, PauseRunKeeps
  <2>8. CASE KeepPaused(w)
    BY <2>8, KeepPausedKeeps
  <2>9. CASE Commit(w)
    BY <2>9, CommitKeeps
  <2>10. CASE NotCompletable(w)
    BY <2>10, LeavingKeeps DEF NotCompletable
  <2>11. CASE Crash(w)
    BY <2>11, LeavingKeeps DEF Crash, Restart
  <2>12. CASE StartCompletion(w)
    BY <2>12, StartCompletionKeeps
  <2> QED
    BY <1>5, <2>1, <2>2, <2>3, <2>4, <2>5, <2>6, <2>7, <2>8, <2>9, <2>10, <2>11, <2>12
    DEF WorkerStep
<1>6. CASE UNCHANGED vars
  BY <1>6, StutterKeeps
<1> QED
  BY <1>1, <1>2, <1>3, <1>4, <1>5, <1>6 DEF Next

-----------------------------------------------------------------------------
(* The invariant holds of every behaviour of the persistence layer and its *)
(* workers: what claims, pauses, resumes and completions rely on.          *)
THEOREM InductiveInvariant == Spec => []IInv
BY InitEstablishes, NextKeeps, PTL DEF Spec

(* Every stored row and every process keeps its type. *)
THEOREM TypeCorrect == Spec => []TypeOK
<1>1. IInv => TypeOK
  BY DEF IInv
<1> QED
  BY <1>1, InductiveInvariant, PTL

(* The last event of an operation's current run always tells its state:    *)
(* the event log and agent_run_operations cannot be read apart.            *)
THEOREM LogMatchesState == Spec => []EventLogMatches
<1>1. IInv => EventLogMatches
  BY DEF IInv
<1> QED
  BY <1>1, InductiveInvariant, PTL

(* A paused operation always offers recovery facts saved for this run in   *)
(* this state: what requestRuntimeResume shows the user exists.            *)
THEOREM PauseIsSaved == Spec => []PausedOnSavedSnapshot
<1>1. IInv => PausedOnSavedSnapshot
  <2> SUFFICES ASSUME IInv, NEW o \in Ops, op[o].state \in PausedStates
               PROVE  /\ op[o].paused.state = op[o].state
                      /\ op[o].paused.run = op[o].run
                      /\ Saved(o, op[o].paused.snapshot, op[o].run, op[o].state)
    BY DEF PausedOnSavedSnapshot, Saved
  <2>1. OperationBound(o)
    BY DEF IInv
  <2> QED
    BY <2>1, StatesApart DEF OperationBound
<1> QED
  BY <1>1, InductiveInvariant, PTL

(* The operation every step writes, if any, is not in a final state: each  *)
(* handler's guard refuses COMPLETED, FAILED_FINAL and CANCELLED rows.     *)
LEMMA FinalUntouched ==
  ASSUME IInv, [Next]_vars, NEW o \in Ops, op[o].state \in FinalStates
  PROVE  op'[o].state = op[o].state /\ events'[o] = events[o]
<1>1. op \in [Ops -> OpRow] /\ events \in [Ops -> [Runs -> Seq(TaskStates)]]
  BY DEF IInv, TypeOK
<1>2. op[o].state \notin {"ABSENT", "ACCEPTED", "RUNNING", "FAILED_RETRYABLE"} \cup PausedStates
  BY StatesApart DEF FinalStates
<1>3. ASSUME NEW x \in Ops, Submit(x) \/ Cancel(x)
      PROVE  op'[o].state = op[o].state /\ events'[o] = events[o]
  BY <1>1, <1>2, <1>3 DEF Submit, Cancel, AppendEvent
<1>4. ASSUME NEW r \in Requests, NEW x \in Ops, RequestResume(r, x)
      PROVE  op'[o].state = op[o].state /\ events'[o] = events[o]
  BY <1>4 DEF RequestResume
<1>5. CASE Tick
  <2>1. op'[o] = [op[o] EXCEPT !.lease = Elapse(@)] /\ events' = events
    BY <1>5 DEF Tick
  <2>2. op[o] \in OpRow
    BY <1>1
  <2> QED
    BY <2>1, <2>2 DEF OpRow
<1>6. ASSUME NEW w \in Workers, WorkerStep(w)
      PROVE  op'[o].state = op[o].state /\ events'[o] = events[o]
  <2>1. ASSUME NEW x \in Ops, ClaimNext(w, x)
        PROVE  op'[o].state = op[o].state /\ events'[o] = events[o]
    <3>1. x # o
      BY <2>1, <1>2 DEF ClaimNext, Claimable
    <3> QED
      BY <2>1, <3>1, <1>1 DEF ClaimNext
  <2>2. ASSUME NEW r \in Requests, RejectControl(w, r)
        PROVE  op'[o].state = op[o].state /\ events'[o] = events[o]
    BY <2>2 DEF RejectControl
  <2>3. ASSUME NEW r \in Requests, DenyControl(w, r)
        PROVE  op'[o].state = op[o].state /\ events'[o] = events[o]
    <3>1. req[r].op # o
      BY <2>3, <1>2 DEF DenyControl, Consistent
    <3> QED
      BY <2>3, <3>1, <1>1 DEF DenyControl, AppendEvent
  <2>4. ASSUME NEW r \in Requests, ClaimControl(w, r)
        PROVE  op'[o].state = op[o].state /\ events'[o] = events[o]
    <3>1. req[r].op # o
      BY <2>4, <1>2 DEF ClaimControl, Consistent
    <3> QED
      BY <2>4, <3>1, <1>1 DEF ClaimControl, AppendEvent
  <2>5. CASE Commit(w)
    <3>1. wk[w].op # o
      BY <2>5, <1>2 DEF Commit, Completable
    <3>2. /\ op'[o] = op[o]
          /\ events' = [events EXCEPT ![wk[w].op][op[wk[w].op].run]
                          = OutcomeLog(wk[w].op, wk[w].outcome)]
      BY <2>5, <3>1, <1>1 DEF Commit
    <3> QED
      BY <3>1, <3>2, <1>1
  <2>6. CASE \/ ReplayReceipt(w) \/ FinishRun(w) \/ PauseRun(w) \/ KeepPaused(w)
             \/ StartCompletion(w) \/ NotCompletable(w) \/ Crash(w)
    BY <2>6 DEF StartCompletion, ReplayReceipt, FinishRun, PauseRun, KeepPaused, NotCompletable,
       Crash
  <2> QED
    BY <1>6, <2>1, <2>2, <2>3, <2>4, <2>5, <2>6 DEF WorkerStep
<1>7. CASE UNCHANGED vars
  BY <1>7 DEF vars
<1> QED
  BY <1>3, <1>4, <1>5, <1>6, <1>7 DEF Next

(* No late report, resume, cancel or claim reopens a completed, finally    *)
(* failed or cancelled operation, or adds an event to it.                  *)
THEOREM FinalStaysFinal == Spec => TerminalIsFinal
<1>1. IInv /\ [Next]_vars =>
        [\A o \in Ops : op[o].state \in FinalStates =>
           op'[o].state = op[o].state /\ events'[o] = events[o]]_vars
  BY FinalUntouched
<1> QED
  BY <1>1, InductiveInvariant, PTL DEF Spec, TerminalIsFinal

-----------------------------------------------------------------------------
(* What a step shows to a reader of the status and the logs.               *)

(* Operation o is shown in state s and run n, whose log is now log; nothing *)
(* else a reader sees moves.                                               *)
Shows(o, s, n, log) ==
  /\ \A x \in Ops : op'[x].state = IF x = o THEN s ELSE op[x].state
  /\ \A x \in Ops : op'[x].run = IF x = o THEN n ELSE op[x].run
  /\ events' = [events EXCEPT ![o][n] = log]

(* The current run goes on, with one more event. *)
ShowsNext(o, s, e) == Shows(o, s, op[o].run, Append(CurrentLog(o), e))

ShowsNothing ==
  /\ \A x \in Ops : op'[x].state = op[x].state /\ op'[x].run = op[x].run
  /\ events' = events

Accepted(o) ==
  op[o].state = "ABSENT" /\ Shows(o, "ACCEPTED", 1, <<"CREATED">>)

Started(o) ==
  op[o].state \in {"ACCEPTED"} \cup PausedStates /\ ShowsNext(o, "RUNNING", "UNDERSTANDING")

Retried(o) ==
  /\ op[o].state = "FAILED_RETRYABLE" /\ op[o].run + 1 \in Runs
  /\ Shows(o, "RUNNING", op[o].run + 1, <<"CREATED", "UNDERSTANDING">>)

(* A completion reports at most one outcome, and reports it last. *)
Concluded(o) ==
  /\ op[o].state = "RUNNING"
  /\ \E s \in {"COMPLETED"} \cup FailureStates \cup PausedStates, log \in Seq(TaskStates) :
       /\ Shows(o, s, op[o].run, log)
       /\ IsStrictPrefix(CurrentLog(o), log)
       /\ log # <<>> /\ Last(log) = ShownAs(s)
       /\ OutcomeEvents(log) \subseteq {Len(log)}

Reminded(o) ==
  op[o].state \in PausedStates /\ ShowsNext(o, op[o].state, op[o].state)

Revoked(o) ==
  op[o].state \notin FinalStates \cup {"ABSENT"} /\ ShowsNext(o, "CANCELLED", "CANCELLED")

(* A longer log continues the shorter one. *)
LEMMA LongerContinues ==
  ASSUME NEW log \in Seq(TaskStates), NEW more \in Seq(TaskStates), more # <<>>
  PROVE  IsStrictPrefix(log, log \o more)
<1> DEFINE new == log \o more
<1>1. new \in Seq(TaskStates) /\ Len(new) = Len(log) + Len(more) /\ Len(more) > 0
  OBVIOUS
<1>2. \A i \in 1..Len(log) : new[i] = log[i]
  OBVIOUS
<1> HIDE DEF new
<1>3. SubSeq(log, 1, Len(log)) = SubSeq(new, 1, Len(log))
  BY <1>1, <1>2
<1>4. log # new
  BY <1>1
<1> QED
  BY <1>1, <1>3, <1>4 DEF IsStrictPrefix, IsPrefix, new

(* One event more continues a history. *)
LEMMA OneMoreContinues ==
  ASSUME NEW log \in Seq(TaskStates), NEW e \in TaskStates
  PROVE  IsStrictPrefix(log, Append(log, e))
<1>1. Append(log, e) = log \o <<e>> /\ <<e>> \in Seq(TaskStates) /\ <<e>> # <<>>
  OBVIOUS
<1> QED
  BY <1>1, LongerContinues

(* The outcomes a log reports, when none was or the last event may be one. *)
LEMMA OutcomesOfOpenLog ==
  ASSUME NEW log \in Seq(TaskStates), ToSet(log) \cap {"COMPLETED", "FAILED"} = {}
  PROVE  OutcomeEvents(log) = {}
BY DEF OutcomeEvents, ToSet

(* Of a history whose last event is its first outcome, that event is the    *)
(* only outcome.                                                           *)
LEMMA OutcomesOfClosedLog ==
  ASSUME NEW log \in Seq(TaskStates), NEW e \in TaskStates,
         ToSet(log) \cap {"COMPLETED", "FAILED"} = {}
  PROVE  OutcomeEvents(Append(log, e)) \subseteq {Len(Append(log, e))}
<1>1. /\ DOMAIN Append(log, e) = DOMAIN log \cup {Len(log) + 1}
      /\ Len(Append(log, e)) = Len(log) + 1
      /\ \A i \in DOMAIN log : Append(log, e)[i] = log[i]
  OBVIOUS
<1>2. \A i \in DOMAIN log : log[i] \notin {"COMPLETED", "FAILED"}
  BY DEF ToSet
<1> QED
  BY <1>1, <1>2 DEF OutcomeEvents

(* complete: the log grows, and only its last event may report an outcome. *)
LEMMA OutcomeContinues ==
  ASSUME IInv, NEW w \in Workers, wk[w].pc = "completing", Completable(w), Persistable(w)
  PROVE  LET log == OutcomeLog(wk[w].op, wk[w].outcome)
         IN /\ IsStrictPrefix(CurrentLog(wk[w].op), log)
            /\ OutcomeEvents(log) \subseteq {Len(log)}
<1> DEFINE o == wk[w].op
           outcome == wk[w].outcome
           old == CurrentLog(o)
           log == OutcomeLog(o, outcome)
           mid == old \o Unseen(old, outcome.before)
<1>1. /\ old \in Seq(TaskStates) /\ old # <<>> /\ ToSet(old) \cap {"COMPLETED", "FAILED"} = {}
      /\ outcome.kind \in {"COMPLETED"} \cup FailureStates \cup PausedStates
      /\ outcome.before \in {"CREATED"} \cup Stages \cup PausedStates
      /\ o \in Ops /\ op[o].state = "RUNNING"
  BY Reported DEF Outcomes
<1>2. /\ outcome.before \in TaskStates /\ outcome.before \notin {"COMPLETED", "FAILED"}
      /\ "FAILED" \in TaskStates /\ "COMPLETED" \in TaskStates
  BY <1>1, StatesApart, ValuesTyped DEF RuntimeStates
<1>3. mid \in Seq(TaskStates) /\ ToSet(mid) \subseteq ToSet(old) \cup {outcome.before}
  BY <1>1, <1>2, AddedUnseen
<1>4. Last(old) = "UNDERSTANDING"
  BY <1>1, ShownStates DEF IInv, EventLogMatches, LogMatches
<1>5. /\ log \in Seq(TaskStates)
      /\ outcome.kind \in PausedStates => ToSet(log) \cap {"COMPLETED", "FAILED"} = {}
  BY OutcomeShown
<1>6. Persistable(w) /\ (outcome.kind \in PausedStates => Last(log) = outcome.kind)
  BY DEF Persistable
<1> HIDE DEF o, outcome, old
<1>7. CASE outcome.kind = "COMPLETED"
  <2>1. log = ResultLog(old, outcome.before)
    BY <1>7 DEF OutcomeLog, FailureStates, old
  <2>2. log = IF ToSet(old) \cap PausedStates = {} THEN Append(mid, "COMPLETED")
              ELSE Append(old, "COMPLETED")
    <3>1. CASE ToSet(old) \cap PausedStates = {}
      <4>1. log = mid \o Unseen(old, "COMPLETED")
        BY <2>1, <3>1 DEF ResultLog
      <4>2. "COMPLETED" \notin ToSet(old)
        BY <1>1
      <4> HIDE DEF log, mid
      <4> QED
        BY <3>1, <4>1, <4>2, <1>2, <1>3, AddedUnseen
    <3>2. CASE ToSet(old) \cap PausedStates # {}
      <4>1. log = old \o Unseen(old, "COMPLETED")
        BY <2>1, <3>2 DEF ResultLog
      <4> HIDE DEF log, mid
      <4> QED
        BY <3>2, <4>1, <1>1, <1>2, AddedUnseen
    <3> QED
      BY <3>1, <3>2
  <2>3. ToSet(mid) \cap {"COMPLETED", "FAILED"} = {}
    BY <1>1, <1>2, <1>3
  <2>4. OutcomeEvents(log) \subseteq {Len(log)}
    <3> HIDE DEF log, mid
    <3> QED
      BY <1>1, <1>2, <1>3, <2>2, <2>3, OutcomesOfClosedLog
  <2>5. IsStrictPrefix(old, log)
    <3>1. CASE log = Append(old, "COMPLETED")
      BY <3>1, <1>1, <1>2, OneMoreContinues
    <3>2. CASE log = Append(mid, "COMPLETED")
      <4>1. /\ Unseen(old, outcome.before) \o <<"COMPLETED">> \in Seq(TaskStates)
            /\ Unseen(old, outcome.before) \o <<"COMPLETED">> # <<>>
            /\ Append(mid, "COMPLETED") = old \o (Unseen(old, outcome.before) \o <<"COMPLETED">>)
        BY <1>1, <1>2 DEF Unseen
      <4> HIDE DEF log, mid
      <4> QED
        BY <3>2, <4>1, <1>1, LongerContinues
    <3> QED
      BY <2>2, <3>1, <3>2
  <2> QED
    BY <2>4, <2>5 DEF o, outcome, old
<1>8. CASE outcome.kind \in FailureStates
  <2>1. log = Append(old, "FAILED")
    BY <1>8 DEF OutcomeLog, FailureStates, old
  <2> HIDE DEF log
  <2>2. OutcomeEvents(log) \subseteq {Len(log)} /\ IsStrictPrefix(old, log)
    BY <1>1, <1>2, <2>1, OutcomesOfClosedLog, OneMoreContinues
  <2> QED
    BY <2>2 DEF o, outcome, old, log
<1>9. CASE outcome.kind \in PausedStates
  <2> DEFINE p == outcome.kind
             fresh == Unseen(old, outcome.before) \o Unseen(old, p)
  <2>1. log = IF fresh = <<>> /\ Last(old) # p THEN Append(old, p) ELSE old \o fresh
    BY <1>9, StatesApart DEF OutcomeLog, old, PauseLog
  <2>2. Last(old) # p
    BY <1>4, <1>9, StatesApart
  <2>3. fresh \in Seq(TaskStates) /\ p \in TaskStates
    BY <1>2, <1>9, ValuesTyped DEF Unseen
  <2> HIDE DEF log, fresh, p
  <2>4. OutcomeEvents(log) \subseteq {Len(log)}
    BY <1>5, <1>9, OutcomesOfOpenLog
  <2>5. IsStrictPrefix(old, log)
    BY <2>1, <2>2, <2>3, <1>1, OneMoreContinues, LongerContinues
  <2> QED
    BY <2>4, <2>5 DEF o, outcome, old, log
<1> QED
  BY <1>1, <1>7, <1>8, <1>9

(* The log a retry starts with. *)
LEMMA FreshLog == Append(<<"CREATED">>, "UNDERSTANDING") = <<"CREATED", "UNDERSTANDING">>
<1> DEFINE appended == Append(<<"CREATED">>, "UNDERSTANDING")
           both == <<"CREATED", "UNDERSTANDING">>
<1>1. "CREATED" \in TaskStates /\ "UNDERSTANDING" \in TaskStates
  BY ValuesTyped DEF RuntimeStates
<1>2. both \in Seq(TaskStates) /\ <<"CREATED">> \in Seq(TaskStates)
  BY <1>1
<1>3. appended \in Seq(TaskStates)
  BY <1>1, <1>2, Appended
<1>4. /\ Len(appended) = 2 /\ appended[1] = "CREATED" /\ appended[2] = "UNDERSTANDING"
      /\ Len(both) = 2 /\ both[1] = "CREATED" /\ both[2] = "UNDERSTANDING"
  OBVIOUS
<1> HIDE DEF appended, both
<1>5. appended = both
  BY <1>2, <1>3, <1>4
<1> QED
  BY <1>5 DEF appended, both

(* Every step shows one operation's move, or nothing: claims, denials and  *)
(* completions write the status and the log together, a reclaim of a       *)
(* running operation and everything a process does for itself shows nothing. *)
LEMMA StepShown ==
  ASSUME IInv, [Next]_vars
  PROVE  \/ ShowsNothing
         \/ \E o \in Ops : \/ Accepted(o) \/ Started(o) \/ Retried(o)
                           \/ Concluded(o) \/ Reminded(o) \/ Revoked(o)
<1> DEFINE Shown == \/ ShowsNothing
                    \/ \E o \in Ops : \/ Accepted(o) \/ Started(o) \/ Retried(o)
                                      \/ Concluded(o) \/ Reminded(o) \/ Revoked(o)
<1>1. op \in [Ops -> OpRow] /\ events \in [Ops -> [Runs -> Seq(TaskStates)]]
  BY DEF IInv, TypeOK
<1>2. ASSUME UNCHANGED <<op, events>> PROVE Shown
  BY <1>2 DEF ShowsNothing
<1>3. ASSUME NEW o \in Ops, Submit(o) PROVE Shown
  <2>1. Accepted(o)
    BY <1>3, <1>1 DEF Submit, Accepted, Shows, OpRow
  <2> QED
    BY <2>1
<1>4. ASSUME NEW o \in Ops, Cancel(o) PROVE Shown
  <2>1. Revoked(o)
    BY <1>4, <1>1 DEF Cancel, AppendEvent, Revoked, ShowsNext, Shows, CurrentLog, OpRow
  <2> QED
    BY <2>1
<1>5. ASSUME Tick PROVE Shown
  BY <1>5, <1>1 DEF Tick, ShowsNothing, OpRow
<1>6. ASSUME NEW w \in Workers, NEW o \in Ops, ClaimNext(w, o) PROVE Shown
  <2>1. PICK left \in Remaining :
          op' = [op EXCEPT ![o] = [@ EXCEPT !.state = "RUNNING", !.run = ClaimedRun(o),
                                            !.worker = w, !.lease = left]]
    BY Zenon, <1>6 DEF ClaimNext
  <2>2. /\ ClaimedRun(o) \in Runs /\ Claimable(o)
        /\ events' = [events EXCEPT ![o][ClaimedRun(o)] = ClaimedLog(o)]
    BY <1>6 DEF ClaimNext
  <2>3. Shows(o, "RUNNING", ClaimedRun(o), ClaimedLog(o))
    BY <1>1, <2>1, <2>2 DEF Shows, OpRow
  <2>4. op[o].run \in Runs /\ CurrentLog(o) \in Seq(TaskStates) /\ OperationBound(o) /\ LogMatches(o)
    <3>1. op[o].run \in Runs
      BY <2>2, ClaimedLogOpen
    <3>2. CurrentLog(o) \in Seq(TaskStates)
      BY <1>1, <3>1 DEF CurrentLog
    <3>3. OperationBound(o) /\ LogMatches(o)
      BY DEF IInv, EventLogMatches
    <3> QED
      BY <3>1, <3>2, <3>3
  <2>5. CASE op[o].state = "FAILED_RETRYABLE"
    <3>1. ClaimedRun(o) = op[o].run + 1 /\ ClaimedLog(o) = <<"CREATED", "UNDERSTANDING">>
      <4>1. Last(<<"CREATED">>) = "CREATED"
        BY DEF Last
      <4>2. ClaimedLog(o) = Append(<<"CREATED">>, "UNDERSTANDING")
        BY <2>5, <4>1 DEF ClaimedLog
      <4> QED
        BY <2>5, <4>2, FreshLog DEF ClaimedRun
    <3>2. Retried(o)
      BY <2>2, <2>3, <2>5, <3>1 DEF Retried
    <3> QED
      BY <3>2
  <2>6. CASE op[o].state = "ACCEPTED"
    <3>1. Last(CurrentLog(o)) = "CREATED"
      BY <2>4, <2>6, ShownStates DEF LogMatches
    <3>2. ClaimedRun(o) = op[o].run /\ ClaimedLog(o) = Append(CurrentLog(o), "UNDERSTANDING")
      BY <2>6, <3>1 DEF ClaimedRun, ClaimedLog
    <3>3. Started(o)
      BY <2>3, <2>6, <3>2 DEF Started, ShowsNext
    <3> QED
      BY <3>3
  <2>7. CASE op[o].state = "RUNNING"
    <3>1. Last(CurrentLog(o)) = "UNDERSTANDING"
      BY <2>4, <2>7, ShownStates DEF LogMatches
    <3>2. ClaimedRun(o) = op[o].run /\ ClaimedLog(o) = CurrentLog(o)
      BY <2>7, <3>1 DEF ClaimedRun, ClaimedLog
    <3>3. events' = events
      BY <1>1, <2>2, <2>4, <3>2 DEF CurrentLog
    <3>4. ShowsNothing
      BY <2>3, <2>7, <3>2, <3>3 DEF ShowsNothing, Shows
    <3> QED
      BY <3>4
  <2> QED
    BY <2>2, <2>5, <2>6, <2>7 DEF Claimable
<1>7. ASSUME NEW w \in Workers, NEW r \in Requests, DenyControl(w, r) PROVE Shown
  <2> DEFINE o == req[r].op
  <2>1. /\ o \in Ops /\ op[o].run \in Runs /\ op[o].state \in PausedStates
        /\ facts[o][req[r].snapshot].state = op[o].state
    BY <1>7, ConsistentRequest DEF DenyControl, ClaimableRequest
  <2>2. CASE Permission(r) = "MANUAL_VERIFICATION_REQUIRED"
    <3>1. op' = op /\ AppendEvent(o, op[o].state)
      BY <1>7, <2>1, <2>2 DEF DenyControl
    <3> HIDE DEF o
    <3>2. Reminded(o)
      BY <1>1, <2>1, <3>1 DEF AppendEvent, Reminded, ShowsNext, Shows, CurrentLog
    <3> QED
      BY <2>1, <3>2
  <2>3. CASE Permission(r) # "MANUAL_VERIFICATION_REQUIRED"
    BY <1>7, <1>2, <2>3 DEF DenyControl
  <2> QED
    BY <2>2, <2>3
<1>8. ASSUME NEW w \in Workers, NEW r \in Requests, ClaimControl(w, r) PROVE Shown
  <2> DEFINE o == req[r].op
  <2>1. /\ o \in Ops /\ op[o].run \in Runs
        /\ req[r].state = "ACCEPTED" => op[o].state \in PausedStates
        /\ req[r].state = "RUNNING" => op[o].state = "RUNNING"
        /\ req[r].state \in {"ACCEPTED", "RUNNING"}
    BY <1>8, ConsistentRequest DEF ClaimControl, ClaimableRequest
  <2>2. PICK left \in Remaining :
          op' = [op EXCEPT ![o] = [@ EXCEPT !.state = "RUNNING", !.worker = w, !.lease = left]]
    BY Zenon, <1>8 DEF ClaimControl
  <2>3. IF req[r].state = "RUNNING" THEN events' = events ELSE AppendEvent(o, "UNDERSTANDING")
    BY <1>8 DEF ClaimControl
  <2> HIDE DEF o
  <2>4. CASE req[r].state = "RUNNING"
    <3>1. ShowsNothing
      BY <1>1, <2>1, <2>2, <2>3, <2>4 DEF ShowsNothing, OpRow
    <3> QED
      BY <3>1
  <2>5. CASE req[r].state = "ACCEPTED"
    <3>1. Started(o)
      BY <1>1, <2>1, <2>2, <2>3, <2>5
      DEF Started, ShowsNext, Shows, AppendEvent, CurrentLog, OpRow
    <3> QED
      BY <2>1, <3>1
  <2> QED
    BY <2>1, <2>4, <2>5
<1>9. ASSUME NEW w \in Workers, Commit(w) PROVE Shown
  <2> DEFINE o == wk[w].op
             outcome == wk[w].outcome
             log == OutcomeLog(o, outcome)
             paused == IF outcome.kind \in PausedStates
                         THEN [state |-> outcome.kind, run |-> outcome.run,
                               snapshot |-> outcome.snapshot]
                         ELSE NoPause
  <2>1. /\ wk[w].pc = "completing" /\ Completable(w) /\ Persistable(w)
        /\ op' = [op EXCEPT ![o] = [@ EXCEPT !.state = outcome.kind, !.worker = None,
                                             !.lease = NoLease, !.paused = paused]]
        /\ events' = [events EXCEPT ![o][op[o].run] = log]
    BY <1>9 DEF Commit
  <2>2. /\ o \in Ops /\ op[o].state = "RUNNING" /\ op[o].run \in Runs
        /\ outcome.kind \in {"COMPLETED"} \cup FailureStates \cup PausedStates
    BY <2>1, Reported
  <2>3. /\ log \in Seq(TaskStates) /\ log # <<>> /\ Last(log) = ShownAs(outcome.kind)
        /\ IsStrictPrefix(CurrentLog(o), log) /\ OutcomeEvents(log) \subseteq {Len(log)}
    BY <2>1, OutcomeShown, OutcomeContinues
  <2> HIDE DEF o, outcome, log, paused
  <2>4. Shows(o, outcome.kind, op[o].run, log)
    BY <1>1, <2>1, <2>2 DEF Shows, OpRow
  <2>5. Concluded(o)
    BY <2>2, <2>3, <2>4 DEF Concluded
  <2> QED
    BY <2>2, <2>5
<1>10. ASSUME NEW w \in Workers, WorkerStep(w) PROVE Shown
  <2>1. ASSUME NEW r \in Requests, RejectControl(w, r) PROVE Shown
    BY <1>2, <2>1 DEF RejectControl
  <2>2. CASE \/ ReplayReceipt(w) \/ FinishRun(w) \/ PauseRun(w) \/ KeepPaused(w)
             \/ StartCompletion(w) \/ NotCompletable(w) \/ Crash(w)
    BY <1>2, <2>2 DEF StartCompletion, ReplayReceipt, FinishRun, PauseRun, KeepPaused,
       NotCompletable, Crash
  <2> HIDE DEF Shown
  <2> QED
    BY Zenon, <1>6, <1>7, <1>8, <1>9, <1>10, <2>1, <2>2 DEF WorkerStep
<1>11. ASSUME NEW r \in Requests, NEW o \in Ops, RequestResume(r, o) PROVE Shown
  BY <1>2, <1>11 DEF RequestResume
<1>12. ASSUME UNCHANGED vars PROVE Shown
  BY <1>2, <1>12 DEF vars
<1> HIDE DEF Shown
<1>13. Shown
  <2>1. Next \/ UNCHANGED vars
    OBVIOUS
  <2> QED
    BY Zenon, <2>1, <1>3, <1>4, <1>5, <1>10, <1>11, <1>12 DEF Next
<1> QED
  BY <1>13 DEF Shown

-----------------------------------------------------------------------------
(* The refinement. *)

(* The state the contract announces is the one the event log shows.        *)
LEMMA AnnouncedIsShown ==
  \A s \in OpStates : Contract!Announced(s) = ShownAs(s)
BY DEF Contract!Announced, ShownAs, FailureStates

(* What a step shows is the step of the contract. *)
LEMMA ShownIsContracted ==
  ASSUME IInv, IInv', NEW o \in Ops, NEW s, NEW n \in Runs, NEW log, Shows(o, s, n, log)
  PROVE  Contract!Becomes(o, s, n, log)
<1>1. op \in [Ops -> OpRow] /\ events \in [Ops -> [Runs -> Seq(TaskStates)]]
  BY DEF IInv, TypeOK
<1>2. [x \in Ops |-> op'[x].state] = [[x \in Ops |-> op[x].state] EXCEPT ![o] = s]
  BY DEF Shows
<1>3. [x \in Ops |-> op'[x].run] = [[x \in Ops |-> op[x].run] EXCEPT ![o] = n]
  BY DEF Shows
<1> QED
  BY <1>2, <1>3 DEF Shows, Contract!Becomes

(* A log that grew to end by announcing the new status. *)
LEMMA GrownIsContinued ==
  ASSUME IInv, IInv', NEW o \in Ops, op[o].run \in Runs, NEW s \in OpStates, NEW log,
         Shows(o, s, op[o].run, log), IsStrictPrefix(CurrentLog(o), log),
         Last(log) = ShownAs(s)
  PROVE  Contract!Continues(o, s)
<1>1. events \in [Ops -> [Runs -> Seq(TaskStates)]]
  BY DEF IInv, TypeOK
<1>2. events'[o][op[o].run] = log
  BY <1>1 DEF Shows
<1>3. Contract!Becomes(o, s, op[o].run, log)
  BY ShownIsContracted
<1>4. Contract!Announced(s) = ShownAs(s)
  BY AnnouncedIsShown
<1>5. [x \in Ops |-> op[x].run][o] = op[o].run
  OBVIOUS
<1>6. Contract!IsStrictPrefix(CurrentLog(o), log) /\ Contract!Last(log) = ShownAs(s)
  BY DEF Contract!IsStrictPrefix, Contract!IsPrefix, Contract!Last, IsStrictPrefix, IsPrefix, Last
<1>7. ASSUME NEW n, n = op[o].run
      PROVE  /\ Contract!IsStrictPrefix(events[o][n], events'[o][n])
             /\ Contract!Last(events'[o][n]) = Contract!Announced(s)
             /\ [x \in Ops |-> op'[x].state] = [[x \in Ops |-> op[x].state] EXCEPT ![o] = s]
             /\ [x \in Ops |-> op'[x].run] = [[x \in Ops |-> op[x].run] EXCEPT ![o] = n]
             /\ events' = [events EXCEPT ![o][n] = events'[o][n]]
  BY <1>2, <1>3, <1>4, <1>6, <1>7 DEF CurrentLog, Contract!Becomes
<1> QED
  BY Zenon, <1>5, <1>7 DEF Contract!Continues, Contract!Becomes

(* One event more continues the current run. *)
LEMMA NextIsContinued ==
  ASSUME IInv, IInv', NEW o \in Ops, op[o].run \in Runs, NEW s \in OpStates,
         ShownAs(s) \in TaskStates, ShowsNext(o, s, ShownAs(s))
  PROVE  Contract!Continues(o, s)
<1>1. CurrentLog(o) \in Seq(TaskStates)
  BY DEF IInv, TypeOK, CurrentLog
<1>2. /\ IsStrictPrefix(CurrentLog(o), Append(CurrentLog(o), ShownAs(s)))
      /\ Last(Append(CurrentLog(o), ShownAs(s))) = ShownAs(s)
  BY <1>1, OneMoreContinues, Appended
<1> QED
  BY <1>2, GrownIsContinued DEF ShowsNext

(* What a reader sees at the start is an initial state of the contract.    *)
LEMMA InitIsContracted == Init => Contract!Init
BY DEF Init, Contract!Init

(* Every step maps to one of the contract or leaves what a reader sees.    *)
LEMMA StepIsContracted ==
  ASSUME IInv, IInv', [Next]_vars
  PROVE  [Contract!Next]_(Contract!vars)
<1>1. CASE ShowsNothing
  BY <1>1 DEF ShowsNothing, Contract!vars
<1>2. ASSUME NEW o \in Ops, \/ Accepted(o) \/ Started(o) \/ Retried(o)
                            \/ Concluded(o) \/ Reminded(o) \/ Revoked(o)
      PROVE  Contract!Next
  <2>1. op[o] \in OpRow /\ (op[o].state # "ABSENT" => op[o].run \in Runs)
    BY DEF IInv, TypeOK, OperationBound
  <2>2. CASE Accepted(o)
    <3>1. Contract!Accept(o)
      BY <2>2, ValuesTyped, ShownIsContracted DEF Accepted, Contract!Accept
    <3> QED
      BY <3>1 DEF Contract!Next
  <2>3. CASE Started(o)
    <3>1. Contract!Continues(o, "RUNNING")
      <4>1. op[o].run \in Runs
        BY <2>1, <2>3, StatesApart DEF Started
      <4>2. ShownAs("RUNNING") = "UNDERSTANDING" /\ "UNDERSTANDING" \in TaskStates
            /\ "RUNNING" \in OpStates
        BY ShownStates, ValuesTyped DEF RuntimeStates
      <4> QED
        BY <2>3, <4>1, <4>2, NextIsContinued DEF Started
    <3>2. Contract!Start(o)
      BY <2>3, <3>1 DEF Started, Contract!Start
    <3> QED
      BY <3>2 DEF Contract!Next
  <2>4. CASE Retried(o)
    <3>1. Contract!Retry(o)
      BY <2>4, ShownIsContracted DEF Retried, Contract!Retry
    <3> QED
      BY <3>1 DEF Contract!Next
  <2>5. CASE Concluded(o)
    <3>1. PICK s \in {"COMPLETED"} \cup FailureStates \cup PausedStates,
               log \in Seq(TaskStates) :
            /\ Shows(o, s, op[o].run, log)
            /\ IsStrictPrefix(CurrentLog(o), log)
            /\ log # <<>> /\ Last(log) = ShownAs(s)
      BY <2>5 DEF Concluded
    <3>2. op[o].run \in Runs /\ op[o].state = "RUNNING" /\ s \in OpStates
      BY <2>1, <2>5, ValuesTyped DEF Concluded
    <3>3. Contract!Continues(o, s)
      BY <3>1, <3>2, GrownIsContinued
    <3>4. s \in Contract!Outcomes
      BY DEF Contract!Outcomes, FailureStates
    <3>5. Contract!Conclude(o)
      BY <3>2, <3>3, <3>4 DEF Contract!Conclude
    <3> QED
      BY <3>5 DEF Contract!Next
  <2>6. CASE Reminded(o)
    <3>1. op[o].run \in Runs /\ op[o].state \in PausedStates
      BY <2>1, <2>6, StatesApart DEF Reminded
    <3>2. ShownAs(op[o].state) = op[o].state /\ op[o].state \in TaskStates
          /\ op[o].state \in OpStates
      BY <3>1, ShownStates, ValuesTyped
    <3>3. Contract!Continues(o, op[o].state)
      BY <2>6, <3>1, <3>2, NextIsContinued DEF Reminded
    <3>4. Contract!Remind(o)
      BY <3>1, <3>3 DEF Contract!Remind
    <3> QED
      BY <3>4 DEF Contract!Next
  <2>7. CASE Revoked(o)
    <3>1. op[o].run \in Runs
          /\ op[o].state \in {"ACCEPTED", "RUNNING", "FAILED_RETRYABLE", "PARTIAL"} \cup PausedStates
      BY <2>1, <2>7 DEF Revoked, OpRow, OpStates, Plain, FailureStates, FinalStates
    <3>2. ShownAs("CANCELLED") = "CANCELLED" /\ "CANCELLED" \in TaskStates
          /\ "CANCELLED" \in OpStates
      BY ShownStates, ValuesTyped DEF RuntimeStates
    <3>3. Contract!Continues(o, "CANCELLED")
      BY <2>7, <3>1, <3>2, NextIsContinued DEF Revoked
    <3>4. Contract!Cancel(o)
      BY <3>1, <3>3 DEF Contract!Cancel
    <3> QED
      BY <3>4 DEF Contract!Next
  <2> QED
    BY <1>2, <2>2, <2>3, <2>4, <2>5, <2>6, <2>7
<1> QED
  BY <1>1, <1>2, StepShown

(* The whole protocol of workers, leases, resumes and late reports keeps    *)
(* what OperationContract promises whoever submitted the task.             *)
THEOREM ContractIsKept == Spec => KeepsContract
<1>1. IInv /\ IInv' /\ [Next]_vars => [Contract!Next]_(Contract!vars)
  BY StepIsContracted
<1> QED
  BY <1>1, InitIsContracted, InductiveInvariant, PTL DEF Spec, KeepsContract, Contract!Spec

-----------------------------------------------------------------------------
(* One outcome per run. *)

(* Only a cancellation follows the outcome a log reports. *)
OneOutcome(log) ==
  \A i \in OutcomeEvents(log) : \A j \in DOMAIN log : j > i => log[j] = "CANCELLED"

(* Nothing but an open run is continued, except by its cancellation.       *)
LEMMA OneOutcomeKept ==
  ASSUME IInv, OneOutcomePerRun, [Next]_vars
  PROVE  OneOutcomePerRun'
<1>1. op \in [Ops -> OpRow] /\ events \in [Ops -> [Runs -> Seq(TaskStates)]]
  BY DEF IInv, TypeOK
<1>2. \A o \in Ops, n \in Runs : OneOutcome(events[o][n])
  BY DEF OneOutcomePerRun, OneOutcome
<1>3. ASSUME NEW o \in Ops, NEW s, NEW n \in Runs, NEW log, Shows(o, s, n, log), OneOutcome(log)
      PROVE  OneOutcomePerRun'
  <2>1. \A x \in Ops, m \in Runs : events'[x][m] = log \/ events'[x][m] = events[x][m]
    BY <1>1, <1>3 DEF Shows
  <2>2. \A x \in Ops, m \in Runs : OneOutcome(events'[x][m])
    BY <1>2, <1>3, <2>1
  <2> QED
    BY <2>2 DEF OneOutcomePerRun, OneOutcome
<1>4. ASSUME NEW log \in Seq(TaskStates), OutcomeEvents(log) \subseteq {Len(log)}
      PROVE  OneOutcome(log)
  BY <1>4 DEF OneOutcome
<1>5. ASSUME NEW o \in Ops, op[o].state \in {"ACCEPTED", "RUNNING"} \cup PausedStates,
             NEW s, NEW e \in TaskStates, ShowsNext(o, s, e)
      PROVE  OneOutcomePerRun'
  <2>1. op[o].run \in Runs /\ CurrentLog(o) \in Seq(TaskStates)
        /\ ToSet(CurrentLog(o)) \cap {"COMPLETED", "FAILED"} = {}
    <3>1. OperationBound(o) /\ OpenRun(o)
      BY DEF IInv
    <3>2. op[o].run \in Runs
      BY <1>5, <3>1, StatesApart DEF OperationBound
    <3> QED
      BY <1>1, <1>5, <3>1, <3>2 DEF OpenRun, CurrentLog
  <2>2. OneOutcome(Append(CurrentLog(o), e))
    BY <1>4, <2>1, Appended, OutcomesOfClosedLog
  <2> QED
    BY <1>3, <1>5, <2>1, <2>2 DEF ShowsNext
<1>6. ASSUME NEW o \in Ops, \/ Accepted(o) \/ Started(o) \/ Retried(o)
                            \/ Concluded(o) \/ Reminded(o) \/ Revoked(o)
      PROVE  OneOutcomePerRun'
  <2>1. CASE Accepted(o)
    <3>2. OutcomeEvents(<<"CREATED">>) = {}
      BY DEF OutcomeEvents
    <3>1. OneOutcome(<<"CREATED">>)
      BY <3>2 DEF OneOutcome
    <3> QED
      BY <1>3, <2>1, <3>1, ValuesTyped DEF Accepted
  <2>2. CASE Started(o)
    <3>1. "UNDERSTANDING" \in TaskStates
      BY ValuesTyped DEF RuntimeStates
    <3> QED
      BY <1>5, <2>2, <3>1 DEF Started
  <2>3. CASE Retried(o)
    <3>1. OutcomeEvents(<<"CREATED", "UNDERSTANDING">>) = {}
      BY DEF OutcomeEvents
    <3>2. OneOutcome(<<"CREATED", "UNDERSTANDING">>)
      BY <3>1 DEF OneOutcome
    <3> QED
      BY <1>3, <2>3, <3>2 DEF Retried
  <2>4. CASE Concluded(o)
    <3>1. op[o].run \in Runs
      BY <2>4 DEF Concluded, IInv, OperationBound
    <3> QED
      BY <1>3, <1>4, <2>4, <3>1 DEF Concluded
  <2>5. CASE Reminded(o)
    BY <1>5, <2>5, ValuesTyped DEF Reminded
  <2>6. CASE Revoked(o)
    <3> DEFINE log == CurrentLog(o)
               new == Append(log, "CANCELLED")
    <3>1. op[o].run \in Runs /\ log \in Seq(TaskStates) /\ OneOutcome(log)
      <4>1. op[o].run \in Runs
        BY <2>6 DEF Revoked, IInv, OperationBound
      <4> QED
        BY <1>1, <1>2, <4>1 DEF CurrentLog
    <3> HIDE DEF log
    <3>2. /\ DOMAIN new = DOMAIN log \cup {Len(log) + 1} /\ new[Len(log) + 1] = "CANCELLED"
          /\ \A i \in DOMAIN log : new[i] = log[i]
      BY <3>1
    <3> HIDE DEF new
    <3>3. OutcomeEvents(new) \subseteq OutcomeEvents(log)
      BY <3>2 DEF OutcomeEvents
    <3>4. OneOutcome(new)
      BY <3>1, <3>2, <3>3 DEF OneOutcome
    <3> QED
      BY <1>3, <2>6, <3>1, <3>4 DEF Revoked, ShowsNext, log, new
  <2> QED
    BY <1>6, <2>1, <2>2, <2>3, <2>4, <2>5, <2>6
<1>7. CASE ShowsNothing
  BY <1>7 DEF ShowsNothing, OneOutcomePerRun
<1> QED
  BY <1>6, <1>7, StepShown

(* However many workers, resumes and late reports compete for a run, it    *)
(* reports one outcome, which at most a cancellation follows.              *)
THEOREM OneOutcomePerRunHolds == Spec => []OneOutcomePerRun
<1>1. Init => OneOutcomePerRun
  BY DEF Init, OneOutcomePerRun, OutcomeEvents
<1>2. IInv /\ OneOutcomePerRun /\ [Next]_vars => OneOutcomePerRun'
  BY OneOutcomeKept
<1> QED
  BY <1>1, <1>2, InductiveInvariant, PTL DEF Spec

-----------------------------------------------------------------------------
(* Who moves a paused operation. *)

(* The claims of the queue and the completions find it paused, not         *)
(* running; only a cancellation and a confirmed resume write its row.      *)
LEMMA MovedByUser ==
  ASSUME IInv, [Next]_vars, NEW o \in Ops, op[o].state \in PausedStates,
         op'[o].state # op[o].state \/ op'[o].paused # op[o].paused
  PROVE  \/ op'[o].state = "CANCELLED"
         \/ /\ op'[o].state = "RUNNING" /\ op'[o].run = op[o].run
            /\ \E r \in Requests :
                 /\ req[r].state = "ACCEPTED" /\ req[r].op = o
                 /\ req[r].run = op[o].run /\ req[r].snapshot = op[o].paused.snapshot
                 /\ Permission(r) = "RESUME_ALLOWED"
                 /\ req'[r].state = "RUNNING" /\ req'[r].worker = op'[o].worker
<1> DEFINE Still == op'[o].state = op[o].state /\ op'[o].paused = op[o].paused
           Resumed == /\ op'[o].state = "RUNNING" /\ op'[o].run = op[o].run
                      /\ \E r \in Requests :
                           /\ req[r].state = "ACCEPTED" /\ req[r].op = o
                           /\ req[r].run = op[o].run /\ req[r].snapshot = op[o].paused.snapshot
                           /\ Permission(r) = "RESUME_ALLOWED"
                           /\ req'[r].state = "RUNNING" /\ req'[r].worker = op'[o].worker
           Moved == Still \/ op'[o].state = "CANCELLED" \/ Resumed
<1>1. /\ op \in [Ops -> OpRow] /\ req \in [Requests -> RequestRow]
      /\ op[o].state \notin {"ABSENT", "ACCEPTED", "RUNNING", "FAILED_RETRYABLE"}
      /\ OperationBound(o)
  BY StatesApart DEF IInv, TypeOK, FailureStates
<1>2. ASSUME NEW x \in Ops, Submit(x) \/ Cancel(x) PROVE Moved
  <2>1. CASE x = o
    <3>1. Cancel(o)
      BY <1>1, <1>2, <2>1 DEF Submit
    <3>2. op'[o].state = "CANCELLED"
      BY <1>1, <3>1 DEF Cancel, OpRow
    <3> QED
      BY <3>2
  <2>2. CASE x # o
    BY <1>1, <1>2, <2>2 DEF Submit, Cancel
  <2> QED
    BY <2>1, <2>2
<1>3. ASSUME NEW r \in Requests, NEW x \in Ops, RequestResume(r, x) PROVE Still
  BY <1>3 DEF RequestResume
<1>4. ASSUME Tick PROVE Still
  BY <1>1, <1>4 DEF Tick, OpRow
<1>5. ASSUME NEW w \in Workers, WorkerStep(w) PROVE Moved
  <2>1. ASSUME NEW x \in Ops, ClaimNext(w, x) PROVE Still
    <3>1. x # o
      BY <2>1, <1>1 DEF ClaimNext, Claimable
    <3> QED
      BY <2>1, <3>1, <1>1 DEF ClaimNext
  <2>2. ASSUME NEW r \in Requests, RejectControl(w, r) \/ DenyControl(w, r) PROVE Still
    BY <2>2 DEF RejectControl, DenyControl
  <2>3. ASSUME NEW r \in Requests, ClaimControl(w, r) PROVE Moved
    <3>1. CASE req[r].op # o
      BY <2>3, <3>1, <1>1 DEF ClaimControl
    <3>2. CASE req[r].op = o
      <4>1. req[r].state = "ACCEPTED"
        BY <2>3, <3>2, <1>1 DEF ClaimControl, ClaimableRequest, Consistent
      <4>2. /\ req[r].snapshot = op[o].paused.snapshot /\ req[r].run = op[o].run
            /\ Permission(r) = "RESUME_ALLOWED"
        BY <2>3, <3>2, <1>1 DEF ClaimControl, Consistent, OperationBound
      <4>3. PICK left \in Remaining :
              /\ req' = [req EXCEPT ![r] = [@ EXCEPT !.state = "RUNNING", !.worker = w,
                                                     !.lease = left]]
              /\ op' = [op EXCEPT ![o] = [@ EXCEPT !.state = "RUNNING", !.worker = w,
                                                   !.lease = left]]
        BY Zenon, <2>3, <3>2 DEF ClaimControl
      <4>4. /\ op'[o].state = "RUNNING" /\ op'[o].worker = w /\ op'[o].run = op[o].run
            /\ req'[r].state = "RUNNING" /\ req'[r].worker = w
        BY <4>3, <1>1 DEF OpRow, RequestRow
      <4> QED
        BY <3>2, <4>1, <4>2, <4>4
    <3> QED
      BY <3>1, <3>2
  <2>4. ASSUME Commit(w) PROVE Still
    <3>1. wk[w].op # o
      BY <2>4, <1>1 DEF Commit, Completable
    <3> QED
      BY <2>4, <3>1, <1>1 DEF Commit
  <2>5. CASE \/ ReplayReceipt(w) \/ FinishRun(w) \/ PauseRun(w) \/ KeepPaused(w)
             \/ StartCompletion(w) \/ NotCompletable(w) \/ Crash(w)
    BY <2>5 DEF StartCompletion, ReplayReceipt, FinishRun, PauseRun, KeepPaused,
       NotCompletable, Crash
  <2> HIDE DEF Still, Resumed
  <2> QED
    BY <1>5, <2>1, <2>2, <2>3, <2>4, <2>5 DEF WorkerStep
<1>6. ASSUME UNCHANGED vars PROVE Still
  BY <1>6 DEF vars
<1> HIDE DEF Still, Resumed
<1>7. Moved
  BY <1>2, <1>3, <1>4, <1>5, <1>6 DEF Next
<1> QED
  BY <1>7 DEF Still, Resumed

(* Nothing but a cancellation and the resume the user confirmed for this   *)
(* very pause moves a paused operation.                                    *)
THEOREM PauseWaitsForUserHolds == Spec => PauseWaitsForUser
<1>1. ASSUME IInv, [Next]_vars, NEW o \in Ops,
             op[o].state \in PausedStates,
             op'[o].state # op[o].state \/ op'[o].paused # op[o].paused
      PROVE  \/ op'[o].state = "CANCELLED"
             \/ /\ op'[o].state = "RUNNING" /\ op'[o].run = op[o].run
                /\ \E r \in Requests :
                     /\ req[r].state = "ACCEPTED" /\ req[r].op = o
                     /\ req[r].run = op[o].run /\ req[r].snapshot = op[o].paused.snapshot
                     /\ Permission(r) = "RESUME_ALLOWED"
                     /\ req'[r].state = "RUNNING" /\ req'[r].worker = op'[o].worker
  BY <1>1, MovedByUser
<1>2. IInv /\ [Next]_vars =>
        [\A o \in Ops :
           /\ op[o].state \in PausedStates
           /\ op'[o].state # op[o].state \/ op'[o].paused # op[o].paused
           => \/ op'[o].state = "CANCELLED"
              \/ /\ op'[o].state = "RUNNING" /\ op'[o].run = op[o].run
                 /\ \E r \in Requests :
                      /\ req[r].state = "ACCEPTED" /\ req[r].op = o
                      /\ req[r].run = op[o].run /\ req[r].snapshot = op[o].paused.snapshot
                      /\ Permission(r) = "RESUME_ALLOWED"
                      /\ req'[r].state = "RUNNING" /\ req'[r].worker = op'[o].worker]_vars
  BY <1>1
<1> QED
  BY <1>2, InductiveInvariant, PTL DEF Spec, PauseWaitsForUser

-----------------------------------------------------------------------------
(* Resumes.  What a worker holds of a confirmed resume stays what was       *)
(* confirmed until another worker takes the operation or the request.      *)

Confirmed(w) ==
  LET o == wk[w].op  r == wk[w].request
  IN (r # None /\ op[o].state = "RUNNING" /\ op[o].worker = w /\ ControlHeld(w)) =>
       op[o].run = req[r].run /\ op[o].paused.snapshot = req[r].snapshot

IdleHasNoRequest == \A w \in Workers : wk[w].pc = "idle" => wk[w].request = None

ResumeInv == (\A w \in Workers : Confirmed(w)) /\ IdleHasNoRequest /\ CompletedResumeHolds

(* Whatever worker w holds after a step it held before, unchanged.         *)
OperationsCarried(w) ==
  \A o \in Ops : op'[o].state = "RUNNING" /\ op'[o].worker = w =>
    /\ op[o].state = "RUNNING" /\ op[o].worker = w
    /\ op'[o].run = op[o].run /\ op'[o].paused = op[o].paused

RequestsCarried(w) ==
  \A r \in Requests : req'[r].state = "RUNNING" /\ req'[r].worker = w =>
    /\ req[r].state = "RUNNING" /\ req[r].worker = w
    /\ req'[r].op = req[r].op /\ req'[r].run = req[r].run /\ req'[r].snapshot = req[r].snapshot

(* A worker whose execution and request are carried stays confirmed.        *)
LEMMA CarriedStaysConfirmed ==
  ASSUME IInv, ResumeInv, NEW w \in Workers, OperationsCarried(w), RequestsCarried(w),
         \/ wk'[w].request = None
         \/ wk'[w].op = wk[w].op /\ wk'[w].request = wk[w].request
  PROVE  Confirmed(w)'
<1>1. CASE wk'[w].request = None
  BY <1>1 DEF Confirmed
<1>2. CASE /\ wk'[w].op = wk[w].op /\ wk'[w].request = wk[w].request
           /\ wk[w].request # None
  <2>1. wk[w] \in Process /\ WorkerBound(w) /\ wk[w].pc # "idle" /\ Confirmed(w)
    BY <1>2 DEF IInv, TypeOK, ResumeInv, IdleHasNoRequest
  <2>2. wk[w].op \in Ops /\ wk[w].request \in Requests
    BY <1>2, <2>1 DEF Process, WorkerBound
  <2> QED
    BY <1>2, <2>1, <2>2 DEF Confirmed, ControlHeld, OperationsCarried, RequestsCarried
<1> QED
  BY <1>1, <1>2

(* A request that fails or is new is held by nobody. *)
LEMMA OtherRequestCarried ==
  ASSUME IInv, NEW r \in Requests, NEW row, row.state # "RUNNING",
         req' = [req EXCEPT ![r] = row], NEW w \in Workers
  PROVE  RequestsCarried(w)
<1>1. req \in [Requests -> RequestRow]
  BY DEF IInv, TypeOK
<1> QED
  BY <1>1 DEF RequestsCarried

(* What a process does by itself keeps its operation and its request, or    *)
(* ends its attempt.                                                       *)
LEMMA OwnStep ==
  ASSUME IInv, NEW w \in Workers, NEW v \in Workers,
         \/ ReplayReceipt(v) \/ FinishRun(v) \/ PauseRun(v) \/ KeepPaused(v)
         \/ StartCompletion(v) \/ NotCompletable(v) \/ Crash(v)
  PROVE  \/ wk'[w].request = None
         \/ wk'[w].op = wk[w].op /\ wk'[w].request = wk[w].request
<1>1. wk \in [Workers -> Process]
  BY DEF IInv, TypeOK
<1> DEFINE Kept == \/ wk'[w].request = None
                   \/ wk'[w].op = wk[w].op /\ wk'[w].request = wk[w].request
<1>2. ASSUME NEW outcome, Return(v, outcome) PROVE Kept
  BY <1>1, <1>2 DEF Return, Process
<1>3. ASSUME ReplayReceipt(v) PROVE Kept
  BY <1>1, <1>3 DEF ReplayReceipt, Process
<1>4. ASSUME StartCompletion(v) PROVE Kept
  BY <1>1, <1>4 DEF StartCompletion, Process
<1>5. ASSUME wk' = [wk EXCEPT ![v] = Idle] PROVE Kept
  BY <1>1, <1>5 DEF Idle
<1> HIDE DEF Kept
<1>6. ASSUME FinishRun(v) PROVE Kept
  BY <1>2, <1>6 DEF FinishRun
<1>7. ASSUME PauseRun(v) PROVE Kept
  BY <1>2, <1>7 DEF PauseRun
<1>8. ASSUME KeepPaused(v) PROVE Kept
  BY <1>2, <1>8 DEF KeepPaused
<1>9. ASSUME NotCompletable(v) \/ Crash(v) PROVE Kept
  BY <1>5, <1>9 DEF NotCompletable, Crash, Restart
<1>10. Kept
  BY <1>3, <1>4, <1>6, <1>7, <1>8, <1>9
<1> QED
  BY <1>10 DEF Kept

(* No step of another worker or of the API changes what a worker resumes;  *)
(* its own claims replace it.                                              *)
LEMMA ConfirmedKept ==
  ASSUME IInv, ResumeInv, [Next]_vars, NEW w \in Workers
  PROVE  Confirmed(w)'
<1>1. /\ op \in [Ops -> OpRow] /\ req \in [Requests -> RequestRow]
      /\ wk \in [Workers -> Process]
  BY DEF IInv, TypeOK
<1>2. /\ op' = op => OperationsCarried(w)
      /\ req' = req => RequestsCarried(w)
      /\ wk' = wk => wk'[w].op = wk[w].op /\ wk'[w].request = wk[w].request
  BY DEF OperationsCarried, RequestsCarried
<1>3. ASSUME NEW o \in Ops, Submit(o) \/ Cancel(o) PROVE Confirmed(w)'
  <2>1. OperationsCarried(w)
    <3>1. op'[o].state \in {"ACCEPTED", "CANCELLED"}
      <4>1. CASE Submit(o)
        BY <1>1, <4>1 DEF Submit, OpRow
      <4>2. CASE Cancel(o)
        BY <1>1, <4>2 DEF Cancel, OpRow
      <4> QED
        BY <1>3, <4>1, <4>2
    <3>2. \A x \in Ops \ {o} : op'[x] = op[x]
      BY <1>1, <1>3 DEF Submit, Cancel
    <3> QED
      BY <3>1, <3>2 DEF OperationsCarried
  <2>2. req' = req /\ wk' = wk
    BY <1>3 DEF Submit, Cancel
  <2> QED
    BY <1>2, <2>1, <2>2, CarriedStaysConfirmed
<1>4. ASSUME NEW r \in Requests, NEW o \in Ops, RequestResume(r, o) PROVE Confirmed(w)'
  <2>1. RequestsCarried(w)
    BY <1>4, OtherRequestCarried DEF RequestResume
  <2>2. op' = op /\ wk' = wk
    BY <1>4 DEF RequestResume
  <2> QED
    BY <1>2, <2>1, <2>2, CarriedStaysConfirmed
<1>5. ASSUME Tick PROVE Confirmed(w)'
  <2>1. OperationsCarried(w)
    BY <1>1, <1>5 DEF Tick, OperationsCarried, OpRow
  <2>2. RequestsCarried(w)
    BY <1>1, <1>5 DEF Tick, RequestsCarried, RequestRow
  <2>3. wk' = wk
    BY <1>5 DEF Tick
  <2> QED
    BY <1>2, <2>1, <2>2, <2>3, CarriedStaysConfirmed
<1>6. ASSUME NEW v \in Workers, NEW o \in Ops, ClaimNext(v, o) PROVE Confirmed(w)'
  <2>1. req' = req /\ wk' = [wk EXCEPT ![v] = [pc |-> "executing", op |-> o,
                               run |-> ClaimedRun(o), request |-> None, outcome |-> NoOutcome]]
    BY <1>6 DEF ClaimNext
  <2>2. CASE v = w
    <3>1. wk'[w].request = None
      BY <1>1, <2>1, <2>2
    <3> QED
      BY <3>1 DEF Confirmed
  <2>3. CASE v # w
    <3>1. /\ op'[o].worker = v
          /\ \A x \in Ops \ {o} : op'[x] = op[x]
      BY <1>1, <1>6 DEF ClaimNext, OpRow
    <3>2. OperationsCarried(w)
      BY <2>3, <3>1 DEF OperationsCarried
    <3> QED
      BY <1>1, <1>2, <2>1, <2>3, <3>2, CarriedStaysConfirmed
  <2> QED
    BY <2>2, <2>3
<1>7. ASSUME NEW v \in Workers, NEW r \in Requests, RejectControl(v, r) \/ DenyControl(v, r)
      PROVE  Confirmed(w)'
  <2>1. op' = op /\ wk' = wk /\ FailRequest(r)
    BY <1>7 DEF RejectControl, DenyControl
  <2>2. RequestsCarried(w)
    <3> DEFINE row == [req[r] EXCEPT !.state = "FAILED", !.worker = None, !.lease = NoLease]
    <3>1. row.state # "RUNNING"
      BY <1>1 DEF RequestRow
    <3>2. req' = [req EXCEPT ![r] = row]
      BY <2>1 DEF FailRequest
    <3> HIDE DEF row
    <3> QED
      BY <3>1, <3>2, OtherRequestCarried
  <2> QED
    BY <1>2, <2>1, <2>2, CarriedStaysConfirmed
<1>8. ASSUME NEW v \in Workers, NEW r \in Requests, ClaimControl(v, r) PROVE Confirmed(w)'
  <2> DEFINE o == req[r].op
  <2>1. PICK left \in Remaining :
        /\ req' = [req EXCEPT ![r] = [@ EXCEPT !.state = "RUNNING", !.worker = v, !.lease = left]]
        /\ op' = [op EXCEPT ![o] = [@ EXCEPT !.state = "RUNNING", !.worker = v, !.lease = left]]
    BY Zenon, <1>8 DEF ClaimControl
  <2>2. wk' = [wk EXCEPT ![v] = [pc |-> "executing", op |-> o, run |-> req[r].run,
                                 request |-> r, outcome |-> NoOutcome]]
    BY <1>8 DEF ClaimControl
  <2>3. o \in Ops /\ OperationBound(o) /\ Consistent(r)
    BY <1>8, ConsistentRequest DEF ClaimControl, IInv
  <2> HIDE DEF o
  <2>4. CASE v = w
    <3>1. wk'[w].op = o /\ wk'[w].request = r
      BY <1>1, <2>2, <2>4
    <3>2. op'[o].run = op[o].run /\ op'[o].paused = op[o].paused
      BY <1>1, <2>1, <2>3 DEF OpRow
    <3>3. req'[r].run = req[r].run /\ req'[r].snapshot = req[r].snapshot
      BY <1>1, <2>1 DEF RequestRow
    <3>4. op[o].run = req[r].run /\ op[o].paused.snapshot = req[r].snapshot
      BY <2>3 DEF Consistent, OperationBound, o
    <3> QED
      BY <3>1, <3>2, <3>3, <3>4 DEF Confirmed
  <2>5. CASE v # w
    <3>1. op'[o].worker = v /\ \A x \in Ops \ {o} : op'[x] = op[x]
      BY <1>1, <2>1, <2>3 DEF OpRow
    <3>2. req'[r].worker = v /\ \A q \in Requests \ {r} : req'[q] = req[q]
      BY <1>1, <2>1 DEF RequestRow
    <3>3. OperationsCarried(w)
      BY <2>5, <3>1 DEF OperationsCarried
    <3>4. RequestsCarried(w)
      BY <2>5, <3>2 DEF RequestsCarried
    <3> QED
      BY <1>1, <2>2, <2>5, <3>3, <3>4, CarriedStaysConfirmed
  <2> QED
    BY <2>4, <2>5
<1>9. ASSUME NEW v \in Workers, Commit(v) PROVE Confirmed(w)'
  <2> DEFINE o == wk[v].op
             r == wk[v].request
             kind == wk[v].outcome.kind
             answer == IF kind \in {"COMPLETED", "PARTIAL"} THEN "COMPLETED" ELSE "FAILED"
             row == [req[r] EXCEPT !.state = answer, !.worker = None, !.lease = NoLease]
  <2>1. o \in Ops /\ kind # "RUNNING"
    BY <1>9, Reported, StatesApart DEF Commit, FailureStates
  <2>2. r # None => r \in Requests
    BY <1>1 DEF Process
  <2>3. op'[o].state = kind /\ \A x \in Ops \ {o} : op'[x] = op[x]
    BY <1>1, <1>9, <2>1 DEF Commit, OpRow
  <2>4. req' = IF r = None THEN req ELSE [req EXCEPT ![r] = row]
    BY <1>9 DEF Commit
  <2>5. r # None => row.state # "RUNNING"
    BY <1>1, <2>2 DEF RequestRow
  <2>6. wk' = [wk EXCEPT ![v] = Idle]
    BY <1>9 DEF Commit
  <2> HIDE DEF o, r, kind, row
  <2>7. OperationsCarried(w)
    BY <2>1, <2>3 DEF OperationsCarried
  <2>8. RequestsCarried(w)
    BY <1>2, <2>2, <2>4, <2>5, OtherRequestCarried
  <2>9. wk'[w].request = None \/ wk'[w] = wk[w]
    BY <1>1, <2>6 DEF Idle
  <2> QED
    BY <2>7, <2>8, <2>9, CarriedStaysConfirmed
<1>10. ASSUME NEW v \in Workers,
              \/ ReplayReceipt(v) \/ FinishRun(v) \/ PauseRun(v) \/ KeepPaused(v)
              \/ StartCompletion(v) \/ NotCompletable(v) \/ Crash(v)
       PROVE  Confirmed(w)'
  <2>1. op' = op /\ req' = req
    BY <1>10 DEF ReplayReceipt, FinishRun, PauseRun, KeepPaused, StartCompletion,
       NotCompletable, Crash
  <2>2. wk'[w].request = None \/ (wk'[w].op = wk[w].op /\ wk'[w].request = wk[w].request)
    BY <1>10, OwnStep
  <2> QED
    BY <1>2, <2>1, <2>2, CarriedStaysConfirmed
<1>11. ASSUME UNCHANGED vars PROVE Confirmed(w)'
  BY <1>2, <1>11, CarriedStaysConfirmed DEF vars
<1>12. ASSUME NEW v \in Workers, WorkerStep(v) PROVE Confirmed(w)'
  BY Zenon, <1>6, <1>7, <1>8, <1>9, <1>10, <1>12 DEF WorkerStep
<1>13. Next \/ UNCHANGED vars
  OBVIOUS
<1> QED
  BY Zenon, <1>3, <1>4, <1>5, <1>11, <1>12, <1>13 DEF Next

(* Only a claim gives an idle worker a request. *)
LEMMA IdleKept ==
  ASSUME IInv, IdleHasNoRequest, [Next]_vars
  PROVE  IdleHasNoRequest'
<1>1. wk \in [Workers -> Process]
  BY DEF IInv, TypeOK
<1>2. ASSUME wk' = wk PROVE IdleHasNoRequest'
  BY <1>2 DEF IdleHasNoRequest
<1>3. ASSUME NEW v \in Workers, NEW p, p.pc = "idle" => p.request = None,
             wk' = [wk EXCEPT ![v] = p]
      PROVE  IdleHasNoRequest'
  BY <1>1, <1>3 DEF IdleHasNoRequest
<1>4. ASSUME NEW v \in Workers, NEW outcome, Return(v, outcome) PROVE IdleHasNoRequest'
  <2>1. wk' = [wk EXCEPT ![v] = [wk[v] EXCEPT !.pc = "reporting", !.outcome = outcome]]
    BY <1>4 DEF Return
  <2>2. [wk[v] EXCEPT !.pc = "reporting", !.outcome = outcome].pc = "reporting"
    BY <1>1 DEF Process
  <2> QED
    BY <1>3, <2>1, <2>2
<1>5. ASSUME NEW v \in Workers, wk' = [wk EXCEPT ![v] = Idle] PROVE IdleHasNoRequest'
  BY <1>3, <1>5 DEF Idle
<1>6. ASSUME NEW v \in Workers, NEW o \in Ops, ClaimNext(v, o) PROVE IdleHasNoRequest'
  <2>1. wk' = [wk EXCEPT ![v] = [pc |-> "executing", op |-> o,
                  run |-> ClaimedRun(o), request |-> None, outcome |-> NoOutcome]]
    BY <1>6 DEF ClaimNext
  <2> QED
    BY <1>3, <2>1
<1>7. ASSUME NEW v \in Workers, NEW r \in Requests, ClaimControl(v, r) PROVE IdleHasNoRequest'
  <2>1. wk' = [wk EXCEPT ![v] = [pc |-> "executing", op |-> req[r].op, run |-> req[r].run,
                                 request |-> r, outcome |-> NoOutcome]]
    BY <1>7 DEF ClaimControl
  <2> QED
    BY <1>3, <2>1
<1>8. ASSUME NEW v \in Workers, ReplayReceipt(v) PROVE IdleHasNoRequest'
  <2> DEFINE p == [wk[v] EXCEPT !.pc = "reporting", !.outcome = receipts[v][wk[v].op]]
  <2>1. wk' = [wk EXCEPT ![v] = p]
    BY <1>8 DEF ReplayReceipt
  <2>2. p.pc = "reporting"
    BY <1>1 DEF Process
  <2> HIDE DEF p
  <2> QED
    BY <1>3, <2>1, <2>2
<1>9. ASSUME NEW v \in Workers, StartCompletion(v) PROVE IdleHasNoRequest'
  <2> DEFINE p == [wk[v] EXCEPT !.pc = "completing"]
  <2>1. wk' = [wk EXCEPT ![v] = p]
    BY <1>9 DEF StartCompletion
  <2>2. p.pc = "completing"
    BY <1>1 DEF Process
  <2> HIDE DEF p
  <2> QED
    BY <1>3, <2>1, <2>2
<1>10. ASSUME NEW v \in Workers, WorkerStep(v) PROVE IdleHasNoRequest'
  <2>1. ASSUME NEW r \in Requests, RejectControl(v, r) \/ DenyControl(v, r)
        PROVE  IdleHasNoRequest'
    BY <1>2, <2>1 DEF RejectControl, DenyControl
  <2>2. ASSUME FinishRun(v) PROVE IdleHasNoRequest'
    BY <1>4, <2>2 DEF FinishRun
  <2>3. ASSUME PauseRun(v) PROVE IdleHasNoRequest'
    BY <1>4, <2>3 DEF PauseRun
  <2>4. ASSUME KeepPaused(v) PROVE IdleHasNoRequest'
    BY <1>4, <2>4 DEF KeepPaused
  <2>5. ASSUME Commit(v) \/ NotCompletable(v) \/ Crash(v) PROVE IdleHasNoRequest'
    BY <1>5, <2>5 DEF Commit, NotCompletable, Crash, Restart
  <2> QED
    BY Zenon, <1>6, <1>7, <1>8, <1>9, <1>10, <2>1, <2>2, <2>3, <2>4, <2>5 DEF WorkerStep
<1>11. ASSUME NEW o \in Ops, Submit(o) \/ Cancel(o) PROVE IdleHasNoRequest'
  BY <1>2, <1>11 DEF Submit, Cancel
<1>12. ASSUME NEW r \in Requests, NEW o \in Ops, RequestResume(r, o) PROVE IdleHasNoRequest'
  BY <1>2, <1>12 DEF RequestResume
<1>13. ASSUME Tick \/ UNCHANGED vars PROVE IdleHasNoRequest'
  BY <1>2, <1>13 DEF Tick, vars
<1>14. Next \/ UNCHANGED vars
  OBVIOUS
<1> QED
  BY Zenon, <1>10, <1>11, <1>12, <1>13, <1>14 DEF Next

(* An operation that ended, or is PARTIAL, keeps its run and may only be   *)
(* cancelled.                                                              *)
LEMMA EndedStays ==
  ASSUME IInv, [Next]_vars, NEW o \in Ops, op[o].state \in {"COMPLETED", "PARTIAL", "CANCELLED"}
  PROVE  op'[o].run = op[o].run /\ op'[o].state \in {"COMPLETED", "PARTIAL", "CANCELLED"}
<1>1. CASE ShowsNothing
  BY <1>1 DEF ShowsNothing
<1>2. ASSUME NEW x \in Ops, \/ Accepted(x) \/ Started(x) \/ Retried(x)
                            \/ Concluded(x) \/ Reminded(x) \/ Revoked(x)
      PROVE  op'[o].run = op[o].run /\ op'[o].state \in {"COMPLETED", "PARTIAL", "CANCELLED"}
  <2>1. CASE Accepted(x)
    BY <2>1 DEF Accepted, Shows
  <2>2. CASE Started(x)
    BY <2>2, StatesApart DEF Started, ShowsNext, Shows, FailureStates
  <2>3. CASE Retried(x)
    BY <2>3 DEF Retried, Shows
  <2>4. CASE Concluded(x)
    BY <2>4 DEF Concluded, Shows
  <2>5. CASE Reminded(x)
    BY <2>5, StatesApart DEF Reminded, ShowsNext, Shows, FailureStates
  <2>6. CASE Revoked(x)
    BY <2>6 DEF Revoked, ShowsNext, Shows
  <2> QED
    BY <1>2, <2>1, <2>2, <2>3, <2>4, <2>5, <2>6
<1> QED
  BY <1>1, <1>2, StepShown

(* The only step that reports a request as successful is the completion    *)
(* that ends the operation.                                                *)
LEMMA RequestCompletedByCommit ==
  ASSUME IInv, [Next]_vars, NEW r \in Requests, req'[r].state = "COMPLETED"
  PROVE  /\ req'[r].op = req[r].op /\ req'[r].run = req[r].run
         /\ \/ req[r].state = "COMPLETED"
            \/ \E w \in Workers : /\ Commit(w) /\ wk[w].request = r
                                  /\ wk[w].outcome.kind \in {"COMPLETED", "PARTIAL"}
<1> DEFINE Goal == /\ req'[r].op = req[r].op /\ req'[r].run = req[r].run
                   /\ \/ req[r].state = "COMPLETED"
                      \/ \E w \in Workers : /\ Commit(w) /\ wk[w].request = r
                                            /\ wk[w].outcome.kind \in {"COMPLETED", "PARTIAL"}
<1>1. req \in [Requests -> RequestRow] /\ wk \in [Workers -> Process]
  BY DEF IInv, TypeOK
<1>2. ASSUME req'[r] = req[r] PROVE Goal
  BY <1>2
<1>3. ASSUME NEW q \in Requests, NEW row, req' = [req EXCEPT ![q] = row],
             row.state # "COMPLETED"
      PROVE  Goal
  <2>1. q # r
    BY <1>1, <1>3
  <2>2. req'[r] = req[r]
    BY <1>1, <1>3, <2>1
  <2> QED
    BY <1>2, <2>2
<1>4. ASSUME NEW w \in Workers, Commit(w) PROVE Goal
  <2> DEFINE kind == wk[w].outcome.kind
             q == wk[w].request
             answer == IF kind \in {"COMPLETED", "PARTIAL"} THEN "COMPLETED" ELSE "FAILED"
  <2>1. req' = IF q = None THEN req
               ELSE [req EXCEPT ![q] = [@ EXCEPT !.state = answer, !.worker = None,
                                                 !.lease = NoLease]]
    BY <1>4 DEF Commit
  <2>2. CASE q # r \/ q = None
    <3>1. req'[r] = req[r]
      BY <1>1, <2>1, <2>2
    <3> QED
      BY <1>2, <3>1
  <2>3. CASE q = r /\ q # None
    <3>1. req'[r].state = answer /\ req'[r].op = req[r].op /\ req'[r].run = req[r].run
      BY <1>1, <2>1, <2>3 DEF RequestRow
    <3>2. kind \in {"COMPLETED", "PARTIAL"}
      BY <3>1
    <3> QED
      BY <1>4, <2>3, <3>1, <3>2
  <2> QED
    BY <2>2, <2>3
<1> HIDE DEF Goal
<1>5. ASSUME NEW q \in Requests, FailRequest(q) PROVE Goal
  <2> DEFINE row == [req[q] EXCEPT !.state = "FAILED", !.worker = None, !.lease = NoLease]
  <2>1. row.state # "COMPLETED"
    BY <1>1 DEF RequestRow
  <2>2. req' = [req EXCEPT ![q] = row]
    BY <1>5 DEF FailRequest
  <2> HIDE DEF row
  <2> QED
    BY <1>3, <2>1, <2>2
<1>6. ASSUME NEW w \in Workers, NEW q \in Requests, ClaimControl(w, q) PROVE Goal
  <2>1. PICK left \in Remaining :
          req' = [req EXCEPT ![q] = [@ EXCEPT !.state = "RUNNING", !.worker = w, !.lease = left]]
    BY Zenon, <1>6 DEF ClaimControl
  <2> DEFINE row == [req[q] EXCEPT !.state = "RUNNING", !.worker = w, !.lease = left]
  <2>2. row.state # "COMPLETED" /\ req' = [req EXCEPT ![q] = row]
    BY <1>1, <2>1 DEF RequestRow
  <2> HIDE DEF row
  <2> QED
    BY <1>3, <2>2
<1>7. ASSUME NEW q \in Requests, NEW o \in Ops, RequestResume(q, o) PROVE Goal
  <2> DEFINE row == [state |-> "ACCEPTED", op |-> o, run |-> op[o].run,
                     snapshot |-> op[o].paused.snapshot, worker |-> None,
                     lease |-> NoLease]
  <2>1. row.state # "COMPLETED" /\ req' = [req EXCEPT ![q] = row]
    BY <1>7 DEF RequestResume
  <2> HIDE DEF row
  <2> QED
    BY <1>3, <2>1
<1>8. ASSUME Tick PROVE Goal
  <2>1. /\ req'[r].op = req[r].op /\ req'[r].run = req[r].run
        /\ req'[r].state = req[r].state
    BY <1>1, <1>8 DEF Tick, RequestRow
  <2> QED
    BY <2>1 DEF Goal
<1>9. ASSUME NEW o \in Ops, Submit(o) \/ Cancel(o) PROVE Goal
  BY <1>2, <1>9 DEF Submit, Cancel
<1>10. ASSUME NEW w \in Workers, WorkerStep(w) PROVE Goal
  <2>1. ASSUME NEW q \in Requests, RejectControl(w, q) \/ DenyControl(w, q) PROVE Goal
    BY <1>5, <2>1 DEF RejectControl, DenyControl
  <2>2. ASSUME NEW o \in Ops, ClaimNext(w, o) PROVE Goal
    BY <1>2, <2>2 DEF ClaimNext
  <2>3. ASSUME \/ ReplayReceipt(w) \/ FinishRun(w) \/ PauseRun(w) \/ KeepPaused(w)
               \/ StartCompletion(w) \/ NotCompletable(w) \/ Crash(w)
        PROVE  Goal
    BY <1>2, <2>3 DEF ReplayReceipt, FinishRun, PauseRun, KeepPaused, StartCompletion,
       NotCompletable, Crash
  <2> QED
    BY Zenon, <1>4, <1>6, <1>10, <2>1, <2>2, <2>3 DEF WorkerStep
<1>11. ASSUME UNCHANGED vars PROVE Goal
  BY <1>2, <1>11 DEF vars
<1>12. Next \/ UNCHANGED vars
  OBVIOUS
<1>13. Goal
  BY Zenon, <1>7, <1>8, <1>9, <1>10, <1>11, <1>12 DEF Next
<1> QED
  BY <1>13 DEF Goal

(* A resume that was successful stays so: nothing claims its run again.    *)
LEMMA CompletedKept ==
  ASSUME IInv, ResumeInv, [Next]_vars
  PROVE  CompletedResumeHolds'
<1> SUFFICES ASSUME NEW r \in Requests, req'[r].state = "COMPLETED"
             PROVE  LET o == req'[r].op
                    IN /\ op'[o].run = req'[r].run
                       /\ op'[o].state \in {"COMPLETED", "PARTIAL", "CANCELLED"}
  BY DEF CompletedResumeHolds
<1> DEFINE o == req[r].op
<1>1. req'[r].op = o /\ req'[r].run = req[r].run
  BY RequestCompletedByCommit
<1>2. CASE req[r].state = "COMPLETED"
  <2>1. o \in Ops
    BY <1>2 DEF IInv, RequestBound
  <2>2. op[o].run = req[r].run /\ op[o].state \in {"COMPLETED", "PARTIAL", "CANCELLED"}
    BY <1>2 DEF ResumeInv, CompletedResumeHolds
  <2> HIDE DEF o
  <2> QED
    BY <1>1, <2>1, <2>2, EndedStays
<1>3. ASSUME NEW w \in Workers, Commit(w), wk[w].request = r,
             wk[w].outcome.kind \in {"COMPLETED", "PARTIAL"}
      PROVE  op'[o].run = req[r].run /\ op'[o].state \in {"COMPLETED", "PARTIAL", "CANCELLED"}
  <2>1. /\ wk[w].op \in Ops /\ op[wk[w].op].state = "RUNNING" /\ op[wk[w].op].worker = w
        /\ ControlHeld(w)
    BY <1>3, Reported DEF Commit, Completable
  <2>2. r # None
    BY NoneAssumption
  <2>3. wk[w].op = o /\ op[o].run = req[r].run
    BY <1>3, <2>1, <2>2 DEF ResumeInv, Confirmed, ControlHeld
  <2>4. op \in [Ops -> OpRow]
    BY DEF IInv, TypeOK
  <2>5. op'[o].state = wk[w].outcome.kind /\ op'[o].run = op[o].run
    BY <1>3, <2>1, <2>3, <2>4 DEF Commit, OpRow
  <2> QED
    BY <1>3, <2>3, <2>5
<1> QED
  BY <1>1, <1>2, <1>3, RequestCompletedByCommit

(* What the worker of a resume holds to, a paused operation's request and   *)
(* a completed request's operation agree in every reachable state.          *)
THEOREM ResumeInvariant == Spec => []ResumeInv
<1>1. Init => ResumeInv
  BY DEF Init, ResumeInv, Confirmed, IdleHasNoRequest, CompletedResumeHolds, Idle
<1>2. IInv /\ ResumeInv /\ [Next]_vars => ResumeInv'
  BY ConfirmedKept, IdleKept, CompletedKept DEF ResumeInv
<1> QED
  BY <1>1, <1>2, InductiveInvariant, PTL DEF Spec

(* Who executes a resume that would be accepted executes the snapshot the  *)
(* user confirmed, in its run, with facts that allow it.                   *)
THEOREM ResumesWhatWasConfirmedHolds == Spec => []ResumesWhatWasConfirmed
<1>1. IInv /\ ResumeInv => ResumesWhatWasConfirmed
  <2> SUFFICES ASSUME IInv, ResumeInv, NEW w \in Workers, wk[w].request # None,
                      op[wk[w].op].state = "RUNNING", op[wk[w].op].worker = w, ControlHeld(w)
               PROVE  /\ op[wk[w].op].run = req[wk[w].request].run
                      /\ op[wk[w].op].paused.snapshot = req[wk[w].request].snapshot
                      /\ Permission(wk[w].request) = "RESUME_ALLOWED"
    BY DEF ResumesWhatWasConfirmed
  <2>1. wk[w].request \in Requests /\ req[wk[w].request].state = "RUNNING"
    BY DEF IInv, TypeOK, Process, ControlHeld
  <2>2. Permission(wk[w].request) = "RESUME_ALLOWED"
    BY <2>1 DEF IInv, RequestBound
  <2> QED
    BY <2>2 DEF ResumeInv, Confirmed
<1> QED
  BY <1>1, InductiveInvariant, ResumeInvariant, PTL

(* A resume reported as successful left its run completed or partial, or   *)
(* cancelled later.                                                        *)
THEOREM CompletedResumeStands == Spec => []CompletedResumeHolds
<1>1. ResumeInv => CompletedResumeHolds
  BY DEF ResumeInv
<1> QED
  BY <1>1, ResumeInvariant, PTL
-----------------------------------------------------------------------------
(* The delivery around the operation (TaskDelivery).  A worker is idle     *)
(* with nothing in its hands, so that a process that ends without having   *)
(* claimed anything changes nothing of the operations.                     *)
Rested == \A w \in Workers : wk[w].pc = "idle" => wk[w] = Idle

LEMMA RestedKept ==
  ASSUME IInv, Rested, [Next]_vars
  PROVE  Rested'
<1>1. wk \in [Workers -> Process]
  BY DEF IInv, TypeOK
<1>2. ASSUME wk' = wk PROVE Rested'
  BY <1>2 DEF Rested
<1>3. ASSUME NEW v \in Workers, NEW p, p.pc = "idle" => p = Idle, wk' = [wk EXCEPT ![v] = p]
      PROVE  Rested'
  BY <1>1, <1>3 DEF Rested
<1>4. ASSUME NEW v \in Workers, NEW outcome, Return(v, outcome) PROVE Rested'
  <2>1. wk' = [wk EXCEPT ![v] = [wk[v] EXCEPT !.pc = "reporting", !.outcome = outcome]]
    BY <1>4 DEF Return
  <2>2. [wk[v] EXCEPT !.pc = "reporting", !.outcome = outcome].pc = "reporting"
    BY <1>1 DEF Process
  <2> QED
    BY <1>3, <2>1, <2>2
<1>5. ASSUME NEW v \in Workers, wk' = [wk EXCEPT ![v] = Idle] PROVE Rested'
  BY <1>3, <1>5
<1>6. ASSUME NEW v \in Workers, NEW o \in Ops, ClaimNext(v, o) PROVE Rested'
  <2>1. wk' = [wk EXCEPT ![v] = [pc |-> "executing", op |-> o,
                  run |-> ClaimedRun(o), request |-> None, outcome |-> NoOutcome]]
    BY <1>6 DEF ClaimNext
  <2> QED
    BY <1>3, <2>1
<1>7. ASSUME NEW v \in Workers, NEW r \in Requests, ClaimControl(v, r) PROVE Rested'
  <2>1. wk' = [wk EXCEPT ![v] = [pc |-> "executing", op |-> req[r].op, run |-> req[r].run,
                                 request |-> r, outcome |-> NoOutcome]]
    BY <1>7 DEF ClaimControl
  <2> QED
    BY <1>3, <2>1
<1>8. ASSUME NEW v \in Workers, ReplayReceipt(v) PROVE Rested'
  <2>1. PICK p : p = [wk[v] EXCEPT !.pc = "reporting", !.outcome = receipts[v][wk[v].op]]
    OBVIOUS
  <2>2. wk' = [wk EXCEPT ![v] = p]
    BY <1>8, <2>1 DEF ReplayReceipt
  <2>3. p.pc = "reporting"
    BY <1>1, <2>1 DEF Process
  <2> QED
    BY <1>3, <2>2, <2>3
<1>9. ASSUME NEW v \in Workers, StartCompletion(v) PROVE Rested'
  <2>1. PICK p : p = [wk[v] EXCEPT !.pc = "completing"]
    OBVIOUS
  <2>2. wk' = [wk EXCEPT ![v] = p]
    BY <1>1, <1>9, <2>1 DEF StartCompletion
  <2>3. p.pc = "completing"
    BY <1>1, <2>1 DEF Process
  <2> QED
    BY <1>3, <2>2, <2>3
<1>10. ASSUME NEW v \in Workers, FinishRun(v) \/ PauseRun(v) \/ KeepPaused(v) PROVE Rested'
  <2>1. \E outcome : Return(v, outcome)
    BY <1>10 DEF FinishRun, PauseRun, KeepPaused
  <2> QED
    BY <1>4, <2>1
<1>11. ASSUME NEW v \in Workers, Commit(v) \/ NotCompletable(v) \/ Crash(v) PROVE Rested'
  BY <1>5, <1>11 DEF Commit, NotCompletable, Crash, Restart
<1>12. ASSUME NEW v \in Workers, NEW r \in Requests, RejectControl(v, r) \/ DenyControl(v, r)
       PROVE  Rested'
  BY <1>2, <1>12 DEF RejectControl, DenyControl
<1>13. ASSUME NEW v \in Workers, WorkerStep(v) PROVE Rested'
  BY <1>6, <1>7, <1>8, <1>9, <1>10, <1>11, <1>12, <1>13 DEF WorkerStep
<1>14. CASE \E o \in Ops : Submit(o) \/ Cancel(o)
  BY <1>2, <1>14 DEF Submit, Cancel
<1>15. CASE \E r \in Requests, o \in Ops : RequestResume(r, o)
  BY <1>2, <1>15 DEF RequestResume
<1>16. CASE Tick
  BY <1>2, <1>16 DEF Tick
<1>17. CASE UNCHANGED vars
  BY <1>2, <1>17 DEF vars
<1> QED
  BY <1>13, <1>14, <1>15, <1>16, <1>17 DEF Next

(* A process that ends is a crash of its worker, or nothing is lost by it. *)
LEMMA RestartIsCrash ==
  ASSUME IInv, Rested, NEW w \in Workers, Restart(w), UNCHANGED <<op, events, facts, req>>
  PROVE  [Next]_vars
<1>1. CASE wk[w].pc # "idle" \/ \E o \in Ops : receipts[w][o] # NoOutcome
  BY <1>1 DEF Crash, WorkerStep, Next
<1>2. CASE wk[w].pc = "idle" /\ \A o \in Ops : receipts[w][o] = NoOutcome
  <2>1. wk \in [Workers -> Process] /\ receipts \in [Workers -> [Ops -> Outcomes]]
    BY DEF IInv, TypeOK
  <2>2. wk' = wk
    BY <1>2, <2>1 DEF Rested, Restart
  <2>3. receipts[w] = [o \in Ops |-> NoOutcome]
    BY <1>2, <2>1
  <2>4. receipts' = receipts
    BY <2>1, <2>3 DEF Restart
  <2> QED
    BY <2>2, <2>4 DEF vars
<1> QED
  BY <1>1, <1>2

LEMMA LoopIsWork ==
  ASSUME IInv, Rested, NEW w \in Workers, Loop(w)
  PROVE  [Next]_vars
<1>1. CASE UNCHANGED vars
  BY <1>1
<1>2. CASE WorkerStep(w)
  BY <1>2 DEF Next
<1>3. ASSUME Restart(w), UNCHANGED <<op, events, facts, req>> PROVE [Next]_vars
  BY <1>3, RestartIsCrash
<1>4. NoRequest(w) \/ (\E m \in Messages : Read(w, m)) \/ ReadNothing(w) \/ Defer(w)
        \/ SkipFinished(w) \/ Acknowledge(w) => UNCHANGED vars
  BY DEF NoRequest, Read, ReadNothing, Defer, SkipFinished, Acknowledge
<1>5. ASSUME NEW r \in Requests, RefuseRequest(w, r) \/ TakeRequest(w, r) PROVE WorkerStep(w)
  BY <1>5 DEF RefuseRequest, TakeRequest, WorkerStep
<1>6. ASSUME NEW o \in Ops, TakeTask(w, o) PROVE WorkerStep(w)
  BY <1>6 DEF TakeTask, WorkerStep
<1>7. Work(w) \/ Settle(w) \/ Refused(w) => WorkerStep(w)
  BY DEF Work, Settle, Refused, WorkerStep
<1>8. ReadThrows(w) \/ Throw(w) => Restart(w) /\ UNCHANGED <<op, events, facts, req>>
  BY DEF ReadThrows, Throw
<1> QED
  BY <1>1, <1>2, <1>3, <1>4, <1>5, <1>6, <1>7, <1>8 DEF Loop

LEMMA DeliveryStep ==
  ASSUME IInv, Rested, [DeliveryNext]_allVars
  PROVE  [Next]_vars
<1>1. ASSUME NEW o \in Ops, SubmitTask(o) \/ CancelTask(o) \/ BecomeDue(o) PROVE [Next]_vars
  BY <1>1 DEF SubmitTask, CancelTask, BecomeDue, Next
<1>2. ASSUME NEW r \in Requests, NEW o \in Ops, ConfirmResume(r, o) PROVE [Next]_vars
  BY <1>2 DEF ConfirmResume, Next
<1>3. CASE PassTime
  BY <1>3 DEF PassTime, Next
<1>4. (\E m \in Messages : BecomeIdle(m)) \/ LoseStream => UNCHANGED vars
  BY DEF BecomeIdle, LoseStream
<1>5. ASSUME NEW o \in Ops, Publish(o) \/ PublishFails(o) \/ PublisherCrash(o)
      PROVE  UNCHANGED vars
  BY <1>5 DEF Publish, PublishFails, PublisherCrash
<1>6. ASSUME NEW w \in Workers, Loop(w) PROVE [Next]_vars
  BY <1>6, LoopIsWork
<1>7. ASSUME NEW w \in Workers, Die(w) PROVE [Next]_vars
  BY <1>7, RestartIsCrash DEF Die
<1>8. CASE UNCHANGED allVars
  BY <1>8 DEF allVars, vars
<1> QED
  BY <1>1, <1>2, <1>3, <1>4, <1>5, <1>6, <1>7, <1>8 DEF DeliveryNext

(* Every behaviour of the outbox, the stream and the worker loop is one of *)
(* the operations: entries that are lost, repeated or late, a stream that  *)
(* is emptied and processes that end make a worker claim and report in no  *)
(* way the operation does not allow (publisher.ts, and runOnce in          *)
(* task-persistence).                                                      *)
THEOREM DeliveryIsLifecycle == DeliverySpec => Spec
<1>1. DeliveryInit => Init /\ IInv /\ Rested
  <2>1. Init => IInv
    BY InitEstablishes
  <2> QED
    BY <2>1 DEF DeliveryInit, Init, Rested
<1>2. IInv /\ Rested /\ [DeliveryNext]_allVars => [Next]_vars
  BY DeliveryStep
<1>3. IInv /\ Rested /\ [Next]_vars => IInv' /\ Rested'
  BY NextKeeps, RestedKept
<1> QED
  BY <1>1, <1>2, <1>3, PTL DEF DeliverySpec, Spec

(* So what an operation promises is kept whatever happens to its messages. *)
THEOREM DeliveryKeepsContract == DeliverySpec => KeepsContract
BY DeliveryIsLifecycle, ContractIsKept, PTL
=============================================================================
