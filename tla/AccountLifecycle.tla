--------------------------- MODULE AccountLifecycle ---------------------------
(***************************************************************************)
(* What becomes of an account that is disabled or that asks for its        *)
(* deletion: the events the identity module enqueues with the change of    *)
(* the status, the lifecycle worker that processes them                    *)
(* (packages/identity-access/src/lifecycle-worker.ts), its handler         *)
(* (apps/api/src/identity-lifecycle-handler.ts) and the private rows of    *)
(* the owner in the modules it cleans.                                     *)
(*                                                                         *)
(* The worker keeps the row of its event locked while the handler commits  *)
(* one transaction per module; the erasure of the account and the mark of  *)
(* the event commit together at the end.  A failure, a crash or an abort   *)
(* in between leaves the modules cleaned so far clean and the event open.  *)
(* Cancelling a deletion locks the account first and the events second,    *)
(* the worker the other way round: they may deadlock, and PostgreSQL then  *)
(* aborts one of the two.                                                  *)
(*                                                                         *)
(* Others write rows of the owner without looking at its account: the      *)
(* Runtime adapter of a run that is under way, and a source worker that    *)
(* holds a job, which opens a login when it finds no credential.           *)
(*                                                                         *)
(* An owner has one decision task with a sequence of operations, in the    *)
(* order of created_at, and one row per other module; the seven days are   *)
(* Grace ticks.                                                            *)
(***************************************************************************)
EXTENDS Integers, Sequences, FiniteSets

CONSTANTS Accounts, Workers, None,
          Grace,         \* the seven days, in ticks
          Uses,          \* modules other than the tasks an owner stores rows in
          MaxOperations, \* bound: operations of an owner
          MaxRuns,       \* bound: operations of an owner a worker executes
          MaxTime,       \* bound: the last tick
          MaxEvents,     \* bound: events enqueued
          MaxFaults      \* bound: failures and crashes

Modules == {"research", "access", "tasks", "conversations"}

ASSUME LifecycleAssumption ==
  /\ Uses \subseteq Modules \ {"tasks"}
  /\ Grace \in Nat \ {0} /\ MaxTime \in Nat /\ MaxEvents \in Nat /\ MaxFaults \in Nat
  /\ MaxOperations \in Nat /\ MaxRuns \in Nat
  /\ None \notin Accounts

IdleWorker == [pc |-> "idle", event |-> 0]

VARIABLES time,
          accounts,    \* identity_accounts: the status and deletion_due_at
          events,      \* identity_account_lifecycle_events, in order of occurred_at
          operations,  \* the operations of an owner: state, whether it ran again, its
                       \* run, and (history) whether it was submitted when the
                       \* account was not ACTIVE
          stored,      \* owner |-> other modules that hold rows of it, and its logins
          requests,    \* owners with a request the API has let in
          researching, \* owners of a job a source worker has claimed
          cancelling,  \* owners whose row CANCEL_SELF_DELETION holds
          workers,     \* lifecycle workers
          faults

vars ==
  <<time, accounts, events, operations, stored, requests, researching, cancelling, workers,
    faults>>

Purged(a) == \A i \in DOMAIN operations[a] : operations[a][i].state = "PURGED"
Holdings(a) == stored[a] \cup IF Purged(a) THEN {} ELSE {"tasks"}

Init ==
  /\ time = 0
  /\ accounts = [a \in Accounts |-> [status |-> "ACTIVE", due |-> 0]]
  /\ events = <<>>
  /\ operations = [a \in Accounts |-> <<>>]
  /\ stored = [a \in Accounts |-> {}]
  /\ requests = {} /\ researching = {}
  /\ cancelling = {}
  /\ workers = [w \in Workers |-> IdleWorker]
  /\ faults = 0

(* A request has long ended when the next tick comes. *)
Tick ==
  /\ time < MaxTime /\ requests = {}
  /\ time' = time + 1
  /\ UNCHANGED <<accounts, events, operations, stored, requests, researching,
                 cancelling, workers, faults>>

-----------------------------------------------------------------------------
(* The owner at work.  The API resolves the session, the module then       *)
(* commits without looking at the account again.                           *)

BeginRequest(a) ==
  /\ accounts[a].status = "ACTIVE" /\ a \notin requests
  /\ requests' = requests \cup {a}
  /\ UNCHANGED <<time, accounts, events, operations, stored, researching,
                 cancelling, workers, faults>>

(* A submission under the decision_task_id of earlier ones is accepted too. *)
Submit(a) ==
  /\ a \in requests /\ Len(operations[a]) < MaxOperations
  /\ operations' = [operations EXCEPT ![a] =
       Append(@, [state |-> "ACTIVE", retried |-> FALSE, run |-> "NONE",
                  late |-> accounts[a].status # "ACTIVE"])]
  /\ requests' = requests \ {a}
  /\ UNCHANGED <<time, accounts, events, stored, researching, cancelling, workers, faults>>

Store(a) ==
  /\ a \in requests
  /\ \E m \in Uses : stored' = [stored EXCEPT ![a] = @ \cup {m}]
  /\ requests' = requests \ {a}
  /\ UNCHANGED <<time, accounts, events, operations, researching, cancelling,
                 workers, faults>>

(* A request that is refused, or only reads. *)
EndRequest(a) ==
  /\ a \in requests
  /\ requests' = requests \ {a}
  /\ UNCHANGED <<time, accounts, events, operations, stored, researching,
                 cancelling, workers, faults>>

-----------------------------------------------------------------------------
(* The workers of the orchestrator and the Runtime adapter.  ACTIVE is     *)
(* every state that has not ended; the run of an operation is OPEN once a  *)
(* worker executes it, and LOOSE while rows of it stand that no purge      *)
(* would find.                                                             *)

Operation(a, i) == operations[a][i]
Alter(a, i, operation) == operations' = [operations EXCEPT ![a][i] = operation]

TaskEnds(a, i) ==
  /\ Operation(a, i).state = "ACTIVE"
  /\ Alter(a, i, [Operation(a, i) EXCEPT !.state = "FINAL"])
  /\ UNCHANGED <<time, accounts, events, stored, requests, researching, cancelling,
                 workers, faults>>

(* An operation that failed is claimed: another run begins, and the events *)
(* of the first one stay.                                                  *)
Retry(a, i) ==
  /\ Operation(a, i).state = "ACTIVE" /\ Operation(a, i).run # "NONE"
  /\ Alter(a, i, [Operation(a, i) EXCEPT !.retried = TRUE])
  /\ UNCHANGED <<time, accounts, events, stored, requests, researching, cancelling,
                 workers, faults>>

Running(a) == {i \in DOMAIN operations[a] : Operation(a, i).run # "NONE"}

StartRun(a, i) ==
  /\ Operation(a, i).state = "ACTIVE" /\ Operation(a, i).run = "NONE"
  /\ Cardinality(Running(a)) < MaxRuns
  /\ Alter(a, i, [Operation(a, i) EXCEPT !.run = "OPEN"])
  /\ UNCHANGED <<time, accounts, events, stored, requests, researching, cancelling,
                 workers, faults>>

(* putRawSnapshot: a raw snapshot no facts name yet.  Behind the purge so  *)
(* is the result of an effect, or the record of an egress.                 *)
PutRawSnapshot(a, i) ==
  /\ Operation(a, i).run # "NONE"
  /\ Alter(a, i, [Operation(a, i) EXCEPT !.run = "LOOSE"])
  /\ UNCHANGED <<time, accounts, events, stored, requests, researching, cancelling,
                 workers, faults>>

(* saveRecoveryFacts: the facts name the raw snapshot and the run, whether *)
(* there is still an operation or not; so does the control row.            *)
SaveRecoveryFacts(a, i) ==
  /\ Operation(a, i).run = "LOOSE"
  /\ Alter(a, i, [Operation(a, i) EXCEPT
       !.run = IF Operation(a, i).state = "PURGED" THEN "LOOSE" ELSE "OPEN"])
  /\ UNCHANGED <<time, accounts, events, stored, requests, researching, cancelling,
                 workers, faults>>

-----------------------------------------------------------------------------
(* The source worker. *)

ClaimJob(a) ==
  /\ "research" \in stored[a] /\ a \notin researching
  /\ researching' = researching \cup {a}
  /\ UNCHANGED <<time, accounts, events, operations, stored, requests, cancelling,
                 workers, faults>>

(* BEGIN_LOGIN, where the job finds no credential, or one that fails: the  *)
(* job then waits for its owner.                                           *)
BeginLogin(a) ==
  /\ a \in researching
  /\ stored' = [stored EXCEPT ![a] = @ \cup {"logins"}]
  /\ researching' = researching \ {a}
  /\ UNCHANGED <<time, accounts, events, operations, requests, cancelling, workers, faults>>

EndJob(a) ==
  /\ a \in researching
  /\ researching' = researching \ {a}
  /\ UNCHANGED <<time, accounts, events, operations, stored, requests, cancelling,
                 workers, faults>>

-----------------------------------------------------------------------------
(* The status of the account and its events, in one transaction. *)

Open(e) == events[e].state = "OPEN"
Held(e) == \E w \in Workers : workers[w].event = e
OfAccount(a, types) == {e \in DOMAIN events : events[e].account = a /\ events[e].type \in types}

Account(w) == events[workers[w].event].account
Deletes(w) == events[workers[w].event].type = "DELETE"
At(w, pc) == workers[w].pc = pc

Event(a, type, at) == [account |-> a, type |-> type, at |-> at, state |-> "OPEN"]

(* Mutant: only the restriction is cancelled. *)
CancelledRestriction(a, types) ==
  [e \in DOMAIN events |->
     IF Open(e) /\ e \in OfAccount(a, {"RESTRICT"})
       THEN [events[e] EXCEPT !.state = "CANCELLED"] ELSE events[e]]

Cancelled(a, types) ==
  [e \in DOMAIN events |->
     IF Open(e) /\ e \in OfAccount(a, types)
       THEN [events[e] EXCEPT !.state = "CANCELLED"] ELSE events[e]]

SetAccountDisabled(a) ==
  /\ accounts[a].status = "ACTIVE"
  /\ Len(events) < MaxEvents
  /\ accounts' = [accounts EXCEPT ![a].status = "DISABLED"]
  /\ events' = Append(events, Event(a, "RESTRICT", time))
  /\ UNCHANGED <<time, operations, stored, requests, researching, cancelling,
                 workers, faults>>

(* The update of an event waits for the worker that holds it. *)
SetAccountActive(a) ==
  /\ accounts[a].status = "DISABLED"
  /\ \A e \in OfAccount(a, {"RESTRICT"}) : ~Held(e)
  /\ accounts' = [accounts EXCEPT ![a].status = "ACTIVE"]
  /\ events' = Cancelled(a, {"RESTRICT"})
  /\ UNCHANGED <<time, operations, stored, requests, researching, cancelling,
                 workers, faults>>

RequestDeletion(a) ==
  /\ accounts[a].status = "ACTIVE"
  /\ Len(events) + 1 < MaxEvents /\ time + Grace <= MaxTime
  /\ accounts' = [accounts EXCEPT ![a] = [status |-> "PENDING_DELETION", due |-> time + Grace]]
  /\ events' = events \o <<Event(a, "RESTRICT", time), Event(a, "DELETE", time + Grace)>>
  /\ UNCHANGED <<time, operations, stored, requests, researching, cancelling,
                 workers, faults>>

(* The erasure waits for the row of its account, or is about to write it. *)
Erasing(w, a) == At(w, "commit") /\ Deletes(w) /\ Account(w) = a

(* CANCEL_SELF_DELETION locks the account; nobody asks whether it is due. *)
LockAccount(a) ==
  /\ accounts[a].status = "PENDING_DELETION" /\ a \notin cancelling
  /\ \A w \in Workers : ~Erasing(w, a)
  /\ cancelling' = cancelling \cup {a}
  /\ UNCHANGED <<time, accounts, events, operations, stored, requests, researching,
                 workers, faults>>

CancelSelfDeletion(a) ==
  /\ a \in cancelling
  /\ \A e \in OfAccount(a, {"DELETE", "RESTRICT"}) : Open(e) => ~Held(e)
  /\ accounts' = [accounts EXCEPT ![a] = [status |-> "ACTIVE", due |-> 0]]
  /\ events' = Cancelled(a, {"DELETE", "RESTRICT"})
  /\ cancelling' = cancelling \ {a}
  /\ UNCHANGED <<time, operations, stored, requests, researching, workers, faults>>

-----------------------------------------------------------------------------
(* The worker. *)

Go(w, pc) == workers' = [workers EXCEPT ![w].pc = pc]
Rest(w) == workers' = [workers EXCEPT ![w] = IdleWorker]

Before(e, f) == events[e].at < events[f].at \/ (events[e].at = events[f].at /\ e < f)

(* A cancellation locks the events right behind the account: a worker      *)
(* picks one before that or skips it.                                      *)
Locked(e) == Held(e) \/ events[e].account \in cancelling

(* Mutant: an event is picked before its time. *)
ScheduledEver(e) == Open(e) /\ ~Locked(e)
Scheduled(e) == Open(e) /\ events[e].at <= time /\ ~Locked(e)

(* FOR UPDATE SKIP LOCKED, the earliest first. *)
Pick(w) ==
  /\ At(w, "idle")
  /\ \E e \in DOMAIN events :
       /\ Scheduled(e)
       /\ \A f \in DOMAIN events \ {e} : Scheduled(f) => Before(e, f)
       /\ workers' = [workers EXCEPT ![w] = [pc |-> "list", event |-> e]]
  /\ UNCHANGED <<time, accounts, events, operations, stored, requests, researching,
                 cancelling, faults>>

(* cancelActiveTasksForOwner: of each task the latest operation is looked  *)
(* at, and requestRuntimeCancel cancels what is the latest then, in a      *)
(* transaction of its own; one that has ended meanwhile refuses.  Earlier  *)
(* operations of the task go on.                                           *)

(* Mutant: the operations in the order they were submitted. *)
Earliest(a) == operations[a][1]

Latest(a) == operations[a][Len(operations[a])]

LatestActive(a) == operations[a] # <<>> /\ Latest(a).state = "ACTIVE"

(* Mutant: the source research is left out of the deletion. *)
AfterTasksAccess(w) == IF Deletes(w) THEN "access" ELSE "commit"

AfterTasks(w) == IF Deletes(w) THEN "research" ELSE "commit"

ListActiveTasks(w) ==
  /\ At(w, "list")
  /\ LET a == Account(w)
     IN Go(w, IF LatestActive(a) THEN "cancel" ELSE AfterTasks(w))
  /\ UNCHANGED <<time, accounts, events, operations, stored, requests, researching,
                 cancelling, faults>>

RequestRuntimeCancel(w) ==
  /\ At(w, "cancel")
  /\ LET a == Account(w)
     IN IF LatestActive(a)
          THEN Alter(a, Len(operations[a]), [Latest(a) EXCEPT !.state = "FINAL"])
          ELSE UNCHANGED operations
  /\ Go(w, AfterTasks(w))
  /\ UNCHANGED <<time, accounts, events, stored, requests, researching, cancelling, faults>>

Then == [research |-> "access", access |-> "tasks", tasks |-> "conversations",
         conversations |-> "commit"]

(* The purge of the source access takes the logins with it. *)
PurgeModule(w) ==
  /\ workers[w].pc \in Modules \ {"tasks"}
  /\ stored' = [stored EXCEPT ![Account(w)] =
       @ \ ({workers[w].pc} \cup IF At(w, "access") THEN {"logins"} ELSE {})]
  /\ Go(w, Then[workers[w].pc])
  /\ UNCHANGED <<time, accounts, events, operations, requests, researching,
                 cancelling, faults>>

(* The purge deletes the events of the last run only, and then all runs:   *)
(* the foreign key of the events of an earlier run refuses.                *)
Refused(a) == \E i \in DOMAIN operations[a] : Operation(a, i).retried

(* A raw snapshot no facts name is not found. *)
PurgeTasks(w) ==
  /\ At(w, "tasks") /\ ~Refused(Account(w))
  /\ operations' = [operations EXCEPT ![Account(w)] =
       [i \in DOMAIN @ |-> [@[i] EXCEPT !.state = "PURGED"]]]
  /\ Go(w, Then["tasks"])
  /\ UNCHANGED <<time, accounts, events, stored, requests, researching, cancelling, faults>>

(* The attempt is counted and the event stays open. *)
PurgeRefused(w) ==
  /\ At(w, "tasks") /\ Refused(Account(w))
  /\ Rest(w)
  /\ UNCHANGED <<time, accounts, events, operations, stored, requests, researching,
                 cancelling, faults>>

(* The handler cannot reach a module, or the process ends: in both cases   *)
(* the event stays open.                                                   *)
Fail(w) ==
  /\ ~At(w, "idle") /\ faults < MaxFaults
  /\ faults' = faults + 1
  /\ Rest(w)
  /\ UNCHANGED <<time, accounts, events, operations, stored, requests, researching,
                 cancelling>>

(* Mutant: only a deletion is marked. *)
ProcessedDeletion(w) ==
  events' = IF Deletes(w) THEN [events EXCEPT ![workers[w].event].state = "PROCESSED"]
                          ELSE events

Processed(w) == events' = [events EXCEPT ![workers[w].event].state = "PROCESSED"]

MarkProcessed(w) ==
  /\ At(w, "commit") /\ ~Deletes(w)
  /\ Processed(w) /\ Rest(w)
  /\ UNCHANGED <<time, accounts, operations, stored, requests, researching,
                 cancelling, faults>>

EraseIdentityAccount(w) ==
  /\ Erasing(w, Account(w))
  /\ Account(w) \notin cancelling
  /\ accounts[Account(w)].status = "PENDING_DELETION"
  /\ accounts' = [accounts EXCEPT ![Account(w)] = [status |-> "DELETED", due |-> 0]]
  /\ Processed(w) /\ Rest(w)
  /\ UNCHANGED <<time, operations, stored, requests, researching, cancelling, faults>>

(* The erasure waits for the account the cancellation holds, which waits   *)
(* for the event: one of them is aborted.                                  *)
Deadlocked(w) == \E a \in cancelling : Erasing(w, a)

AbortWorker(w) ==
  /\ Deadlocked(w)
  /\ Rest(w)
  /\ UNCHANGED <<time, accounts, events, operations, stored, requests, researching,
                 cancelling, faults>>

AbortCancellation(w) ==
  /\ Deadlocked(w)
  /\ cancelling' = cancelling \ {Account(w)}
  /\ UNCHANGED <<time, accounts, events, operations, stored, requests, researching,
                 workers, faults>>

Work(w) ==
  Pick(w) \/ ListActiveTasks(w) \/ RequestRuntimeCancel(w)
  \/ PurgeModule(w) \/ PurgeTasks(w) \/ PurgeRefused(w)
  \/ MarkProcessed(w) \/ EraseIdentityAccount(w)

Next ==
  \/ Tick
  \/ \E a \in Accounts :
       \/ BeginRequest(a) \/ Submit(a) \/ Store(a) \/ EndRequest(a)
       \/ \E i \in DOMAIN operations[a] :
            TaskEnds(a, i) \/ Retry(a, i) \/ StartRun(a, i) \/ PutRawSnapshot(a, i)
            \/ SaveRecoveryFacts(a, i)
       \/ ClaimJob(a) \/ BeginLogin(a) \/ EndJob(a)
       \/ SetAccountDisabled(a) \/ SetAccountActive(a) \/ RequestDeletion(a)
       \/ LockAccount(a) \/ CancelSelfDeletion(a)
  \/ \E w \in Workers : Work(w) \/ Fail(w) \/ AbortWorker(w) \/ AbortCancellation(w)

Spec == Init /\ [][Next]_vars

(* The loop of the worker runs for ever and is restarted with its          *)
(* container, transactions end, deadlocks are found, and time passes       *)
(* however often requests begin and end.                                   *)
Fairness ==
  /\ \A w \in Workers : WF_vars(Work(w)) /\ WF_vars(AbortWorker(w) \/ AbortCancellation(w))
  /\ \A a \in Accounts : WF_vars(CancelSelfDeletion(a)) /\ WF_vars(EndRequest(a))
  /\ SF_vars(Tick)

FairSpec == Spec /\ Fairness

-----------------------------------------------------------------------------
(* Properties. *)

TypeOK ==
  /\ time \in 0..MaxTime /\ faults \in 0..MaxFaults
  /\ accounts \in [Accounts -> [status : {"ACTIVE", "DISABLED", "PENDING_DELETION", "DELETED"},
                                due : 0..MaxTime]]
  /\ events \in Seq([account : Accounts, type : {"RESTRICT", "DELETE"}, at : 0..MaxTime,
                     state : {"OPEN", "CANCELLED", "PROCESSED"}])
  /\ Len(events) <= MaxEvents
  /\ operations \in [Accounts -> Seq([state : {"ACTIVE", "FINAL", "PURGED"}, retried : BOOLEAN,
                                      run : {"NONE", "OPEN", "LOOSE"}, late : BOOLEAN])]
  /\ \A a \in Accounts : Len(operations[a]) <= MaxOperations
  /\ stored \in [Accounts -> SUBSET ((Modules \ {"tasks"}) \cup {"logins"})]
  /\ requests \subseteq Accounts /\ researching \subseteq Accounts /\ cancelling \subseteq Accounts
  /\ workers \in [Workers -> [pc : Modules \cup {"idle", "list", "cancel", "commit"},
                              event : 0..MaxEvents]]

(* An account waits for its deletion exactly while one open DELETE event   *)
(* with its due time waits for it, whatever fails or is cancelled: the     *)
(* worker, retrying, never finds an account it must not erase.             *)
DeletionIsQueued ==
  \A a \in Accounts :
    LET open == {e \in OfAccount(a, {"DELETE"}) : Open(e)}
    IN IF accounts[a].status = "PENDING_DELETION"
         THEN \E e \in open : open = {e} /\ events[e].at = accounts[a].due
         ELSE open = {}

(* The rows are well formed, and account and queue agree.                  *)
QueuedState == TypeOK /\ DeletionIsQueued

(* Of an erased account everything the owner stored is purged, and there   *)
(* is nothing left a worker could still claim: what remains, if anything,  *)
(* was written by a run or a job that was under way before.                *)
ErasedIsPurged ==
  \A a \in Accounts : accounts[a].status = "DELETED" => Holdings(a) \subseteq {"logins"}

(* Of an erased account nothing at all is left: true only as long as no    *)
(* run and no research is under way (AccountLifecycleProofs).              *)
ErasedLeavesNothing ==
  \A a \in Accounts : accounts[a].status = "DELETED" =>
    Holdings(a) = {} /\ \A i \in DOMAIN operations[a] : Operation(a, i).run # "LOOSE"

(* An account was erased only when its seven days were over.               *)
ErasedWhenDue ==
  [][\A a \in Accounts :
       accounts'[a].status = "DELETED" /\ accounts[a].status # "DELETED" =>
         accounts[a].status = "PENDING_DELETION" /\ accounts[a].due <= time]_vars

(* The restriction of an account has been processed. *)
Restricted(a) ==
  accounts[a].status # "ACTIVE" /\ \A e \in OfAccount(a, {"RESTRICT"}) : ~Open(e)

Stopped(operation) == operation.late \/ operation.state # "ACTIVE"

(* Then the latest operation of its task is not active, but for one that a *)
(* request submitted which the API had let in before (submitTask does not  *)
(* look at the account again).                                             *)
LatestStops ==
  \A a \in Accounts : Restricted(a) =>
    \A i \in DOMAIN operations[a] : i = Len(operations[a]) => Stopped(Operation(a, i))

(* Then no operation that was let in before is active: true only of tasks  *)
(* with one operation (AccountLifecycleProofs).                            *)
RestrictedStops ==
  \A a \in Accounts : Restricted(a) =>
    \A i \in DOMAIN operations[a] : Stopped(Operation(a, i))

(* Every event is processed or cancelled, those behind an event that       *)
(* failed as well, unless an operation of an owner in the queue ran twice: *)
(* as there are MaxEvents of them at most and none is opened again, again  *)
(* and again none is left.                                                 *)
EventsEnd ==
  []<>(\/ \A e \in DOMAIN events : ~Open(e)
       \/ \E e \in DOMAIN events : Refused(events[e].account))
=============================================================================
