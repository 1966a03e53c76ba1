# Verification of ChoiceMind

TLA+ models of ChoiceMind, model-checked with TLC and proved with TLAPS.
ChoiceMind is a TypeScript monorepo: a web application and an API accept
*decision tasks*, orchestrator workers execute them through an agent Runtime
that may pause for a person, and source workers research third-party sites with
stored credentials.  PostgreSQL is the authority; Redis carries wake-ups.

Paths below are relative to the repository; `P` stands for
`packages/task-persistence/src/index.ts`.

## 1. Inventory

### Components, their state and their operations

| Component | State | Operations |
|---|---|---|
| Durable task persistence (`P`, `migration.ts`) | `decision_task_submissions`, `agent_run_operations`, `decision_task_agent_runs`, `decision_task_run_events`, `runtime_control_requests`, `outbox_messages` | `submit`, `get`, `listEvents`, `requestRuntimeResume`, `requestRuntimeCancel`, `cancelActiveTasksForOwner`, `purgePrivateDataForOwner`, `claimNext`, `claimNextRuntimeControl`, `complete` |
| Orchestrator worker (`apps/orchestrator/src/worker.ts`, `decision-tasks/executor.ts`) | the executor's `receipts`; one loop per process | `runOnce`, `executePersistent`, `resumePersistent` |
| Runtime adapter and recovery store (`runtime/coremind-agent-runtime-adapter.ts`, `P` 436-1100) | `runtime_control_states`, `runtime_recovery_facts`, `runtime_effect_receipts`, active controllers | `runPersistent`, `resume`, `cancel`, `saveRecoveryFacts`, `recordRuntimeRunning`, `claimRuntimeResume`, `claimRuntimeCancel`, `completeRuntimeControl` |
| Outbox publisher and stream (`publisher.ts`) | `outbox_messages`, the Redis stream, its consumer group | `publishNext`, `xReadGroup`, `xAck` |
| Run-event notifications and SSE (`event-publisher.ts`, `event-subscriber.ts`, `apps/api/src/decision-tasks/routes.ts`) | event cursors, the last cursor a client saw | publish, subscribe, `waitForNextEvent` |
| Identity and access (`packages/identity-access`) | accounts, sessions, invitations, login throttles, lifecycle requests | bootstrap, register, login, change of role, status and password, deletion requests |
| Account lifecycle worker (`lifecycle-worker.ts`, `identity-lifecycle-handler.ts`) | lifecycle jobs | suspend, cancel tasks, purge, erase |
| Source research and source worker (`packages/source-research`, `apps/source-worker`) | research jobs, leases, results, challenges | enqueue, `claimNext`, `renewLease`, `complete`, `RESUME_SOURCE`, heartbeat |
| Source access and security (`packages/source-access`, `packages/security`) | login connections, encrypted credentials, audit and egress records | `BEGIN_LOGIN`, `COMPLETE_LOGIN`, revoke, `withSecret`, risk policy, egress guard |
| Conversation (`packages/conversation`) | conversations, messages, revisions | create, append |
| Decision contracts (`packages/contracts/src/decision/v1`) | none: the checks of a drafted result | derive assessments, finalise a success, decode a failure or rejection |
| CoreMind compatibility tooling (`scripts/coremind-compat`) | lock directories with `owner.json`, slots, `artifacts/` and `acquisitions/`, a run's directory | `materializeWithReuse`, stages of a verification, `atVerificationStage`, the report |
| Evidence ingestion, local services, gates, data worker, web | none that several actors share, or user interface only | fetch, parse, embed, render |

### How they interact

The API calls `submit`, which stores the command, the operation, its first event
and an outbox message in one transaction.  The publisher moves the message to a
Redis stream, and repeats it while the operation is accepted, retryable or
running on an expired lease.  A worker first looks for a claimable resume request in
the database, then reads the stream; a claim sets the operation RUNNING under a
lease, the executor calls the Runtime, and `complete` stores the outcome if the
claim is still held.  A paused operation waits for `requestRuntimeResume`, which
another turn of some worker's loop claims.  Every change of state inserts a run
event in the same transaction; subscribers replay events from PostgreSQL after a
cursor, Redis only wakes them up.  The account lifecycle cancels and purges the
tasks of an owner; the adapter polls the control row of its run to learn of a
cancellation.

### What is hard, and what makes each component correct

* **Persistence and workers.**  Two leases (operation and resume request) per
  run, clocks read before locks, late reports, crashes at every step, cancels
  at any time, retries in a new run.  Correct when the log a subscriber replays
  always tells the state, a run reports one outcome, final states are final, a
  pause waits for its user, a claim with a live lease is exclusive, and a resume
  executes the snapshot that the user confirmed.
* **Recovery store.**  Facts saved before the pause they back; a control lease
  of its own.  Correct when a pause always has its facts and effects whose
  completion is unknown are never repeated without a person.
* **Publisher and stream.**  At-least-once delivery.  Correct when an accepted
  operation eventually settles and duplicates do nothing.
* **SSE.**  Identity cursors are assigned at insert, transactions commit in
  another order; the lock of an operation orders its own events, but several operations
  may be submitted under one `decision_task_id`, by which a reader asks.  Correct when a
  reader that resumes after a cursor misses nothing.
* **Identity.**  Concurrent demotions, invitations used twice, sessions of a
  suspended account.  Correct when a SUPERADMIN always remains, and a revoked
  session or a used invitation grants nothing.
* **Account lifecycle.**  Modules are cancelled and purged one by one while requests, runs
  and source workers of the owner go on; the last two look at no account.  Correct when a
  restricted account runs nothing and nothing private survives an erased one.
* **Source research.**  Challenges, resumes and heartbeats crossing.  Correct
  when a resumed job is eventually claimed and a job is not completed twice.
* **Source access.**  Correct when a stored secret has a connection that owns it
  and a revoked one cannot be used.
* **Conversation.**  Several pages write to one session, and a page sends again what
  it does not know to be recorded.  Correct when a repeated turn is recorded once and
  the requirement is what the recorded turns add up to.
* **Decision contracts.**  What makes a purchase safe is checked in two modules and a
  dozen places.  Correct when no combination of drafted rows gets an unsupported
  purchase accepted.

* **Compatibility tooling.**  Processes share a store of built candidates on disk, under
  locks that are directories and that waiters take from the dead.  Correct when what is
  published is whole, a candidate is built by one run at a time, a report claims only
  what passed and no run waits for ever.

`PROJECT.json` lists each hazard at its line.

## 2. Plan

In the order of importance; done unless said otherwise.

1. `TaskLifecycle`, `OperationContract`: the durable operation with its workers, and
   what it promises.  Proofs in `TaskLifecycleProofs`.
2. `TaskDelivery`: outbox, stream, pending list and acknowledgement around the
   operation; liveness.  That it implements `TaskLifecycle` is proved in `TaskLifecycleProofs`.
3. `RuntimeControl`: recovery facts, control rows and effect receipts against the adapter.
4. `RunEventFeed`: cursors, commit order, notifications and a page that resumes after a
   cursor.  Proof in `ClientViewProofs`.
5. `IdentityAccounts`: concurrent administrative transactions.  Proofs in
   `IdentityAccountsProofs`.  `AccountLifecycle`: the events they enqueue, their worker
   and the owner's rows.  Proofs in `AccountLifecycleProofs`.
6. `SourceAccess` with the vault, composed with `SourceResearch` and its worker.  Proofs of
   both in `SourceResearchProofs`.
7. `DecisionBasis` and `DecisionResult`: the checks of a result.  Proofs in
   `ClientViewProofs`, with those of `RunEventFeed`.
8. `Conversation`: pages and requests of one session.  Proofs in `ConversationProofs`.
9. `Materialization` and `CompatibilityRun`: the store of built candidates, and a run
   through its gates.  Proofs in `CompatibilityRunProofs`.

`RuntimeControl` has its proofs in `RuntimeControlProofs`.  Nothing of this plan is left.

Composition: `TaskDelivery` extends `TaskLifecycle` and takes steps of both;
`SourceResearch` extends `SourceAccess`, whose calls its workers and users make;
`DecisionResult` extends `DecisionBasis`, `CompatibilityRun` extends `Materialization`;
`TaskLifecycle` instantiates
`OperationContract`.  `AccountLifecycle` has of an operation only whether it is active, ended
or purged, ran twice and has rows outside of the purge, and of the accounts only the status: what
`IdentityAccounts` decides among its concurrent commands is one action there.

## 3. The modules

### TaskLifecycle

One action is one committed transaction, or one step of a process:

| Action | Code |
|---|---|
| `Submit` | `submitInTransaction`; a repetition returns the stored snapshot and changes nothing, so only the first is an action |
| `RequestResume` | `requestRuntimeResume` after its checks; the snapshot must be the one shown by the paused operation |
| `Cancel` | `requestRuntimeCancel`, and each row of `cancelActiveTasksForOwner` |
| `ClaimNext` | `claimNext` returning CLAIMED; DEFERRED, ALREADY_FINISHED and UNKNOWN change no row |
| `RejectControl`, `DenyControl`, `ClaimControl` | the three ways `claimNextRuntimeControl` ends with a request in hand |
| `ReplayReceipt`, `FinishRun`, `PauseRun`, `KeepPaused` | `executeAttempt` finding a receipt; a result or explicit failure; the adapter's `buildPausedOutcome`; `resumePersistent` handing the snapshot back |
| `StartCompletion`, `Commit`, `NotCompletable` | `complete`: the clock is read, then the transaction commits or finds the claim gone; one that throws while decoding a pause ends the process and is a `Crash` |
| `Tick` | one unit of time passes for every lease |
| `Crash` | the process ends (also on the first error that leaves `runOnce`) and comes back with no receipts |

The state: `op` holds `agent_run_operations` (state, run number, worker, lease,
and the paused part of `result_payload`), `events` the task states of
`decision_task_run_events` per run, `facts` the rows of `runtime_recovery_facts` in
order, `req` the RESUME rows of `runtime_control_requests`, `wk` what each process
is doing, `receipts` the executor's map.

Abstractions, all towards more behaviour unless said otherwise:

* Runs are numbered by attempt instead of by random id.
* Delivery: an idle worker may be handed any operation at any time.  That
  includes every order, delay and duplicate of the stream, and more (a message
  that was acknowledged may come back); the publisher republishes accepted,
  retryable and lease-expired operations, so re-delivery is normal here.
* Time: leases count down in ticks.  The code reads `now()` before it obtains a
  connection and the row lock.  A claim may thus be granted with part of its
  lease spent (`Remaining`), and a completion that was in time at the reading may
  reach the row later (`StartCompletion` then `Commit`).
* The candidate lists, evidence and texts of an outcome are left out; an outcome
  is its kind, its run, the task state its events show before the last one, and
  the snapshot of a pause.  An explicit failure carries no run id in the code, so
  `Completable` compares none.
* A recovery fact carries the verdict `evaluateRuntimeRecoveryPermissionV1` will
  give on it, chosen when the facts are saved.
* Reports of the executor are results or explicit outcomes; the code produces no
  other (`executor.ts` turns every other Runtime output into FAILED_FINAL).
* Less behaviour: a decision task owns one operation, so "the latest operation of the
  task" is the operation.  The code accepts several operations under one
  `decision_task_id`, of which a resume or a cancellation reaches the latest only; what
  follows for their events is in `RunEventFeed`, for their cancellation in
  `AccountLifecycle`.  CANCEL rows of `runtime_control_requests` are not kept, as
  they are inserted COMPLETED and never read by a worker; the control rows of the
  recovery store are in `RuntimeControl`, and a resume they refuse is one of the
  failures an attempt may end with; events carry no summary text, so the repeated pause event
  that differs only in its summary is not appended.

### OperationContract

What a submitter is promised, with no worker, lease, request or message:
statuses, run numbers and logs that change together.  `TaskLifecycle!KeepsContract`
instantiates it with `status`, `run` and `log` read from `op` and `events`;
every step of the protocol is a step of the contract or a stutter.

### TaskDelivery

Extends `TaskLifecycle` by how an operation reaches a worker.  Each of its actions is
a step of `TaskLifecycle` with the delivery around it, or leaves the operation alone:

| Action | Code |
|---|---|
| `Publish`, `PublishFails`, `PublisherCrash` | `publishNext` with the row marked; the `catch` that postpones it, whether or not the entry was added; the publisher dying after `xAdd`, which rolls its transaction back |
| `BecomeDue`, `BecomeIdle`, `PassTime` | `next_attempt_at`, the idle time of a pending entry and the leases |
| `LoseStream`, `ReadThrows` | Redis restarting empty; the next read throws, the process ends and its successor creates the group from the start of the stream |
| `NoRequest`, `RefuseRequest`, `TakeRequest` | the start of `runOnce`: a refused request counts as none and the loop goes on to the stream |
| `Read`, `ReadNothing` | `xReadGroup`, which hands out new entries and pending ones that were idle long enough, also while another worker still works on them |
| `TakeTask`, `Defer`, `SkipFinished` | `claimNext` returning CLAIMED, DEFERRED or ALREADY_FINISHED |
| `Settle`, `Refused`, `Acknowledge` | what follows `complete`: no acknowledgement after NOT_COMPLETABLE or a retryable failure, one after everything else |
| `Throw`, `Die` | a completion that throws while decoding a pause, and any other end of the process, with the entry left pending |

`outbox` holds per operation whether its row is due and was ever published,
`stream` the entries, `group` the consumer group, `inbox` where each loop is and the
entry it was handed.  `Messages` bounds the entries that exist at one time; an id
is reused only when nobody holds the old entry.  `faults` counts what went wrong:
crashes, Redis failures, claims granted with part of the lease gone, and
leases that run out under a live worker before it reported.  Its bound
`MaxFaults` is an assumption of the liveness properties: without it two steps can
alternate for ever (a worker that is always too late never settles anything).

### RuntimeControl

One Agent Run seen from its recovery store.  A call is one invocation of the adapter:
`StartRun` (`runPersistent`) or `Resume` (`resume`, which goes on at `ClaimResume` or
ends in `StayPaused` or `RefuseResume`).

| Action | Code |
|---|---|
| `RecordRunning`, `RecordRefused` | `recordRuntimeRunning`: absent rows, expired leases and failures may be taken |
| `AskPermission`, `SubmitDraft`, `EffectEnds`, `Succeed`, `Fail`, `Throw` | the Runtime at work: the draft is the one effect, its receipt says how far it came |
| `PollCancelled`, `PollFails`, `Aborted` | the poll of the control row: a cancellation and a read that fails abort alike |
| `Pause`, `PutRawSnapshot`, `PutEffectResult`, `SaveRecoveryFacts`, `RepeatedReceipt`, `Complete`, `AlreadyComplete`, `CompleteRefused` | the transactions of a pause or an end, in their order, each of which may be the last |
| `Unavailable`, `Crash` | PostgreSQL out of reach, or the process gone, between any two of them |
| `CancelTask`, `CancelRuntime` | the task's cancellation, which overwrites the row; `cancel` of the runtime port (no production caller) |
| `Tick` | the control lease runs down |

`overrun` is history: some call went on after its lease.  A snapshot's id is its digest,
so two pauses never share one.

### IdentityAccounts

Transactions at READ COMMITTED with row locks.  A call begins (`Begin`, `BeginRecovery`,
`ReadLogin`, `BeginRegistration`, `ResolveActor`), locks its actor, its target or its
invitation (`LockActor`, `LockTarget`, `LockInvitation`), which evaluates the condition
again on the locked row, counts the other superadmins without a lock (`CountOthers`),
and commits what its command says (`Commit`, one operator per command).  `Abort` ends
any call at any time: a refusal after a lock, a failure, or the victim of a deadlock.
`LogoutCurrent`, `BootstrapSuperadmin` and `EraseIdentityAccount` are one statement each,
or hold a lock that excludes the rest.

Abstractions: sessions of an account are alike, so an account has some or none, and a
login in flight may insert one after the password changed; hashing, names and audit are
left out; a refused command changes nothing.  An account that is TEMPORARY or disabled may
be promoted, demotion counts every ACTIVE superadmin, disabling and recovery only those
with a PERMANENT password: the code has it so.  `Commands` limits what an
instance is asked; `SelfService` says whether an administrator may name its own account.

### AccountLifecycle

`SetAccountDisabled`, `SetAccountActive`, `RequestDeletion` and `LockAccount` with
`CancelSelfDeletion` change the account and its events together.  The rest is in three parts
that go on beside each other:

| Action | Code |
|---|---|
| `Pick` | the worker's query: the earliest due event, SKIP LOCKED |
| `ListActiveTasks`, `RequestRuntimeCancel` | `cancelActiveTasksForOwner`: of each task the latest operation, read first and cancelled in a transaction of its own, which looks again |
| `PurgeModule`, `PurgeTasks`, `PurgeRefused` | the handler's purges, one transaction each |
| `MarkProcessed`, `EraseIdentityAccount`; `Fail`, `AbortWorker`, `AbortCancellation` | the worker's last transaction; what may happen instead |
| `BeginRequest`, `Submit`, `Store`, `EndRequest` | the owner's API calls: a request that was let in goes on when its account is restricted |
| `StartRun`, `TaskEnds`, `Retry`, `PutRawSnapshot`, `SaveRecoveryFacts` | workers of the orchestrator and the adapter of a run that is under way; no write looks at the account or, but for the operation's own row, at the operation |
| `ClaimJob`, `BeginLogin`, `EndJob` | a source worker with a job of the owner: BEGIN_LOGIN inserts a login session without looking at job or account |

`operations` are the operations of the owner's decision task, in the order of `created_at`;
`stored` the other modules that hold rows of it, and its logins.  A run is OPEN when a worker
executes it and LOOSE while rows of it stand that no purge would find: a raw snapshot that no
facts name yet, or anything (facts, control row, effect result, egress record) written when
the operation was purged.  `late` and `retried` are history.

One task and one row per module stand for all of an owner; the seven days are `Grace` ticks.
A request ends before a tick (none lasts seven days), and a cancellation locks the events
right behind the account.

### SourceAccess

`row` are `source_credentials`, `vault` the encrypted secrets, `login` the login
sessions.  `completeLogin` is `EnterLogin`, `LockAccount`, `StoreSecret` (in the vault,
committed at once), `CommitLogin` or `RollBack` and `UndoStore`, then `DeleteReplaced` and
`ForgetReplaced`.  `Invalidate` with `DeleteMarked` is MARK_INVALID and REVOKE_CREDENTIAL.
`CallerEnds` stops any of them half-way and counts as a fault; `left` remembers the secrets that
nobody deals with afterwards.

### SourceResearch

`CreateBatch`, `ClaimNext` (which sweeps jobs abandoned after their last attempt), `ResumeSource`,
`Heartbeat`, `SaveCheckpoint` and `Complete` are the module's transactions; `ReadStatus`,
`OpenCredential`, `LoadSecret`, `AdapterReturns`, `AuthRequired`, `MarkInvalid`,
`BeginChallenge` and `AskResult` the steps of the worker's `runOnce`.  A lease is LIVE or EXPIRED and a
worker may go on after it (`Expire`).  The adapter is external: any outcome, any checkpoint.
The order among claimable jobs is left open.

### DecisionBasis and DecisionResult

`DecisionBasis` holds the checks as operators over a bundle of rows: well-formed graph, derived
assessments, selected candidate, must-haves, dispositions, risks, the evidence a decision has to name.
`DecisionResult` drafts a bundle row by row from given sets (the Runtime is external and may
be wrong in any way the schema lets through) and then takes it through
`finalizeSuccessfulDecisionTaskResultV1` (`FinalizeSuccess`, `FinalizeInvalid`) or reports a
failure or rejection (`Fail`, `Reject`) as `decodeDecisionTaskResultV1` accepts it.  An amount
stands for a money value or a quantity of one unit; text, URLs and hashes are left out.

### Conversation

A page (`tab`) asks for a session, sends turns, edits a requirement, gives up waiting, receives
answers and opens the session again; a request (`call`) goes on at the server:
`LockSession`, `ReadTurn`, `AppendTurn` or `FailTurn` with the row locked in between.
`Prompt` is the field a page asks about, `TurnId` its rule to reuse the client turn id of an
attempt whose text is the same.  Three requirement fields stand for all.

### RunEventFeed

`Begin`, `InsertRunEvent`, `Commit`, `RollBack` are any transaction of `P` that inserts events: it
holds the row of its operation, not of the task, and a cursor taken is gone when it rolls back.
`TaskOf` says for which task an operation was submitted, `ShownTask` what a page follows.
`overtaken` is history: events that became visible behind one of another operation of their task.
`PickNotification` and `Announce` are the notification publisher, `Connect`, `ListEvents`,
`Wait`, `Poll` the API stream (a wake-up ends `Wait`, else the poll does), `Receive` and
`Disconnect` the page with `lastEventCursor`.

### Materialization and CompatibilityRun

A run is one process of `pnpm coremind:compat`; `pc` is where it is.

| Action | Code |
|---|---|
| `AcquireMaterializationLock`, `AcquireMaterializationSlot`, `WriteLockOwner` | `mkdir` of the candidate's lock or of a slot, then `owner.json` in it |
| `RecoverStaleMaterializationLock`, `RemoveStaleLockDirectory` | a waiter reads an owner that is dead or overdue, and renames the directory under that path away: two steps |
| `ReadReusableMaterialization` | what the pointer of the candidate names is verified and reused |
| `MaterializeGitCommit`, `MaterializeNpmRelease` | built from a commit, or downloaded |
| `AssertOwnership`, `StageArtifacts`, `PromoteArtifacts`, `CommitPointer` | `persistMaterialization`: assertions of both locks around the staging, the rename under the artifact key, the pointer |
| `ReleaseOwnedDirectory`, `RenameReleased` | the release, again a read and a rename |
| `FailOwnerWrite`, `InterruptStage`, `FailRelease` | what a deadline, a cancellation, a command or the file system ends, with the locks released as far as they can be |
| `LockHeartbeat`, `GoStale`, `GoOverdue` | the heartbeat, 30 seconds without one, two hours |
| `Begin`, `DescribeEnvironment`, `ValidateMaterializedCandidate`, `CheckPackageManager` ... `SmokeLocalModel` | the stages in their order, each of which passes or ends the run with a failure report |
| `CleanUp`, `WriteReport`, `PromoteRun`, `EndInFailure`, `Crash` | the end of a run |

`dirs` holds the directory of each lock (who wrote `owner.json`, stale, overdue), `seen` what
a waiter has read, `store` and `pointer` the two halves of the shared store, `report` the
directory a run leaves.  `raced` is history: a rename took another directory than the one read.

Abstractions: time is what it makes true of a directory, and a live process that
is stopped for longer than its lock grants costs one of `MaxPauses`; a process has one
owner id per directory and the system does not reuse its number; the locks `Left` are
those of one `Earlier` process that died; a stage that fails stands for its cleanup and
the failure report too, in every combination; two successive assertions of ownership in
`persistMaterialization` (850 and 861) are one.  Left out: argument errors before a run's directory
exists, diagnostics, process trees, and what the commands of a stage do.

### MC modules

`MC<Module>` extends a module for TLC with the symmetry of interchangeable actors (never
where liveness is checked) and the values of structured constants.  `MCDecisionResult` gives the rows a
Runtime may draft: prices below and above the budget, contradicting and expired
evidence, and decisions with one fault each.

## 4. Runs

`CHECK_DEADLOCK FALSE` is set where the system may stop: everything is final and the
instance has no further requests, or a bound is reached.  `accounts` and `alone` check
deadlocks.

| Run | Instance | Checks | Shows |
|---|---|---|---|
| `resume` | 1 operation, 2 workers, 1 request, lease 0, 2 attempts, 2 snapshots, 1 paused state, one stage, 2 verdicts | `OneOutcomePerRun`, `PausedOnSavedSnapshot`, `KeepsContract`, `PauseWaitsForUser` | the whole protocol with takeovers, late reports, retries and crashes; 1,964,503 states |
| `competing` | 2 workers, 2 requests, lease 0, 1 attempt, 2 snapshots, 3 verdicts | `ResumesWhatWasConfirmed`, `CompletedResumeHolds` | two accepted resumes of one pause, a second pause between them; 3,222,253 states |
| `settles` | 1 worker, 1 request, lease 0, 2 attempts, 2 snapshots, 2 paused states, 2 entries, 1 fault | `EventLogMatches`, `SettlesUnlessOldReceipt`, `ResumeAnswered`, `EntriesDrain` | every accepted operation ends or pauses, a confirmed resume ends, a final operation leaves no entry, the log tells the state although a pause that does not decode is rolled back; 404,786 states |
| `control` | 3 calls, lease 1, 2 snapshots | `RecoverableState`, `CountsOnce`, `HolderIsAlone`, `ControlIsFinal` | takeover, pause, resume, cancellation and stops between transactions; 584,804 states |
| `accounts` | 2 accounts, 1 invitation, 2 calls, 18 commands | `SuperadminRemains`, `AuthorisedUntilCommit`, `DeletionIsFinal`, `InvitationUsedOnce` | every command on accounts, sessions and invitations against every other, recovery and erasure; 1,893,841 states |
| `erased` | 1 account, 2 workers, 3 events, grace 1, research jobs, 2 operations of a task, 1 run, 1 fault | `QueuedState`, `ErasedIsPurged`, `LatestStops`, `ErasedWhenDue`, `EventsEnd` | restriction, deletion, cancellation, failures and deadlocks, while a request, the adapter of a run and a source worker go on writing; 1,413,774 states |
| `research` | 1 job, 1 account, 2 users, 2 workers, 2 logins, 1 fault, 1 request, 2 attempts, 2 checkpoints | `SecretsMatch`, `ResultOnce`, `ResearchOnlyAdvances` | logins, marks and revocations against the workers that use the secret; 3,807,796 states |
| `decision` | 2 candidates, 4 claims, 3 evidences, 6 links, 9 decisions, 3 requirements | `PurchaseWithinBudget`, `OthersRuledOut`, `OpenPromisesNothing`, `BasisIsShown`, `RefutationWithdraws` | every subset of those rows; 885,341 states |
| `conversation` | 2 pages, 2 requests, 2 texts, 3 turns, 1 loss | `NoTurnRefused`, `HistoryAddsUp`, `SentOnce` | concurrent and repeated turns, an edit; 437,858 states |
| `feed` | 1 task with 2 operations, 2 writers, 1 page, 3 cursors, 2 faults | `NothingSkipped`, `EventsAreShown` | commits out of cursor order, lost wake-ups; 234,070 states |
| `builds` | 2 runs, 1 commit with 2 builds, 1 release, 1 slot, 2 locks left, 1 pause | `PublishedIsWhole`, `BuiltOnce`, `ReportIsHonest`, `EveryRunEnds` | two runs of one candidate or of two, a crash or failure at every step, locks of the dead; 914,224 states |
| `alone` | 2 accounts, `SelfService` | `SuperadminRemains` is violated | the finding below |

Why the bounds are enough to be interesting.  Two actors of each kind give every pairwise race;
the third call in `control` is a takeover of a takeover, or a resume against two starts.
More accounts than the two of `accounts`, and two registrations for two new ones, are covered by
the theorems.  Two attempts let an
outcome of an old run meet a new one.  A lease of 0 still separates "live at its last instant" from
"expired".  Two snapshots are needed to confuse one pause with
another, and two paused states (`settles`) for a pause that does not decode: a resumed run
that reports both.  One operation suffices because no transaction touches two (the receipts
are keyed by operation); `feed` and `erased` have two because operations of one
task share what a page reads and what a restriction stops.  Three events are the two of a deletion
request, and a restriction before it or after its cancellation.  One fault can be a lost stream, an entry published twice or a dead
worker; `erased` and `research` allow one failure among two workers.  `Permissions` are the
verdicts a resume may get: `settles` has the one that lets it run, the refusals are in
`resume` and `competing`.  The bounds named `Max...` are the
model's, except the 5 attempts of a research job (2 in the run): a guard stops what reaches them.

`settles` has one process: with a second one that reports another outcome for the run
a receipt belongs to, a stale receipt can be replayed for ever.
`resume` and `competing` use PAUSED_USER only; nothing tells the paused states apart.

Every property has a mutant of the code that breaks it (`PROJECT.json`, "mutants"; the
operators defined before the definition they replace), for example a completion not
fenced by worker and state, a retry that keeps its run, a resume that ignores the snapshot,
a restriction that cancels the first operation of a task instead of the last, events inserted without the lock of the operation, or a turn that does not wait for the row of its session.

### Finding

* **Two superadmins that demote themselves at once leave none** (`alone`,
  `packages/identity-access/src/index.ts` 1244).  `setAccountRole` locks actor and target,
  which are one row here, and counts the other ACTIVE superadmins without a lock: each
  counts the other.  `role-management.test.ts:25` says that the last one cannot be demoted.
  Where an administrator may not name itself, `accounts` and the theorem
  `SuperadminAlwaysRemains` show that one remains.

### What the models also show

Behaviour of the code that the models contain and the properties therefore state around:

* **A resume takes over a live claim** (`P` 1828).  A RUNNING resume request is reclaimed
  when its own lease has expired, whoever holds the operation by then: its worker died, another one
  took the operation from the queue, and loses it in the middle of its lease.
  `persistent-worker.test.ts:221` and `:251` expect that nothing runs again while a lease is
  active.  The outcome is fenced all the same (`OneOutcomePerRun`), and what is executed is the
  snapshot the user confirmed (`ResumesWhatWasConfirmed`).
* **Operations of one task hide each other's events** (`P` 1265).  A reader asks for
  the events of a task behind a cursor; operations of one task insert and commit beside each
  other, so a smaller cursor may appear when the reader is past it.  `SECURITY.md:39` and
  `README.md:31` promise the recovery of all events.  The web page never submits two operations under
  one id (`decision-flow.tsx` 207); the API lets any client do it.  `NothingSkipped` and
  `EventsAreShown` excuse exactly the events that were overtaken so; `NothingEverSkippedAlone`
  shows that tasks of one operation are safe.
* **An older operation survives a restriction** (`P` 1598).  Only the latest operation
  of each `decision_task_id` is looked at, and the id is not unique (`migration.ts` 46-68,
  `submission.test.ts:189`).  `UX-CONTRACT.md:89` says that disabling revokes the tasks in
  progress at once.  `LatestStops` states what holds, and `RestrictedStopsAlone` that nothing
  goes on where a task has one operation.
* **An erased account may leave rows behind** (`apps/source-worker/src/worker.ts` 108,
  also 183 and 216).  A source worker that holds a job when its owner is purged opens a login
  session for the erased account.  A Runtime that was cancelled may write so as well: raw snapshot,
  facts, effect result and control row (`P` 469, 716, 791).  Nothing purges them later.
  `docs/specs/p1-57-conversation-requirement-web-shell.md:43` says that no orphaned data may be
  left behind the account.  `ErasedIsPurged` states what holds: what requests stored is
  gone, and so is every operation and job that could be claimed; `ErasedLeavesNothingQuiet`
  shows that nothing is left where no run and no research is under way.

* **An outcome of an old run is committed to a new one** (`executor.ts` 184).  Receipts are kept
  by execution request.  A final failure whose completion was refused is replayed for a later
  run and accepted, since failures carry no run id; `executor.test.ts:1528` expects the
  Runtime to be called again.
* **The retry after a failed resume never settles** (`executor.ts` 223).  A pause stays
  among the receipts; when its resume fails retryably, the retry replays it and
  `complete` refuses it until the process restarts.  `persistent-worker.test.ts:273` expects a retry to
  reach its final state.  `SettlesUnlessOldReceipt` excuses exactly this.
* **A failed read counts as a cancellation** (adapter 589, 165).  A poll that cannot reach
  PostgreSQL aborts the Runtime, and the attempt is reported as cancelled.
* **An overrun call** may find the snapshot of its successor in the control row and
  fail to complete (`P` 791-798): `HolderIsAlone` holds while no call outlives its lease.
* **A submission let in before a restriction** commits after it and runs
  (`routes.ts` 71); `LatestStops` excuses the operation.
* **The purge of a retried task is refused** by a foreign key between its runs
  (`P` 1650, `migration.ts` 284-286), every time, and keeps later events waiting; `EventsEnd` excuses it.
* **A restored account without its data.**  A deletion cancelled while the worker was between
  two purges restores the account, not the modules purged so far (`lifecycle-worker.ts` 140,
  identity `index.ts` 1575).
* **A mark names the account, not the secret** (source worker 208): a worker that was refused
  with the old secret may mark and delete a fresh one; a second mark of a secret already
  deleted throws and ends the process.
* **A lost wake-up.**  A resume that comes before the run says it waits finds nothing
  to wake, and the owner has to answer a second challenge (source worker 107).  A resumed job is
  claimed whatever its attempts.
* **A message after the requirement is complete overwrites the goal**
  (`conversation-workbench.tsx` 544: the field defaults to the goal), though
  `clarificationMessage` invites more preferences.  So may a page that shows an old state.

* **A waiter removes a live lock** (`materialization.ts` 515, 573).  Two waiters read the owner
  that died; one renames its directory away and acquires the lock anew, then the other renames
  that directory away, and both build the candidate.  `system.test.ts:2994` says that the
  lock of a live owner is not stolen, `:3169` that one owner materialises a candidate
  across runs.  `BuiltOnce` states what holds when this race and pauses do not happen.
* **Pauses.**  A process stopped for 30 seconds between `mkdir` and `owner.json` loses its lock
  and, once it goes on, writes its name into the directory of its successor: both believe they own it.  A heartbeat
  goes by path and may refresh somebody else's file.  The candidate's lock, granted for two hours, is
  held while its run waits up to two hours for a slot.
* **A mixed build stays pinned.**  Candidate packages of different versions are refused before
  anything is stored (`system.ts` 1897-1900, `materialization.ts` 731), but internal dependencies
  of mixed versions are persisted before Gate B looks at them; every later run reuses them and
  fails the same way.
* **A failed cleanup hides Gate G** (`cli.ts`, `system.ts` 832): it is reported as F failed and
  G not run, after G has passed.

## 5. Fairness

`TaskDelivery!Fairness` is weak fairness of each worker's loop (`worker.ts` calls `runOnce`
until it is stopped, and the compose file restarts the process), of `Publish`
(`outbox-publisher.ts` runs a batch every 250 ms), and of time (`PassTime`, `BecomeDue`,
`BecomeIdle`).  Nothing is assumed of users, of what the Runtime answers, or of faults,
whose number is bounded instead: without the bound a worker that is always too late
never settles anything.  A Runtime that never answers is not covered: the adapter limits
the time of a step.  An operation that used all Agent Runs of the model counts as settled.

`AccountLifecycle!Fairness`: weak fairness of the worker's steps (a loop that is restarted
with its container), of the end of a deadlock (PostgreSQL aborts one), of
`CancelSelfDeletion` and `EndRequest` (transactions and requests end); strong fairness of
`Tick`, which a request in flight disables: time passes however often requests begin.

`RunEventFeed!FeedFairness`: weak fairness of the publisher's two steps, and for each page
of connecting again, listing, waiting, polling and receiving (browser and route loop).
Nothing is assumed of `Disconnect`, Redis or transactions beyond the bound on faults.

`CompatibilityRun!Fairness`: some process that can go on goes on, and a lock that no live process
keeps goes stale.  Each process runs on its own, so this is less than the system gives; no
deadline, failure or cancellation is relied on.

The other modules are checked for safety only.

## 6. Proofs

Each theorem holds for every value of the constants that satisfies the named assumptions of its
module.

| Theorem | Statement |
|---|---|
| `TaskLifecycleProofs!InductiveInvariant` | `Spec => []IInv` |
| `TaskLifecycleProofs!TypeCorrect` | `Spec => []TypeOK` |
| `TaskLifecycleProofs!LogMatchesState` | `Spec => []EventLogMatches` |
| `TaskLifecycleProofs!PauseIsSaved` | `Spec => []PausedOnSavedSnapshot` |
| `TaskLifecycleProofs!FinalStaysFinal` | `Spec => TerminalIsFinal` |
| `TaskLifecycleProofs!ContractIsKept` | `Spec => KeepsContract`, the refinement of `OperationContract` |
| `TaskLifecycleProofs!OneOutcomePerRunHolds` | `Spec => []OneOutcomePerRun` |
| `TaskLifecycleProofs!PauseWaitsForUserHolds` | `Spec => PauseWaitsForUser` |
| `TaskLifecycleProofs!ResumesWhatWasConfirmedHolds` | `Spec => []ResumesWhatWasConfirmed` |
| `TaskLifecycleProofs!CompletedResumeStands` | `Spec => []CompletedResumeHolds` |
| `TaskLifecycleProofs!DeliveryIsLifecycle` | `DeliverySpec => Spec`: delivery implements the operation |
| `TaskLifecycleProofs!DeliveryKeepsContract` | `DeliverySpec => KeepsContract` |
| `RuntimeControlProofs!ControlInvariant` | `Spec => []IInv` |
| `RuntimeControlProofs!...Holds` | the four properties of the run `control` |
| `ConversationProofs!ConversationInvariant` | `Spec => [](IInv /\ HistoryAddsUp)` |
| `ConversationProofs!...Holds` | the three properties of the run `conversation` |
| `CompatibilityRunProofs!RunsInvariant`, `LocksInvariant` | `Spec => [](TypeOK /\ RunsInv)`, `Spec => []LocksInv` |
| `CompatibilityRunProofs!PublishedIsWholeHolds` | `Spec => []PublishedIsWhole` |
| `CompatibilityRunProofs!BuiltOnceHolds` | `Spec => []BuiltOnce` |
| `CompatibilityRunProofs!ReportIsHonestHolds` | `Spec => []ReportIsHonest` |
| `IdentityAccountsProofs!TypeCorrect` | `Spec => []TypeOK` |
| `IdentityAccountsProofs!AuthorisedUntilCommitHolds` | `Spec => []AuthorisedUntilCommit` |
| `IdentityAccountsProofs!SuperadminAlwaysRemains` | `~SelfService => (Spec => []SuperadminRemains)` |
| `IdentityAccountsProofs!DeletionIsFinalHolds` | `Spec => DeletionIsFinal` |
| `IdentityAccountsProofs!InvitationUsedOnceHolds` | `Spec => InvitationUsedOnce` |
| `ClientViewProofs!...Holds` | the five properties of the run `decision`, for every set of rows |
| `ClientViewProofs!NothingSkippedHolds` | `FeedSpec => []NothingSkipped` |
| `ClientViewProofs!NothingEverSkippedAlone` | `FeedSpec => []NothingEverSkipped` if no two operations have one task |
| `AccountLifecycleProofs!InductiveInvariant` | `Spec => []IInv` |
| `AccountLifecycleProofs!QueuedStateHolds` | `Spec => []QueuedState` |
| `AccountLifecycleProofs!ErasedIsPurgedHolds` | `Spec => []ErasedIsPurged` |
| `AccountLifecycleProofs!ErasedLeavesNothingQuiet` | `Spec => []ErasedLeavesNothing` if `MaxRuns = 0` and `"research" \notin Uses` |
| `AccountLifecycleProofs!LatestStopsHolds` | `Spec => []LatestStops` |
| `AccountLifecycleProofs!RestrictedStopsAlone` | `Spec => []RestrictedStops` if `MaxOperations <= 1` |
| `AccountLifecycleProofs!ErasedWhenDueHolds` | `Spec => ErasedWhenDue` |
| `AccountLifecycleProofs!ErasedForGoodHolds` | `Spec => ErasedForGood` |
| `SourceResearchProofs!InductiveInvariant` | `Spec => []IInv` |
| `SourceResearchProofs!SecretsMatchHolds` | `Spec => []SecretsMatch` |
| `SourceResearchProofs!ResultOnceHolds` | `Spec => []ResultOnce` |
| `SourceResearchProofs!ResearchOnlyAdvancesHolds` | `Spec => ResearchOnlyAdvances` |

**TaskLifecycle.**  `EventLogMatches` is not inductive: what a completion
appends depends on what the run's log already holds, and what a denied resume appends on
the facts the request points to.  `IInv` adds

* `OperationBound`: a stored pause belongs to the current run and to facts saved
  for this run and state, and is only kept while the operation is paused or running;
* `OpenRun`: the log of a run that is still open reports no outcome, hence the
  COMPLETED event of a result is never filtered as already logged;
* `RequestBound`: a request points to facts of its run, and a running one to
  facts that allow resuming;
* `WorkerBound`: a working process has an operation, its request (if any) is for
  that run, and a pause it holds or remembers is backed by saved facts.

There is one lemma per action (`SubmitKeeps`, ..., `CommitKeeps`); `NextKeeps` collects them.
Lemmas about the log operators (`Appended`, `AddedUnseen`, `ResultCloses`, `PauseKeepsOpen`)
say what the completion's filters return.

`StepShown` says what a step shows of an operation: it is accepted, started, retried, concluded,
reminded of its pause, revoked, or nothing is shown.  `ContractIsKept` maps each of these to a
step of `OperationContract` or a stutter, and `OneOutcomePerRun` is kept by each.
`PauseWaitsForUser` follows from `IInv` alone (`MovedByUser`): a claim from the queue and a completion look
for states a pause is none of, and what a claimed resume compares with the stored pause is, by
`OperationBound`, of the current run.
`ResumesWhatWasConfirmed` and `CompletedResumeHolds` need `ResumeInv` on top of `IInv`: a worker that holds both its
request and the operation has the run and the snapshot of the request (`Confirmed`), and an idle
worker has no request (`IdleHasNoRequest`).

**TaskDelivery.**  Each step of the outbox, the stream and the worker loop is a step of
`TaskLifecycle` or leaves the operations alone (`LoopIsWork`, `DeliveryStep`).  What is not by
definition is a process that ends: `Restart` empties a worker that may have claimed nothing, which is
no crash in `TaskLifecycle`.  `Rested`, that an idle worker has nothing in its hands, makes it a stutter
(`RestartIsCrash`).  With it every theorem about the operations holds under `DeliverySpec`.

**IdentityAccounts.**  `IInv` is `TypeOK` and, for every call, its shape (which
command may be at which step), the locks it holds, and that what it read under them
still holds.  A step of another call leaves locked rows alone (`OtherCallSound`), so
only a call's own step matters.  `SuperadminAlwaysRemains` follows from it: the command that takes
a superadmin's role or status was given by another ACTIVE superadmin, whose row it keeps
locked until it commits; the recovery and the erasure are cases of their own.  The two
action properties follow from the same invariant: a command that would write to an erased
account, or use a used invitation, had found it otherwise under a lock it still holds.

**RuntimeControl.**  `IInv` is `TypeOK` and

* `CallsInv`: what a call carries at each point, and to which end;
* `PauseInv`: facts that were saved are never written again, whoever refers to a
  snapshot finds them, and two pauses never share one;
* `TurnInv`: once a report was made from a snapshot (or from the start), the control row has
  left it for good, so that nobody reports from it again (`CountsOnce`);
* `EffectInv`: who may still submit a draft was given none by its snapshot;
* `ControlInv`: while no call outlived its lease, a call that works holds the row, or the row is
  cancelled, the row has the snapshot it expects, and one call executes.

**Conversation.**  The model assumes that `None` is no text, request or field.  `IInv` is
`TypeInv` and

* `SessionInv`: a session exists wherever one is used, and revisions come from messages;
* `LockInv`: a request that has read the messages holds the row and finds them as it read them,
  so its insert meets no ordinal or turn id of another (`NoTurnRefused`);
* `TurnsInv`: a turn id stands for one text of one field, in requests, messages and pages alike
  (`Says`), so a turn found recorded is the one that is sent;
* `OnceInv`: two recorded turns have different ids, of which as many were given as
  texts were meant (`SentOnce`);
* `AddsInv`: the last message for a field exists wherever there is any.

`TurnGives` says what two appended messages change in what was given to a field;
`HistoryAddsUp` follows the requirement with it.

**CompatibilityRun.**  Four invariants on top of `TypeOK`: `RunsInv`, a table of what a run
has built, passed and reported at each point; `StoreInv`, what is promoted before it is
pointed to; `LocksInv`, that as long as `pauses = 0 /\ ~raced` the directory of a lock names the run that
holds it and what a waiter is about to remove belongs to nobody alive; `BuildsInv`, that who builds has
found no pointer and who passes agrees with it.

**DecisionResult.**  `Checked` says that an accepted bundle satisfies the checks
as it stands, since nothing changes after acceptance.  The rest connects the checks
with the properties, which speak of evidence, validity and links themselves: a trusted fact is one that valid
evidence supports and none refutes (`TrustedEstablished`, `KnownEstablished`, `SaysBacks`), at most one
candidate is selected (`SelectedOne`), a refuted claim is known to nobody (`RefutedUnknown`).

**RunEventFeed.**  `NothingSkipped` needs that an event committed behind a cursor that was shown
has been overtaken by another operation.  `RowsInOrder`: at most one transaction per operation is
open, and its rows lie after all committed ones of the operation; `NoneAhead`: a cursor of a stream
or a page is that of a committed row of its task (so a row that comes behind it comes behind a row
of another operation of the task), and what is on its way is committed; `NothingInLostStream`.
One lemma per action.  Where no two operations have one task, `overtaken` stays empty
(`NothingEverSkippedAlone`).

**AccountLifecycle.**  Assumed: the grace period is not 0, the modules an owner uses are among
the named ones, the bounds are natural numbers (`LifecycleAssumption`).  `ErasedIsPurged` is not inductive:
a module that was purged may be filled again by a request that was let in earlier, and the last
step of the erasure looks at none of them.  `IInv` adds

* `HoldsOpen`, `HeldOnce`: a worker that is not idle holds an open event whose time has come, at a
  stage that its type has, and no other worker holds it;
* `DeletionIsQueued`: the account of a deletion that is held is still PENDING_DELETION, due when
  the event was, since a cancellation needs the event's row too;
* `LetInInTime`: time does not pass over a request, so one that was let in before a deletion was asked for ends a grace
  period before the deletion is due, and stores nothing behind the purge;
* `PurgedSoFar`: what requests stored in the modules before the worker's stage is gone (in the
  order research, access, tasks, conversations).  Logins are not among it (`Owned`), nor are
  the rows of a run that are LOOSE: their writers wait for nobody;
* `StoppedByCommit`, `ActiveIsUnrestricted`: when the worker is about to mark a restriction, the latest
  operation is stopped or late; only the latest, since nobody has looked at the others;
* `CancelsPending`: a cancellation under way is one of a pending deletion.

`ErasedLeavesNothingQuiet` adds `NoOtherWriter`, which only a run or a job could end.

**SourceResearch.**  `AccessInv`, about logins and secrets alone, is inductive by itself:

* `LockedAlone`: one call has the lock of an account, and the secret it read is the row's still;
* `StoredUnshared`: a secret stored outside of the transaction is named by its call and nothing else
  until the commit, so a rollback deletes nobody's;
* `ReplacedRetired`: a secret that was replaced is named by no row, so that deleting it, once or again
  after a crash, takes no account its secret;
* `MarkedInactive`: no row is ACTIVE with a secret that a mark or a revocation is about to delete;
* `VaultAccounted`: what is in the vault is in use, somebody's to delete, or was left by a caller that ended
  (`left`), from which `OneSecretAtRest` follows when no call is in flight.

`StepFits` says once which steps of a call keep all of this; storing and committing, which
give out a new secret and change the row, have proofs of their own.  The jobs add `WorkerShaped`,
`WorkerCalls` (the only call a worker makes over several steps is its mark) and `AtCheckpoint` (who
holds a job knows its progress, hence the next checkpoint is not behind it).  `ResearchFits` says what a step
may make of a job and of a worker; `ResultOnce` and `ResearchOnlyAdvances` follow from it, the latter
because a finished batch has only jobs that ended (`FinishedBatch`), whose state no step changes.

## 7. Only model-checked, and not modelled

Every invariant and action property of the passing runs is a theorem.  What the code does not keep is proved
for the instances in which the case does not arise (`SuperadminAlwaysRemains`, `NothingEverSkippedAlone`,
`RestrictedStopsAlone`, `ErasedLeavesNothingQuiet`).  Only model-checked are the
liveness properties: `SettlesUnlessOldReceipt`, `ResumeAnswered` and `EntriesDrain` of `TaskDelivery`,
`EventsEnd` of `AccountLifecycle`, `EventsAreShown` of `RunEventFeed` and `EveryRunEnds` of `CompatibilityRun`.
Liveness under fairness, ENABLED and induction over data are beyond the prover.

Not modelled, of components that are: audit records, provider credentials and egress
records; the prompt, event mapping and fake adapter of the Runtime; malformed stream entries and
entries of a purged operation; a page's reads of task snapshots, which may be
answered out of order; the liveness of the cancellation poll; whether a batch that
waits for its owner ends; whether every notification of an event is published in the end; the notification publisher of source research (nobody in the
repository listens to it); linking a decision task to a conversation, turns
without an update (no page sends one) and reads of a session while it changes; hashing, name rules,
listings; argument errors, diagnostics and process trees of the compatibility tooling, and what its
stages run; the decoding of the schemas beyond what the models rely on.

Not modelled at all: evidence ingestion and local services (a pipeline of I/O whose control
is a chain of early returns), the data worker (stateless endpoints), evaluation gates, start scripts,
and the web application apart from what `Conversation` and `RunEventFeed` have of it.  These,
with schemas and types, are the larger part of the lines the map does not cover.
