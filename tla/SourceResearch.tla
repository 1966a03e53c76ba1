--------------------------- MODULE SourceResearch ---------------------------
(***************************************************************************)
(* Batches of research jobs (packages/source-research) and the workers     *)
(* that run them (apps/source-worker) with the credential of a source      *)
(* account.  A job is held under a lease that the worker renews while its  *)
(* adapter runs; a job without a usable credential waits for a login and   *)
(* is resumed by the request that completes one.                           *)
(*                                                                         *)
(* The adapter is external: it may save checkpoints and give any of its    *)
(* outcomes.  Time is in the leases (LIVE or EXPIRED) and in `due`, the    *)
(* end of a back-off.                                                      *)
(***************************************************************************)
EXTENDS SourceAccess

CONSTANTS
  Jobs, Workers, Users,   \* jobs; the callers of the access module
  AccountOf, BatchOf,     \* the account and the batch of a job
  Supported,              \* jobs whose source has an adapter
  MaxAttempts,            \* 5 in the code
  MaxCheckpoint           \* bound on the progress of an adapter

ASSUME SourceResearchAssumption ==
  /\ Callers = Workers \cup Users /\ Workers \cap Users = {} /\ None \notin Jobs
  /\ AccountOf \in [Jobs -> Accounts] /\ DOMAIN BatchOf = Jobs /\ Supported \subseteq Jobs
  /\ MaxAttempts \in Nat \ {0} /\ MaxCheckpoint \in Nat

VARIABLES
  jobs,     \* job -> row of source_research_jobs
  results,  \* job -> number of its rows of source_research_results
  shown,    \* logins whose id the owner has been given
  wk        \* worker -> where its runOnce is

vars == <<jobs, results, shown, wk, accessVars>>

Batches == {BatchOf[j] : j \in Jobs}
Terminal == {"COMPLETED", "NO_RESULT", "FAILED_FINAL"}
Outcomes == {"EVIDENCE", "NO_RESULT", "FAILED_RETRYABLE", "FAILED_FINAL"}
Idle == [pc |-> "idle", job |-> None, at |-> 0, secret |-> 0, lost |-> FALSE,
         beating |-> FALSE, outcome |-> "NONE", login |-> 0]

TypeOK ==
  /\ TypeOKAccess
  /\ jobs \in [Jobs ->
       [state : Terminal \cup {"NONE", "QUEUED", "RUNNING", "WAITING_SOURCE_LOGIN",
                               "FAILED_RETRYABLE"},
        worker : Workers \cup {None}, lease : {"NONE", "LIVE", "EXPIRED"},
        attempts : Nat, due : BOOLEAN, checkpoint : 0..MaxCheckpoint,
        cost : Nat, login : 0..MaxLogins]]
  /\ results \in [Jobs -> Nat] /\ shown \subseteq Logins
  /\ wk \in [Workers ->
       [pc : {"idle", "claimed", "opening", "loading", "running", "marking",
              "challenge", "completing", "locking"},
        job : Jobs \cup {None}, at : 0..MaxCheckpoint, secret : 0..issued,
        lost : BOOLEAN, beating : BOOLEAN, login : 0..MaxLogins,
        outcome : Outcomes \cup {"NONE", "WAITING_CHALLENGE"}]]

Init ==
  /\ InitAccess
  /\ jobs = [j \in Jobs |-> [state |-> "NONE", worker |-> None, lease |-> "NONE",
                             attempts |-> 0, due |-> FALSE, checkpoint |-> 0,
                             cost |-> 0, login |-> 0]]
  /\ results = [j \in Jobs |-> 0] /\ shown = {}
  /\ wk = [w \in Workers |-> Idle]

(* Mutant: the row is not compared with the worker. *)
HeldByAny(w) == jobs[wk[w].job].state = "RUNNING" /\ jobs[wk[w].job].lease = "LIVE"

(* What every statement of a holder asks: the row is RUNNING, carries the  *)
(* worker's id and its lease has not ended.                                *)
Holds(w) ==
  LET job == jobs[wk[w].job] IN
  job.state = "RUNNING" /\ job.worker = w /\ job.lease = "LIVE"

Go(w, pc) == wk' = [wk EXCEPT ![w].pc = pc]
Return(w) == wk' = [wk EXCEPT ![w] = Idle]
-----------------------------------------------------------------------------
(* CREATE_BATCH; the same key again finds the batch and changes nothing.   *)
CreateBatch(b) ==
  /\ \A j \in Jobs : BatchOf[j] = b => jobs[j].state = "NONE"
  /\ jobs' = [j \in Jobs |-> IF BatchOf[j] = b THEN [jobs[j] EXCEPT !.state = "QUEUED"]
                                               ELSE jobs[j]]
  /\ UNCHANGED <<results, shown, wk, accessVars>>

(* RESUME_SOURCE, which the request that completed a login goes on with.   *)
ResumeSource(u) ==
  LET a == access[u].account IN
  /\ access[u].pc = "completed"
  /\ jobs' = [j \in Jobs |->
       IF AccountOf[j] = a /\ jobs[j].state = "WAITING_SOURCE_LOGIN"
       THEN [jobs[j] EXCEPT !.state = "QUEUED"] ELSE jobs[j]]
  /\ Call(u, NoCall)
  /\ UNCHANGED <<results, shown, wk, row, vault, issued, login, left, faults, asked>>

Expire(j) ==
  /\ jobs[j].lease = "LIVE"
  /\ jobs' = [jobs EXCEPT ![j].lease = "EXPIRED"]
  /\ UNCHANGED <<results, shown, wk, accessVars>>

BackOffEnds(j) ==
  /\ jobs[j].state = "FAILED_RETRYABLE" /\ ~jobs[j].due
  /\ jobs' = [jobs EXCEPT ![j].due = TRUE]
  /\ UNCHANGED <<results, shown, wk, accessVars>>
-----------------------------------------------------------------------------
(* claimNext: jobs whose last attempt was lost are given up, then one that *)
(* is queued, due again or abandoned is taken, none that another claim has *)
(* locked.  A resumed job is taken whatever its attempts.                  *)
Abandoned(j) == jobs[j].state = "RUNNING" /\ jobs[j].lease = "EXPIRED"

Claimable(j) ==
  \/ jobs[j].state = "QUEUED"
  \/ jobs[j].state = "FAILED_RETRYABLE" /\ jobs[j].due
  \/ Abandoned(j) /\ jobs[j].attempts < MaxAttempts

Swept == [j \in Jobs |->
  IF Abandoned(j) /\ jobs[j].attempts >= MaxAttempts
  THEN [jobs[j] EXCEPT !.state = "FAILED_FINAL", !.worker = None, !.lease = "NONE"]
  ELSE jobs[j]]

ClaimNext(w) ==
  /\ wk[w].pc = "idle"
  /\ \/ /\ \A j \in Jobs : ~Claimable(j)
        /\ Swept # jobs /\ jobs' = Swept /\ UNCHANGED wk
     \/ \E j \in {k \in Jobs : Claimable(k)} :
        /\ jobs' = [Swept EXCEPT ![j].state = "RUNNING", ![j].worker = w, ![j].lease = "LIVE",
                                 ![j].attempts = @ + 1]
        /\ wk' = [wk EXCEPT ![w].pc = "claimed", ![w].job = j, ![w].at = jobs[j].checkpoint]
  /\ UNCHANGED <<results, shown, accessVars>>

(* Without an adapter the job fails; otherwise the account's status is     *)
(* read and decides between a login and the research.                      *)
ReadStatus(w) ==
  LET j == wk[w].job IN
  /\ wk[w].pc = "claimed"
  /\ wk' = [wk EXCEPT ![w] =
       IF j \notin Supported THEN [@ EXCEPT !.pc = "completing", !.outcome = "FAILED_FINAL"]
       ELSE IF row[AccountOf[j]].status # "ACTIVE" THEN [@ EXCEPT !.pc = "challenge"]
       ELSE [@ EXCEPT !.pc = "opening", !.beating = TRUE]]
  /\ UNCHANGED <<jobs, results, shown, accessVars>>

(* withCredential reads the row, then the vault loads the secret; where    *)
(* either finds none the account is marked, with the heartbeat going on.   *)
OpenCredential(w) ==
  LET current == row[AccountOf[wk[w].job]] IN
  /\ wk[w].pc = "opening"
  /\ wk' = [wk EXCEPT ![w].pc = IF current.status = "ACTIVE" THEN "loading" ELSE "marking",
                      ![w].secret = current.secret]
  /\ UNCHANGED <<jobs, results, shown, accessVars>>

LoadSecret(w) ==
  /\ wk[w].pc = "loading"
  /\ Go(w, IF wk[w].secret \in vault THEN "running" ELSE "marking")
  /\ UNCHANGED <<jobs, results, shown, accessVars>>

(* The heartbeat renews a lease that is live; once it is refused the       *)
(* worker will not complete.                                               *)
Heartbeat(w) ==
  /\ wk[w].beating /\ ~wk[w].lost /\ ~Holds(w)
  /\ wk' = [wk EXCEPT ![w].lost = TRUE]
  /\ UNCHANGED <<jobs, results, shown, accessVars>>

(* The adapter saves its progress; refused, it fails with a retryable      *)
(* outcome, which a worker that knows it lost the lease does not report.   *)
(* So does a vault that cannot read or decrypt.                            *)
Finish(w, o) ==
  wk' = [wk EXCEPT ![w] = IF wk[w].lost THEN Idle
                          ELSE [@ EXCEPT !.pc = "completing", !.outcome = o, !.beating = FALSE]]

SaveCheckpoint(w) ==
  /\ wk[w].pc = "running" /\ wk[w].at < MaxCheckpoint
  /\ IF Holds(w)
     THEN /\ jobs' = [jobs EXCEPT ![wk[w].job].checkpoint = wk[w].at + 1]
          /\ wk' = [wk EXCEPT ![w].at = @ + 1]
     ELSE Finish(w, "FAILED_RETRYABLE") /\ UNCHANGED jobs
  /\ UNCHANGED <<results, shown, accessVars>>

AdapterReturns(w, o) ==
  /\ wk[w].pc = "running" /\ Finish(w, o)
  /\ UNCHANGED <<jobs, results, shown, accessVars>>

(* AUTH_REQUIRED: the source refuses the secret.  The heartbeat has been   *)
(* stopped when the account is marked.                                     *)
AuthRequired(w) ==
  /\ wk[w].pc = "running" /\ Fault
  /\ wk' = [wk EXCEPT ![w] = IF wk[w].lost THEN Idle
                             ELSE [@ EXCEPT !.pc = "marking", !.beating = FALSE]]
  /\ UNCHANGED <<jobs, results, shown, row, vault, issued, login, access, left>>

(* MARK_INVALID names the account, not the secret the worker used.         *)
MarkInvalid(w) ==
  /\ wk[w].pc = "marking"
  /\ Invalidate(w, AccountOf[wk[w].job], "INVALID", TRUE)
  /\ UNCHANGED <<jobs, results, shown, wk, faults, asked>>

Marked(w) ==
  /\ access[w].pc = "deleted" /\ Call(w, NoCall) /\ Go(w, "challenge")
  /\ UNCHANGED <<jobs, results, shown, row, vault, issued, login, left, faults, asked>>

BeginChallenge(w, l) ==
  /\ wk[w].pc = "challenge"
  /\ BeginLogin(l, AccountOf[wk[w].job])
  /\ wk' = [wk EXCEPT ![w] = IF wk[w].lost THEN Idle
                             ELSE [@ EXCEPT !.pc = "completing", !.login = l,
                                            !.outcome = "WAITING_CHALLENGE", !.beating = FALSE]]
  /\ UNCHANGED <<jobs, results, shown, row, vault, issued, access, left, faults, asked>>

(* complete: a result that exists is asked for first, without a lock; then *)
(* the row is locked if the worker still holds it and gets its outcome.    *)
AskResult(w) ==
  /\ wk[w].pc = "completing"
  /\ IF wk[w].outcome = "EVIDENCE" /\ results[wk[w].job] > 0 THEN Return(w) ELSE Go(w, "locking")
  /\ UNCHANGED <<jobs, results, shown, accessVars>>

(* Mutant: an attempt that was the last one fails whatever it brings. *)
LastAttemptFails(outcome, attempts) ==
  IF attempts >= MaxAttempts THEN "FAILED_FINAL" ELSE IF outcome = "EVIDENCE" THEN "COMPLETED"
  ELSE IF outcome = "WAITING_CHALLENGE" THEN "WAITING_SOURCE_LOGIN" ELSE outcome

StateAfter(outcome, attempts) ==
  CASE outcome = "EVIDENCE" -> "COMPLETED"
    [] outcome = "WAITING_CHALLENGE" -> "WAITING_SOURCE_LOGIN"
    [] outcome = "FAILED_RETRYABLE" /\ attempts >= MaxAttempts -> "FAILED_FINAL"
    [] OTHER -> outcome

Complete(w) ==
  LET j == wk[w].job
      o == wk[w].outcome
  IN /\ wk[w].pc = "locking" /\ Return(w)
     /\ IF Holds(w)
        THEN /\ jobs' = [jobs EXCEPT ![j] =
                  [@ EXCEPT !.state = StateAfter(o, jobs[j].attempts), !.worker = None, !.lease = "NONE",
                            !.due = FALSE, !.login = wk[w].login,
                            !.cost = IF o \in {"EVIDENCE", "NO_RESULT"} THEN 1 ELSE 0]]
             /\ results' = [results EXCEPT ![j] = @ + IF o = "EVIDENCE" THEN 1 ELSE 0]
             /\ shown' = shown \cup ({wk[w].login} \ {0})
        ELSE UNCHANGED <<jobs, results, shown>>
     /\ UNCHANGED accessVars

(* Nothing catches what runOnce throws: the process ends and is started    *)
(* again.  The vault throws when the secret of the mark is gone.           *)
RefusedDelete(w) ==
  /\ access[w].pc = "deleting" /\ ~MayDelete(w)
  /\ Abandon(w) /\ Return(w)
  /\ UNCHANGED <<jobs, results, shown, faults, asked>>

WorkerEnds(w) ==
  /\ wk[w].pc # "idle" /\ Fault /\ Abandon(w) /\ Return(w)
  /\ UNCHANGED <<jobs, results, shown>>
-----------------------------------------------------------------------------
Work(w) ==
  \/ ClaimNext(w) \/ ReadStatus(w) \/ OpenCredential(w) \/ LoadSecret(w) \/ Heartbeat(w)
  \/ SaveCheckpoint(w) \/ \E o \in Outcomes : AdapterReturns(w, o)
  \/ MarkInvalid(w) \/ Marked(w) \/ \E l \in Logins : BeginChallenge(w, l)
  \/ AskResult(w) \/ Complete(w) \/ RefusedDelete(w)

InFlight(c) == AccessStep(c) /\ UNCHANGED <<jobs, results, shown, wk>>

(* The owner answers the challenge of a login whose id readBatch or the    *)
(* request that began it has given, again if a job still waits for it (the *)
(* first answer may have ended before the resume).                         *)
Awaited(l) == \E j \in Jobs : jobs[j].state = "WAITING_SOURCE_LOGIN" /\ jobs[j].login = l

Answer(u, l) ==
  /\ l \in shown /\ EnterLogin(u, l)
  /\ IF login[l].status = "COMPLETED" /\ ~Awaited(l) THEN Ask ELSE UNCHANGED <<faults, asked>>
  /\ UNCHANGED <<jobs, results, shown, wk>>

AskLogin(l, a) == UserBegins(l, a) /\ shown' = shown \cup {l} /\ UNCHANGED <<jobs, results, wk>>

Responds(u) ==
  /\ access[u].pc = "deleted" /\ Call(u, NoCall)
  /\ UNCHANGED <<jobs, results, shown, wk, row, vault, issued, login, left, faults, asked>>

Request(u) ==
  /\ (\E a \in Accounts : UserRevokes(u, a)) \/ RollBack(u) \/ CallerEnds(u)
  /\ UNCHANGED <<jobs, results, shown, wk>>

Next ==
  \/ \E b \in Batches : CreateBatch(b)
  \/ \E j \in Jobs : Expire(j) \/ BackOffEnds(j)
  \/ \E w \in Workers : Work(w) \/ AuthRequired(w) \/ WorkerEnds(w)
  \/ \E c \in Callers : InFlight(c)
  \/ \E u \in Users : Request(u) \/ Responds(u) \/ ResumeSource(u)
  \/ \E l \in Logins : (\E a \in Accounts : AskLogin(l, a)) \/ \E u \in Users : Answer(u, l)

Spec == Init /\ [][Next]_vars

-----------------------------------------------------------------------------
(* The rows are well formed, an account that is ACTIVE has its secret, and *)
(* one secret remains of all that logins stored and marks deleted.         *)
SecretsMatch == TypeOK /\ ActiveHasSecret /\ OneSecretAtRest

(* Evidence and its cost are recorded once, whoever completes a job again: *)
(* a job has a result exactly when it is COMPLETED, and then only one.     *)
ResultOnce ==
  \A j \in Jobs : /\ results[j] = IF jobs[j].state = "COMPLETED" THEN 1 ELSE 0
                  /\ jobs[j].cost > 0 => jobs[j].state \in {"COMPLETED", "NO_RESULT"}

(* readBatch: the state of a batch is computed from those of its jobs.     *)
BatchState(b, state) ==
  LET states == {state[j] : j \in {k \in Jobs : BatchOf[k] = b}} IN
  IF "WAITING_SOURCE_LOGIN" \in states THEN "WAITING_SOURCE_LOGIN"
  ELSE IF states \subseteq {"COMPLETED", "NO_RESULT"} THEN "COMPLETED"
  ELSE IF states \subseteq Terminal THEN "FAILED"
  ELSE IF "RUNNING" \in states THEN "RUNNING"
  ELSE "QUEUED"

StateOf(b) == BatchState(b, [j \in Jobs |-> jobs[j].state])

(* A batch that was shown as finished stays as it was shown, and so do the *)
(* checkpoints: a worker that lost a job cannot take either back.          *)
ResearchOnlyAdvances ==
  [][/\ \A b \in Batches : StateOf(b) \in {"COMPLETED", "FAILED"} => StateOf(b)' = StateOf(b)
     /\ \A j \in Jobs : jobs'[j].checkpoint >= jobs[j].checkpoint]_vars

=============================================================================
