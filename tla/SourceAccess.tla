---------------------------- MODULE SourceAccess ----------------------------
(***************************************************************************)
(* The logins and credentials of one owner's source accounts               *)
(* (packages/source-access) over the credential vault (packages/security,  *)
(* rows of encrypted_credentials).  A login is completed in a transaction  *)
(* that holds advisory locks on the login and on the account; the vault is *)
(* written outside of it, before the commit, and the credential that was   *)
(* replaced is deleted after it.                                           *)
(*                                                                         *)
(* A caller is a request of the API or a source worker.  The ids of logins *)
(* and credentials are fresh uuids: here the numbers 1, 2, ..., and 0 is   *)
(* none.                                                                   *)
(***************************************************************************)
EXTENDS Integers, FiniteSets

CONSTANTS
  Accounts,     \* source accounts of the owner
  MaxLogins,    \* bound on the source_login_sessions that are begun
  Callers,      \* requests and workers that call the module
  None,         \* no account
  MaxFaults,    \* bound on failed calls and processes that end
  MaxRequests   \* bound on what the owner asks for of his own accord

ASSUME SourceAccessAssumption ==
  /\ {MaxFaults, MaxRequests, MaxLogins} \subseteq Nat
  /\ None \notin Accounts \cup Callers

VARIABLES
  row,      \* account -> row of source_credentials
  vault,    \* ids of the encrypted secrets that are stored
  issued,   \* credential ids given out so far
  login,    \* login -> row of source_login_sessions
  access,   \* caller -> the call it has in flight
  left,     \* history: secrets whose caller ended before it dealt with them
  faults,   \* failures so far
  asked     \* requests of the owner so far

Logins == 1..MaxLogins

accessVars == <<row, vault, issued, login, access, left, faults, asked>>

NoCall == [pc |-> "idle", login |-> 0, account |-> None,
           secret |-> 0, old |-> 0, system |-> FALSE]

TypeOKAccess ==
  /\ row \in [Accounts -> [status : {"ABSENT", "ACTIVE", "INVALID", "REVOKED"},
                           secret : 0..issued]]
  /\ issued \in Nat /\ vault \subseteq 1..issued /\ left \subseteq 1..issued
  /\ login \in [Logins -> [status : {"NONE", "WAITING_CHALLENGE", "COMPLETED"},
                           account : Accounts \cup {None}, replaced : 0..issued]]
  /\ access \in [Callers ->
       [pc : {"idle", "login", "account", "stored", "undoing", "replacing",
              "forgetting", "completed", "deleting", "deleted"},
        login : 0..MaxLogins, account : Accounts \cup {None},
        secret : 0..issued, old : 0..issued, system : BOOLEAN]]
  /\ faults \in 0..MaxFaults /\ asked \in 0..MaxRequests

InitAccess ==
  /\ row = [a \in Accounts |-> [status |-> "ABSENT", secret |-> 0]]
  /\ vault = {} /\ issued = 0 /\ left = {} /\ faults = 0 /\ asked = 0
  /\ login = [l \in Logins |-> [status |-> "NONE", account |-> None, replaced |-> 0]]
  /\ access = [c \in Callers |-> NoCall]

(* A caller holds the lock of its login from the first statement of the    *)
(* transaction to its end, and the lock of the account in between.         *)
InTransaction(c) == access[c].pc \in {"login", "account", "stored"}
LocksAccount(c, a) == access[c].pc \in {"account", "stored"} /\ access[c].account = a

Call(c, call) == access' = [access EXCEPT ![c] = call]
GoTo(c, pc) == access' = [access EXCEPT ![c].pc = pc]
Fault == faults < MaxFaults /\ faults' = faults + 1 /\ UNCHANGED asked
Ask == asked < MaxRequests /\ asked' = asked + 1 /\ UNCHANGED faults

(* BEGIN_LOGIN: one insert, under a fresh id.                              *)
BeginLogin(l, a) ==
  /\ login[l].status = "NONE" /\ \A k \in 1..(l - 1) : login[k].status # "NONE"
  /\ login' = [login EXCEPT ![l] = [status |-> "WAITING_CHALLENGE", account |-> a,
                                    replaced |-> 0]]

(* COMPLETE_LOGIN: the transaction locks the login and reads it.  A login  *)
(* that is already completed only has its replaced credential deleted.     *)
EnterLogin(c, l) ==
  LET found == login[l]
      call == [NoCall EXCEPT !.login = l, !.account = found.account,
                             !.old = found.replaced]
  IN /\ access[c].pc = "idle" /\ found.status # "NONE"
     /\ \A d \in Callers : ~(InTransaction(d) /\ access[d].login = l)
     /\ Call(c, [call EXCEPT !.pc = IF found.status = "WAITING_CHALLENGE" THEN "login"
                                     ELSE IF found.replaced # 0 THEN "replacing"
                                     ELSE "completed"])
     /\ UNCHANGED <<row, vault, issued, login, left>>

(* Mutant: the row is read without the lock of the account. *)
LockNothing(c) ==
  /\ access[c].pc = "login"
  /\ Call(c, [access[c] EXCEPT !.pc = "account", !.old = row[access[c].account].secret])
  /\ UNCHANGED <<row, vault, issued, login, left, faults, asked>>

(* The advisory lock of the account, then the row FOR UPDATE.              *)
LockAccount(c) ==
  LET a == access[c].account IN
  /\ access[c].pc = "login" /\ \A d \in Callers : ~LocksAccount(d, a)
  /\ Call(c, [access[c] EXCEPT !.pc = "account", !.old = row[a].secret])
  /\ UNCHANGED <<row, vault, issued, login, left, faults, asked>>

(* The new secret is stored, encrypted, outside of the transaction.        *)
StoreSecret(c) ==
  /\ access[c].pc = "account"
  /\ issued' = issued + 1 /\ vault' = vault \cup {issued'}
  /\ Call(c, [access[c] EXCEPT !.pc = "stored", !.secret = issued'])
  /\ UNCHANGED <<row, login, left, faults, asked>>

CommitLogin(c) ==
  LET call == access[c] IN
  /\ call.pc = "stored"
  /\ row' = [row EXCEPT ![call.account] = [status |-> "ACTIVE", secret |-> call.secret]]
  /\ login' = [login EXCEPT ![call.login].status = "COMPLETED",
                            ![call.login].replaced = call.old]
  /\ GoTo(c, IF call.old = 0 THEN "completed" ELSE "replacing")
  /\ UNCHANGED <<vault, issued, left, faults, asked>>

(* A statement of the transaction fails: it is rolled back and the secret  *)
(* stored for it is deleted again.                                         *)
RollBack(c) ==
  /\ InTransaction(c) /\ Fault
  /\ IF access[c].pc = "stored" THEN GoTo(c, "undoing") ELSE Call(c, NoCall)
  /\ UNCHANGED <<row, vault, issued, login, left>>

UndoStore(c) ==
  /\ access[c].pc = "undoing"
  /\ vault' = vault \ {access[c].secret} /\ Call(c, NoCall)
  /\ UNCHANGED <<row, issued, login, left, faults, asked>>

(* After the commit: the replaced secret is deleted, then no longer named. *)
DeleteReplaced(c) ==
  /\ access[c].pc = "replacing"
  /\ vault' = vault \ {access[c].old} /\ GoTo(c, "forgetting")
  /\ UNCHANGED <<row, issued, login, left, faults, asked>>

ForgetReplaced(c) ==
  /\ access[c].pc = "forgetting"
  /\ login' = [login EXCEPT ![access[c].login].replaced = 0]
  /\ GoTo(c, "completed")
  /\ UNCHANGED <<row, vault, issued, left, faults, asked>>

(* MARK_INVALID by the source worker, REVOKE_CREDENTIAL by the owner: the  *)
(* update waits for a transaction that locks the row and then takes what   *)
(* it finds; the secret the row names is deleted after it.                 *)
Invalidate(c, a, status, system) ==
  /\ access[c].pc = "idle"
  /\ row[a].status # "ABSENT" /\ \A d \in Callers : ~LocksAccount(d, a)
  /\ row' = [row EXCEPT ![a].status = status]
  /\ Call(c, [NoCall EXCEPT !.pc = "deleting", !.account = a, !.system = system,
                            !.secret = row[a].secret])
  /\ UNCHANGED <<vault, issued, login, left>>

(* The vault lets the system delete only a record it can load: where the   *)
(* secret is gone already the call throws.                                 *)
MayDelete(c) == access[c].system => access[c].secret \in vault

DeleteMarked(c) ==
  /\ access[c].pc = "deleting" /\ MayDelete(c)
  /\ vault' = vault \ {access[c].secret} /\ GoTo(c, "deleted")
  /\ UNCHANGED <<row, issued, login, left, faults, asked>>

(* A caller that ends half-way rolls its transaction back; a secret it     *)
(* stored, or was about to delete, stays behind.                           *)
Undealt(c) ==
  CASE access[c].pc \in {"stored", "undoing", "deleting"} -> {access[c].secret}
    [] access[c].pc = "replacing" -> {access[c].old}
    [] OTHER -> {}

Abandon(c) ==
  /\ Call(c, NoCall) /\ left' = left \cup Undealt(c)
  /\ UNCHANGED <<row, vault, issued, login>>

CallerEnds(c) == access[c].pc \notin {"idle", "deleted"} /\ Fault /\ Abandon(c)
-----------------------------------------------------------------------------
(* The requests of the API.                                                *)
UserBegins(l, a) ==
  Ask /\ BeginLogin(l, a) /\ UNCHANGED <<row, vault, issued, access, left>>

UserRevokes(c, a) == Ask /\ Invalidate(c, a, "REVOKED", FALSE)

(* The steps of a call that is in flight, of whoever makes it.             *)
AccessStep(c) ==
  \/ LockAccount(c) \/ StoreSecret(c) \/ CommitLogin(c) \/ UndoStore(c)
  \/ DeleteReplaced(c) \/ ForgetReplaced(c) \/ DeleteMarked(c)
-----------------------------------------------------------------------------
(* An account that is ACTIVE has its secret in the vault, whatever login,  *)
(* revocation or mark was in flight when it became so: the worker can load *)
(* it.                                                                     *)
ActiveHasSecret ==
  \A a \in Accounts : row[a].status = "ACTIVE" => row[a].secret \in vault

(* When no call is in flight the vault holds exactly the secrets of the    *)
(* accounts that are ACTIVE, apart from those a caller that ended left: of *)
(* any number of logins, revocations and marks one secret at most remains. *)
OneSecretAtRest ==
  (\A c \in Callers : access[c].pc = "idle") =>
    vault \ left = {row[a].secret : a \in {b \in Accounts : row[b].status = "ACTIVE"}} \ left
=============================================================================
