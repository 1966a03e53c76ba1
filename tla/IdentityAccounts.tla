--------------------------- MODULE IdentityAccounts ---------------------------
(***************************************************************************)
(* The accounts, sessions and invitations of the identity module and the   *)
(* transactions that change them at the same time                          *)
(* (packages/identity-access/src/index.ts).                                *)
(*                                                                         *)
(* PostgreSQL runs them READ COMMITTED.  A statement sees what was         *)
(* committed when it began; SELECT ... FOR UPDATE then waits for the row   *)
(* lock and evaluates its condition again on the locked row, but not on    *)
(* the session it joined; the lock is kept until the transaction ends.  So *)
(* a transaction is a call of several steps: it begins, locks the account  *)
(* of its actor, locks its target, counts the others, commits.  Two calls  *)
(* that wait for each other are a deadlock, which the server ends by       *)
(* aborting one: any call may abort.                                       *)
(*                                                                         *)
(* A refused command changes nothing here (its audit record is left out),  *)
(* and a wrong password or a malformed name is one of the reasons to       *)
(* refuse.  All sessions of an account are alike, so an account has live   *)
(* sessions or has none; the seven days of a session are in its expiry.    *)
(***************************************************************************)
EXTENDS Integers, FiniteSets

CONSTANTS Accounts,      \* account ids, used or not yet
          Invitations,   \* invitation ids
          Calls,         \* transactions that may be open at a time
          Commands,      \* the commands an instance gives
          SelfService,   \* may an administrator name its own account?
          None           \* no call, no account

ASSUME NoneAssumption ==
  None \notin Accounts \cup Invitations \cup Calls /\ Accounts \cap Invitations = {}
ASSUME CommandsAssumption ==
  /\ Commands \subseteq
       {"BOOTSTRAP_SUPERADMIN", "RECOVER_SUPERADMIN", "LOGIN", "LOGOUT_CURRENT",
        "LOGOUT_ALL", "CREATE_INVITATION", "REVOKE_INVITATION",
        "REGISTER_WITH_INVITATION", "CREATE_ACCOUNT", "RESET_ACCOUNT_PASSWORD",
        "SET_ACCOUNT_ROLE", "SET_ACCOUNT_STATUS", "REQUEST_SELF_DELETION",
        "REQUEST_ACCOUNT_DELETION", "CANCEL_SELF_DELETION", "CHANGE_PASSWORD",
        "COMPLETE_TEMPORARY_PASSWORD_CHANGE", "DELETE_ACCOUNT"}
  /\ SelfService \in BOOLEAN

Roles == {"USER", "ADMIN", "SUPERADMIN"}
Statuses == {"ABSENT", "ACTIVE", "DISABLED", "PENDING_DELETION", "DELETED"}
InvitationStates == {"NONE", "ACTIVE", "REVOKED", "USED", "DELETED"}

Absent == [role |-> "USER", status |-> "ABSENT", kind |-> "PERMANENT"]
Idle == [pc |-> "idle", command |-> "NONE", actor |-> None, role |-> "USER",
         target |-> None, argument |-> "NONE"]

VARIABLES accounts,     \* identity_accounts
          sessions,     \* accounts with a live row in identity_login_sessions
          invitations,  \* identity_invitations: state and who made and used it
          recoverable,  \* the account of the recovery code (identity_recovery_codes)
          locks,        \* row locks: the call that holds each account or invitation
          calls         \* the open transactions

vars == <<accounts, sessions, invitations, recoverable, locks, calls>>

Init ==
  /\ accounts = [a \in Accounts |-> Absent]
  /\ sessions = {}
  /\ invitations = [i \in Invitations |-> [state |-> "NONE", by |-> None, user |-> None]]
  /\ recoverable = None
  /\ locks = [x \in Accounts \cup Invitations |-> None]
  /\ calls = [c \in Calls |-> Idle]

-----------------------------------------------------------------------------
(* A transaction and its locks. *)

(* Mutant: the read of the target does not lock it. *)
LockNothing(c, x) == UNCHANGED locks

Lock(c, x) == locks' = [locks EXCEPT ![x] = c]

Free(c, x) == locks[x] \in {None, c}

(* The transaction ends: its locks go with it. *)
End(c) ==
  /\ locks' = [x \in DOMAIN locks |-> IF locks[x] = c THEN None ELSE locks[x]]
  /\ calls' = [calls EXCEPT ![c] = Idle]

Give(c, command, actor, target, argument, pc) ==
  /\ calls[c].pc = "idle"
  /\ command \in Commands
  /\ calls' = [calls EXCEPT ![c] =
                 [pc |-> pc, command |-> command, actor |-> actor,
                  role |-> IF actor = None THEN "USER" ELSE accounts[actor].role,
                  target |-> target, argument |-> argument]]
  /\ UNCHANGED <<accounts, sessions, invitations, recoverable, locks>>

(* What a command asks of the account whose session gives it. *)
ActorMay(command, a) ==
  /\ accounts[a].status =
       IF command = "CANCEL_SELF_DELETION" THEN "PENDING_DELETION" ELSE "ACTIVE"
  /\ command \notin {"CANCEL_SELF_DELETION", "CHANGE_PASSWORD"} =>
       accounts[a].kind = IF command = "COMPLETE_TEMPORARY_PASSWORD_CHANGE"
                            THEN "TEMPORARY" ELSE "PERMANENT"
  /\ command \in {"SET_ACCOUNT_ROLE", "REQUEST_ACCOUNT_DELETION"} =>
       accounts[a].role = "SUPERADMIN"
  /\ command \in {"SET_ACCOUNT_STATUS", "CREATE_ACCOUNT", "RESET_ACCOUNT_PASSWORD",
                  "CREATE_INVITATION", "REVOKE_INVITATION"} =>
       accounts[a].role \in {"ADMIN", "SUPERADMIN"}
  /\ command = "REQUEST_SELF_DELETION" => accounts[a].role = "USER"

(* Commands that lock the account of the actor. *)
OnSelf == {"REQUEST_SELF_DELETION", "CANCEL_SELF_DELETION", "CHANGE_PASSWORD",
           "COMPLETE_TEMPORARY_PASSWORD_CHANGE"}
OnAnother == {"SET_ACCOUNT_ROLE", "SET_ACCOUNT_STATUS", "REQUEST_ACCOUNT_DELETION"}

Argument(command) ==
  CASE command = "SET_ACCOUNT_ROLE" -> Roles
    [] command = "SET_ACCOUNT_STATUS" -> {"ACTIVE", "DISABLED"}
    [] OTHER -> {"NONE"}

(* The session and its account are read as they were committed. *)
Begin(c, actor) ==
  \/ \E command \in Commands \cap OnSelf :
       /\ ActorMay(command, actor)
       /\ Give(c, command, actor, None, "NONE", "begun")
  \/ \E command \in Commands \cap OnAnother, target \in Accounts :
       /\ ActorMay(command, actor)
       /\ target # actor \/ SelfService
       /\ \E argument \in Argument(command) :
            Give(c, command, actor, target, argument, "begun")

(* Mutant: the actor is not looked at again once its row is locked. *)
LockActorAsSeen(c) ==
  /\ calls[c].pc = "begun" /\ calls[c].command \in OnSelf \cup OnAnother
  /\ Free(c, calls[c].actor)
  /\ Lock(c, calls[c].actor)
  /\ calls' = [calls EXCEPT ![c].pc = "actor"]
  /\ UNCHANGED <<accounts, sessions, invitations, recoverable>>

LockActor(c) ==
  /\ calls[c].pc = "begun" /\ calls[c].command \in OnSelf \cup OnAnother
  /\ Free(c, calls[c].actor)
  /\ IF ActorMay(calls[c].command, calls[c].actor)
       THEN /\ Lock(c, calls[c].actor)
            /\ calls' = [calls EXCEPT ![c].pc = "actor",
                                      ![c].role = accounts[calls[c].actor].role]
       ELSE End(c)
  /\ UNCHANGED <<accounts, sessions, invitations, recoverable>>

(* Mutant: the status of an account that waits for its deletion is set as well. *)
TargetExists(c) == accounts[calls[c].target].status \notin {"ABSENT", "DELETED"}

(* What a command asks of the account it names. *)
TargetMay(c) ==
  LET target == accounts[calls[c].target]
      Is(command) == calls[c].command = command
  IN /\ target.status \notin {"ABSENT", "DELETED"}
     /\ Is("SET_ACCOUNT_STATUS") => target.status # "PENDING_DELETION"
     /\ Is("SET_ACCOUNT_STATUS") \/ Is("RESET_ACCOUNT_PASSWORD") =>
          (calls[c].role = "ADMIN" => target.role = "USER")
     /\ Is("RESET_ACCOUNT_PASSWORD") => target.role # "SUPERADMIN"
     /\ Is("REQUEST_ACCOUNT_DELETION") => target.role = "USER" /\ target.status = "ACTIVE"
     /\ Is("RECOVER_SUPERADMIN") => /\ recoverable = calls[c].target
                                    /\ target.role = "SUPERADMIN" /\ target.status = "ACTIVE"

LocksTarget(c) ==
  \/ calls[c].pc = "actor" /\ calls[c].command \in OnAnother
  \/ calls[c].pc = "resolved" /\ calls[c].command = "RESET_ACCOUNT_PASSWORD"
  \/ calls[c].pc = "begun" /\ calls[c].command = "RECOVER_SUPERADMIN"

LockTarget(c) ==
  /\ LocksTarget(c)
  /\ Free(c, calls[c].target)
  /\ IF TargetMay(c)
       THEN Lock(c, calls[c].target) /\ calls' = [calls EXCEPT ![c].pc = "target"]
       ELSE End(c)
  /\ UNCHANGED <<accounts, sessions, invitations, recoverable>>

-----------------------------------------------------------------------------
(* The last SUPERADMIN. *)

Superadmin(a) == accounts[a].role = "SUPERADMIN" /\ accounts[a].status = "ACTIVE"

TakesSuperadmin(c) ==
  /\ \/ calls[c].command = "SET_ACCOUNT_ROLE" /\ calls[c].argument # "SUPERADMIN"
     \/ calls[c].command = "SET_ACCOUNT_STATUS" /\ calls[c].argument = "DISABLED"
  /\ accounts[calls[c].target].role = "SUPERADMIN"

(* The count of the others, as committed now.  Demoting counts whoever is  *)
(* ACTIVE, disabling and recovering only those with a permanent password.  *)
OtherSuperadmin(c) ==
  \E a \in Accounts \ {calls[c].target} :
    /\ Superadmin(a)
    /\ calls[c].command = "SET_ACCOUNT_ROLE" \/ accounts[a].kind = "PERMANENT"

CountOthers(c) ==
  /\ calls[c].pc = "target"
  /\ TakesSuperadmin(c) \/ calls[c].command = "RECOVER_SUPERADMIN"
  /\ IF OtherSuperadmin(c) = TakesSuperadmin(c)
       THEN calls' = [calls EXCEPT ![c].pc = "counted"] /\ UNCHANGED locks
       ELSE End(c)
  /\ UNCHANGED <<accounts, sessions, invitations, recoverable>>

(* All that stands before the update has been done. *)
Decided(c) ==
  \/ calls[c].pc = "counted"
  \/ calls[c].pc = "target" /\ ~TakesSuperadmin(c)

-----------------------------------------------------------------------------
(* Commits. *)

SetAccountRole(c) ==
  /\ calls[c].command = "SET_ACCOUNT_ROLE" /\ Decided(c)
  /\ accounts' = [accounts EXCEPT ![calls[c].target].role = calls[c].argument]
  /\ End(c)
  /\ UNCHANGED <<sessions, invitations, recoverable>>

SetAccountStatus(c) ==
  /\ calls[c].command = "SET_ACCOUNT_STATUS" /\ Decided(c)
  /\ accounts' = [accounts EXCEPT ![calls[c].target].status = calls[c].argument]
  /\ sessions' = IF calls[c].argument = "DISABLED" THEN sessions \ {calls[c].target}
                                                   ELSE sessions
  /\ End(c)
  /\ UNCHANGED <<invitations, recoverable>>

(* The account waits seven days for its deletion and is signed out. *)
AwaitDeletion(a) ==
  /\ accounts' = [accounts EXCEPT ![a].status = "PENDING_DELETION"]
  /\ sessions' = sessions \ {a}

RequestSelfDeletion(c) ==
  /\ calls[c].command = "REQUEST_SELF_DELETION" /\ calls[c].pc = "actor"
  /\ AwaitDeletion(calls[c].actor)
  /\ End(c)
  /\ UNCHANGED <<invitations, recoverable>>

RequestAccountDeletion(c) ==
  /\ calls[c].command = "REQUEST_ACCOUNT_DELETION" /\ calls[c].pc = "target"
  /\ AwaitDeletion(calls[c].target)
  /\ End(c)
  /\ UNCHANGED <<invitations, recoverable>>

CancelSelfDeletion(c) ==
  /\ calls[c].command = "CANCEL_SELF_DELETION" /\ calls[c].pc = "actor"
  /\ accounts' = [accounts EXCEPT ![calls[c].actor].status = "ACTIVE"]
  /\ sessions' = sessions \cup {calls[c].actor}
  /\ End(c)
  /\ UNCHANGED <<invitations, recoverable>>

(* Only completing the change of a temporary password signs in again. *)
ChangePassword(c) ==
  /\ calls[c].command \in {"CHANGE_PASSWORD", "COMPLETE_TEMPORARY_PASSWORD_CHANGE"}
  /\ calls[c].pc = "actor"
  /\ accounts' = [accounts EXCEPT ![calls[c].actor].kind = "PERMANENT"]
  /\ sessions' = IF calls[c].command = "CHANGE_PASSWORD" THEN sessions \ {calls[c].actor}
                                                         ELSE sessions \cup {calls[c].actor}
  /\ End(c)
  /\ UNCHANGED <<invitations, recoverable>>

ResetAccountPassword(c) ==
  /\ calls[c].command = "RESET_ACCOUNT_PASSWORD" /\ calls[c].pc = "target"
  /\ accounts' = [accounts EXCEPT ![calls[c].target].kind = "TEMPORARY"]
  /\ sessions' = sessions \ {calls[c].target}
  /\ End(c)
  /\ UNCHANGED <<invitations, recoverable>>

(* The code is replaced by a new one for the same account. *)
RecoverSuperadmin(c) ==
  /\ calls[c].command = "RECOVER_SUPERADMIN" /\ calls[c].pc = "counted"
  /\ accounts' = [accounts EXCEPT ![calls[c].target].kind = "PERMANENT"]
  /\ sessions' = sessions \cup {calls[c].target}
  /\ End(c)
  /\ UNCHANGED <<invitations, recoverable>>

-----------------------------------------------------------------------------
(* Commands that look at the actor without locking it, and those without one. *)

ResolveActor(c, actor) ==
  \/ \E command \in {"CREATE_INVITATION", "LOGOUT_ALL"} :
       /\ ActorMay(command, actor)
       /\ Give(c, command, actor, None, "NONE", "resolved")
  \/ /\ ActorMay("RESET_ACCOUNT_PASSWORD", actor)
     /\ \E target \in Accounts :
          Give(c, "RESET_ACCOUNT_PASSWORD", actor, target, "NONE", "resolved")
  \/ /\ ActorMay("REVOKE_INVITATION", actor)
     /\ \E i \in Invitations : Give(c, "REVOKE_INVITATION", actor, i, "NONE", "resolved")
  \/ /\ ActorMay("CREATE_ACCOUNT", actor)
     /\ \E role \in {"USER", "ADMIN"} :
          /\ role = "ADMIN" => accounts[actor].role = "SUPERADMIN"
          /\ Give(c, "CREATE_ACCOUNT", actor, None, role, "resolved")

(* A new row, under an id nobody has. *)
Insert(a, role, kind) ==
  /\ accounts[a].status = "ABSENT"
  /\ accounts' = [accounts EXCEPT ![a] = [role |-> role, status |-> "ACTIVE", kind |-> kind]]

CreateAccount(c, a) ==
  /\ calls[c].command = "CREATE_ACCOUNT" /\ calls[c].pc = "resolved"
  /\ Insert(a, calls[c].argument, "TEMPORARY")
  /\ End(c)
  /\ UNCHANGED <<sessions, invitations, recoverable>>

CreateInvitation(c, i) ==
  /\ calls[c].command = "CREATE_INVITATION" /\ calls[c].pc = "resolved"
  /\ invitations[i].state = "NONE"
  /\ invitations' = [invitations EXCEPT ![i] =
                       [state |-> "ACTIVE", by |-> calls[c].actor, user |-> None]]
  /\ End(c)
  /\ UNCHANGED <<accounts, sessions, recoverable>>

(* The update waits for a registration that holds the row and finds it used. *)
RevokeInvitation(c) ==
  /\ calls[c].command = "REVOKE_INVITATION" /\ calls[c].pc = "resolved"
  /\ Free(c, calls[c].target)
  /\ invitations' = IF invitations[calls[c].target].state = "ACTIVE"
                      THEN [invitations EXCEPT ![calls[c].target].state = "REVOKED"]
                      ELSE invitations
  /\ End(c)
  /\ UNCHANGED <<accounts, sessions, recoverable>>

LogoutAll(c) ==
  /\ calls[c].command = "LOGOUT_ALL" /\ calls[c].pc = "resolved"
  /\ sessions' = sessions \ {calls[c].actor}
  /\ End(c)
  /\ UNCHANGED <<accounts, invitations, recoverable>>

(* Another session of the account may remain. *)
LogoutCurrent(a) ==
  /\ "LOGOUT_CURRENT" \in Commands
  /\ a \in sessions
  /\ sessions' = sessions \ {a}
  /\ UNCHANGED <<accounts, invitations, recoverable, locks, calls>>

(* The advisory lock and the empty table let one bootstrap through. *)
BootstrapSuperadmin(a) ==
  /\ "BOOTSTRAP_SUPERADMIN" \in Commands
  /\ \A b \in Accounts : accounts[b].status = "ABSENT"
  /\ Insert(a, "SUPERADMIN", "PERMANENT")
  /\ recoverable' = a
  /\ sessions' = {a}
  /\ UNCHANGED <<invitations, locks, calls>>

(* Recoveries queue on an advisory lock before they look for the code. *)
BeginRecovery(c, a) ==
  /\ recoverable = a
  /\ \A d \in Calls : calls[d].command # "RECOVER_SUPERADMIN"
  /\ Give(c, "RECOVER_SUPERADMIN", None, a, "NONE", "begun")

(* Login reads the account without a lock; the session is inserted later. *)
ReadLogin(c, a) ==
  /\ accounts[a].status \in {"ACTIVE", "PENDING_DELETION"}
  /\ Give(c, "LOGIN", None, a, "NONE", "resolved")

(* The reference of the new session waits for whoever locks the account. *)
Login(c) ==
  /\ calls[c].command = "LOGIN" /\ calls[c].pc = "resolved"
  /\ Free(c, calls[c].target)
  /\ sessions' = sessions \cup {calls[c].target}
  /\ End(c)
  /\ UNCHANGED <<accounts, invitations, recoverable>>

BeginRegistration(c, i) ==
  /\ invitations[i].state = "ACTIVE"
  /\ Give(c, "REGISTER_WITH_INVITATION", None, i, "NONE", "begun")

LockInvitation(c) ==
  /\ calls[c].command = "REGISTER_WITH_INVITATION" /\ calls[c].pc = "begun"
  /\ Free(c, calls[c].target)
  /\ IF invitations[calls[c].target].state = "ACTIVE"
       THEN Lock(c, calls[c].target) /\ calls' = [calls EXCEPT ![c].pc = "target"]
       ELSE End(c)
  /\ UNCHANGED <<accounts, sessions, invitations, recoverable>>

RegisterWithInvitation(c, a) ==
  /\ calls[c].command = "REGISTER_WITH_INVITATION" /\ calls[c].pc = "target"
  /\ Insert(a, "USER", "PERMANENT")
  /\ invitations' = [invitations EXCEPT ![calls[c].target].state = "USED",
                                        ![calls[c].target].user = a]
  /\ sessions' = sessions \cup {a}
  /\ End(c)
  /\ UNCHANGED recoverable

(* The lifecycle worker erases an account that still waits for it, with    *)
(* its sessions, its recovery code and its invitations.                    *)
EraseIdentityAccount(a) ==
  /\ "DELETE_ACCOUNT" \in Commands
  /\ accounts[a].status = "PENDING_DELETION"
  /\ locks[a] = None
  /\ \A i \in Invitations : invitations[i].by = a => locks[i] = None
  /\ accounts' = [accounts EXCEPT ![a].status = "DELETED", ![a].kind = "PERMANENT"]
  /\ sessions' = sessions \ {a}
  /\ invitations' = [i \in Invitations |->
                       IF invitations[i].by = a
                         THEN [state |-> "DELETED", by |-> None, user |-> None]
                         ELSE [invitations[i] EXCEPT !.user = IF @ = a THEN None ELSE @]]
  /\ recoverable' = IF recoverable = a THEN None ELSE recoverable
  /\ UNCHANGED <<locks, calls>>

(* A refusal, a deadlock, a lost connection: the transaction rolls back. *)
Abort(c) ==
  /\ calls[c].pc # "idle"
  /\ End(c)
  /\ UNCHANGED <<accounts, sessions, invitations, recoverable>>

Commit(c) ==
  \/ SetAccountRole(c) \/ SetAccountStatus(c)
  \/ RequestSelfDeletion(c) \/ RequestAccountDeletion(c) \/ CancelSelfDeletion(c)
  \/ ChangePassword(c) \/ ResetAccountPassword(c) \/ RecoverSuperadmin(c)
  \/ RevokeInvitation(c) \/ LogoutAll(c) \/ Login(c)
  \/ \E a \in Accounts : CreateAccount(c, a) \/ RegisterWithInvitation(c, a)
  \/ \E i \in Invitations : CreateInvitation(c, i)

Next ==
  \/ \E c \in Calls, actor \in sessions : Begin(c, actor) \/ ResolveActor(c, actor)
  \/ \E c \in Calls, a \in Accounts : BeginRecovery(c, a) \/ ReadLogin(c, a)
  \/ \E c \in Calls, i \in Invitations : BeginRegistration(c, i)
  \/ \E c \in Calls : \/ LockActor(c) \/ LockTarget(c) \/ LockInvitation(c)
                      \/ CountOthers(c) \/ Commit(c) \/ Abort(c)
  \/ \E a \in Accounts :
       LogoutCurrent(a) \/ BootstrapSuperadmin(a) \/ EraseIdentityAccount(a)

Spec == Init /\ [][Next]_vars

-----------------------------------------------------------------------------
(* Properties. *)

Call == [pc : {"idle", "begun", "resolved", "actor", "target", "counted"},
         command : Commands \cup {"NONE"}, actor : Accounts \cup {None}, role : Roles,
         target : Accounts \cup Invitations \cup {None},
         argument : Roles \cup {"ACTIVE", "DISABLED", "NONE"}]

(* Every row and call has its type. *)
TypeOK ==
  /\ accounts \in [Accounts -> [role : Roles, status : Statuses,
                                kind : {"PERMANENT", "TEMPORARY"}]]
  /\ sessions \subseteq Accounts
  /\ invitations \in [Invitations -> [state : InvitationStates,
                                      by : Accounts \cup {None},
                                      user : Accounts \cup {None}]]
  /\ recoverable \in Accounts \cup {None}
  /\ locks \in [Accounts \cup Invitations -> Calls \cup {None}]
  /\ calls \in [Calls -> Call]

(* Once there is an account there is an ACTIVE SUPERADMIN, whoever demotes *)
(* or disables whom at the same time (LAST_SUPERADMIN in setAccountRole    *)
(* and setAccountStatus; an actor that names itself relies on the count    *)
(* alone).                                                                 *)
SuperadminRemains ==
  (\E a \in Accounts : accounts[a].status # "ABSENT") => \E a \in Accounts : Superadmin(a)

(* From the lock of the actor to the commit nobody takes from the actor    *)
(* what the command asks of it, and the command knows its role; the same   *)
(* for the account it names (FOR UPDATE and the conditions re-evaluated on *)
(* the locked row).                                                        *)
ActorLocked(c) ==
  calls[c].command \in OnSelf \cup OnAnother /\ calls[c].pc \notin {"idle", "begun"}
TargetLocked(c) ==
  calls[c].pc \in {"target", "counted"} /\ calls[c].command # "REGISTER_WITH_INVITATION"

AuthorisedUntilCommit ==
  \A c \in Calls :
    /\ ActorLocked(c) => /\ ActorMay(calls[c].command, calls[c].actor)
                         /\ calls[c].role = accounts[calls[c].actor].role
    /\ TargetLocked(c) => TargetMay(c)

(* An erased account stays erased, and an account that waits for its       *)
(* deletion only becomes ACTIVE again or is erased: no command in flight   *)
(* brings either back.                                                     *)
DeletionIsFinal ==
  [][\A a \in Accounts :
       /\ accounts[a].status = "DELETED" => accounts'[a] = accounts[a]
       /\ accounts[a].status = "PENDING_DELETION" => accounts'[a].status # "DISABLED"
    ]_vars

(* An invitation makes one account, and none once it has been revoked      *)
(* (registerWithInvitation against itself and against REVOKE_INVITATION);  *)
(* only the erasure of an account forgets who used it.                     *)
InvitationUsedOnce ==
  [][\A i \in Invitations :
       /\ invitations[i].state = "USED" => invitations'[i].user \in {None, invitations[i].user}
       /\ invitations[i].state \in {"USED", "REVOKED"} =>
            invitations'[i].state \in {invitations[i].state, "DELETED"}
    ]_vars
=============================================================================
