------------------------- MODULE SourceResearchProofs -------------------------
(***************************************************************************)
(* Proofs about SourceResearch and SourceAccess for any number of          *)
(* accounts, logins, jobs, workers and users.  AccessInv, about logins and *)
(* secrets, is inductive by itself: a secret that is stored but not        *)
(* committed is known to one call only, one that was replaced is named by  *)
(* no row again, and whatever is in the vault is in use, somebody's to     *)
(* delete, or left behind by a process that ended.  The jobs add that a    *)
(* worker that holds one knows its progress.                               *)
(***************************************************************************)
EXTENDS SourceResearch, TLAPS

-----------------------------------------------------------------------------
(* Logins and secrets.  What a call and a login are about.                 *)
CallShaped ==
  \A c \in Callers :
    /\ access[c].pc \in {"login", "account", "stored", "replacing", "forgetting"} =>
         access[c].login \in Logins /\ login[access[c].login].account \in Accounts
    /\ InTransaction(c) => access[c].account \in Accounts
    /\ 0 \notin Undealt(c)

LoginShaped == \A l \in Logins : login[l].status # "NONE" => login[l].account \in Accounts

(* A row names a secret once a login has been completed, and its own one.  *)
RowShaped ==
  /\ \A a \in Accounts : row[a].secret = 0 <=> row[a].status = "ABSENT"
  /\ \A a, b \in Accounts : row[a].secret = row[b].secret /\ row[a].secret # 0 => a = b

(* One call holds the lock of an account, so that what it read stays.      *)
LockedAlone ==
  /\ \A c, d \in Callers : \A a \in Accounts : LocksAccount(c, a) /\ LocksAccount(d, a) => c = d
  /\ \A c \in Callers : \A a \in Accounts : LocksAccount(c, a) => access[c].old = row[a].secret

(* A secret that is stored but not committed is known to nobody else.      *)
Unshared(c) ==
  LET s == access[c].secret
  IN /\ s # 0 /\ access[c].old # s
     /\ access[c].pc = "stored" => s \in vault
     /\ \A a \in Accounts : row[a].secret # s
     /\ \A l \in Logins : login[l].replaced # s
     /\ \A d \in Callers \ {c} : access[d].secret # s /\ access[d].old # s

StoredUnshared == \A c \in Callers : access[c].pc \in {"stored", "undoing"} => Unshared(c)

(* A secret that was replaced is named by no row again.                    *)
Retired(s) == \A a \in Accounts : row[a].secret # s

ReplacedRetired ==
  /\ \A l \in Logins : login[l].replaced # 0 => Retired(login[l].replaced)
  /\ \A c \in Callers : access[c].pc = "replacing" => Retired(access[c].old)

(* The row whose secret is deleted with a mark is not ACTIVE with it.      *)
MarkedInactive ==
  \A c \in Callers : access[c].pc = "deleting" =>
    \A a \in Accounts : row[a].secret = access[c].secret => row[a].status # "ACTIVE"

(* A secret in the vault is in use, somebody's to delete, or left behind.  *)
InUse == {row[a].secret : a \in {b \in Accounts : row[b].status = "ACTIVE"}}

VaultAccounted == \A s \in vault : s \in left \/ s \in InUse \/ \E c \in Callers : s \in Undealt(c)

AccessInv ==
  /\ TypeOKAccess /\ CallShaped /\ LoginShaped /\ RowShaped /\ LockedAlone /\ StoredUnshared
  /\ ReplacedRetired /\ MarkedInactive /\ VaultAccounted /\ ActiveHasSecret

-----------------------------------------------------------------------------
(* Jobs.  A worker has a job, and an outcome when it completes; it knows   *)
(* the progress of the job it holds.                                       *)
WorkerShaped ==
  \A w \in Workers :
    /\ wk[w].pc # "idle" => wk[w].job \in Jobs
    /\ wk[w].pc \in {"completing", "locking"} => wk[w].outcome # "NONE"

(* The only call a worker makes over several steps is to mark an account.   *)
WorkerCalls ==
  \A w \in Workers :
    access[w].pc = "idle" \/ (access[w].pc \in {"deleting", "deleted"} /\ wk[w].pc = "marking")

AtCheckpoint ==
  \A w \in Workers :
    wk[w].pc # "idle" /\ jobs[wk[w].job].state = "RUNNING" /\ jobs[wk[w].job].worker = w =>
      wk[w].at = jobs[wk[w].job].checkpoint

IInv == AccessInv /\ TypeOK /\ WorkerShaped /\ WorkerCalls /\ AtCheckpoint /\ ResultOnce

-----------------------------------------------------------------------------
(* Calls.                                                                  *)
RowSet(n) == [status : {"ABSENT", "ACTIVE", "INVALID", "REVOKED"}, secret : 0..n]

LoginSet(n) == [status : {"NONE", "WAITING_CHALLENGE", "COMPLETED"},
                account : Accounts \cup {None}, replaced : 0..n]

CallSet(n) ==
  [pc : {"idle", "login", "account", "stored", "undoing", "replacing",
         "forgetting", "completed", "deleting", "deleted"},
   login : 0..MaxLogins, account : Accounts \cup {None},
   secret : 0..n, old : 0..n, system : BOOLEAN]

LEMMA AccessTyped ==
  /\ TypeOKAccess <=>
       /\ row \in [Accounts -> RowSet(issued)]
       /\ issued \in Nat /\ vault \subseteq 1..issued /\ left \subseteq 1..issued
       /\ login \in [Logins -> LoginSet(issued)]
       /\ access \in [Callers -> CallSet(issued)]
       /\ faults \in 0..MaxFaults /\ asked \in 0..MaxRequests
  /\ TypeOKAccess' <=>
       /\ row' \in [Accounts -> RowSet(issued')]
       /\ issued' \in Nat /\ vault' \subseteq 1..issued' /\ left' \subseteq 1..issued'
       /\ login' \in [Logins -> LoginSet(issued')]
       /\ access' \in [Callers -> CallSet(issued')]
       /\ faults' \in 0..MaxFaults /\ asked' \in 0..MaxRequests
BY DEF TypeOKAccess, RowSet, LoginSet, CallSet

LEMMA NoCallTyped ==
  ASSUME NEW n \in Nat
  PROVE  NoCall \in CallSet(n)
BY SourceAccessAssumption DEF NoCall, CallSet

Others(c) == \A d \in Callers \ {c} : access'[d] = access[d]

LEMMA CallSets ==
  ASSUME TypeOKAccess, NEW c \in Callers, NEW call, Call(c, call)
  PROVE  /\ access'[c] = call /\ Others(c)
         /\ call \in CallSet(issued) => access' \in [Callers -> CallSet(issued)]
<1>1. access \in [Callers -> CallSet(issued)] BY AccessTyped
<1>2. access' = [access EXCEPT ![c] = call] BY DEF Call
<1>3. QED BY <1>1, <1>2 DEF Others

LEMMA CallGoes ==
  ASSUME TypeOKAccess, NEW c \in Callers,
         NEW pc \in {"idle", "login", "account", "stored", "undoing", "replacing",
                     "forgetting", "completed", "deleting", "deleted"},
         GoTo(c, pc)
  PROVE  /\ access'[c].pc = pc /\ Others(c)
         /\ access'[c].login = access[c].login /\ access'[c].account = access[c].account
         /\ access'[c].secret = access[c].secret /\ access'[c].old = access[c].old
         /\ access'[c].system = access[c].system
         /\ access' \in [Callers -> CallSet(issued)]
<1>1. access \in [Callers -> CallSet(issued)] BY AccessTyped
<1>2. access' = [access EXCEPT ![c].pc = pc] BY DEF GoTo
<1>3. access'[c] = [access[c] EXCEPT !.pc = pc] /\ Others(c)
  BY <1>1, <1>2 DEF Others
<1>4. access[c] \in CallSet(issued) BY <1>1
<1>5. /\ access'[c].pc = pc
      /\ access'[c].login = access[c].login /\ access'[c].account = access[c].account
      /\ access'[c].secret = access[c].secret /\ access'[c].old = access[c].old
      /\ access'[c].system = access[c].system /\ access'[c] \in CallSet(issued)
  BY <1>3, <1>4 DEF CallSet
<1>6. access' \in [Callers -> CallSet(issued)]
  BY <1>1, <1>2, <1>3, <1>5
<1>7. QED BY <1>3, <1>5, <1>6

LEMMA CallFields ==
  ASSUME TypeOKAccess, NEW c \in Callers
  PROVE  /\ access[c] \in CallSet(issued)
         /\ access[c].secret \in 0..issued /\ access[c].old \in 0..issued
         /\ access[c].login \in 0..MaxLogins
         /\ issued \in Nat
<1>1. access[c] \in CallSet(issued) /\ issued \in Nat BY AccessTyped
<1>2. QED BY <1>1 DEF CallSet

-----------------------------------------------------------------------------
(* A step of one call that gives out no new secret and makes no account    *)
(* ACTIVE: what the call is afterwards fits what it was and what it read.  *)
CallFits(c) ==
  /\ access'[c].pc \in {"login", "account", "stored", "replacing", "forgetting"} =>
       access'[c].login \in Logins /\ login[access'[c].login].account \in Accounts
  /\ access'[c].pc \in {"login", "account", "stored"} => access'[c].account \in Accounts
  /\ 0 \notin Undealt(c)'
  /\ \A a \in Accounts : access'[c].pc \in {"account", "stored"} /\ access'[c].account = a =>
       access'[c].old = row[a].secret /\ \A d \in Callers \ {c} : ~LocksAccount(d, a)
  /\ access'[c].secret \in {0, access[c].secret} \cup {row[a].secret : a \in Accounts}
  /\ access'[c].old \in {0, access[c].old} \cup {row[a].secret : a \in Accounts}
                        \cup {login[l].replaced : l \in Logins}
  /\ access'[c].pc \in {"stored", "undoing"} =>
       /\ access[c].pc \in {"stored", "undoing"}
       /\ access'[c].secret = access[c].secret /\ access'[c].old = access[c].old
  /\ access'[c].pc = "stored" => access[c].pc = "stored" /\ vault' = vault
  /\ access'[c].pc = "replacing" => \A a \in Accounts : row[a].secret # access'[c].old
  /\ access'[c].pc = "deleting" =>
       \A a \in Accounts : row[a].secret = access'[c].secret => row'[a].status # "ACTIVE"

(* What the step does to the rows, the logins and the vault.               *)
RowsFit ==
  /\ \A a \in Accounts : /\ row'[a].secret = row[a].secret
                         /\ row'[a].status = "ABSENT" <=> row[a].status = "ABSENT"
                         /\ row'[a].status = "ACTIVE" => row[a].status = "ACTIVE"
  /\ \A l \in Logins : /\ login'[l].replaced \in {0, login[l].replaced}
                       /\ login'[l].status # "NONE" => login'[l].account \in Accounts
                       /\ login[l].account \in Accounts => login'[l].account \in Accounts

VaultFits(c) ==
  /\ vault' \subseteq vault /\ left \subseteq left'
  /\ \A s \in vault \ vault' :
       /\ \A a \in Accounts : row'[a].status = "ACTIVE" => row[a].secret # s
       /\ \A d \in Callers \ {c} : access[d].pc = "stored" => access[d].secret # s
  /\ \A s \in vault' : s \in InUse \cup Undealt(c) => s \in left' \/ s \in InUse' \/ s \in Undealt(c)'

LEMMA StepFits ==
  ASSUME AccessInv, TypeOKAccess', NEW c \in Callers, Others(c), CallFits(c), RowsFit, VaultFits(c)
  PROVE  AccessInv'
<1>1. CallShaped'
  <2>1. ASSUME NEW d \in Callers \ {c} PROVE Undealt(d)' = Undealt(d)
    BY DEF Others, Undealt
  <2>2. \A l \in Logins : login[l].account \in Accounts => login'[l].account \in Accounts
    BY DEF RowsFit
  <2>3. QED BY <2>1, <2>2 DEF AccessInv, CallShaped, InTransaction, CallFits, Others
<1>2. LoginShaped' BY DEF LoginShaped, RowsFit
<1>3. RowShaped'
  BY DEF AccessInv, RowShaped, RowsFit
<1>4. LockedAlone'
  <2>1. \A a \in Accounts : LocksAccount(c, a)' =>
          access'[c].old = row[a].secret /\ \A d \in Callers \ {c} : ~LocksAccount(d, a)
    BY DEF LocksAccount, CallFits
  <2>2. \A d \in Callers \ {c} : \A a \in Accounts :
          (LocksAccount(d, a)' <=> LocksAccount(d, a)) /\ access'[d].old = access[d].old
    BY DEF LocksAccount, Others
  <2>3. \A d, e \in Callers : \A a \in Accounts : LocksAccount(d, a)' /\ LocksAccount(e, a)' => d = e
    BY <2>1, <2>2 DEF AccessInv, LockedAlone
  <2>4. \A d \in Callers : \A a \in Accounts : LocksAccount(d, a)' => access'[d].old = row'[a].secret
    BY <2>1, <2>2 DEF AccessInv, LockedAlone, RowsFit
  <2>5. QED BY <2>3, <2>4 DEF LockedAlone
<1>5. StoredUnshared'
  <2> SUFFICES ASSUME NEW d \in Callers, access'[d].pc \in {"stored", "undoing"}
               PROVE  Unshared(d)'
    BY DEF StoredUnshared
  <2>1. /\ access[d].pc \in {"stored", "undoing"} /\ Unshared(d)
        /\ access'[d].secret = access[d].secret /\ access'[d].old = access[d].old
        /\ access'[d].pc = "stored" => access[d].pc = "stored"
    BY DEF AccessInv, StoredUnshared, Others, CallFits
  <2> DEFINE s == access[d].secret
  <2>2. /\ s # 0 /\ access[d].old # s
        /\ access[d].pc = "stored" => s \in vault
        /\ \A a \in Accounts : row[a].secret # s
        /\ \A l \in Logins : login[l].replaced # s
        /\ \A e \in Callers \ {d} : access[e].secret # s /\ access[e].old # s
    BY <2>1 DEF Unshared
  <2>3. access'[d].pc = "stored" => s \in vault'
    <3>1. CASE d = c BY <3>1, <2>1, <2>2 DEF CallFits
    <3>2. CASE d # c BY <3>2, <2>1, <2>2 DEF VaultFits
    <3>3. QED BY <3>1, <3>2
  <2>4. \A a \in Accounts : row'[a].secret # s BY <2>2 DEF RowsFit
  <2>5. \A l \in Logins : login'[l].replaced # s BY <2>2 DEF RowsFit
  <2>6. ASSUME NEW e \in Callers \ {d} PROVE access'[e].secret # s /\ access'[e].old # s
    <3>1. CASE e # c BY <3>1, <2>2 DEF Others
    <3>2. CASE e = c
      <4>1. access'[c].secret # s BY <3>2, <2>2 DEF CallFits
      <4>2. access'[c].old # s BY <3>2, <2>2 DEF CallFits
      <4>3. QED BY <3>2, <4>1, <4>2
    <3>3. QED BY <3>1, <3>2
  <2>7. access'[d].secret = s /\ access'[d].old # s BY <2>1, <2>2
  <2> HIDE DEF s
  <2>8. QED BY <2>1, <2>2, <2>3, <2>4, <2>5, <2>6, <2>7 DEF Unshared
<1>6. ReplacedRetired'
  <2>1. \A l \in Logins : login'[l].replaced # 0 => \A a \in Accounts : row'[a].secret # login'[l].replaced
    BY DEF AccessInv, ReplacedRetired, Retired, RowsFit
  <2>2. \A d \in Callers : access'[d].pc = "replacing" => \A a \in Accounts : row'[a].secret # access'[d].old
    BY DEF AccessInv, ReplacedRetired, Retired, RowsFit, Others, CallFits
  <2>3. QED BY <2>1, <2>2 DEF ReplacedRetired, Retired
<1>7. MarkedInactive'
  <2> SUFFICES ASSUME NEW d \in Callers, access'[d].pc = "deleting", NEW a \in Accounts,
                      row'[a].secret = access'[d].secret
               PROVE  row'[a].status # "ACTIVE"
    BY DEF MarkedInactive
  <2>1. CASE d = c BY <2>1 DEF CallFits, RowsFit
  <2>2. CASE d # c BY <2>2 DEF AccessInv, MarkedInactive, RowsFit, Others
  <2>3. QED BY <2>1, <2>2
<1>8. VaultAccounted'
  <2> SUFFICES ASSUME NEW s \in vault'
               PROVE  s \in left' \/ s \in InUse' \/ \E d \in Callers : s \in Undealt(d)'
    BY DEF VaultAccounted
  <2>1. s \in left \/ s \in InUse \/ \E d \in Callers : s \in Undealt(d)
    BY DEF AccessInv, VaultAccounted, VaultFits
  <2>2. \A d \in Callers \ {c} : Undealt(d)' = Undealt(d)
    BY DEF Undealt, Others
  <2>3. QED BY <2>1, <2>2 DEF VaultFits
<1>9. ActiveHasSecret'
  BY DEF AccessInv, ActiveHasSecret, RowsFit, VaultFits
<1>10. QED BY <1>1, <1>2, <1>3, <1>4, <1>5, <1>6, <1>7, <1>8, <1>9 DEF AccessInv

-----------------------------------------------------------------------------
(* The steps of a call.                                                    *)
BoundsOK == faults' \in 0..MaxFaults /\ asked' \in 0..MaxRequests

LEMMA FaultBounded ==
  ASSUME TypeOKAccess, Fault
  PROVE  BoundsOK
BY SourceAccessAssumption DEF TypeOKAccess, Fault, BoundsOK

LEMMA AskBounded ==
  ASSUME TypeOKAccess, Ask
  PROVE  BoundsOK
BY SourceAccessAssumption DEF TypeOKAccess, Ask, BoundsOK

LEMMA KeptBounds ==
  ASSUME TypeOKAccess, UNCHANGED <<faults, asked>>
  PROVE  BoundsOK
BY DEF TypeOKAccess, BoundsOK

LEMMA RowsUnchanged ==
  ASSUME AccessInv, UNCHANGED <<row, login>>
  PROVE  RowsFit
BY DEF AccessInv, LoginShaped, RowsFit

LEMMA VaultUnchanged ==
  ASSUME UNCHANGED <<row, vault, left>>, NEW c \in Callers,
         \A s \in Undealt(c) : s \in Undealt(c)'
  PROVE  VaultFits(c)
BY DEF VaultFits, InUse

LEMMA LockAccountKeeps ==
  ASSUME AccessInv, NEW c \in Callers, LockAccount(c)
  PROVE  AccessInv'
<1>1. TypeOKAccess /\ access[c].pc = "login" BY DEF AccessInv, LockAccount
<1>2. PICK a \in Accounts : a = access[c].account
  BY <1>1 DEF AccessInv, CallShaped, InTransaction
<1>3. PICK call : call = [access[c] EXCEPT !.pc = "account", !.old = row[a].secret] OBVIOUS
<1>4. Call(c, call) /\ \A d \in Callers : ~LocksAccount(d, a) BY <1>2, <1>3 DEF LockAccount
<1>5. row[a].secret \in 0..issued BY <1>1, <1>2 DEF TypeOKAccess
<1>6. /\ call \in CallSet(issued) /\ call.pc = "account" /\ call.login = access[c].login
      /\ call.account = a /\ call.secret = access[c].secret /\ call.old = row[a].secret
  BY <1>1, <1>2, <1>3, <1>5, CallFields DEF CallSet
<1>7. access'[c] = call /\ Others(c) /\ access' \in [Callers -> CallSet(issued)]
  BY <1>1, <1>4, <1>6, CallSets
<1>8. TypeOKAccess' BY <1>1, <1>7, AccessTyped DEF LockAccount
<1>9. access[c].login \in Logins /\ login[access[c].login].account \in Accounts
  BY <1>1 DEF AccessInv, CallShaped
<1>10. CallFits(c)
  <2>1. access'[c].old \in {row[b].secret : b \in Accounts} BY <1>6, <1>7
  <2>2. Undealt(c)' = {} BY <1>6, <1>7 DEF Undealt
  <2>3. QED BY <1>4, <1>6, <1>7, <1>9, <2>1, <2>2 DEF CallFits
<1>11. RowsFit BY RowsUnchanged DEF LockAccount
<1>12. VaultFits(c)
  <2>1. Undealt(c) = {} BY <1>1 DEF Undealt
  <2>2. QED BY <2>1, VaultUnchanged DEF LockAccount
<1>13. QED BY <1>7, <1>8, <1>10, <1>11, <1>12, StepFits

(* A call that is over, whatever it leaves behind.                         *)
LEMMA AbandonKeeps ==
  ASSUME AccessInv, NEW c \in Callers, Abandon(c), BoundsOK
  PROVE  AccessInv'
<1>1. TypeOKAccess /\ issued \in Nat BY CallFields DEF AccessInv
<1>2. Call(c, NoCall) BY DEF Abandon
<1>3. access'[c] = NoCall /\ Others(c) /\ access' \in [Callers -> CallSet(issued)]
  BY <1>1, <1>2, CallSets, NoCallTyped
<1>4. Undealt(c) \subseteq 1..issued
  <2>1. Undealt(c) \subseteq 0..issued BY <1>1, CallFields DEF Undealt
  <2>2. 0 \notin Undealt(c) BY DEF AccessInv, CallShaped
  <2>3. QED BY <1>1, <2>1, <2>2
<1>5. TypeOKAccess' BY <1>1, <1>3, <1>4, AccessTyped DEF Abandon, BoundsOK
<1>6. CallFits(c) BY <1>3 DEF CallFits, NoCall, Undealt
<1>7. RowsFit BY RowsUnchanged DEF Abandon
<1>8. VaultFits(c) BY DEF VaultFits, InUse, Abandon
<1>9. QED BY <1>3, <1>5, <1>6, <1>7, <1>8, StepFits

(* A call that has nothing left to deal with returns.                      *)
LEMMA ReturnKeeps ==
  ASSUME AccessInv, NEW c \in Callers, access[c].pc \in {"login", "account", "completed", "deleted"},
         Call(c, NoCall), UNCHANGED <<row, vault, issued, login, left>>, BoundsOK
  PROVE  AccessInv'
<1>1. Undealt(c) = {} BY DEF Undealt
<1>2. Abandon(c) BY <1>1 DEF Abandon
<1>3. QED BY <1>2, AbandonKeeps

LEMMA RollBackKeeps ==
  ASSUME AccessInv, NEW c \in Callers, RollBack(c)
  PROVE  AccessInv'
<1>1. TypeOKAccess /\ BoundsOK BY FaultBounded DEF AccessInv, RollBack
<1>2. CASE access[c].pc = "stored"
  <2>1. /\ access'[c].pc = "undoing" /\ Others(c)
        /\ access'[c].login = access[c].login /\ access'[c].account = access[c].account
        /\ access'[c].secret = access[c].secret /\ access'[c].old = access[c].old
        /\ access' \in [Callers -> CallSet(issued)]
    BY <1>1, <1>2, CallGoes DEF RollBack
  <2>2. TypeOKAccess' BY <1>1, <2>1, AccessTyped DEF RollBack, BoundsOK
  <2>3. Undealt(c)' = {access[c].secret} /\ Undealt(c) = {access[c].secret}
    BY <1>2, <2>1 DEF Undealt
  <2>4. CallFits(c) BY <1>2, <2>1, <2>3 DEF CallFits, AccessInv, CallShaped
  <2>5. RowsFit BY RowsUnchanged DEF RollBack
  <2>6. VaultFits(c) BY <2>3, VaultUnchanged DEF RollBack
  <2>7. QED BY <2>1, <2>2, <2>4, <2>5, <2>6, StepFits
<1>3. CASE access[c].pc # "stored"
  BY <1>1, <1>3, ReturnKeeps DEF RollBack, InTransaction
<1>4. QED BY <1>2, <1>3

LEMMA UndoStoreKeeps ==
  ASSUME AccessInv, NEW c \in Callers, UndoStore(c)
  PROVE  AccessInv'
<1>1. TypeOKAccess /\ BoundsOK /\ issued \in Nat BY KeptBounds, CallFields DEF AccessInv, UndoStore
<1>2. access'[c] = NoCall /\ Others(c) /\ access' \in [Callers -> CallSet(issued)]
  BY <1>1, CallSets, NoCallTyped DEF UndoStore
<1>3. TypeOKAccess' BY <1>1, <1>2, AccessTyped DEF UndoStore, BoundsOK
<1>4. CallFits(c) BY <1>2 DEF CallFits, NoCall, Undealt
<1>5. RowsFit BY RowsUnchanged DEF UndoStore
<1>6. Unshared(c) BY DEF AccessInv, StoredUnshared, UndoStore
<1>7. VaultFits(c) BY <1>6 DEF VaultFits, InUse, UndoStore, Undealt, Unshared
<1>8. QED BY <1>2, <1>3, <1>4, <1>5, <1>7, StepFits

LEMMA DeleteReplacedKeeps ==
  ASSUME AccessInv, NEW c \in Callers, DeleteReplaced(c)
  PROVE  AccessInv'
<1>1. TypeOKAccess /\ BoundsOK BY KeptBounds DEF AccessInv, DeleteReplaced
<1>2. /\ access'[c].pc = "forgetting" /\ Others(c)
      /\ access'[c].login = access[c].login /\ access'[c].secret = access[c].secret
      /\ access'[c].old = access[c].old /\ access' \in [Callers -> CallSet(issued)]
  BY <1>1, CallGoes DEF DeleteReplaced
<1>3. TypeOKAccess' BY <1>1, <1>2, AccessTyped DEF DeleteReplaced, BoundsOK
<1>4. access[c].login \in Logins /\ login[access[c].login].account \in Accounts
  BY DEF AccessInv, CallShaped, DeleteReplaced
<1>5. CallFits(c) BY <1>2, <1>4 DEF CallFits, Undealt
<1>6. RowsFit BY RowsUnchanged DEF DeleteReplaced
<1>7. \A a \in Accounts : row[a].secret # access[c].old
  BY DEF AccessInv, ReplacedRetired, Retired, DeleteReplaced
<1>8. \A d \in Callers \ {c} : access[d].pc = "stored" => access[d].secret # access[c].old
  BY DEF AccessInv, StoredUnshared, Unshared
<1>9. VaultFits(c) BY <1>7, <1>8 DEF VaultFits, InUse, DeleteReplaced, Undealt
<1>10. QED BY <1>2, <1>3, <1>5, <1>6, <1>9, StepFits

LEMMA DeleteMarkedKeeps ==
  ASSUME AccessInv, NEW c \in Callers, DeleteMarked(c)
  PROVE  AccessInv'
<1>1. TypeOKAccess /\ BoundsOK BY KeptBounds DEF AccessInv, DeleteMarked
<1>2. /\ access'[c].pc = "deleted" /\ Others(c)
      /\ access'[c].login = access[c].login /\ access'[c].secret = access[c].secret
      /\ access'[c].old = access[c].old /\ access' \in [Callers -> CallSet(issued)]
  BY <1>1, CallGoes DEF DeleteMarked
<1>3. TypeOKAccess' BY <1>1, <1>2, AccessTyped DEF DeleteMarked, BoundsOK
<1>4. CallFits(c) BY <1>2 DEF CallFits, Undealt
<1>5. RowsFit BY RowsUnchanged DEF DeleteMarked
<1>6. \A a \in Accounts : row[a].status = "ACTIVE" => row[a].secret # access[c].secret
  BY DEF AccessInv, MarkedInactive, DeleteMarked
<1>7. \A d \in Callers \ {c} : access[d].pc = "stored" => access[d].secret # access[c].secret
  BY DEF AccessInv, StoredUnshared, Unshared
<1>8. VaultFits(c) BY <1>6, <1>7 DEF VaultFits, InUse, DeleteMarked, Undealt
<1>9. QED BY <1>2, <1>3, <1>4, <1>5, <1>8, StepFits

LEMMA ForgetReplacedKeeps ==
  ASSUME AccessInv, NEW c \in Callers, ForgetReplaced(c)
  PROVE  AccessInv'
<1>1. TypeOKAccess /\ BoundsOK /\ issued \in Nat BY KeptBounds, CallFields DEF AccessInv, ForgetReplaced
<1>2. /\ access'[c].pc = "completed" /\ Others(c)
      /\ access'[c].secret = access[c].secret
      /\ access'[c].old = access[c].old /\ access' \in [Callers -> CallSet(issued)]
  BY <1>1, CallGoes DEF ForgetReplaced
<1>3. login \in [Logins -> LoginSet(issued)] BY <1>1, AccessTyped
<1>4. PICK l \in Logins : l = access[c].login BY DEF AccessInv, CallShaped, ForgetReplaced
<1>5. /\ login' \in [Logins -> LoginSet(issued)]
      /\ \A k \in Logins : /\ login'[k].replaced \in {0, login[k].replaced}
                           /\ login'[k].status = login[k].status
                           /\ login'[k].account = login[k].account
  BY <1>1, <1>3, <1>4 DEF ForgetReplaced, LoginSet
<1>6. TypeOKAccess' BY <1>1, <1>2, <1>5, AccessTyped DEF ForgetReplaced, BoundsOK
<1>7. CallFits(c) BY <1>2 DEF CallFits, Undealt
<1>8. RowsFit BY <1>5 DEF RowsFit, ForgetReplaced, AccessInv, LoginShaped
<1>9. VaultFits(c)
  <2>1. Undealt(c) = {} BY DEF Undealt, ForgetReplaced
  <2>2. QED BY <2>1, VaultUnchanged DEF ForgetReplaced
<1>10. QED BY <1>2, <1>6, <1>7, <1>8, <1>9, StepFits

LEMMA EnterLoginKeeps ==
  ASSUME AccessInv, NEW c \in Callers, NEW l \in Logins, EnterLogin(c, l), BoundsOK
  PROVE  AccessInv'
<1>1. TypeOKAccess /\ issued \in Nat BY CallFields DEF AccessInv
<1>2. login[l] \in LoginSet(issued) /\ login[l].status # "NONE" /\ login[l].account \in Accounts
      /\ l \in 0..MaxLogins
  <2>1. login[l] \in LoginSet(issued) BY <1>1, AccessTyped
  <2>2. login[l].status # "NONE" BY DEF EnterLogin
  <2>3. login[l].account \in Accounts BY <2>2 DEF AccessInv, LoginShaped
  <2>4. l \in 0..MaxLogins BY SourceAccessAssumption DEF Logins
  <2>5. QED BY <2>1, <2>2, <2>3, <2>4
<1>3. PICK pc : pc = IF login[l].status = "WAITING_CHALLENGE" THEN "login"
                     ELSE IF login[l].replaced # 0 THEN "replacing" ELSE "completed"
  OBVIOUS
<1>4. PICK call : call = [NoCall EXCEPT !.login = l, !.account = login[l].account,
                                        !.old = login[l].replaced, !.pc = pc]
  OBVIOUS
<1>5. Call(c, call) BY <1>3, <1>4 DEF EnterLogin
<1>6. /\ call.pc = pc /\ call.login = l /\ call.account = login[l].account
      /\ call.secret = 0 /\ call.old = login[l].replaced /\ call \in CallSet(issued)
  <2>1. NoCall \in CallSet(issued) BY <1>1, NoCallTyped
  <2>2. login[l].replaced \in 0..issued BY <1>2 DEF LoginSet
  <2>3. pc \in {"login", "replacing", "completed"} BY <1>3
  <2>4. call = [pc |-> pc, login |-> l, account |-> login[l].account, secret |-> 0,
                old |-> login[l].replaced, system |-> FALSE]
    BY <1>4 DEF NoCall
  <2>5. QED BY <1>1, <1>2, <2>2, <2>3, <2>4 DEF CallSet
<1>7. access'[c] = call /\ Others(c) /\ access' \in [Callers -> CallSet(issued)]
  BY <1>1, <1>5, <1>6, CallSets
<1>8. TypeOKAccess' BY <1>1, <1>7, AccessTyped DEF EnterLogin, BoundsOK
<1>9. CallFits(c)
  <2>1. access'[c].old \in {login[k].replaced : k \in Logins} BY <1>6, <1>7
  <2>2. 0 \notin Undealt(c)' BY <1>3, <1>6, <1>7 DEF Undealt
  <2>3. pc = "replacing" => \A a \in Accounts : row[a].secret # login[l].replaced
    BY <1>3 DEF AccessInv, ReplacedRetired, Retired
  <2>4. pc \in {"login", "replacing", "completed"} BY <1>3
  <2>5. QED BY <1>2, <1>6, <1>7, <2>1, <2>2, <2>3, <2>4 DEF CallFits
<1>10. RowsFit BY RowsUnchanged DEF EnterLogin
<1>11. VaultFits(c)
  <2>1. Undealt(c) = {} BY DEF Undealt, EnterLogin
  <2>2. QED BY <2>1, VaultUnchanged DEF EnterLogin
<1>12. QED BY <1>7, <1>8, <1>9, <1>10, <1>11, StepFits

(* The owner revokes or the worker marks: the row is not ACTIVE any more   *)
(* when its secret is deleted.                                             *)
LEMMA InvalidateKeeps ==
  ASSUME AccessInv, NEW c \in Callers, NEW a \in Accounts, NEW status \in {"INVALID", "REVOKED"},
         NEW system \in BOOLEAN, Invalidate(c, a, status, system), BoundsOK
  PROVE  AccessInv'
<1>1. TypeOKAccess /\ issued \in Nat BY CallFields DEF AccessInv
<1>2. row \in [Accounts -> RowSet(issued)] BY <1>1, AccessTyped
<1>3. PICK call : call = [NoCall EXCEPT !.pc = "deleting", !.account = a, !.system = system,
                                        !.secret = row[a].secret]
  OBVIOUS
<1>4. Call(c, call) /\ access[c].pc = "idle" /\ row[a].status # "ABSENT"
      /\ row' = [row EXCEPT ![a].status = status]
  BY <1>3 DEF Invalidate
<1>5. row[a].secret \in 0..issued /\ row[a].secret # 0
  <2>1. row[a].secret \in 0..issued BY <1>2 DEF RowSet
  <2>2. row[a].secret # 0 BY <1>4 DEF AccessInv, RowShaped
  <2>3. QED BY <2>1, <2>2
<1>6. /\ call.pc = "deleting" /\ call.secret = row[a].secret /\ call.old = 0
      /\ call \in CallSet(issued)
  <2>1. call = [pc |-> "deleting", login |-> 0, account |-> a, secret |-> row[a].secret,
                old |-> 0, system |-> system]
    BY <1>3 DEF NoCall
  <2>2. 0 \in 0..MaxLogins BY SourceAccessAssumption
  <2>3. QED BY <1>1, <1>5, <2>1, <2>2 DEF CallSet
<1>7. access'[c] = call /\ Others(c) /\ access' \in [Callers -> CallSet(issued)]
  BY <1>1, <1>4, <1>6, CallSets
<1>8. /\ row' \in [Accounts -> RowSet(issued)]
      /\ row'[a].status = status
      /\ \A b \in Accounts : row'[b].secret = row[b].secret
      /\ \A b \in Accounts \ {a} : row'[b] = row[b]
  BY <1>2, <1>4 DEF RowSet
<1>9. TypeOKAccess' BY <1>1, <1>7, <1>8, AccessTyped DEF Invalidate, BoundsOK
<1>10. Undealt(c)' = {row[a].secret} /\ Undealt(c) = {}
  BY <1>4, <1>6, <1>7 DEF Undealt
<1>11. CallFits(c)
  <2>1. access'[c].secret \in {row[b].secret : b \in Accounts} BY <1>6, <1>7
  <2>2. ASSUME NEW b \in Accounts, row[b].secret = access'[c].secret
        PROVE  row'[b].status # "ACTIVE"
    <3>1. b = a BY <2>2, <1>5, <1>6, <1>7 DEF AccessInv, RowShaped
    <3>2. QED BY <3>1, <1>8
  <2>3. QED BY <1>5, <1>6, <1>7, <1>10, <2>1, <2>2 DEF CallFits
<1>12. RowsFit BY <1>4, <1>8 DEF RowsFit, Invalidate, AccessInv, LoginShaped
<1>13. VaultFits(c)
  <2>1. \A s \in InUse : s \in InUse' \/ s = row[a].secret
    BY <1>8 DEF InUse
  <2>2. QED BY <1>10, <2>1 DEF VaultFits, Invalidate
<1>14. QED BY <1>7, <1>9, <1>11, <1>12, <1>13, StepFits

LEMMA BeginLoginKeeps ==
  ASSUME AccessInv, NEW l \in Logins, NEW a \in Accounts, BeginLogin(l, a),
         UNCHANGED <<row, vault, issued, access, left>>, BoundsOK
  PROVE  AccessInv'
<1>1. TypeOKAccess /\ issued \in Nat BY AccessTyped DEF AccessInv
<1>2. login \in [Logins -> LoginSet(issued)] BY <1>1, AccessTyped
<1>3. /\ login' \in [Logins -> LoginSet(issued)]
      /\ login'[l].replaced = 0 /\ login'[l].account = a
      /\ \A k \in Logins \ {l} : login'[k] = login[k]
  BY <1>1, <1>2 DEF BeginLogin, LoginSet
<1>4. TypeOKAccess' BY <1>1, <1>3, AccessTyped DEF BoundsOK
<1>5. CallShaped' /\ LoginShaped'
  BY <1>3 DEF AccessInv, CallShaped, LoginShaped, InTransaction, Undealt
<1>6. RowShaped' /\ LockedAlone' /\ MarkedInactive' /\ VaultAccounted' /\ ActiveHasSecret'
  BY DEF AccessInv, RowShaped, LockedAlone, LocksAccount, MarkedInactive, VaultAccounted, InUse,
         Undealt, ActiveHasSecret
<1>7. StoredUnshared'
  <2> SUFFICES ASSUME NEW c \in Callers, access[c].pc \in {"stored", "undoing"}
               PROVE  Unshared(c)'
    BY DEF StoredUnshared
  <2>1. Unshared(c) BY DEF AccessInv, StoredUnshared
  <2>2. \A k \in Logins : login'[k].replaced # access[c].secret
    BY <1>3, <2>1 DEF Unshared
  <2>3. QED BY <2>1, <2>2 DEF Unshared
<1>8. ReplacedRetired'
  BY <1>3 DEF AccessInv, ReplacedRetired, Retired
<1>9. QED BY <1>4, <1>5, <1>6, <1>7, <1>8 DEF AccessInv

(* The secret that is stored is new: nothing names it but its call.        *)
LEMMA StoreSecretKeeps ==
  ASSUME AccessInv, NEW c \in Callers, StoreSecret(c)
  PROVE  AccessInv'
<1>1. /\ TypeOKAccess /\ BoundsOK /\ access[c].pc = "account"
      /\ UNCHANGED <<row, login, left, faults, asked>>
  BY KeptBounds DEF AccessInv, StoreSecret
<1>2. /\ row \in [Accounts -> RowSet(issued)] /\ login \in [Logins -> LoginSet(issued)]
      /\ access \in [Callers -> CallSet(issued)]
      /\ issued \in Nat /\ vault \subseteq 1..issued /\ left \subseteq 1..issued
  BY <1>1, AccessTyped
<1>3. PICK n : n = issued + 1 OBVIOUS
<1>4. /\ n \in Nat /\ n \notin 0..issued /\ n # 0 /\ issued' = n /\ vault' = vault \cup {n}
      /\ 0..issued \subseteq 0..n /\ 1..issued \subseteq 1..n /\ n \in 1..n
  BY <1>2, <1>3 DEF StoreSecret
<1>5. PICK call : call = [access[c] EXCEPT !.pc = "stored", !.secret = n] OBVIOUS
<1>6. access' = [access EXCEPT ![c] = call] BY <1>3, <1>5 DEF StoreSecret, Call
<1>7. access'[c] = call /\ Others(c) BY <1>2, <1>6 DEF Others
<1>8. /\ call.pc = "stored" /\ call.secret = n /\ call.login = access[c].login
      /\ call.account = access[c].account /\ call.old = access[c].old
      /\ call \in CallSet(n)
  <2>1. access[c] \in CallSet(issued) BY <1>2
  <2>2. access[c] \in CallSet(n) BY <1>4, <2>1 DEF CallSet
  <2>3. n \in 0..n BY <1>4
  <2>4. QED BY <1>5, <2>2, <2>3 DEF CallSet
<1>9. TypeOKAccess'
  <2>1. RowSet(issued) \subseteq RowSet(n) BY <1>4 DEF RowSet
  <2>2. LoginSet(issued) \subseteq LoginSet(n) BY <1>4 DEF LoginSet
  <2>3. CallSet(issued) \subseteq CallSet(n) BY <1>4 DEF CallSet
  <2>4. row' \in [Accounts -> RowSet(n)] BY <1>1, <1>2, <2>1
  <2>5. login' \in [Logins -> LoginSet(n)] BY <1>1, <1>2, <2>2
  <2>6. access' \in [Callers -> CallSet(n)] BY <1>2, <1>6, <1>8, <2>3
  <2>7. vault' \subseteq 1..n /\ left' \subseteq 1..n BY <1>1, <1>2, <1>4
  <2>8. QED BY <1>1, <1>4, <2>4, <2>5, <2>6, <2>7, AccessTyped DEF BoundsOK
<1>10. /\ \A a \in Accounts : row[a].secret # n
       /\ \A l \in Logins : login[l].replaced # n
       /\ \A d \in Callers : access[d].secret # n /\ access[d].old # n
  <2>1. \A a \in Accounts : row[a].secret \in 0..issued BY <1>2 DEF RowSet
  <2>2. \A l \in Logins : login[l].replaced \in 0..issued BY <1>2 DEF LoginSet
  <2>3. \A d \in Callers : access[d].secret \in 0..issued /\ access[d].old \in 0..issued
    BY <1>1, CallFields
  <2>4. QED BY <1>4, <2>1, <2>2, <2>3
<1>11. Undealt(c) = {} /\ Undealt(c)' = {n} /\ \A d \in Callers \ {c} : Undealt(d)' = Undealt(d)
  BY <1>1, <1>7, <1>8 DEF Undealt, Others
<1>12. CallShaped'
  BY <1>1, <1>4, <1>7, <1>8, <1>11 DEF AccessInv, CallShaped, InTransaction, Others
<1>13. LoginShaped' /\ RowShaped' BY <1>1 DEF AccessInv, LoginShaped, RowShaped
<1>14. LockedAlone'
  <2>1. \A d \in Callers : \A a \in Accounts :
          (LocksAccount(d, a)' <=> LocksAccount(d, a)) /\ access'[d].old = access[d].old
    BY <1>1, <1>7, <1>8 DEF LocksAccount, Others
  <2>2. QED BY <1>1, <2>1 DEF AccessInv, LockedAlone
<1>15. StoredUnshared'
  <2> SUFFICES ASSUME NEW d \in Callers, access'[d].pc \in {"stored", "undoing"}
               PROVE  Unshared(d)'
    BY DEF StoredUnshared
  <2>1. CASE d = c
    <3>1. access'[c].secret = n /\ access'[c].old # n BY <1>7, <1>8, <1>10
    <3>2. \A e \in Callers \ {c} : access'[e].secret # n /\ access'[e].old # n
      BY <1>7, <1>10 DEF Others
    <3>3. QED BY <1>1, <1>4, <1>10, <2>1, <3>1, <3>2 DEF Unshared
  <2>2. CASE d # c
    <3>1. access'[d] = access[d] /\ Unshared(d)
      BY <1>7, <2>2 DEF AccessInv, StoredUnshared, Others
    <3>2. access[d].secret # n BY <1>10
    <3>3. \A e \in Callers \ {d} : access'[e].secret # access[d].secret
                                   /\ access'[e].old # access[d].secret
      BY <1>7, <1>8, <3>1, <3>2 DEF Unshared, Others
    <3>4. /\ access[d].secret # 0 /\ access[d].old # access[d].secret
          /\ access[d].pc = "stored" => access[d].secret \in vault'
          /\ \A a \in Accounts : row'[a].secret # access[d].secret
          /\ \A l \in Logins : login'[l].replaced # access[d].secret
      BY <1>1, <1>4, <3>1 DEF Unshared
    <3>5. QED BY <3>1, <3>3, <3>4 DEF Unshared
  <2>3. QED BY <2>1, <2>2
<1>16. ReplacedRetired' /\ MarkedInactive'
  BY <1>1, <1>7, <1>8 DEF AccessInv, ReplacedRetired, Retired, MarkedInactive, Others
<1>17. VaultAccounted'
  <2>1. InUse' = InUse BY <1>1 DEF InUse
  <2>2. QED BY <1>1, <1>4, <1>11, <2>1 DEF AccessInv, VaultAccounted
<1>18. ActiveHasSecret' BY <1>1, <1>4 DEF AccessInv, ActiveHasSecret
<1>19. QED BY <1>9, <1>12, <1>13, <1>14, <1>15, <1>16, <1>17, <1>18 DEF AccessInv

(* The commit puts the new secret into the row; the one it replaces is     *)
(* what the call read under the lock, and nobody names it any more.        *)
LEMMA CommitLoginKeeps ==
  ASSUME AccessInv, NEW c \in Callers, CommitLogin(c)
  PROVE  AccessInv'
<1>1. /\ TypeOKAccess /\ BoundsOK /\ issued \in Nat /\ access[c].pc = "stored"
      /\ UNCHANGED <<vault, issued, left, faults, asked>>
  BY KeptBounds, CallFields DEF AccessInv, CommitLogin
<1>2. /\ row \in [Accounts -> RowSet(issued)] /\ login \in [Logins -> LoginSet(issued)]
  BY <1>1, AccessTyped
<1>3. PICK a \in Accounts : a = access[c].account
  BY <1>1 DEF AccessInv, CallShaped, InTransaction
<1>4. PICK l \in Logins : l = access[c].login BY <1>1 DEF AccessInv, CallShaped
<1>5. PICK s \in 0..issued : s = access[c].secret BY <1>1, CallFields
<1>6. PICK old \in 0..issued : old = access[c].old BY <1>1, CallFields
<1>7. /\ row' = [row EXCEPT ![a] = [status |-> "ACTIVE", secret |-> s]]
      /\ login' = [login EXCEPT ![l].status = "COMPLETED", ![l].replaced = old]
      /\ GoTo(c, IF old = 0 THEN "completed" ELSE "replacing")
  BY <1>3, <1>4, <1>5, <1>6 DEF CommitLogin
<1>8. PICK pc \in {"completed", "replacing"} : pc = IF old = 0 THEN "completed" ELSE "replacing"
  OBVIOUS
<1>9. /\ access'[c].pc = pc /\ Others(c) /\ access'[c].login = l
      /\ access'[c].secret = s /\ access'[c].old = old
      /\ access' \in [Callers -> CallSet(issued)]
  BY <1>1, <1>4, <1>5, <1>6, <1>7, <1>8, CallGoes
<1>10. /\ row' \in [Accounts -> RowSet(issued)]
       /\ row'[a].secret = s /\ row'[a].status = "ACTIVE"
       /\ \A b \in Accounts \ {a} : row'[b] = row[b]
  BY <1>2, <1>5, <1>7 DEF RowSet
<1>11. /\ login' \in [Logins -> LoginSet(issued)]
       /\ login'[l].replaced = old /\ login'[l].account = login[l].account
       /\ \A k \in Logins \ {l} : login'[k] = login[k]
  BY <1>2, <1>6, <1>7 DEF LoginSet
<1>12. TypeOKAccess' BY <1>1, <1>9, <1>10, <1>11, AccessTyped DEF BoundsOK
<1>13. old = row[a].secret
  BY <1>1, <1>3, <1>6 DEF AccessInv, LockedAlone, LocksAccount
<1>14. /\ s # 0 /\ old # s /\ s \in vault
       /\ \A b \in Accounts : row[b].secret # s
       /\ \A k \in Logins : login[k].replaced # s
       /\ \A d \in Callers \ {c} : access[d].secret # s /\ access[d].old # s
  <2>1. Unshared(c) BY <1>1 DEF AccessInv, StoredUnshared
  <2>2. QED BY <1>1, <1>5, <1>6, <2>1 DEF Unshared
<1>15. /\ Undealt(c)' = IF old = 0 THEN {} ELSE {old}
       /\ \A d \in Callers \ {c} : Undealt(d)' = Undealt(d)
       /\ Undealt(c) = {s}
  BY <1>1, <1>5, <1>8, <1>9 DEF Undealt, Others
<1>16. CallShaped'
  <2>1. \A k \in Logins : login'[k].account = login[k].account BY <1>11
  <2>2. l \in Logins /\ login[l].account \in Accounts
    BY <1>1, <1>4 DEF AccessInv, CallShaped
  <2>3. 0 \notin Undealt(c)' BY <1>15
  <2>4. \A d \in Callers \ {c} :
          /\ access'[d].pc \in {"login", "account", "stored", "replacing", "forgetting"} =>
               access'[d].login \in Logins /\ login'[access'[d].login].account \in Accounts
          /\ InTransaction(d)' => access'[d].account \in Accounts
          /\ 0 \notin Undealt(d)'
    BY <1>9, <1>15, <2>1 DEF AccessInv, CallShaped, InTransaction, Others
  <2>5. ~InTransaction(c)' BY <1>8, <1>9 DEF InTransaction
  <2>6. QED BY <1>9, <2>1, <2>2, <2>3, <2>4, <2>5 DEF CallShaped
<1>17. LoginShaped'
  <2>1. login[l].account \in Accounts BY <1>1, <1>4 DEF AccessInv, CallShaped
  <2>2. QED BY <1>11, <2>1 DEF AccessInv, LoginShaped
<1>18. RowShaped'
  <2>1. \A b \in Accounts : row'[b].secret = 0 <=> row'[b].status = "ABSENT"
    BY <1>10, <1>14 DEF AccessInv, RowShaped
  <2>2. \A b, d \in Accounts : row'[b].secret = row'[d].secret /\ row'[b].secret # 0 => b = d
    BY <1>10, <1>14 DEF AccessInv, RowShaped
  <2>3. QED BY <2>1, <2>2 DEF RowShaped
<1>19. LockedAlone'
  <2>1. \A b \in Accounts : LocksAccount(c, a) /\ ~LocksAccount(c, b)'
    BY <1>1, <1>3, <1>8, <1>9 DEF LocksAccount
  <2>2. \A d \in Callers \ {c} : ~LocksAccount(d, a) /\ access'[d] = access[d]
    BY <1>9, <2>1 DEF AccessInv, LockedAlone, Others
  <2>3. \A d \in Callers \ {c} : \A b \in Accounts :
          LocksAccount(d, b)' => b # a /\ LocksAccount(d, b)
    BY <2>2 DEF LocksAccount
  <2>4. \A d, e \in Callers : \A b \in Accounts : LocksAccount(d, b)' /\ LocksAccount(e, b)' => d = e
    BY <2>1, <2>3 DEF AccessInv, LockedAlone
  <2>5. \A d \in Callers : \A b \in Accounts : LocksAccount(d, b)' => access'[d].old = row'[b].secret
    BY <1>10, <2>1, <2>2, <2>3 DEF AccessInv, LockedAlone
  <2>6. QED BY <2>4, <2>5 DEF LockedAlone
<1>20. StoredUnshared'
  <2> SUFFICES ASSUME NEW d \in Callers, access'[d].pc \in {"stored", "undoing"}
               PROVE  Unshared(d)'
    BY DEF StoredUnshared
  <2>1. d # c /\ access'[d] = access[d] BY <1>8, <1>9 DEF Others
  <2>2. Unshared(d) BY <2>1 DEF AccessInv, StoredUnshared
  <2>3. PICK t : t = access[d].secret OBVIOUS
  <2>4. t # s /\ t # old BY <1>5, <1>6, <2>1, <2>2, <2>3 DEF Unshared
  <2>5. \A b \in Accounts : row'[b].secret # t
    BY <1>10, <2>2, <2>3, <2>4 DEF Unshared
  <2>6. \A k \in Logins : login'[k].replaced # t
    BY <1>11, <2>2, <2>3, <2>4 DEF Unshared
  <2>7. \A e \in Callers \ {d} : access'[e].secret # t /\ access'[e].old # t
    BY <1>9, <2>2, <2>3, <2>4 DEF Unshared, Others
  <2>8. t # 0 /\ access'[d].old # t /\ (access'[d].pc = "stored" => t \in vault')
    BY <1>1, <2>1, <2>2, <2>3 DEF Unshared
  <2>9. access'[d].secret = t BY <2>1, <2>3
  <2>10. QED BY <2>5, <2>6, <2>7, <2>8, <2>9 DEF Unshared
<1>21. old # 0 => \A b \in Accounts : row'[b].secret # old
  BY <1>10, <1>13, <1>14 DEF AccessInv, RowShaped
<1>22. ReplacedRetired'
  <2>1. \A k \in Logins : login'[k].replaced # 0 => \A b \in Accounts : row'[b].secret # login'[k].replaced
    <3> SUFFICES ASSUME NEW k \in Logins, login'[k].replaced # 0, NEW b \in Accounts
                 PROVE  row'[b].secret # login'[k].replaced
      OBVIOUS
    <3>1. CASE k = l BY <3>1, <1>11, <1>21
    <3>2. CASE k # l
      <4>1. login'[k] = login[k] /\ login[k].replaced # s BY <3>2, <1>11, <1>14
      <4>2. row[b].secret # login[k].replaced
        BY <4>1 DEF AccessInv, ReplacedRetired, Retired
      <4>3. row'[b].secret \in {s, row[b].secret} BY <1>10
      <4>4. QED BY <4>1, <4>2, <4>3
    <3>3. QED BY <3>1, <3>2
  <2>2. ASSUME NEW d \in Callers, access'[d].pc = "replacing", NEW b \in Accounts
        PROVE  row'[b].secret # access'[d].old
    <3>1. CASE d = c BY <3>1, <2>2, <1>8, <1>9, <1>21
    <3>2. CASE d # c
      <4>1. access'[d] = access[d] /\ access[d].old # s BY <3>2, <1>9, <1>14 DEF Others
      <4>2. row[b].secret # access[d].old
        BY <2>2, <4>1 DEF AccessInv, ReplacedRetired, Retired
      <4>3. row'[b].secret \in {s, row[b].secret} BY <1>10
      <4>4. QED BY <4>1, <4>2, <4>3
    <3>3. QED BY <3>1, <3>2
  <2>3. QED BY <2>1, <2>2 DEF ReplacedRetired, Retired
<1>23. MarkedInactive'
  <2> SUFFICES ASSUME NEW d \in Callers, access'[d].pc = "deleting", NEW b \in Accounts,
                      row'[b].secret = access'[d].secret
               PROVE  row'[b].status # "ACTIVE"
    BY DEF MarkedInactive
  <2>1. d # c /\ access'[d] = access[d] /\ access[d].secret # s BY <1>8, <1>9, <1>14 DEF Others
  <2>2. b # a BY <1>10, <2>1
  <2>3. row'[b] = row[b] BY <1>10, <2>2
  <2>4. QED BY <2>1, <2>3 DEF AccessInv, MarkedInactive
<1>24. VaultAccounted'
  <2>1. InUse \subseteq InUse' \cup {old} BY <1>10, <1>13 DEF InUse
  <2>2. s \in InUse' BY <1>10 DEF InUse
  <2>3. 0 \notin vault BY <1>1 DEF TypeOKAccess
  <2>4. \A t \in vault : t = old => t \in Undealt(c)' BY <1>15, <2>3
  <2>5. ASSUME NEW t \in vault
        PROVE  t \in left \/ t \in InUse' \/ \E d \in Callers : t \in Undealt(d)'
    <3>1. t \in left \/ t \in InUse \/ \E d \in Callers : t \in Undealt(d)
      BY DEF AccessInv, VaultAccounted
    <3>2. \A d \in Callers : t \in Undealt(d) => t = s \/ t \in Undealt(d)' BY <1>15
    <3>3. t \in InUse => t \in InUse' \/ t \in Undealt(c)' BY <2>1, <2>4
    <3>4. QED BY <2>2, <3>1, <3>2, <3>3
  <2>6. QED BY <1>1, <2>5 DEF VaultAccounted
<1>25. ActiveHasSecret' BY <1>1, <1>10, <1>14 DEF AccessInv, ActiveHasSecret
<1>26. QED
  BY <1>12, <1>16, <1>17, <1>18, <1>19, <1>20, <1>22, <1>23, <1>24, <1>25 DEF AccessInv

(* A step that touches no call, row, login or secret.                      *)
LEMMA UntouchedKeeps ==
  ASSUME AccessInv, UNCHANGED <<row, vault, issued, login, access, left>>, BoundsOK
  PROVE  AccessInv'
<1>1. TypeOKAccess' BY DEF AccessInv, TypeOKAccess, BoundsOK
<1>2. CallShaped' /\ LoginShaped' /\ RowShaped' /\ LockedAlone' /\ MarkedInactive'
  BY DEF AccessInv, CallShaped, LoginShaped, RowShaped, LockedAlone, MarkedInactive,
         InTransaction, LocksAccount, Undealt
<1>3. StoredUnshared' /\ ReplacedRetired' /\ VaultAccounted' /\ ActiveHasSecret'
  BY DEF AccessInv, StoredUnshared, Unshared, ReplacedRetired, Retired, VaultAccounted, InUse,
         Undealt, ActiveHasSecret
<1>4. QED BY <1>1, <1>2, <1>3 DEF AccessInv

LEMMA AccessStepKeeps ==
  ASSUME AccessInv, NEW c \in Callers, AccessStep(c)
  PROVE  AccessInv'
BY LockAccountKeeps, StoreSecretKeeps, CommitLoginKeeps, UndoStoreKeeps, DeleteReplacedKeeps,
   ForgetReplacedKeeps, DeleteMarkedKeeps DEF AccessStep

-----------------------------------------------------------------------------
(* Logins and secrets under the steps of workers and users.                *)
LEMMA WorkAccess ==
  ASSUME AccessInv, WorkerShaped, NEW w \in Workers, Work(w)
  PROVE  AccessInv'
<1>1. TypeOKAccess /\ w \in Callers BY SourceResearchAssumption DEF AccessInv
<1>2. wk[w].pc # "idle" => AccountOf[wk[w].job] \in Accounts
  BY SourceResearchAssumption DEF WorkerShaped
<1>3. CASE UNCHANGED accessVars
  BY <1>1, <1>3, KeptBounds, UntouchedKeeps DEF accessVars
<1>4. CASE MarkInvalid(w)
  <2>1. UNCHANGED <<faults, asked>> BY <1>4 DEF MarkInvalid
  <2>2. BoundsOK BY <1>1, <2>1, KeptBounds
  <2>3. PICK a \in Accounts : Invalidate(w, a, "INVALID", TRUE) BY <1>2, <1>4 DEF MarkInvalid
  <2>4. QED BY <1>1, <2>2, <2>3, InvalidateKeeps
<1>5. CASE Marked(w)
  BY <1>1, <1>5, KeptBounds, ReturnKeeps DEF Marked
<1>6. CASE \E l \in Logins : BeginChallenge(w, l)
  <2>1. PICK l \in Logins : BeginChallenge(w, l) BY <1>6
  <2>2. PICK a \in Accounts : BeginLogin(l, a) BY <1>2, <2>1 DEF BeginChallenge
  <2>3. /\ UNCHANGED <<row, vault, issued, access, left>>
        /\ UNCHANGED <<faults, asked>>
    BY <2>1 DEF BeginChallenge
  <2>4. BoundsOK BY <1>1, <2>3, KeptBounds
  <2>5. QED BY <2>2, <2>3, <2>4, BeginLoginKeeps
<1>7. CASE RefusedDelete(w)
  BY <1>1, <1>7, KeptBounds, AbandonKeeps DEF RefusedDelete
<1>8. ClaimNext(w) \/ ReadStatus(w) \/ OpenCredential(w) \/ LoadSecret(w) \/ Heartbeat(w) =>
        UNCHANGED accessVars
  BY DEF ClaimNext, ReadStatus, OpenCredential, LoadSecret, Heartbeat
<1>9. SaveCheckpoint(w) \/ (\E o \in Outcomes : AdapterReturns(w, o)) \/ AskResult(w) \/ Complete(w) =>
        UNCHANGED accessVars
  BY DEF SaveCheckpoint, AdapterReturns, AskResult, Complete
<1>10. QED BY <1>3, <1>4, <1>5, <1>6, <1>7, <1>8, <1>9 DEF Work

LEMMA NextAccess ==
  ASSUME AccessInv, WorkerShaped, [Next]_vars
  PROVE  AccessInv'
<1>1. TypeOKAccess /\ Workers \subseteq Callers /\ Users \subseteq Callers
  BY SourceResearchAssumption DEF AccessInv
<1>2. CASE UNCHANGED accessVars
  BY <1>1, <1>2, KeptBounds, UntouchedKeeps DEF accessVars
<1>3. ASSUME NEW w \in Workers, AuthRequired(w) PROVE AccessInv'
  BY <1>1, <1>3, FaultBounded, UntouchedKeeps DEF AuthRequired
<1>4. ASSUME NEW w \in Workers, WorkerEnds(w) PROVE AccessInv'
  BY <1>1, <1>4, FaultBounded, AbandonKeeps DEF WorkerEnds
<1>5. ASSUME NEW c \in Callers, InFlight(c) PROVE AccessInv'
  BY <1>5, AccessStepKeeps DEF InFlight
<1>6. ASSUME NEW u \in Users, Request(u) PROVE AccessInv'
  <2>1. ASSUME NEW a \in Accounts, UserRevokes(u, a) PROVE AccessInv'
    <3>1. BoundsOK BY <1>1, <2>1, AskBounded DEF UserRevokes
    <3>2. Invalidate(u, a, "REVOKED", FALSE) BY <2>1 DEF UserRevokes
    <3>3. QED BY <1>1, <3>1, <3>2, InvalidateKeeps
  <2>2. RollBack(u) => AccessInv' BY <1>1, RollBackKeeps
  <2>3. CallerEnds(u) => AccessInv' BY <1>1, FaultBounded, AbandonKeeps DEF CallerEnds
  <2>4. QED BY <1>6, <2>1, <2>2, <2>3 DEF Request
<1>7. ASSUME NEW u \in Users, Responds(u) PROVE AccessInv'
  BY <1>1, <1>7, KeptBounds, ReturnKeeps DEF Responds
<1>8. ASSUME NEW u \in Users, ResumeSource(u) PROVE AccessInv'
  BY <1>1, <1>8, KeptBounds, ReturnKeeps DEF ResumeSource
<1>9. ASSUME NEW l \in Logins, NEW a \in Accounts, AskLogin(l, a) PROVE AccessInv'
  <2>1. BoundsOK BY <1>1, <1>9, AskBounded DEF AskLogin, UserBegins
  <2>2. BeginLogin(l, a) /\ UNCHANGED <<row, vault, issued, access, left>>
    BY <1>9 DEF AskLogin, UserBegins
  <2>3. QED BY <2>1, <2>2, BeginLoginKeeps
<1>10. ASSUME NEW l \in Logins, NEW u \in Users, Answer(u, l) PROVE AccessInv'
  <2>1. Ask \/ UNCHANGED <<faults, asked>> BY <1>10 DEF Answer
  <2>2. BoundsOK BY <1>1, <2>1, AskBounded, KeptBounds
  <2>3. EnterLogin(u, l) BY <1>10 DEF Answer
  <2>4. QED BY <1>1, <2>2, <2>3, EnterLoginKeeps
<1>11. (\E b \in Batches : CreateBatch(b)) \/ (\E j \in Jobs : Expire(j) \/ BackOffEnds(j)) =>
         UNCHANGED accessVars
  BY DEF CreateBatch, Expire, BackOffEnds
<1>12. CASE Next
  BY <1>12, <1>2, <1>3, <1>4, <1>5, <1>6, <1>7, <1>8, <1>9, <1>10, <1>11, WorkAccess DEF Next
<1>13. CASE UNCHANGED vars BY <1>13, <1>2 DEF vars
<1>14. QED BY <1>12, <1>13

-----------------------------------------------------------------------------
(* Jobs and workers.                                                       *)
JobSet ==
  [state : Terminal \cup {"NONE", "QUEUED", "RUNNING", "WAITING_SOURCE_LOGIN", "FAILED_RETRYABLE"},
   worker : Workers \cup {None}, lease : {"NONE", "LIVE", "EXPIRED"},
   attempts : Nat, due : BOOLEAN, checkpoint : 0..MaxCheckpoint, cost : Nat, login : 0..MaxLogins]

WorkerSet(n) ==
  [pc : {"idle", "claimed", "opening", "loading", "running", "marking",
         "challenge", "completing", "locking"},
   job : Jobs \cup {None}, at : 0..MaxCheckpoint, secret : 0..n,
   lost : BOOLEAN, beating : BOOLEAN, login : 0..MaxLogins,
   outcome : Outcomes \cup {"NONE", "WAITING_CHALLENGE"}]

Typed == /\ jobs \in [Jobs -> JobSet] /\ results \in [Jobs -> Nat] /\ shown \subseteq Logins
         /\ wk \in [Workers -> WorkerSet(issued)] /\ issued \in Nat

LEMMA ResearchTyped ==
  /\ TypeOK <=> TypeOKAccess /\ Typed
  /\ TypeOK' <=> TypeOKAccess' /\ Typed'
BY DEF TypeOK, TypeOKAccess, Typed, JobSet, WorkerSet

LEMMA IdleTyped ==
  ASSUME NEW n \in Nat
  PROVE  Idle \in WorkerSet(n)
BY SourceAccessAssumption, SourceResearchAssumption DEF Idle, WorkerSet

(* What a step makes of a job: it only goes forward, it has a result when  *)
(* it becomes COMPLETED, and whoever holds it knows its progress.          *)
JobFits(j) ==
  /\ jobs'[j].checkpoint >= jobs[j].checkpoint
  /\ jobs'[j].state = "RUNNING" =>
       \/ /\ jobs[j].state = "RUNNING" /\ jobs'[j].worker = jobs[j].worker
          /\ jobs'[j].checkpoint = jobs[j].checkpoint
       \/ \A w \in Workers :
            jobs'[j].worker = w /\ wk'[w].job = j => wk'[w].at = jobs'[j].checkpoint
  /\ jobs[j].state \in Terminal => jobs'[j].state = jobs[j].state
  /\ \/ /\ results'[j] = results[j] /\ jobs'[j].cost = jobs[j].cost
        /\ \/ jobs'[j].state = jobs[j].state
           \/ {jobs'[j].state, jobs[j].state} \cap {"COMPLETED", "NO_RESULT"} = {}
     \/ /\ results'[j] = IF jobs'[j].state = "COMPLETED" THEN 1 ELSE 0
        /\ jobs'[j].cost > 0 => jobs'[j].state \in {"COMPLETED", "NO_RESULT"}

(* What it makes of a worker: idle, on the same job, or on one whose       *)
(* progress it has read; and it waits for the mark that it makes.          *)
WorkerFits(w) ==
  /\ wk'[w].pc \in {"completing", "locking"} => wk'[w].outcome # "NONE"
  /\ \/ wk'[w].pc = "idle"
     \/ wk[w].pc # "idle" /\ wk'[w].job = wk[w].job /\ wk'[w].at = wk[w].at
     \/ wk'[w].job \in Jobs /\ wk'[w].at = jobs'[wk'[w].job].checkpoint
  /\ wk[w].pc = "marking" => wk'[w].pc = "marking" \/ access'[w].pc = "idle"

(* What a step makes of the calls of the workers.                          *)
CallsFit ==
  \A w \in Workers :
    \/ access'[w].pc = "idle"
    \/ /\ access'[w].pc \in {"deleting", "deleted"}
       /\ access[w].pc # "idle" \/ wk[w].pc = "marking"

ResearchStep ==
  /\ jobs' \in [Jobs -> JobSet] /\ results' \in [Jobs -> Nat] /\ shown' \subseteq Logins
  /\ wk' \in [Workers -> WorkerSet(issued)]
  /\ \A j \in Jobs : JobFits(j)
  /\ \A w \in Workers : WorkerFits(w)

ResearchInv == Typed /\ WorkerShaped /\ WorkerCalls /\ AtCheckpoint /\ ResultOnce

LEMMA ResearchFits ==
  ASSUME ResearchInv, ResearchStep, CallsFit, issued' \in {issued, issued + 1}
  PROVE  ResearchInv'
<1>1. Typed'
  <2>1. issued \in Nat BY DEF ResearchInv, Typed
  <2>2. issued' \in Nat /\ 0..issued \subseteq 0..issued' BY <2>1
  <2>3. WorkerSet(issued) \subseteq WorkerSet(issued') BY <2>2 DEF WorkerSet
  <2>4. wk' \in [Workers -> WorkerSet(issued')] BY <2>3 DEF ResearchStep
  <2>5. QED BY <2>2, <2>4 DEF ResearchStep, Typed
<1>2. ASSUME NEW w \in Workers, wk'[w].pc # "idle"
      PROVE  wk'[w].job \in Jobs
  BY <1>2 DEF ResearchStep, WorkerFits, ResearchInv, WorkerShaped
<1>3. WorkerShaped'
  BY <1>2 DEF WorkerShaped, ResearchStep, WorkerFits
<1>4. AtCheckpoint'
  <2> SUFFICES ASSUME NEW w \in Workers, wk'[w].pc # "idle", jobs'[wk'[w].job].state = "RUNNING",
                      jobs'[wk'[w].job].worker = w
               PROVE  wk'[w].at = jobs'[wk'[w].job].checkpoint
    BY DEF AtCheckpoint
  <2>1. PICK j \in Jobs : j = wk'[w].job BY <1>2
  <2>2. JobFits(j) /\ WorkerFits(w) BY DEF ResearchStep
  <2>3. CASE wk[w].pc # "idle" /\ wk'[w].job = wk[w].job /\ wk'[w].at = wk[w].at
    <3>1. CASE jobs[j].state = "RUNNING" /\ jobs'[j].worker = jobs[j].worker
               /\ jobs'[j].checkpoint = jobs[j].checkpoint
      BY <2>1, <2>3, <3>1 DEF ResearchInv, AtCheckpoint
    <3>2. CASE \A d \in Workers :
                 jobs'[j].worker = d /\ wk'[d].job = j => wk'[d].at = jobs'[j].checkpoint
      BY <2>1, <3>2
    <3>3. QED BY <2>1, <2>2, <3>1, <3>2 DEF JobFits
  <2>4. QED BY <2>2, <2>3 DEF WorkerFits
<1>5. ResultOnce'
  <2> SUFFICES ASSUME NEW j \in Jobs
               PROVE  /\ results'[j] = IF jobs'[j].state = "COMPLETED" THEN 1 ELSE 0
                      /\ jobs'[j].cost > 0 => jobs'[j].state \in {"COMPLETED", "NO_RESULT"}
    BY DEF ResultOnce
  <2>1. JobFits(j) BY DEF ResearchStep
  <2>2. /\ results[j] = IF jobs[j].state = "COMPLETED" THEN 1 ELSE 0
        /\ jobs[j].cost > 0 => jobs[j].state \in {"COMPLETED", "NO_RESULT"}
    BY DEF ResearchInv, ResultOnce
  <2>3. QED BY <2>1, <2>2 DEF JobFits
<1>6. WorkerCalls'
  <2> SUFFICES ASSUME NEW w \in Workers, access'[w].pc # "idle"
               PROVE  access'[w].pc \in {"deleting", "deleted"} /\ wk'[w].pc = "marking"
    BY DEF WorkerCalls
  <2>1. access'[w].pc \in {"deleting", "deleted"} /\ (access[w].pc # "idle" \/ wk[w].pc = "marking")
    BY DEF CallsFit
  <2>2. wk[w].pc = "marking" BY <2>1 DEF ResearchInv, WorkerCalls
  <2>3. QED BY <2>1, <2>2 DEF ResearchStep, WorkerFits
<1>7. QED BY <1>1, <1>3, <1>4, <1>5, <1>6 DEF ResearchInv

(* A job or a worker that a step leaves alone.                             *)
LEMMA SameJob ==
  ASSUME ResearchInv, NEW j \in Jobs, jobs'[j] = jobs[j], results'[j] = results[j]
  PROVE  JobFits(j)
<1>1. jobs[j].checkpoint \in 0..MaxCheckpoint
  <2>1. jobs[j] \in JobSet BY DEF ResearchInv, Typed
  <2>2. QED BY <2>1 DEF JobSet
<1>2. MaxCheckpoint \in Nat BY SourceResearchAssumption
<1>3. QED BY <1>1, <1>2 DEF JobFits

LEMMA SameWorker ==
  ASSUME ResearchInv, NEW w \in Workers, wk'[w] = wk[w]
  PROVE  WorkerFits(w)
BY DEF WorkerFits, ResearchInv, WorkerShaped

(* A step of one worker that touches no job.                               *)
LEMMA WorkerMoves ==
  ASSUME ResearchInv, NEW w \in Workers, NEW x \in WorkerSet(issued),
         wk' = [wk EXCEPT ![w] = x], UNCHANGED <<jobs, results, shown>>,
         x.pc = "idle" \/ (wk[w].pc # "idle" /\ x.job = wk[w].job /\ x.at = wk[w].at),
         x.pc \in {"completing", "locking"} => x.outcome # "NONE",
         wk[w].pc = "marking" => x.pc = "marking" \/ access'[w].pc = "idle"
  PROVE  ResearchStep
<1>1. wk \in [Workers -> WorkerSet(issued)] BY DEF ResearchInv, Typed
<1>2. /\ wk' \in [Workers -> WorkerSet(issued)] /\ wk'[w] = x
      /\ \A d \in Workers \ {w} : wk'[d] = wk[d]
  BY <1>1
<1>3. \A j \in Jobs : JobFits(j) BY SameJob
<1>4. \A d \in Workers : WorkerFits(d)
  <2>1. WorkerFits(w) BY <1>2 DEF WorkerFits
  <2>2. \A d \in Workers \ {w} : WorkerFits(d) BY <1>2, SameWorker
  <2>3. QED BY <2>1, <2>2
<1>5. QED BY <1>2, <1>3, <1>4 DEF ResearchStep, ResearchInv, Typed

LEMMA WorkerReturns ==
  ASSUME ResearchInv, NEW w \in Workers, Return(w), UNCHANGED <<jobs, results, shown>>,
         wk[w].pc = "marking" => access'[w].pc = "idle"
  PROVE  ResearchStep
<1>1. Idle \in WorkerSet(issued) BY IdleTyped DEF ResearchInv, Typed
<1>2. wk' = [wk EXCEPT ![w] = Idle] BY DEF Return
<1>3. Idle.pc = "idle" BY DEF Idle
<1>4. QED BY <1>1, <1>2, <1>3, WorkerMoves

LEMMA WorkerGoes ==
  ASSUME ResearchInv, NEW w \in Workers, wk[w].pc # "idle",
         NEW pc \in {"running", "marking", "challenge", "locking"}, Go(w, pc),
         pc = "locking" => wk[w].pc = "completing", UNCHANGED <<jobs, results, shown>>,
         wk[w].pc = "marking" => access'[w].pc = "idle"
  PROVE  ResearchStep
<1>1. wk \in [Workers -> WorkerSet(issued)] BY DEF ResearchInv, Typed
<1>2. PICK x : x = [wk[w] EXCEPT !.pc = pc] OBVIOUS
<1>3. wk' = [wk EXCEPT ![w] = x] BY <1>1, <1>2 DEF Go
<1>4. wk[w] \in WorkerSet(issued) BY <1>1
<1>5. /\ x \in WorkerSet(issued) /\ x.pc = pc /\ x.job = wk[w].job /\ x.at = wk[w].at
      /\ x.outcome = wk[w].outcome
  BY <1>2, <1>4 DEF WorkerSet
<1>6. x.pc \in {"completing", "locking"} => x.outcome # "NONE"
  BY <1>5 DEF ResearchInv, WorkerShaped
<1>7. QED BY <1>3, <1>5, <1>6, WorkerMoves

(* The end of an adapter's run.                                            *)
LEMMA WorkerFinishes ==
  ASSUME ResearchInv, NEW w \in Workers, wk[w].pc = "running", NEW o \in Outcomes, Finish(w, o),
         UNCHANGED <<jobs, results, shown>>
  PROVE  ResearchStep
<1>1. wk \in [Workers -> WorkerSet(issued)] BY DEF ResearchInv, Typed
<1>2. wk[w] \in WorkerSet(issued) BY <1>1
<1>3. CASE wk[w].lost
  <2>1. Return(w) BY <1>3 DEF Finish, Return
  <2>2. QED BY <2>1, WorkerReturns
<1>4. CASE ~wk[w].lost
  <2>1. PICK x : x = [wk[w] EXCEPT !.pc = "completing", !.outcome = o, !.beating = FALSE]
    OBVIOUS
  <2>2. wk' = [wk EXCEPT ![w] = x] BY <1>1, <1>4, <2>1 DEF Finish
  <2>3. /\ x \in WorkerSet(issued) /\ x.pc = "completing" /\ x.job = wk[w].job
        /\ x.at = wk[w].at /\ x.outcome = o
    BY <1>2, <2>1 DEF WorkerSet, Outcomes
  <2>4. o # "NONE" BY DEF Outcomes
  <2>5. QED BY <2>2, <2>3, <2>4, WorkerMoves
<1>5. QED BY <1>3, <1>4

-----------------------------------------------------------------------------
(* The steps of jobs and workers.                                          *)
LEMMA NothingMoves ==
  ASSUME ResearchInv, UNCHANGED <<jobs, results, wk>>, shown' \subseteq Logins
  PROVE  ResearchStep
<1>1. \A j \in Jobs : JobFits(j) BY SameJob
<1>2. \A w \in Workers : WorkerFits(w) BY SameWorker
<1>3. QED BY <1>1, <1>2 DEF ResearchStep, ResearchInv, Typed

(* A step of jobs that touches no worker and no result: it changes their   *)
(* state, lease or back-off, and none becomes RUNNING.                     *)
LEMMA JobsMove ==
  ASSUME ResearchInv, UNCHANGED <<results, shown, wk>>, jobs' \in [Jobs -> JobSet],
         \A j \in Jobs : jobs'[j] = jobs[j] \/
           /\ jobs'[j].checkpoint = jobs[j].checkpoint /\ jobs'[j].cost = jobs[j].cost
           /\ jobs'[j].worker = jobs[j].worker
           /\ \/ jobs'[j].state = jobs[j].state
              \/ jobs[j].state \in {"NONE", "WAITING_SOURCE_LOGIN"} /\ jobs'[j].state = "QUEUED"
  PROVE  ResearchStep
<1>1. ASSUME NEW j \in Jobs PROVE JobFits(j)
  <2>1. CASE jobs'[j] = jobs[j] BY <2>1, SameJob
  <2>2. CASE jobs'[j] # jobs[j]
    <3>1. jobs[j] \in JobSet BY DEF ResearchInv, Typed
    <3>2. jobs[j].checkpoint \in 0..MaxCheckpoint /\ MaxCheckpoint \in Nat
      BY <3>1, SourceResearchAssumption DEF JobSet
    <3>3. QED BY <2>2, <3>2 DEF JobFits, Terminal
  <2>3. QED BY <2>1, <2>2
<1>2. \A w \in Workers : WorkerFits(w) BY SameWorker
<1>3. QED BY <1>1, <1>2 DEF ResearchStep, ResearchInv, Typed

LEMMA CreateBatchKeeps ==
  ASSUME ResearchInv, NEW b, CreateBatch(b)
  PROVE  ResearchStep
<1>1. jobs \in [Jobs -> JobSet] BY DEF ResearchInv, Typed
<1>2. ASSUME NEW j \in Jobs
      PROVE  /\ jobs'[j] \in JobSet
             /\ jobs'[j] = jobs[j] \/
                  /\ jobs'[j].checkpoint = jobs[j].checkpoint /\ jobs'[j].cost = jobs[j].cost
                  /\ jobs'[j].worker = jobs[j].worker /\ jobs[j].state = "NONE"
                  /\ jobs'[j].state = "QUEUED"
  <2>1. jobs[j] \in JobSet BY <1>1
  <2>2. CASE BatchOf[j] = b
    <3>1. jobs'[j] = [jobs[j] EXCEPT !.state = "QUEUED"] BY <2>2 DEF CreateBatch
    <3>2. jobs[j].state = "NONE" BY <2>2 DEF CreateBatch
    <3>3. QED BY <2>1, <3>1, <3>2 DEF JobSet
  <2>3. CASE BatchOf[j] # b BY <2>1, <2>3 DEF CreateBatch
  <2>4. QED BY <2>2, <2>3
<1>3. jobs' \in [Jobs -> JobSet] BY <1>2 DEF CreateBatch
<1>4. QED BY <1>2, <1>3, JobsMove DEF CreateBatch

LEMMA ResumeSourceKeeps ==
  ASSUME ResearchInv, NEW u \in Users, ResumeSource(u)
  PROVE  ResearchStep
<1>1. jobs \in [Jobs -> JobSet] BY DEF ResearchInv, Typed
<1>2. PICK a : a = access[u].account OBVIOUS
<1>3. ASSUME NEW j \in Jobs
      PROVE  /\ jobs'[j] \in JobSet
             /\ jobs'[j] = jobs[j] \/
                  /\ jobs'[j].checkpoint = jobs[j].checkpoint /\ jobs'[j].cost = jobs[j].cost
                  /\ jobs'[j].worker = jobs[j].worker
                  /\ jobs[j].state = "WAITING_SOURCE_LOGIN" /\ jobs'[j].state = "QUEUED"
  <2>1. jobs[j] \in JobSet BY <1>1
  <2>2. CASE AccountOf[j] = a /\ jobs[j].state = "WAITING_SOURCE_LOGIN"
    <3>1. jobs'[j] = [jobs[j] EXCEPT !.state = "QUEUED"] BY <1>2, <2>2 DEF ResumeSource
    <3>2. QED BY <2>1, <2>2, <3>1 DEF JobSet
  <2>3. CASE ~(AccountOf[j] = a /\ jobs[j].state = "WAITING_SOURCE_LOGIN")
    BY <1>2, <2>1, <2>3 DEF ResumeSource
  <2>4. QED BY <2>2, <2>3
<1>4. jobs' \in [Jobs -> JobSet] BY <1>3 DEF ResumeSource
<1>5. QED BY <1>3, <1>4, JobsMove DEF ResumeSource

LEMMA ExpireKeeps ==
  ASSUME ResearchInv, NEW j \in Jobs, Expire(j)
  PROVE  ResearchStep
<1>1. jobs \in [Jobs -> JobSet] BY DEF ResearchInv, Typed
<1>2. PICK x : x = [jobs[j] EXCEPT !.lease = "EXPIRED"] OBVIOUS
<1>3. jobs' = [jobs EXCEPT ![j] = x] BY <1>1, <1>2 DEF Expire
<1>4. jobs[j] \in JobSet BY <1>1
<1>5. /\ x \in JobSet /\ x.checkpoint = jobs[j].checkpoint /\ x.cost = jobs[j].cost
      /\ x.worker = jobs[j].worker /\ x.state = jobs[j].state
  BY <1>2, <1>4 DEF JobSet
<1>6. jobs' \in [Jobs -> JobSet] /\ jobs'[j] = x /\ \A k \in Jobs \ {j} : jobs'[k] = jobs[k]
  BY <1>1, <1>3, <1>5
<1>7. QED BY <1>5, <1>6, JobsMove DEF Expire

LEMMA BackOffEndsKeeps ==
  ASSUME ResearchInv, NEW j \in Jobs, BackOffEnds(j)
  PROVE  ResearchStep
<1>1. jobs \in [Jobs -> JobSet] BY DEF ResearchInv, Typed
<1>2. PICK x : x = [jobs[j] EXCEPT !.due = TRUE] OBVIOUS
<1>3. jobs' = [jobs EXCEPT ![j] = x] BY <1>1, <1>2 DEF BackOffEnds
<1>4. jobs[j] \in JobSet BY <1>1
<1>5. /\ x \in JobSet /\ x.checkpoint = jobs[j].checkpoint /\ x.cost = jobs[j].cost
      /\ x.worker = jobs[j].worker /\ x.state = jobs[j].state
  BY <1>2, <1>4 DEF JobSet
<1>6. jobs' \in [Jobs -> JobSet] /\ jobs'[j] = x /\ \A k \in Jobs \ {j} : jobs'[k] = jobs[k]
  BY <1>1, <1>3, <1>5
<1>7. QED BY <1>5, <1>6, JobsMove DEF BackOffEnds

(* A sweep fails what was RUNNING with its attempts used up.               *)
LEMMA SweptFits ==
  ASSUME ResearchInv, NEW j \in Jobs
  PROVE  /\ Swept[j] \in JobSet /\ Swept[j].checkpoint = jobs[j].checkpoint
         /\ Swept[j].cost = jobs[j].cost /\ Swept[j].attempts = jobs[j].attempts
         /\ \/ Swept[j] = jobs[j]
            \/ jobs[j].state = "RUNNING" /\ Swept[j].state = "FAILED_FINAL"
<1>1. jobs[j] \in JobSet BY DEF ResearchInv, Typed
<1>2. CASE Abandoned(j) /\ jobs[j].attempts >= MaxAttempts
  <2>1. Swept[j] = [jobs[j] EXCEPT !.state = "FAILED_FINAL", !.worker = None, !.lease = "NONE"]
    BY <1>2 DEF Swept
  <2>2. jobs[j].state = "RUNNING" BY <1>2 DEF Abandoned
  <2>3. QED BY <1>1, <2>1, <2>2 DEF JobSet, Terminal
<1>3. CASE ~(Abandoned(j) /\ jobs[j].attempts >= MaxAttempts) BY <1>1, <1>3 DEF Swept
<1>4. QED BY <1>2, <1>3

LEMMA SweptJob ==
  ASSUME ResearchInv, NEW j \in Jobs, jobs'[j] = Swept[j], results'[j] = results[j]
  PROVE  JobFits(j)
<1>1. CASE Swept[j] = jobs[j] BY <1>1, SameJob
<1>2. CASE jobs[j].state = "RUNNING" /\ Swept[j].state = "FAILED_FINAL"
  <2>1. jobs[j] \in JobSet BY DEF ResearchInv, Typed
  <2>2. jobs[j].checkpoint \in 0..MaxCheckpoint /\ MaxCheckpoint \in Nat
    BY <2>1, SourceResearchAssumption DEF JobSet
  <2>3. Swept[j].checkpoint = jobs[j].checkpoint /\ Swept[j].cost = jobs[j].cost BY SweptFits
  <2>4. QED BY <1>2, <2>2, <2>3 DEF JobFits, Terminal
<1>3. QED BY <1>1, <1>2, SweptFits

LEMMA ClaimNextKeeps ==
  ASSUME ResearchInv, NEW w \in Workers, ClaimNext(w)
  PROVE  ResearchStep
<1>1. wk \in [Workers -> WorkerSet(issued)] BY DEF ResearchInv, Typed
<1>2. CASE jobs' = Swept /\ UNCHANGED wk
  <2>1. \A j \in Jobs : JobFits(j) BY <1>2, SweptJob DEF ClaimNext
  <2>2. jobs' \in [Jobs -> JobSet]
    <3>1. \A j \in Jobs : Swept[j] \in JobSet BY SweptFits
    <3>2. QED BY <1>2, <3>1 DEF Swept
  <2>3. \A d \in Workers : WorkerFits(d) BY <1>2, SameWorker
  <2>4. QED BY <1>1, <1>2, <2>1, <2>2, <2>3 DEF ResearchStep, ResearchInv, Typed, ClaimNext
<1>3. ASSUME NEW j \in Jobs, Claimable(j),
             jobs' = [Swept EXCEPT ![j].state = "RUNNING", ![j].worker = w, ![j].lease = "LIVE",
                                   ![j].attempts = @ + 1],
             wk' = [wk EXCEPT ![w].pc = "claimed", ![w].job = j, ![w].at = jobs[j].checkpoint]
      PROVE  ResearchStep
  <2>1. PICK x : x = [Swept[j] EXCEPT !.state = "RUNNING", !.worker = w, !.lease = "LIVE",
                                      !.attempts = @ + 1]
    OBVIOUS
  <2>2. Swept \in [Jobs -> JobSet]
    <3>1. \A k \in Jobs : Swept[k] \in JobSet BY SweptFits
    <3>2. QED BY <3>1 DEF Swept
  <2>3. jobs' = [Swept EXCEPT ![j] = x] BY <1>3, <2>1, <2>2
  <2>4. Swept[j] \in JobSet /\ Swept[j].checkpoint = jobs[j].checkpoint
        /\ Swept[j].cost = jobs[j].cost
    BY SweptFits
  <2>5. /\ x \in JobSet /\ x.state = "RUNNING" /\ x.worker = w
        /\ x.checkpoint = jobs[j].checkpoint /\ x.cost = jobs[j].cost
    <3>1. PICK n : n = Swept[j].attempts + 1 OBVIOUS
    <3>2. n \in Nat BY <2>4, <3>1 DEF JobSet
    <3>3. x = [Swept[j] EXCEPT !.state = "RUNNING", !.worker = w, !.lease = "LIVE",
                               !.attempts = n]
      BY <2>1, <2>4, <3>1 DEF JobSet
    <3>4. QED BY <2>4, <3>2, <3>3 DEF JobSet
  <2>6. /\ jobs' \in [Jobs -> JobSet] /\ jobs'[j] = x
        /\ \A k \in Jobs \ {j} : jobs'[k] = Swept[k]
    BY <2>2, <2>3, <2>5
  <2>7. jobs[j].checkpoint \in 0..MaxCheckpoint /\ MaxCheckpoint \in Nat
    BY <2>4, SourceResearchAssumption DEF JobSet
  <2>8. PICK y : y = [wk[w] EXCEPT !.pc = "claimed", !.job = j, !.at = jobs[j].checkpoint]
    OBVIOUS
  <2>9. wk' = [wk EXCEPT ![w] = y] BY <1>1, <1>3, <2>8
  <2>10. wk[w] \in WorkerSet(issued) BY <1>1
  <2>11. y \in WorkerSet(issued) /\ y.pc = "claimed" /\ y.job = j /\ y.at = jobs[j].checkpoint
    BY <2>7, <2>8, <2>10 DEF WorkerSet
  <2>12. /\ wk' \in [Workers -> WorkerSet(issued)] /\ wk'[w] = y
         /\ \A d \in Workers \ {w} : wk'[d] = wk[d]
    BY <1>1, <2>9, <2>11
  <2>13. WorkerFits(w)
    <3>1. wk[w].pc = "idle" BY DEF ClaimNext
    <3>2. QED BY <2>5, <2>6, <2>11, <2>12, <3>1 DEF WorkerFits
  <2>14. \A d \in Workers : WorkerFits(d) BY <2>12, <2>13, SameWorker
  <2>15. JobFits(j)
    <3>1. jobs[j].state \in {"QUEUED", "FAILED_RETRYABLE", "RUNNING"}
      BY <1>3 DEF Claimable, Abandoned
    <3>2. \A d \in Workers : jobs'[j].worker = d /\ wk'[d].job = j => wk'[d].at = jobs'[j].checkpoint
      BY <2>5, <2>6, <2>11, <2>12
    <3>3. results'[j] = results[j] BY DEF ClaimNext
    <3>4. QED BY <2>5, <2>6, <2>7, <3>1, <3>2, <3>3 DEF JobFits, Terminal
  <2>16. \A k \in Jobs : JobFits(k)
    <3>1. \A k \in Jobs \ {j} : JobFits(k) BY <2>6, SweptJob DEF ClaimNext
    <3>2. QED BY <2>15, <3>1
  <2>17. QED BY <2>6, <2>12, <2>14, <2>16 DEF ResearchStep, ResearchInv, Typed, ClaimNext
<1>4. QED BY <1>2, <1>3 DEF ClaimNext

LEMMA ReadStatusKeeps ==
  ASSUME ResearchInv, NEW w \in Workers, ReadStatus(w)
  PROVE  ResearchStep
<1>1. wk \in [Workers -> WorkerSet(issued)] BY DEF ResearchInv, Typed
<1>2. wk[w] \in WorkerSet(issued) /\ wk[w].pc = "claimed" BY <1>1 DEF ReadStatus
<1>3. UNCHANGED <<jobs, results, shown>> BY DEF ReadStatus
<1>4. PICK x \in {[wk[w] EXCEPT !.pc = "completing", !.outcome = "FAILED_FINAL"],
                  [wk[w] EXCEPT !.pc = "challenge"],
                  [wk[w] EXCEPT !.pc = "opening", !.beating = TRUE]} :
        wk' = [wk EXCEPT ![w] = x]
  BY <1>1 DEF ReadStatus
<1>5. /\ x \in WorkerSet(issued) /\ x.job = wk[w].job /\ x.at = wk[w].at
      /\ x.pc \in {"completing", "locking"} => x.outcome # "NONE"
  <2>1. CASE x = [wk[w] EXCEPT !.pc = "completing", !.outcome = "FAILED_FINAL"]
    BY <1>2, <2>1 DEF WorkerSet, Outcomes
  <2>2. CASE x = [wk[w] EXCEPT !.pc = "challenge"] BY <1>2, <2>2 DEF WorkerSet
  <2>3. CASE x = [wk[w] EXCEPT !.pc = "opening", !.beating = TRUE] BY <1>2, <2>3 DEF WorkerSet
  <2>4. QED BY <1>4, <2>1, <2>2, <2>3
<1>6. QED BY <1>2, <1>3, <1>4, <1>5, WorkerMoves

LEMMA OpenCredentialKeeps ==
  ASSUME AccessInv, ResearchInv, NEW w \in Workers, OpenCredential(w)
  PROVE  ResearchStep
<1>1. wk \in [Workers -> WorkerSet(issued)] BY DEF ResearchInv, Typed
<1>2. wk[w] \in WorkerSet(issued) /\ wk[w].pc = "opening" BY <1>1 DEF OpenCredential
<1>3. UNCHANGED <<jobs, results, shown>> BY DEF OpenCredential
<1>4. PICK s : s = row[AccountOf[wk[w].job]].secret OBVIOUS
<1>5. s \in 0..issued
  <2>1. AccountOf[wk[w].job] \in Accounts
    BY <1>2, SourceResearchAssumption DEF ResearchInv, WorkerShaped
  <2>2. row \in [Accounts -> RowSet(issued)] BY AccessTyped DEF AccessInv
  <2>3. QED BY <1>4, <2>1, <2>2 DEF RowSet
<1>6. PICK pc \in {"loading", "marking"} :
        wk' = [wk EXCEPT ![w].pc = pc, ![w].secret = s]
  BY <1>4 DEF OpenCredential
<1>7. PICK x : x = [wk[w] EXCEPT !.pc = pc, !.secret = s] OBVIOUS
<1>8. wk' = [wk EXCEPT ![w] = x] BY <1>1, <1>6, <1>7
<1>9. x \in WorkerSet(issued) /\ x.pc = pc /\ x.job = wk[w].job /\ x.at = wk[w].at
  BY <1>2, <1>5, <1>7 DEF WorkerSet
<1>10. QED BY <1>2, <1>3, <1>8, <1>9, WorkerMoves

LEMMA HeartbeatKeeps ==
  ASSUME ResearchInv, NEW w \in Workers, Heartbeat(w)
  PROVE  ResearchStep
<1>1. wk \in [Workers -> WorkerSet(issued)] BY DEF ResearchInv, Typed
<1>2. UNCHANGED <<jobs, results, shown>> BY DEF Heartbeat
<1>3. PICK x : x = [wk[w] EXCEPT !.lost = TRUE] OBVIOUS
<1>4. wk' = [wk EXCEPT ![w] = x] BY <1>1, <1>3 DEF Heartbeat
<1>5. wk[w] \in WorkerSet(issued) BY <1>1
<1>6. /\ x \in WorkerSet(issued) /\ x.pc = wk[w].pc /\ x.job = wk[w].job /\ x.at = wk[w].at
      /\ x.outcome = wk[w].outcome
  BY <1>3, <1>5 DEF WorkerSet
<1>7. x.pc \in {"completing", "locking"} => x.outcome # "NONE"
  BY <1>6 DEF ResearchInv, WorkerShaped
<1>8. QED BY <1>2, <1>4, <1>6, <1>7, WorkerMoves

(* Only the holder saves progress, and it goes on from what the row says.  *)
LEMMA SaveCheckpointKeeps ==
  ASSUME ResearchInv, NEW w \in Workers, SaveCheckpoint(w)
  PROVE  ResearchStep
<1>1. wk \in [Workers -> WorkerSet(issued)] /\ jobs \in [Jobs -> JobSet]
  BY DEF ResearchInv, Typed
<1>2. wk[w] \in WorkerSet(issued) /\ wk[w].pc = "running" /\ UNCHANGED <<results, shown>>
  BY <1>1 DEF SaveCheckpoint
<1>3. CASE ~Holds(w)
  <2>1. Finish(w, "FAILED_RETRYABLE") /\ UNCHANGED jobs BY <1>3 DEF SaveCheckpoint
  <2>2. "FAILED_RETRYABLE" \in Outcomes BY DEF Outcomes
  <2>3. QED BY <1>2, <2>1, <2>2, WorkerFinishes
<1>4. CASE Holds(w)
  <2>1. PICK j \in Jobs : j = wk[w].job BY <1>2 DEF ResearchInv, WorkerShaped
  <2>2. PICK n : n = wk[w].at + 1 OBVIOUS
  <2>3. /\ jobs' = [jobs EXCEPT ![j].checkpoint = n]
        /\ wk' = [wk EXCEPT ![w].at = @ + 1]
    BY <1>4, <2>1, <2>2 DEF SaveCheckpoint
  <2>4. wk[w].at \in 0..MaxCheckpoint BY <1>2 DEF WorkerSet
  <2>5. n \in 0..MaxCheckpoint
    BY <2>2, <2>4, SourceResearchAssumption DEF SaveCheckpoint
  <2>6. /\ jobs[j].state = "RUNNING" /\ wk[w].at = jobs[j].checkpoint
    BY <1>2, <1>4, <2>1 DEF Holds, ResearchInv, AtCheckpoint
  <2>7. PICK x : x = [jobs[j] EXCEPT !.checkpoint = n] OBVIOUS
  <2>8. jobs' = [jobs EXCEPT ![j] = x] BY <1>1, <2>3, <2>7
  <2>9. jobs[j] \in JobSet BY <1>1
  <2>10. /\ x \in JobSet /\ x.checkpoint = n /\ x.state = jobs[j].state /\ x.cost = jobs[j].cost
         /\ x.worker = jobs[j].worker
    BY <2>5, <2>7, <2>9 DEF JobSet
  <2>11. PICK y : y = [wk[w] EXCEPT !.at = n] OBVIOUS
  <2>12. wk' = [wk EXCEPT ![w] = y] BY <1>1, <2>2, <2>3, <2>11
  <2>13. y \in WorkerSet(issued) /\ y.pc = "running" /\ y.job = j /\ y.at = n
    BY <1>2, <2>1, <2>5, <2>11 DEF WorkerSet
  <2>14. jobs' \in [Jobs -> JobSet] /\ jobs'[j] = x /\ \A k \in Jobs \ {j} : jobs'[k] = jobs[k]
    BY <1>1, <2>8, <2>10
  <2>15. /\ wk' \in [Workers -> WorkerSet(issued)] /\ wk'[w] = y
         /\ \A d \in Workers \ {w} : wk'[d] = wk[d]
    BY <1>1, <2>12, <2>13
  <2>16. JobFits(j)
    <3>1. jobs[j].worker = w BY <1>4, <2>1 DEF Holds
    <3>2. \A d \in Workers : jobs'[j].worker = d /\ wk'[d].job = j => wk'[d].at = jobs'[j].checkpoint
      BY <2>10, <2>13, <2>14, <2>15, <3>1
    <3>3. jobs'[j].checkpoint >= jobs[j].checkpoint BY <2>2, <2>4, <2>6, <2>10, <2>14
    <3>4. results'[j] = results[j] BY <1>2
    <3>5. QED BY <2>10, <2>14, <3>2, <3>3, <3>4 DEF JobFits
  <2>17. \A k \in Jobs : JobFits(k) BY <1>2, <2>14, <2>16, SameJob
  <2>18. WorkerFits(w) BY <1>2, <2>10, <2>13, <2>14, <2>15 DEF WorkerFits
  <2>19. \A d \in Workers : WorkerFits(d) BY <2>15, <2>18, SameWorker
  <2>20. QED BY <1>2, <2>14, <2>15, <2>17, <2>19 DEF ResearchStep, ResearchInv, Typed
<1>5. QED BY <1>3, <1>4

LEMMA AuthRequiredKeeps ==
  ASSUME ResearchInv, NEW w \in Workers, AuthRequired(w)
  PROVE  ResearchStep
<1>1. wk \in [Workers -> WorkerSet(issued)] BY DEF ResearchInv, Typed
<1>2. wk[w] \in WorkerSet(issued) /\ wk[w].pc = "running" BY <1>1 DEF AuthRequired
<1>3. UNCHANGED <<jobs, results, shown>> BY DEF AuthRequired
<1>4. CASE wk[w].lost
  <2>1. Return(w) BY <1>4 DEF AuthRequired, Return
  <2>2. QED BY <1>2, <1>3, <2>1, WorkerReturns
<1>5. CASE ~wk[w].lost
  <2>1. PICK x : x = [wk[w] EXCEPT !.pc = "marking", !.beating = FALSE] OBVIOUS
  <2>2. wk' = [wk EXCEPT ![w] = x] BY <1>1, <1>5, <2>1 DEF AuthRequired
  <2>3. x \in WorkerSet(issued) /\ x.pc = "marking" /\ x.job = wk[w].job /\ x.at = wk[w].at
    BY <1>2, <2>1 DEF WorkerSet
  <2>4. QED BY <1>2, <1>3, <2>2, <2>3, WorkerMoves
<1>6. QED BY <1>4, <1>5

LEMMA BeginChallengeKeeps ==
  ASSUME ResearchInv, NEW w \in Workers, NEW l \in Logins, BeginChallenge(w, l)
  PROVE  ResearchStep
<1>1. wk \in [Workers -> WorkerSet(issued)] BY DEF ResearchInv, Typed
<1>2. wk[w] \in WorkerSet(issued) /\ wk[w].pc = "challenge" BY <1>1 DEF BeginChallenge
<1>3. UNCHANGED <<jobs, results, shown>> BY DEF BeginChallenge
<1>4. CASE wk[w].lost
  <2>1. Return(w) BY <1>4 DEF BeginChallenge, Return
  <2>2. QED BY <1>2, <1>3, <2>1, WorkerReturns
<1>5. CASE ~wk[w].lost
  <2>1. PICK x : x = [wk[w] EXCEPT !.pc = "completing", !.login = l,
                                   !.outcome = "WAITING_CHALLENGE", !.beating = FALSE]
    OBVIOUS
  <2>2. wk' = [wk EXCEPT ![w] = x] BY <1>1, <1>5, <2>1 DEF BeginChallenge
  <2>3. l \in 0..MaxLogins BY SourceAccessAssumption DEF Logins
  <2>4. /\ x \in WorkerSet(issued) /\ x.job = wk[w].job /\ x.at = wk[w].at
        /\ x.outcome = "WAITING_CHALLENGE"
    BY <1>2, <2>1, <2>3 DEF WorkerSet
  <2>5. QED BY <1>2, <1>3, <2>2, <2>4, WorkerMoves
<1>6. QED BY <1>4, <1>5

(* The first to complete a job gives it its outcome and its result; the    *)
(* row is not RUNNING for whoever comes after.                             *)
LEMMA CompleteKeeps ==
  ASSUME ResearchInv, NEW w \in Workers, Complete(w)
  PROVE  ResearchStep
<1>1. /\ wk \in [Workers -> WorkerSet(issued)] /\ jobs \in [Jobs -> JobSet]
      /\ results \in [Jobs -> Nat] /\ shown \subseteq Logins /\ issued \in Nat
  BY DEF ResearchInv, Typed
<1>2. wk[w] \in WorkerSet(issued) /\ wk[w].pc = "locking" /\ Return(w) BY <1>1 DEF Complete
<1>3. CASE ~Holds(w)
  <2>1. UNCHANGED <<jobs, results, shown>> BY <1>3 DEF Complete
  <2>2. QED BY <1>2, <2>1, WorkerReturns
<1>4. CASE Holds(w)
  <2>1. PICK j \in Jobs : j = wk[w].job BY <1>2 DEF ResearchInv, WorkerShaped
  <2>2. PICK o : o = wk[w].outcome OBVIOUS
  <2>3. o \in Outcomes \cup {"WAITING_CHALLENGE"}
    <3>1. o \in Outcomes \cup {"NONE", "WAITING_CHALLENGE"} BY <1>2, <2>2 DEF WorkerSet
    <3>2. o # "NONE" BY <1>2, <2>2 DEF ResearchInv, WorkerShaped
    <3>3. QED BY <3>1, <3>2
  <2>4. PICK state : state = StateAfter(o, jobs[j].attempts) OBVIOUS
  <2>5. /\ state \in Terminal \cup {"WAITING_SOURCE_LOGIN", "FAILED_RETRYABLE"}
        /\ state = "COMPLETED" <=> o = "EVIDENCE"
        /\ o = "NO_RESULT" => state = "NO_RESULT"
    BY <2>3, <2>4 DEF StateAfter, Outcomes, Terminal
  <2>6. PICK cost \in {0, 1} : cost = IF o \in {"EVIDENCE", "NO_RESULT"} THEN 1 ELSE 0
    OBVIOUS
  <2>7. PICK x : x = [jobs[j] EXCEPT !.state = state, !.worker = None, !.lease = "NONE",
                                     !.due = FALSE, !.login = wk[w].login, !.cost = cost]
    OBVIOUS
  <2>8. jobs' = [jobs EXCEPT ![j] = x]
    BY <1>1, <1>4, <2>1, <2>2, <2>4, <2>6, <2>7 DEF Complete
  <2>9. jobs[j] \in JobSet /\ wk[w].login \in 0..MaxLogins BY <1>1, <1>2 DEF WorkerSet
  <2>10. /\ x \in JobSet /\ x.state = state /\ x.cost = cost /\ x.checkpoint = jobs[j].checkpoint
    <3>1. x = [state |-> state, worker |-> None, lease |-> "NONE",
               attempts |-> jobs[j].attempts, due |-> FALSE,
               checkpoint |-> jobs[j].checkpoint, cost |-> cost, login |-> wk[w].login]
      BY <2>7, <2>9 DEF JobSet
    <3>2. jobs[j].attempts \in Nat /\ jobs[j].checkpoint \in 0..MaxCheckpoint /\ cost \in Nat
      BY <2>9 DEF JobSet
    <3>3. QED BY <2>5, <2>9, <3>1, <3>2 DEF JobSet
  <2>11. jobs' \in [Jobs -> JobSet] /\ jobs'[j] = x /\ \A k \in Jobs \ {j} : jobs'[k] = jobs[k]
    BY <1>1, <2>8, <2>10
  <2>12. PICK n \in {0, 1} : n = IF o = "EVIDENCE" THEN 1 ELSE 0 OBVIOUS
  <2>13. jobs[j].state = "RUNNING" /\ results[j] = 0
    BY <1>4, <2>1 DEF Holds, ResearchInv, ResultOnce
  <2>14. results' = [results EXCEPT ![j] = n]
    BY <1>1, <1>4, <2>1, <2>2, <2>12, <2>13 DEF Complete
  <2>15. results' \in [Jobs -> Nat] /\ results'[j] = n
         /\ \A k \in Jobs \ {j} : results'[k] = results[k]
    BY <1>1, <2>12, <2>14
  <2>16. shown' \subseteq Logins
    <3>1. PICK l : l = wk[w].login OBVIOUS
    <3>2. shown' = shown \cup ({l} \ {0}) BY <1>4, <3>1 DEF Complete
    <3>3. l = 0 \/ l \in Logins BY <2>9, <3>1, SourceAccessAssumption DEF Logins
    <3>4. QED BY <1>1, <3>2, <3>3
  <2>17. Idle \in WorkerSet(issued) /\ Idle.pc = "idle" BY <1>1, IdleTyped DEF Idle
  <2>18. /\ wk' \in [Workers -> WorkerSet(issued)] /\ wk'[w] = Idle
         /\ \A d \in Workers \ {w} : wk'[d] = wk[d]
    BY <1>1, <1>2, <2>17 DEF Return
  <2>19. JobFits(j)
    <3>1. jobs[j].checkpoint \in 0..MaxCheckpoint /\ MaxCheckpoint \in Nat
      BY <2>9, SourceResearchAssumption DEF JobSet
    <3>2. results'[j] = IF jobs'[j].state = "COMPLETED" THEN 1 ELSE 0
      BY <2>5, <2>10, <2>11, <2>12, <2>15
    <3>3. jobs'[j].cost > 0 => jobs'[j].state \in {"COMPLETED", "NO_RESULT"}
      BY <2>5, <2>6, <2>10, <2>11
    <3>4. jobs'[j].state # "RUNNING" BY <2>5, <2>10, <2>11 DEF Terminal
    <3>5. QED BY <2>10, <2>11, <2>13, <3>1, <3>2, <3>3, <3>4 DEF JobFits, Terminal
  <2>20. \A k \in Jobs : JobFits(k) BY <2>11, <2>15, <2>19, SameJob
  <2>21. WorkerFits(w) BY <1>2, <2>17, <2>18 DEF WorkerFits
  <2>22. \A d \in Workers : WorkerFits(d) BY <2>18, <2>21, SameWorker
  <2>23. QED BY <2>11, <2>15, <2>16, <2>18, <2>20, <2>22 DEF ResearchStep
<1>5. QED BY <1>3, <1>4

-----------------------------------------------------------------------------
(* The calls of the workers.                                               *)
LEMMA NoCallMade ==
  ASSUME AccessInv, NEW c \in Callers, Call(c, NoCall)
  PROVE  access'[c].pc = "idle" /\ Others(c)
<1>1. access'[c] = NoCall /\ Others(c) BY CallSets DEF AccessInv
<1>2. QED BY <1>1 DEF NoCall

LEMMA OneCallFits ==
  ASSUME WorkerCalls, NEW c, Others(c),
         c \in Workers => \/ access'[c].pc = "idle"
                          \/ /\ access'[c].pc \in {"deleting", "deleted"}
                             /\ access[c].pc # "idle" \/ wk[c].pc = "marking"
  PROVE  CallsFit
<1> SUFFICES ASSUME NEW w \in Workers, access'[w].pc # "idle"
             PROVE  /\ access'[w].pc \in {"deleting", "deleted"}
                    /\ access[w].pc # "idle" \/ wk[w].pc = "marking"
  BY DEF CallsFit
<1>1. CASE w = c BY <1>1
<1>2. CASE w # c
  <2>1. access'[w] = access[w] BY <1>2, SourceResearchAssumption DEF Others
  <2>2. QED BY <2>1 DEF WorkerCalls
<1>3. QED BY <1>1, <1>2

LEMMA MarkingFits ==
  ASSUME AccessInv, WorkerCalls, NEW c \in Callers, AccessStep(c)
  PROVE  CallsFit
<1>1. ASSUME c \in Workers, access[c].pc # "deleting"
      PROVE  FALSE
  BY <1>1 DEF WorkerCalls, AccessStep, LockAccount, StoreSecret, CommitLogin, UndoStore,
              DeleteReplaced, ForgetReplaced, DeleteMarked
<1>2. PICK call : Call(c, call)
  BY DEF AccessStep, LockAccount, StoreSecret, CommitLogin, UndoStore, DeleteReplaced,
         ForgetReplaced, DeleteMarked, GoTo, Call
<1>3. Others(c) BY <1>2, CallSets DEF AccessInv
<1>4. ASSUME c \in Workers
      PROVE  access'[c].pc = "deleted" /\ access[c].pc # "idle"
  <2>1. access[c].pc = "deleting" BY <1>1, <1>4
  <2>2. DeleteMarked(c)
    BY <2>1 DEF AccessStep, LockAccount, StoreSecret, CommitLogin, UndoStore, DeleteReplaced,
                ForgetReplaced
  <2>3. access'[c].pc = "deleted" BY <2>2, CallGoes DEF AccessInv, DeleteMarked
  <2>4. QED BY <2>1, <2>3
<1>5. QED BY <1>3, <1>4, OneCallFits

LEMMA NextCalls ==
  ASSUME AccessInv, WorkerCalls, [Next]_vars
  PROVE  CallsFit
<1>1. Workers \subseteq Callers /\ Users \subseteq Callers /\ Workers \cap Users = {}
  BY SourceResearchAssumption
<1>2. ASSUME access' = access PROVE CallsFit BY <1>2 DEF WorkerCalls, CallsFit
<1>3. ASSUME NEW c \in Callers, Call(c, NoCall) PROVE CallsFit
  BY <1>3, NoCallMade, OneCallFits
<1>4. ASSUME NEW u \in Users, NEW call, Call(u, call) PROVE CallsFit
  <2>1. Others(u) BY <1>1, <1>4, CallSets DEF AccessInv
  <2>2. QED BY <1>1, <2>1, OneCallFits
<1>5. ASSUME NEW w \in Workers, MarkInvalid(w) PROVE CallsFit
  <2>1. PICK call : call = [NoCall EXCEPT !.pc = "deleting", !.account = AccountOf[wk[w].job],
                              !.system = TRUE, !.secret = row[AccountOf[wk[w].job]].secret]
    OBVIOUS
  <2>2. Call(w, call) /\ wk[w].pc = "marking" BY <1>5, <2>1 DEF MarkInvalid, Invalidate
  <2>3. access'[w] = call /\ Others(w) BY <1>1, <2>2, CallSets DEF AccessInv
  <2>4. call.pc = "deleting" BY <2>1 DEF NoCall
  <2>5. QED BY <2>2, <2>3, <2>4, OneCallFits
<1>6. ASSUME NEW w \in Workers, Work(w) PROVE CallsFit
  <2>1. Marked(w) \/ RefusedDelete(w) => Call(w, NoCall) BY DEF Marked, RefusedDelete, Abandon
  <2>2. ClaimNext(w) \/ ReadStatus(w) \/ OpenCredential(w) \/ LoadSecret(w) \/ Heartbeat(w) =>
          access' = access
    BY DEF ClaimNext, ReadStatus, OpenCredential, LoadSecret, Heartbeat, accessVars
  <2>3. SaveCheckpoint(w) \/ (\E o \in Outcomes : AdapterReturns(w, o))
          \/ (\E l \in Logins : BeginChallenge(w, l)) \/ AskResult(w) \/ Complete(w) =>
          access' = access
    BY DEF SaveCheckpoint, AdapterReturns, BeginChallenge, AskResult, Complete, accessVars
  <2>4. QED BY <1>1, <1>2, <1>3, <1>5, <1>6, <2>1, <2>2, <2>3 DEF Work
<1>7. ASSUME NEW w \in Workers, AuthRequired(w) \/ WorkerEnds(w) PROVE CallsFit
  <2>1. AuthRequired(w) => access' = access BY DEF AuthRequired
  <2>2. WorkerEnds(w) => Call(w, NoCall) BY DEF WorkerEnds, Abandon
  <2>3. QED BY <1>1, <1>2, <1>3, <1>7, <2>1, <2>2
<1>8. ASSUME NEW c \in Callers, InFlight(c) PROVE CallsFit
  BY <1>8, MarkingFits DEF InFlight
<1>9. ASSUME NEW u \in Users, Request(u) \/ Responds(u) \/ ResumeSource(u) PROVE CallsFit
  <2>1. \E call : Call(u, call)
    BY <1>9 DEF Request, UserRevokes, Invalidate, RollBack, CallerEnds, Abandon, Responds,
                ResumeSource, GoTo, Call
  <2>2. QED BY <1>4, <2>1
<1>10. ASSUME NEW l \in Logins, NEW u \in Users, Answer(u, l) PROVE CallsFit
  <2>1. \E call : Call(u, call) BY <1>10 DEF Answer, EnterLogin
  <2>2. QED BY <1>4, <2>1
<1>11. ASSUME NEW l \in Logins, NEW a \in Accounts, AskLogin(l, a) PROVE access' = access
  BY <1>11 DEF AskLogin, UserBegins
<1>12. (\E b \in Batches : CreateBatch(b)) \/ (\E j \in Jobs : Expire(j) \/ BackOffEnds(j)) =>
         access' = access
  BY DEF CreateBatch, Expire, BackOffEnds, accessVars
<1>13. CASE Next
  BY <1>13, <1>2, <1>6, <1>7, <1>8, <1>9, <1>10, <1>11, <1>12 DEF Next
<1>14. CASE UNCHANGED vars BY <1>14, <1>2 DEF vars, accessVars
<1>15. QED BY <1>13, <1>14

-----------------------------------------------------------------------------
(* Any step.                                                               *)
LEMMA WorkKeeps ==
  ASSUME AccessInv, ResearchInv, NEW w \in Workers, Work(w)
  PROVE  ResearchStep /\ issued' = issued
<1>1. ClaimNext(w) => ResearchStep /\ issued' = issued
  BY ClaimNextKeeps DEF ClaimNext, accessVars
<1>2. ReadStatus(w) => ResearchStep /\ issued' = issued
  BY ReadStatusKeeps DEF ReadStatus, accessVars
<1>3. OpenCredential(w) => ResearchStep /\ issued' = issued
  BY OpenCredentialKeeps DEF OpenCredential, accessVars
<1>4. ASSUME LoadSecret(w) PROVE ResearchStep /\ issued' = issued
  <2>1. PICK pc \in {"running", "marking"} : Go(w, pc) BY <1>4 DEF LoadSecret
  <2>2. /\ wk[w].pc = "loading" /\ UNCHANGED <<jobs, results, shown>> /\ issued' = issued
    BY <1>4 DEF LoadSecret, accessVars
  <2>3. QED BY <2>1, <2>2, WorkerGoes
<1>5. Heartbeat(w) => ResearchStep /\ issued' = issued
  BY HeartbeatKeeps DEF Heartbeat, accessVars
<1>6. SaveCheckpoint(w) => ResearchStep /\ issued' = issued
  BY SaveCheckpointKeeps DEF SaveCheckpoint, accessVars
<1>7. ASSUME NEW o \in Outcomes, AdapterReturns(w, o) PROVE ResearchStep /\ issued' = issued
  BY <1>7, WorkerFinishes DEF AdapterReturns, accessVars
<1>8. ASSUME MarkInvalid(w) PROVE ResearchStep /\ issued' = issued
  <2>1. UNCHANGED <<jobs, results, shown, wk>> BY <1>8 DEF MarkInvalid
  <2>2. issued' = issued BY <1>8 DEF MarkInvalid, Invalidate
  <2>3. QED BY <2>1, <2>2, NothingMoves DEF ResearchInv, Typed
<1>9. ASSUME Marked(w) PROVE ResearchStep /\ issued' = issued
  <2>1. Go(w, "challenge") /\ Call(w, NoCall) /\ access[w].pc = "deleted"
        /\ UNCHANGED <<jobs, results, shown>> /\ issued' = issued
    BY <1>9 DEF Marked
  <2>2. access'[w].pc = "idle" BY <2>1, NoCallMade, SourceResearchAssumption
  <2>3. wk[w].pc # "idle" BY <2>1 DEF ResearchInv, WorkerCalls
  <2>4. QED BY <2>1, <2>2, <2>3, WorkerGoes
<1>10. ASSUME NEW l \in Logins, BeginChallenge(w, l) PROVE ResearchStep /\ issued' = issued
  BY <1>10, BeginChallengeKeeps DEF BeginChallenge
<1>11. ASSUME AskResult(w) PROVE ResearchStep /\ issued' = issued
  <2>1. /\ wk[w].pc = "completing" /\ UNCHANGED <<jobs, results, shown>> /\ issued' = issued
        /\ Return(w) \/ Go(w, "locking")
    BY <1>11 DEF AskResult, accessVars
  <2>2. QED BY <2>1, WorkerReturns, WorkerGoes
<1>12. Complete(w) => ResearchStep /\ issued' = issued
  BY CompleteKeeps DEF Complete, accessVars
<1>13. ASSUME RefusedDelete(w) PROVE ResearchStep /\ issued' = issued
  <2>1. Return(w) /\ Call(w, NoCall) /\ UNCHANGED <<jobs, results, shown>> /\ issued' = issued
    BY <1>13 DEF RefusedDelete, Abandon
  <2>2. access'[w].pc = "idle" BY <2>1, NoCallMade, SourceResearchAssumption
  <2>3. QED BY <2>1, <2>2, WorkerReturns
<1>14. QED
  BY <1>1, <1>2, <1>3, <1>4, <1>5, <1>6, <1>7, <1>8, <1>9, <1>10, <1>11, <1>12, <1>13 DEF Work

LEMMA NextKeeps ==
  ASSUME AccessInv, ResearchInv, [Next]_vars
  PROVE  ResearchStep /\ issued' \in {issued, issued + 1}
<1> DEFINE Goal == ResearchStep /\ issued' \in {issued, issued + 1}
<1>1. shown \subseteq Logins /\ Workers \subseteq Callers /\ Users \subseteq Callers
  BY SourceResearchAssumption DEF ResearchInv, Typed
<1>2. ASSUME UNCHANGED <<jobs, results, wk>>, shown' \subseteq Logins, issued' \in {issued, issued + 1}
      PROVE  Goal
  BY <1>2, NothingMoves
<1>3. ASSUME NEW b, CreateBatch(b) PROVE Goal
  BY <1>3, CreateBatchKeeps DEF CreateBatch, accessVars
<1>4. ASSUME NEW j \in Jobs, Expire(j) PROVE Goal
  BY <1>4, ExpireKeeps DEF Expire, accessVars
<1>5. ASSUME NEW j \in Jobs, BackOffEnds(j) PROVE Goal
  BY <1>5, BackOffEndsKeeps DEF BackOffEnds, accessVars
<1>6. ASSUME NEW w \in Workers, Work(w) PROVE Goal BY <1>6, WorkKeeps
<1>7. ASSUME NEW w \in Workers, AuthRequired(w) PROVE Goal
  BY <1>7, AuthRequiredKeeps DEF AuthRequired
<1>8. ASSUME NEW w \in Workers, WorkerEnds(w) PROVE Goal
  <2>1. Return(w) /\ Call(w, NoCall) /\ UNCHANGED <<jobs, results, shown>> /\ issued' = issued
    BY <1>8 DEF WorkerEnds, Abandon
  <2>2. access'[w].pc = "idle" BY <1>1, <2>1, NoCallMade
  <2>3. QED BY <2>1, <2>2, WorkerReturns
<1>9. ASSUME NEW c \in Callers, InFlight(c) PROVE Goal
  <2>1. UNCHANGED <<jobs, results, shown, wk>> BY <1>9 DEF InFlight
  <2>2. issued' \in {issued, issued + 1}
    BY <1>9 DEF InFlight, AccessStep, LockAccount, StoreSecret, CommitLogin, UndoStore,
                DeleteReplaced, ForgetReplaced, DeleteMarked
  <2>3. QED BY <1>1, <1>2, <2>1, <2>2
<1>10. ASSUME NEW u \in Users, Request(u) PROVE Goal
  <2>1. UNCHANGED <<jobs, results, shown, wk>> BY <1>10 DEF Request
  <2>2. issued' = issued
    BY <1>10 DEF Request, UserRevokes, Invalidate, RollBack, CallerEnds, Abandon
  <2>3. QED BY <1>1, <1>2, <2>1, <2>2
<1>11. ASSUME NEW u \in Users, Responds(u) PROVE Goal
  <2>1. UNCHANGED <<jobs, results, shown, wk>> /\ issued' = issued BY <1>11 DEF Responds
  <2>2. QED BY <1>1, <1>2, <2>1
<1>12. ASSUME NEW u \in Users, ResumeSource(u) PROVE Goal
  BY <1>12, ResumeSourceKeeps DEF ResumeSource
<1>13. ASSUME NEW l \in Logins, NEW a \in Accounts, AskLogin(l, a) PROVE Goal
  <2>1. /\ UNCHANGED <<jobs, results, wk>> /\ issued' = issued /\ shown' = shown \cup {l}
    BY <1>13 DEF AskLogin, UserBegins
  <2>2. QED BY <1>1, <1>2, <2>1
<1>14. ASSUME NEW l \in Logins, NEW u \in Users, Answer(u, l) PROVE Goal
  <2>1. UNCHANGED <<jobs, results, shown, wk>> BY <1>14 DEF Answer
  <2>2. issued' = issued BY <1>14 DEF Answer, EnterLogin
  <2>3. QED BY <1>1, <1>2, <2>1, <2>2
<1>15. ASSUME UNCHANGED vars PROVE Goal
  <2>1. UNCHANGED <<jobs, results, shown, wk>> /\ issued' = issued BY <1>15 DEF vars, accessVars
  <2>2. QED BY <1>1, <1>2, <2>1
<1>16. QED
  <2> HIDE DEF Goal
  <2>1. ASSUME Next PROVE Goal
    BY <2>1, <1>3, <1>4, <1>5, <1>6, <1>7, <1>8, <1>9, <1>10, <1>11, <1>12, <1>13, <1>14 DEF Next
  <2>2. Goal BY <1>15, <2>1
  <2>3. QED BY <2>2 DEF Goal

-----------------------------------------------------------------------------
LEMMA InitInvariant ==
  ASSUME Init
  PROVE  IInv
<1>1. {MaxFaults, MaxRequests, MaxLogins, MaxCheckpoint} \subseteq Nat
  BY SourceAccessAssumption, SourceResearchAssumption
<1>2. TypeOKAccess BY <1>1 DEF Init, InitAccess, TypeOKAccess, NoCall
<1>3. /\ \A c \in Callers : access[c].pc = "idle" /\ Undealt(c) = {}
      /\ \A a \in Accounts : row[a] = [status |-> "ABSENT", secret |-> 0]
      /\ \A l \in Logins : login[l].status = "NONE" /\ login[l].replaced = 0
      /\ vault = {}
  BY DEF Init, InitAccess, NoCall, Undealt
<1>4. AccessInv
  BY <1>2, <1>3 DEF AccessInv, CallShaped, LoginShaped, RowShaped, LockedAlone, StoredUnshared,
     ReplacedRetired, MarkedInactive, VaultAccounted, ActiveHasSecret, InTransaction, LocksAccount
<1>5. Typed
  <2>1. issued = 0 BY DEF Init, InitAccess
  <2>2. jobs \in [Jobs -> JobSet] BY <1>1 DEF Init, JobSet
  <2>3. wk \in [Workers -> WorkerSet(issued)] BY <2>1, IdleTyped DEF Init
  <2>4. QED BY <2>1, <2>2, <2>3 DEF Typed, Init
<1>6. WorkerShaped /\ WorkerCalls /\ AtCheckpoint /\ ResultOnce
  BY <1>3, SourceResearchAssumption
  DEF Init, WorkerShaped, WorkerCalls, AtCheckpoint, ResultOnce, Idle
<1>7. QED BY <1>2, <1>4, <1>5, <1>6, ResearchTyped DEF IInv

LEMMA IInvParts == IInv <=> AccessInv /\ ResearchInv
BY ResearchTyped DEF IInv, ResearchInv, AccessInv

LEMMA NextInvariant ==
  ASSUME IInv, [Next]_vars
  PROVE  IInv'
<1>1. AccessInv /\ ResearchInv BY IInvParts
<1>2. AccessInv' BY <1>1, NextAccess DEF ResearchInv
<1>3. CallsFit BY <1>1, NextCalls DEF ResearchInv
<1>4. ResearchInv' BY <1>1, <1>3, NextKeeps, ResearchFits
<1>5. TypeOK' BY <1>2, <1>4, ResearchTyped DEF AccessInv, ResearchInv
<1>6. QED BY <1>2, <1>4, <1>5 DEF IInv, ResearchInv

(* In every state the calls, the logins, the rows and the vault fit each   *)
(* other, and the jobs what their workers know (SourceAccess complete and  *)
(* revoke; SourceResearch claim, checkpoint and complete).                 *)
THEOREM InductiveInvariant == Spec => []IInv
<1>1. Init => IInv BY InitInvariant
<1>2. IInv /\ [Next]_vars => IInv' BY NextInvariant
<1>3. QED BY <1>1, <1>2, PTL DEF Spec

(* An account that is ACTIVE has its secret in the vault, and of all the   *)
(* logins, revocations and marks, failed or not, one secret at most is     *)
(* left when no call is in flight: complete stores outside of the          *)
(* transaction, undoes what it stored when it rolls back, and deletes what *)
(* it replaced after the commit, while marks and revocations delete too.   *)
THEOREM SecretsMatchHolds == Spec => []SecretsMatch
<1>1. IInv => SecretsMatch
  <2> SUFFICES ASSUME IInv PROVE SecretsMatch OBVIOUS
  <2>1. OneSecretAtRest
    <3> SUFFICES ASSUME \A c \in Callers : access[c].pc = "idle"
                 PROVE  vault \ left = InUse \ left
      BY DEF OneSecretAtRest, InUse
    <3>1. \A c \in Callers : Undealt(c) = {} BY DEF Undealt
    <3>2. vault \ left \subseteq InUse BY <3>1 DEF IInv, AccessInv, VaultAccounted
    <3>3. InUse \subseteq vault BY DEF IInv, AccessInv, ActiveHasSecret, InUse
    <3>4. QED BY <3>2, <3>3
  <2>2. QED BY <2>1 DEF SecretsMatch, IInv, AccessInv
<1>2. QED BY <1>1, InductiveInvariant, PTL

(* A job has a result exactly when it is COMPLETED, and then only one,     *)
(* however many workers claimed it, lost it and completed it again         *)
(* (completeResearchJob locks the row and asks who holds it).              *)
THEOREM ResultOnceHolds == Spec => []ResultOnce
<1>1. IInv => ResultOnce BY DEF IInv
<1>2. QED BY <1>1, InductiveInvariant, PTL

(* A batch that is COMPLETED or FAILED has only jobs that ended.           *)
LEMMA FinishedBatch ==
  ASSUME NEW b \in Batches, StateOf(b) \in {"COMPLETED", "FAILED"},
         NEW j \in Jobs, BatchOf[j] = b
  PROVE  jobs[j].state \in Terminal
<1>1. PICK states : states = {[i \in Jobs |-> jobs[i].state][k] : k \in {i \in Jobs : BatchOf[i] = b}}
  OBVIOUS
<1>2. jobs[j].state \in states BY <1>1
<1>3. states \subseteq {"COMPLETED", "NO_RESULT"} \/ states \subseteq Terminal
  BY <1>1 DEF StateOf, BatchState
<1>4. QED BY <1>2, <1>3 DEF Terminal

(* A batch that was shown as finished stays as it was shown, and progress  *)
(* is never taken back: a worker that lost a job, or ends and comes back,  *)
(* can change neither (saveCheckpoint and completeResearchJob ask for the  *)
(* lease; the sweep and the resume of a login leave what has ended alone). *)
THEOREM ResearchOnlyAdvancesHolds == Spec => ResearchOnlyAdvances
<1>1. ASSUME IInv, [Next]_vars
      PROVE  /\ \A b \in Batches :
                  StateOf(b) \in {"COMPLETED", "FAILED"} => StateOf(b)' = StateOf(b)
             /\ \A j \in Jobs : jobs'[j].checkpoint >= jobs[j].checkpoint
  <2>1. \A j \in Jobs : JobFits(j) BY <1>1, IInvParts, NextKeeps DEF ResearchStep
  <2>2. ASSUME NEW b \in Batches, StateOf(b) \in {"COMPLETED", "FAILED"}
        PROVE  StateOf(b)' = StateOf(b)
    <3>1. \A j \in Jobs : BatchOf[j] = b => jobs'[j].state = jobs[j].state
      BY <2>1, <2>2, FinishedBatch DEF JobFits
    <3>2. PICK then : then = {[i \in Jobs |-> jobs'[i].state][k] : k \in {i \in Jobs : BatchOf[i] = b}}
      OBVIOUS
    <3>3. then = {[i \in Jobs |-> jobs[i].state][k] : k \in {i \in Jobs : BatchOf[i] = b}}
      BY <3>1, <3>2
    <3>4. QED BY <3>2, <3>3 DEF StateOf, BatchState
  <2>3. QED BY <2>1, <2>2 DEF JobFits
<1>2. QED BY <1>1, InductiveInvariant, PTL DEF Spec, ResearchOnlyAdvances
=============================================================================
