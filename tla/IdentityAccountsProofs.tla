------------------------ MODULE IdentityAccountsProofs ------------------------
(***************************************************************************)
(* Proofs about IdentityAccounts for any number of accounts, invitations   *)
(* and open transactions.  IInv is inductive: what a call has locked it    *)
(* holds, what it read under a lock is still so, and either nothing has    *)
(* happened yet or there is an ACTIVE SUPERADMIN.                          *)
(***************************************************************************)
EXTENDS IdentityAccounts, TLAPS

(* What a call in each step is about. *)
CallShape(c) ==
  LET call == calls[c]
  IN /\ call.pc # "idle" => call.command \in Commands
     /\ call.pc = "actor" => call.command \in OnSelf \cup OnAnother
     /\ call.pc = "target" =>
          call.command \in OnAnother \cup {"RESET_ACCOUNT_PASSWORD", "RECOVER_SUPERADMIN",
                                           "REGISTER_WITH_INVITATION"}
     /\ call.pc = "counted" =>
          call.command \in {"SET_ACCOUNT_ROLE", "SET_ACCOUNT_STATUS", "RECOVER_SUPERADMIN"}
     /\ call.command \in OnSelf \cup OnAnother => call.actor \in Accounts
     /\ call.command \in OnAnother \cup {"RESET_ACCOUNT_PASSWORD", "RECOVER_SUPERADMIN", "LOGIN"}
          => call.target \in Accounts
     /\ call.command \in {"REGISTER_WITH_INVITATION", "REVOKE_INVITATION"}
          => call.target \in Invitations
     /\ call.command = "SET_ACCOUNT_ROLE" => call.argument \in Roles
     /\ call.command = "SET_ACCOUNT_STATUS" => call.argument \in {"ACTIVE", "DISABLED"}
     /\ call.command = "CREATE_ACCOUNT" => call.argument \in {"USER", "ADMIN"}
     /\ call.command \in {"CREATE_INVITATION", "LOGOUT_ALL"} => call.actor \in Accounts

(* The row locks a call has taken are its own. *)
LocksHeld(c) ==
  /\ ActorLocked(c) => locks[calls[c].actor] = c
  /\ calls[c].pc \in {"target", "counted"} => locks[calls[c].target] = c

(* What the call read under its locks still holds. *)
ReadsHold(c) ==
  /\ ActorLocked(c) => /\ ActorMay(calls[c].command, calls[c].actor)
                       /\ calls[c].role = accounts[calls[c].actor].role
  /\ TargetLocked(c) => TargetMay(c)

CallSound(c) == CallShape(c) /\ LocksHeld(c) /\ ReadsHold(c)

IInv == TypeOK /\ \A c \in Calls : CallSound(c)

-----------------------------------------------------------------------------
(* The predicates of a call speak of its record, its locks and the rows of *)
(* its actor and target only.                                              *)
LEMMA ActorMayFrame ==
  ASSUME NEW command, NEW a, accounts'[a] = accounts[a]
  PROVE  ActorMay(command, a)' <=> ActorMay(command, a)
BY DEF ActorMay

LEMMA TargetMayFrame ==
  ASSUME NEW c, calls'[c] = calls[c], accounts'[calls[c].target] = accounts[calls[c].target],
         recoverable' = recoverable \/ calls[c].command # "RECOVER_SUPERADMIN"
  PROVE  TargetMay(c)' <=> TargetMay(c)
BY DEF TargetMay

(* Nobody without an account passes a check, and only an account that      *)
(* waits for its deletion may cancel it.                                   *)
LEMMA ActorMayExists ==
  ASSUME NEW command, NEW a, ActorMay(command, a)
  PROVE  /\ accounts[a].status # "ABSENT"
         /\ command # "CANCEL_SELF_DELETION" => accounts[a].status = "ACTIVE"
BY DEF ActorMay

LEMMA TargetMayExists ==
  ASSUME NEW c, TargetMay(c)
  PROVE  accounts[calls[c].target].status # "ABSENT"
BY DEF TargetMay

(* A call stays sound while its record stays, its locks stay, and the rows *)
(* it has locked stay.                                                     *)
LEMMA OtherCallSound ==
  ASSUME IInv, NEW d \in Calls, calls'[d] = calls[d],
         \A x \in Accounts \cup Invitations : locks[x] = d => locks'[x] = d,
         \A a \in Accounts : locks[a] = d /\ accounts[a].status # "ABSENT" =>
           accounts'[a] = accounts[a] /\ (recoverable = a => recoverable' = a)
  PROVE  CallSound(d)'
<1> DEFINE call == calls[d]
<1>1. CallSound(d) /\ call \in Call
  BY DEF IInv, TypeOK
<1>2. CallShape(d)'
  BY <1>1 DEF CallSound, CallShape
<1>3. (ActorLocked(d)' <=> ActorLocked(d)) /\ (TargetLocked(d)' <=> TargetLocked(d))
  BY DEF ActorLocked, TargetLocked
<1>4. ActorLocked(d) => call.actor \in Accounts /\ locks[call.actor] = d
  BY <1>1 DEF CallSound, CallShape, LocksHeld, ActorLocked
<1>5. call.pc \in {"target", "counted"} =>
        call.target \in Accounts \cup Invitations /\ locks[call.target] = d
  BY <1>1 DEF CallSound, CallShape, LocksHeld, OnAnother
<1>6. TargetLocked(d) => call.target \in Accounts /\ locks[call.target] = d
  BY <1>1 DEF CallSound, CallShape, LocksHeld, TargetLocked, OnAnother
<1>7. LocksHeld(d)'
  BY <1>1, <1>3, <1>4, <1>5 DEF LocksHeld
<1>8. ASSUME ActorLocked(d)
      PROVE  ActorMay(calls[d].command, calls[d].actor)'
               /\ (calls[d].role = accounts[calls[d].actor].role)'
  <2>1. ActorMay(call.command, call.actor) /\ call.role = accounts[call.actor].role
    BY <1>1, <1>8 DEF CallSound, ReadsHold
  <2>2. accounts'[call.actor] = accounts[call.actor]
    BY <2>1, <1>4, <1>8, ActorMayExists
  <2>3. ActorMay(call.command, call.actor)' <=> ActorMay(call.command, call.actor)
    BY <2>2 DEF ActorMay
  <2> QED
    BY <2>1, <2>2, <2>3
<1>9. ASSUME TargetLocked(d)
      PROVE  TargetMay(d)'
  <2>1. TargetMay(d)
    BY <1>1, <1>9 DEF CallSound, ReadsHold
  <2>2. accounts'[call.target] = accounts[call.target]
    BY <2>1, <1>6, <1>9, TargetMayExists
  <2>3. recoverable' = recoverable \/ call.command # "RECOVER_SUPERADMIN"
    BY <2>1, <1>6, <1>9, TargetMayExists DEF TargetMay
  <2> QED
    BY <2>1, <2>2, <2>3, TargetMayFrame
<1> QED
  BY <1>2, <1>3, <1>7, <1>8, <1>9 DEF CallSound, ReadsHold

(* A transaction that ends leaves every call sound, whatever it changed of *)
(* accounts that were unused, not locked, or locked by itself.             *)
LEMMA EndSound ==
  ASSUME IInv, NEW c \in Calls, End(c),
         \A a \in Accounts : locks[a] \notin {None, c} /\ accounts[a].status # "ABSENT" =>
           accounts'[a] = accounts[a] /\ (recoverable = a => recoverable' = a)
  PROVE  /\ \A d \in Calls : CallSound(d)'
         /\ locks' \in [Accounts \cup Invitations -> Calls \cup {None}]
         /\ calls' \in [Calls -> Call]
<1>1. locks \in [Accounts \cup Invitations -> Calls \cup {None}] /\ calls \in [Calls -> Call]
  BY DEF IInv, TypeOK
<1>2. Idle \in Call
  BY DEF Idle, Call, Roles
<1>3. calls' = [calls EXCEPT ![c] = Idle]
  BY DEF End
<1>4. \A x \in Accounts \cup Invitations : locks'[x] = IF locks[x] = c THEN None ELSE locks[x]
  BY <1>1 DEF End
<1>5. locks' \in [Accounts \cup Invitations -> Calls \cup {None}]
  BY <1>1 DEF End
<1>6. CallSound(c)'
  <2>1. calls'[c] = Idle
    BY <1>1, <1>3
  <2> QED
    BY <2>1 DEF CallSound, CallShape, LocksHeld, ReadsHold, ActorLocked, TargetLocked, Idle,
                OnSelf, OnAnother
<1>7. ASSUME NEW d \in Calls, d # c
      PROVE  CallSound(d)'
  <2>1. calls'[d] = calls[d]
    BY <1>1, <1>3, <1>7
  <2>2. \A x \in Accounts \cup Invitations : locks[x] = d => locks'[x] = d
    BY <1>4, <1>7
  <2>3. d # None
    BY NoneAssumption
  <2> QED
    BY <2>1, <2>2, <2>3, <1>7, OtherCallSound
<1> QED
  BY <1>1, <1>2, <1>3, <1>5, <1>6, <1>7

(* A call that takes a step of its own, changing no row and taking no lock *)
(* of another, leaves the other calls sound.                               *)
LEMMA StepSound ==
  ASSUME IInv, NEW c \in Calls, NEW call \in Call, UNCHANGED <<accounts, recoverable>>,
         calls' = [calls EXCEPT ![c] = call], CallSound(c)',
         \/ UNCHANGED locks
         \/ \E x \in Accounts \cup Invitations : Free(c, x) /\ Lock(c, x)
  PROVE  /\ \A d \in Calls : CallSound(d)'
         /\ locks' \in [Accounts \cup Invitations -> Calls \cup {None}]
         /\ calls' \in [Calls -> Call]
<1>1. locks \in [Accounts \cup Invitations -> Calls \cup {None}] /\ calls \in [Calls -> Call]
  BY DEF IInv, TypeOK
<1>2. locks' \in [Accounts \cup Invitations -> Calls \cup {None}]
  BY <1>1 DEF Lock
<1>3. ASSUME NEW d \in Calls, d # c
      PROVE  CallSound(d)'
  <2>1. calls'[d] = calls[d]
    BY <1>1, <1>3
  <2>2. \A x \in Accounts \cup Invitations : locks[x] = d => locks'[x] = d
    BY <1>1, <1>3, NoneAssumption DEF Lock, Free
  <2> QED
    BY <2>1, <2>2, OtherCallSound
<1> QED
  BY <1>1, <1>2, <1>3

(* A command that is given locks nothing yet. *)
LEMMA GiveSound ==
  ASSUME IInv, NEW c \in Calls, NEW command, NEW actor \in Accounts \cup {None},
         NEW target \in Accounts \cup Invitations \cup {None},
         NEW argument \in Roles \cup {"ACTIVE", "DISABLED", "NONE"},
         NEW pc \in {"begun", "resolved"}, Give(c, command, actor, target, argument, pc),
         pc = "resolved" => command \notin OnSelf \cup OnAnother,
         command \in OnSelf \cup OnAnother \cup {"CREATE_INVITATION", "LOGOUT_ALL"} => actor \in Accounts,
         command \in OnAnother \cup {"RESET_ACCOUNT_PASSWORD", "RECOVER_SUPERADMIN", "LOGIN"}
           => target \in Accounts,
         command \in {"REGISTER_WITH_INVITATION", "REVOKE_INVITATION"} => target \in Invitations,
         command = "SET_ACCOUNT_ROLE" => argument \in Roles,
         command = "SET_ACCOUNT_STATUS" => argument \in {"ACTIVE", "DISABLED"},
         command = "CREATE_ACCOUNT" => argument \in {"USER", "ADMIN"}
  PROVE  IInv'
<1> DEFINE call == [pc |-> pc, command |-> command, actor |-> actor,
                    role |-> IF actor = None THEN "USER" ELSE accounts[actor].role,
                    target |-> target, argument |-> argument]
<1>1. TypeOK
  BY DEF IInv
<1>2. call \in Call
  BY <1>1 DEF TypeOK, Call, Roles, Give
<1>3. calls' = [calls EXCEPT ![c] = call]
      /\ UNCHANGED <<accounts, sessions, invitations, recoverable, locks>>
  BY DEF Give
<1>4. calls'[c] = call
  BY <1>1, <1>3 DEF TypeOK
<1>5. CallShape(c)'
  BY <1>4 DEF CallShape, Give
<1>6. ~ActorLocked(c)' /\ ~TargetLocked(c)' /\ ~(calls'[c].pc \in {"target", "counted"})
  BY <1>4 DEF ActorLocked, TargetLocked
<1>7. CallSound(c)'
  BY <1>5, <1>6 DEF CallSound, LocksHeld, ReadsHold
<1>8. (\A d \in Calls : CallSound(d)') /\ calls' \in [Calls -> Call]
  BY <1>2, <1>3, <1>7, StepSound
<1> QED
  BY <1>1, <1>3, <1>8 DEF IInv, TypeOK

(* Commands are given with what they need. *)
LEMMA BeginKeeps ==
  ASSUME IInv, NEW c \in Calls, NEW actor \in Accounts, Begin(c, actor)
  PROVE  IInv'
<1>1. CASE \E command \in Commands \cap OnSelf : Give(c, command, actor, None, "NONE", "begun")
  <2>1. PICK command \in Commands \cap OnSelf : Give(c, command, actor, None, "NONE", "begun")
    BY <1>1
  <2>2. command \notin OnAnother \cup {"RESET_ACCOUNT_PASSWORD", "RECOVER_SUPERADMIN", "LOGIN",
                     "REGISTER_WITH_INVITATION", "REVOKE_INVITATION", "SET_ACCOUNT_ROLE",
                     "SET_ACCOUNT_STATUS", "CREATE_ACCOUNT"}
    BY DEF OnSelf, OnAnother
  <2> QED
    BY <2>1, <2>2, GiveSound
<1>2. CASE \E command \in Commands \cap OnAnother, target \in Accounts :
             \E argument \in Argument(command) :
               Give(c, command, actor, target, argument, "begun")
  <2>1. PICK command \in Commands \cap OnAnother, target \in Accounts :
               \E argument \in Argument(command) :
                 Give(c, command, actor, target, argument, "begun")
    BY <1>2
  <2>2. PICK argument \in Argument(command) : Give(c, command, actor, target, argument, "begun")
    BY <2>1
  <2>3. /\ argument \in Roles \cup {"ACTIVE", "DISABLED", "NONE"}
        /\ command = "SET_ACCOUNT_ROLE" => argument \in Roles
        /\ command = "SET_ACCOUNT_STATUS" => argument \in {"ACTIVE", "DISABLED"}
    BY <2>1, <2>2 DEF Argument, OnAnother
  <2>4. command \notin {"REGISTER_WITH_INVITATION", "REVOKE_INVITATION", "CREATE_ACCOUNT"}
    BY DEF OnAnother
  <2> QED
    BY <2>2, <2>3, <2>4, GiveSound
<1> QED
  BY <1>1, <1>2 DEF Begin

LEMMA ResolveKeeps ==
  ASSUME IInv, NEW c \in Calls, NEW actor \in Accounts, ResolveActor(c, actor)
  PROVE  IInv'
<1>1. ASSUME NEW command \in {"CREATE_INVITATION", "LOGOUT_ALL"},
             Give(c, command, actor, None, "NONE", "resolved")
      PROVE  IInv'
  BY <1>1, GiveSound DEF OnSelf, OnAnother
<1>2. ASSUME NEW target \in Accounts,
             Give(c, "RESET_ACCOUNT_PASSWORD", actor, target, "NONE", "resolved")
      PROVE  IInv'
  BY <1>2, GiveSound DEF OnSelf, OnAnother
<1>3. ASSUME NEW i \in Invitations,
             Give(c, "REVOKE_INVITATION", actor, i, "NONE", "resolved")
      PROVE  IInv'
  BY <1>3, GiveSound DEF OnSelf, OnAnother
<1>4. ASSUME NEW role \in {"USER", "ADMIN"},
             Give(c, "CREATE_ACCOUNT", actor, None, role, "resolved")
      PROVE  IInv'
  BY <1>4, GiveSound DEF OnSelf, OnAnother, Roles
<1> QED
  BY <1>1, <1>2, <1>3, <1>4 DEF ResolveActor

LEMMA GivenWithoutActor ==
  ASSUME IInv, NEW c \in Calls, NEW a \in Accounts,
         BeginRecovery(c, a) \/ ReadLogin(c, a)
  PROVE  IInv'
<1>1. CASE Give(c, "RECOVER_SUPERADMIN", None, a, "NONE", "begun")
  BY <1>1, GiveSound DEF OnSelf, OnAnother
<1>2. CASE Give(c, "LOGIN", None, a, "NONE", "resolved")
  BY <1>2, GiveSound DEF OnSelf, OnAnother
<1> QED
  BY <1>1, <1>2 DEF BeginRecovery, ReadLogin

LEMMA BeginRegistrationKeeps ==
  ASSUME IInv, NEW c \in Calls, NEW i \in Invitations, BeginRegistration(c, i)
  PROVE  IInv'
BY GiveSound DEF BeginRegistration, OnSelf, OnAnother

(* A call that ends without changing an account. *)
LEMMA EndedKeeps ==
  ASSUME IInv, NEW c \in Calls, End(c), UNCHANGED <<accounts, recoverable>>,
         sessions' \subseteq Accounts,
         invitations' \in [Invitations -> [state : InvitationStates, by : Accounts \cup {None},
                                           user : Accounts \cup {None}]]
  PROVE  IInv'
<1>1. /\ \A d \in Calls : CallSound(d)'
      /\ locks' \in [Accounts \cup Invitations -> Calls \cup {None}]
      /\ calls' \in [Calls -> Call]
  BY EndSound
<1> QED
  BY <1>1 DEF IInv, TypeOK

(* The locks of a call. *)
LEMMA LockActorKeeps ==
  ASSUME IInv, NEW c \in Calls, LockActor(c)
  PROVE  IInv'
<1> DEFINE call == [calls[c] EXCEPT !.pc = "actor", !.role = accounts[calls[c].actor].role]
<1>1. /\ TypeOK /\ CallSound(c) /\ calls \in [Calls -> Call] /\ calls[c] \in Call
      /\ sessions \subseteq Accounts
      /\ invitations \in [Invitations -> [state : InvitationStates, by : Accounts \cup {None},
                                          user : Accounts \cup {None}]]
      /\ locks \in [Accounts \cup Invitations -> Calls \cup {None}]
  BY DEF IInv, TypeOK
<1>2. UNCHANGED <<accounts, sessions, invitations, recoverable>>
  BY DEF LockActor
<1>3. CASE End(c)
  BY <1>1, <1>2, <1>3, EndedKeeps
<1>4. CASE /\ ActorMay(calls[c].command, calls[c].actor)
           /\ Lock(c, calls[c].actor)
           /\ calls' = [calls EXCEPT ![c] = call]
  <2>1. calls[c].actor \in Accounts /\ calls[c].pc = "begun" /\ Free(c, calls[c].actor)
    BY <1>1 DEF LockActor, CallSound, CallShape
  <2>2. call \in Call /\ calls'[c] = call
    BY <1>1, <1>4, <2>1 DEF TypeOK, Call
  <2>3. CallShape(c)'
    BY <1>1, <2>1, <2>2 DEF CallSound, CallShape, LockActor
  <2>4. locks'[calls[c].actor] = c
    BY <1>1, <1>4, <2>1 DEF Lock
  <2>5. LocksHeld(c)'
    BY <2>2, <2>4 DEF LocksHeld, ActorLocked
  <2>6. ActorMay(calls[c].command, calls[c].actor)'
    BY <1>2, <1>4, <2>2 DEF ActorMay
  <2>7. ReadsHold(c)'
    BY <1>2, <2>2, <2>6 DEF ReadsHold, TargetLocked
  <2>8. /\ \A d \in Calls : CallSound(d)'
        /\ locks' \in [Accounts \cup Invitations -> Calls \cup {None}]
        /\ calls' \in [Calls -> Call]
    BY <1>2, <1>4, <2>1, <2>2, <2>3, <2>5, <2>7, StepSound DEF CallSound
  <2> QED
    BY <1>1, <1>2, <2>8 DEF IInv, TypeOK
<1> QED
  BY <1>3, <1>4 DEF LockActor

(* An account the call may change is locked for it. *)
LEMMA LockTargetKeeps ==
  ASSUME IInv, NEW c \in Calls, LockTarget(c)
  PROVE  IInv'
<1> DEFINE call == [calls[c] EXCEPT !.pc = "target"]
<1>1. /\ TypeOK /\ CallSound(c) /\ calls \in [Calls -> Call] /\ calls[c] \in Call
      /\ sessions \subseteq Accounts
      /\ invitations \in [Invitations -> [state : InvitationStates, by : Accounts \cup {None},
                                          user : Accounts \cup {None}]]
      /\ locks \in [Accounts \cup Invitations -> Calls \cup {None}]
  BY DEF IInv, TypeOK
<1>2. UNCHANGED <<accounts, sessions, invitations, recoverable>>
  BY DEF LockTarget
<1>3. CASE End(c)
  BY <1>1, <1>2, <1>3, EndedKeeps
<1>4. CASE TargetMay(c) /\ Lock(c, calls[c].target) /\ calls' = [calls EXCEPT ![c] = call]
  <2>1. /\ calls[c].target \in Accounts /\ Free(c, calls[c].target)
        /\ calls[c].command \in OnAnother \cup {"RESET_ACCOUNT_PASSWORD", "RECOVER_SUPERADMIN"}
    BY <1>1 DEF CallSound, CallShape, LockTarget, LocksTarget
  <2>2. call \in Call /\ calls'[c] = call
    BY <1>1, <1>4 DEF Call
  <2>3. CallShape(c)'
    BY <1>1, <2>1, <2>2 DEF CallSound, CallShape, LockTarget, LocksTarget
  <2>4. locks'[calls[c].target] = c
        /\ \A x \in Accounts \cup Invitations : locks[x] = c => locks'[x] = c
    BY <1>1, <1>4, <2>1 DEF Lock
  <2>5. ActorLocked(c)' => ActorLocked(c)
    BY <2>1, <2>2 DEF ActorLocked, LockTarget, LocksTarget, OnSelf, OnAnother
  <2>6. LocksHeld(c)'
    <3>1. ActorLocked(c) => locks[calls[c].actor] = c /\ calls[c].actor \in Accounts
      BY <1>1 DEF CallSound, CallShape, LocksHeld, ActorLocked
    <3> QED
      BY <2>2, <2>4, <2>5, <3>1 DEF LocksHeld
  <2>7. ReadsHold(c)'
    <3>1. ActorLocked(c)' => ActorMay(calls[c].command, calls[c].actor)'
                               /\ (calls[c].role = accounts[calls[c].actor].role)'
      BY <1>1, <1>2, <2>2, <2>5 DEF CallSound, ReadsHold, ActorMay
    <3>2. TargetMay(c)'
      BY <1>2, <1>4, <2>2 DEF TargetMay
    <3> QED
      BY <3>1, <3>2 DEF ReadsHold
  <2>8. /\ \A d \in Calls : CallSound(d)'
        /\ locks' \in [Accounts \cup Invitations -> Calls \cup {None}]
        /\ calls' \in [Calls -> Call]
    BY <1>2, <1>4, <2>1, <2>2, <2>3, <2>6, <2>7, StepSound DEF CallSound
  <2> QED
    BY <1>1, <1>2, <2>8 DEF IInv, TypeOK
<1> QED
  BY <1>3, <1>4 DEF LockTarget

LEMMA LockInvitationKeeps ==
  ASSUME IInv, NEW c \in Calls, LockInvitation(c)
  PROVE  IInv'
<1> DEFINE call == [calls[c] EXCEPT !.pc = "target"]
<1>1. /\ TypeOK /\ CallSound(c) /\ calls \in [Calls -> Call] /\ calls[c] \in Call
      /\ sessions \subseteq Accounts
      /\ invitations \in [Invitations -> [state : InvitationStates, by : Accounts \cup {None},
                                          user : Accounts \cup {None}]]
      /\ locks \in [Accounts \cup Invitations -> Calls \cup {None}]
  BY DEF IInv, TypeOK
<1>2. UNCHANGED <<accounts, sessions, invitations, recoverable>>
  BY DEF LockInvitation
<1>3. CASE End(c)
  BY <1>1, <1>2, <1>3, EndedKeeps
<1>4. CASE Lock(c, calls[c].target) /\ calls' = [calls EXCEPT ![c] = call]
  <2>1. /\ calls[c].target \in Invitations /\ Free(c, calls[c].target)
        /\ calls[c].command = "REGISTER_WITH_INVITATION"
    BY <1>1 DEF CallSound, CallShape, LockInvitation
  <2>2. call \in Call /\ calls'[c] = call
    BY <1>1, <1>4 DEF Call
  <2>3. CallShape(c)'
    BY <1>1, <2>1, <2>2 DEF CallSound, CallShape, LockInvitation
  <2>4. locks'[calls[c].target] = c
    BY <1>1, <1>4, <2>1 DEF Lock
  <2>5. ~ActorLocked(c)' /\ ~TargetLocked(c)'
    BY <2>1, <2>2 DEF ActorLocked, TargetLocked, OnSelf, OnAnother
  <2>6. CallSound(c)'
    BY <2>2, <2>3, <2>4, <2>5 DEF CallSound, LocksHeld, ReadsHold
  <2>7. /\ \A d \in Calls : CallSound(d)'
        /\ locks' \in [Accounts \cup Invitations -> Calls \cup {None}]
        /\ calls' \in [Calls -> Call]
    BY <1>2, <1>4, <2>1, <2>2, <2>6, StepSound
  <2> QED
    BY <1>1, <1>2, <2>7 DEF IInv, TypeOK
<1> QED
  BY <1>3, <1>4 DEF LockInvitation

LEMMA CountOthersKeeps ==
  ASSUME IInv, NEW c \in Calls, CountOthers(c)
  PROVE  IInv'
<1> DEFINE call == [calls[c] EXCEPT !.pc = "counted"]
<1>1. /\ TypeOK /\ CallSound(c) /\ calls \in [Calls -> Call] /\ calls[c] \in Call
      /\ sessions \subseteq Accounts
      /\ invitations \in [Invitations -> [state : InvitationStates, by : Accounts \cup {None},
                                          user : Accounts \cup {None}]]
  BY DEF IInv, TypeOK
<1>2. UNCHANGED <<accounts, sessions, invitations, recoverable>>
  BY DEF CountOthers
<1>3. CASE End(c)
  BY <1>1, <1>2, <1>3, EndedKeeps
<1>4. CASE calls' = [calls EXCEPT ![c] = call] /\ UNCHANGED locks
  <2>1. /\ calls[c].pc = "target"
        /\ calls[c].command \in {"SET_ACCOUNT_ROLE", "SET_ACCOUNT_STATUS", "RECOVER_SUPERADMIN"}
    BY DEF CountOthers, TakesSuperadmin
  <2>2. call \in Call /\ calls'[c] = call
    BY <1>1, <1>4 DEF Call
  <2>3. CallShape(c)' /\ LocksHeld(c)'
    BY <1>1, <1>4, <2>1, <2>2 DEF CallSound, CallShape, LocksHeld, ActorLocked
  <2>4. ReadsHold(c)'
    BY <1>1, <1>2, <2>1, <2>2
    DEF CallSound, ReadsHold, ActorLocked, TargetLocked, ActorMay, TargetMay
  <2>5. /\ \A d \in Calls : CallSound(d)'
        /\ locks' \in [Accounts \cup Invitations -> Calls \cup {None}]
        /\ calls' \in [Calls -> Call]
    BY <1>2, <1>4, <2>2, <2>3, <2>4, StepSound DEF CallSound
  <2> QED
    BY <1>1, <1>2, <2>5 DEF IInv, TypeOK
<1> QED
  BY <1>3, <1>4 DEF CountOthers
-----------------------------------------------------------------------------
(* Commits. *)
AccountRow == [role : Roles, status : Statuses, kind : {"PERMANENT", "TEMPORARY"}]
InvitationRow == [state : InvitationStates, by : Accounts \cup {None}, user : Accounts \cup {None}]

(* A call that ends with one account written that it has locked, or that   *)
(* nobody had.                                                             *)
LEMMA WriteKeeps ==
  ASSUME IInv, NEW c \in Calls, End(c), NEW a \in Accounts, NEW row \in AccountRow,
         locks[a] = c \/ accounts[a].status = "ABSENT",
         accounts' = [accounts EXCEPT ![a] = row], UNCHANGED recoverable,
         sessions' \subseteq Accounts, invitations' \in [Invitations -> InvitationRow]
  PROVE  IInv'
<1>1. accounts \in [Accounts -> AccountRow] /\ recoverable \in Accounts \cup {None}
  BY DEF IInv, TypeOK, AccountRow
<1>2. accounts' \in [Accounts -> AccountRow] /\ \A b \in Accounts \ {a} : accounts'[b] = accounts[b]
  BY <1>1
<1>3. /\ \A d \in Calls : CallSound(d)'
      /\ locks' \in [Accounts \cup Invitations -> Calls \cup {None}]
      /\ calls' \in [Calls -> Call]
  BY <1>2, EndSound
<1> QED
  BY <1>1, <1>2, <1>3 DEF IInv, TypeOK, AccountRow, InvitationRow

(* What a call that is about to commit has locked. *)
LEMMA Holds ==
  ASSUME IInv, NEW c \in Calls
  PROVE  /\ calls[c].pc = "actor" =>
              /\ calls[c].actor \in Accounts /\ locks[calls[c].actor] = c
              /\ ActorMay(calls[c].command, calls[c].actor)
         /\ /\ calls[c].pc \in {"target", "counted"}
            /\ calls[c].command # "REGISTER_WITH_INVITATION"
            => /\ calls[c].target \in Accounts /\ locks[calls[c].target] = c
               /\ TargetMay(c)
         /\ calls[c].pc \in {"target", "counted"} /\ calls[c].command \in OnAnother =>
              /\ calls[c].actor \in Accounts
              /\ ActorMay(calls[c].command, calls[c].actor)
              /\ calls[c].role = accounts[calls[c].actor].role
<1>1. CallSound(c)
  BY DEF IInv
<1> QED
  BY <1>1 DEF CallSound, CallShape, LocksHeld, ReadsHold, ActorLocked, TargetLocked, OnSelf, OnAnother

LEMMA Typed ==
  ASSUME IInv
  PROVE  /\ accounts \in [Accounts -> AccountRow] /\ sessions \subseteq Accounts
         /\ invitations \in [Invitations -> InvitationRow]
         /\ recoverable \in Accounts \cup {None}
BY DEF IInv, TypeOK, AccountRow, InvitationRow

(* Writing one field of an account leaves an account. *)
LEMMA RowWritten ==
  ASSUME NEW row \in AccountRow
  PROVE  /\ \A role \in Roles : [row EXCEPT !.role = role] \in AccountRow
         /\ \A status \in Statuses : [row EXCEPT !.status = status] \in AccountRow
         /\ \A kind \in {"PERMANENT", "TEMPORARY"} : [row EXCEPT !.kind = kind] \in AccountRow
BY DEF AccountRow

LEMMA TargetCommitKeeps ==
  ASSUME IInv, NEW c \in Calls,
         SetAccountRole(c) \/ SetAccountStatus(c) \/ RequestAccountDeletion(c)
           \/ ResetAccountPassword(c) \/ RecoverSuperadmin(c)
  PROVE  IInv'
<1> DEFINE a == calls[c].target
<1>1. /\ a \in Accounts /\ locks[a] = c
      /\ calls[c].command = "SET_ACCOUNT_ROLE" => calls[c].argument \in Roles
      /\ calls[c].command = "SET_ACCOUNT_STATUS" => calls[c].argument \in Statuses
  <2>1. calls[c].pc \in {"target", "counted"} /\ calls[c].command # "REGISTER_WITH_INVITATION"
    BY DEF SetAccountRole, SetAccountStatus, RequestAccountDeletion, ResetAccountPassword,
           RecoverSuperadmin, Decided
  <2>2. CallShape(c)
    BY DEF IInv, CallSound
  <2> QED
    BY <2>1, <2>2, Holds DEF CallShape, Statuses
<1>2. accounts[a] \in AccountRow /\ "PENDING_DELETION" \in Statuses
  BY <1>1, Typed DEF Statuses
<1>3. CASE SetAccountRole(c)
  <2>1. accounts' = [accounts EXCEPT ![a] = [accounts[a] EXCEPT !.role = calls[c].argument]]
    BY <1>3 DEF SetAccountRole
  <2>2. [accounts[a] EXCEPT !.role = calls[c].argument] \in AccountRow
    BY <1>1, <1>2, <1>3, RowWritten DEF SetAccountRole
  <2>3. /\ End(c) /\ UNCHANGED recoverable /\ sessions' \subseteq Accounts
        /\ invitations' \in [Invitations -> InvitationRow]
    BY <1>1, <1>3, Typed DEF SetAccountRole
  <2> QED
    BY <1>1, <2>1, <2>2, <2>3, WriteKeeps
<1>4. CASE SetAccountStatus(c)
  <2>1. accounts' = [accounts EXCEPT ![a] = [accounts[a] EXCEPT !.status = calls[c].argument]]
    BY <1>4 DEF SetAccountStatus
  <2>2. [accounts[a] EXCEPT !.status = calls[c].argument] \in AccountRow
    BY <1>1, <1>2, <1>4, RowWritten DEF SetAccountStatus
  <2>3. /\ End(c) /\ UNCHANGED recoverable /\ sessions' \subseteq Accounts
        /\ invitations' \in [Invitations -> InvitationRow]
    BY <1>1, <1>4, Typed DEF SetAccountStatus
  <2> QED
    BY <1>1, <2>1, <2>2, <2>3, WriteKeeps
<1>5. CASE RequestAccountDeletion(c)
  <2>1. accounts' = [accounts EXCEPT ![a] = [accounts[a] EXCEPT !.status = "PENDING_DELETION"]]
    BY <1>5 DEF RequestAccountDeletion, AwaitDeletion
  <2>2. [accounts[a] EXCEPT !.status = "PENDING_DELETION"] \in AccountRow
    BY <1>2, RowWritten
  <2>3. /\ End(c) /\ UNCHANGED recoverable /\ sessions' \subseteq Accounts
        /\ invitations' \in [Invitations -> InvitationRow]
    BY <1>1, <1>5, Typed DEF RequestAccountDeletion, AwaitDeletion
  <2> QED
    BY <1>1, <2>1, <2>2, <2>3, WriteKeeps
<1>6. CASE ResetAccountPassword(c)
  <2>1. accounts' = [accounts EXCEPT ![a] = [accounts[a] EXCEPT !.kind = "TEMPORARY"]]
    BY <1>6 DEF ResetAccountPassword
  <2>2. [accounts[a] EXCEPT !.kind = "TEMPORARY"] \in AccountRow
    BY <1>2, RowWritten
  <2>3. /\ End(c) /\ UNCHANGED recoverable /\ sessions' \subseteq Accounts
        /\ invitations' \in [Invitations -> InvitationRow]
    BY <1>1, <1>6, Typed DEF ResetAccountPassword
  <2> QED
    BY <1>1, <2>1, <2>2, <2>3, WriteKeeps
<1>7. CASE RecoverSuperadmin(c)
  <2>1. accounts' = [accounts EXCEPT ![a] = [accounts[a] EXCEPT !.kind = "PERMANENT"]]
    BY <1>7 DEF RecoverSuperadmin
  <2>2. [accounts[a] EXCEPT !.kind = "PERMANENT"] \in AccountRow
    BY <1>2, RowWritten
  <2>3. /\ End(c) /\ UNCHANGED recoverable /\ sessions' \subseteq Accounts
        /\ invitations' \in [Invitations -> InvitationRow]
    BY <1>1, <1>7, Typed DEF RecoverSuperadmin
  <2> QED
    BY <1>1, <2>1, <2>2, <2>3, WriteKeeps
<1> QED
  BY <1>3, <1>4, <1>5, <1>6, <1>7

LEMMA SelfCommitKeeps ==
  ASSUME IInv, NEW c \in Calls,
         RequestSelfDeletion(c) \/ CancelSelfDeletion(c) \/ ChangePassword(c)
  PROVE  IInv'
<1> DEFINE a == calls[c].actor
<1>1. a \in Accounts /\ locks[a] = c
  BY Holds DEF RequestSelfDeletion, CancelSelfDeletion, ChangePassword
<1>2. accounts[a] \in AccountRow /\ {"ACTIVE", "PENDING_DELETION"} \subseteq Statuses
  BY <1>1, Typed DEF Statuses
<1>3. CASE RequestSelfDeletion(c)
  <2>1. accounts' = [accounts EXCEPT ![a] = [accounts[a] EXCEPT !.status = "PENDING_DELETION"]]
    BY <1>3 DEF RequestSelfDeletion, AwaitDeletion
  <2>2. [accounts[a] EXCEPT !.status = "PENDING_DELETION"] \in AccountRow
    BY <1>2, RowWritten
  <2>3. /\ End(c) /\ UNCHANGED recoverable /\ sessions' \subseteq Accounts
        /\ invitations' \in [Invitations -> InvitationRow]
    BY <1>1, <1>3, Typed DEF RequestSelfDeletion, AwaitDeletion
  <2> QED
    BY <1>1, <2>1, <2>2, <2>3, WriteKeeps
<1>4. CASE CancelSelfDeletion(c)
  <2>1. accounts' = [accounts EXCEPT ![a] = [accounts[a] EXCEPT !.status = "ACTIVE"]]
    BY <1>4 DEF CancelSelfDeletion
  <2>2. [accounts[a] EXCEPT !.status = "ACTIVE"] \in AccountRow
    BY <1>2, RowWritten
  <2>3. /\ End(c) /\ UNCHANGED recoverable /\ sessions' \subseteq Accounts
        /\ invitations' \in [Invitations -> InvitationRow]
    BY <1>1, <1>4, Typed DEF CancelSelfDeletion
  <2> QED
    BY <1>1, <2>1, <2>2, <2>3, WriteKeeps
<1>5. CASE ChangePassword(c)
  <2>1. accounts' = [accounts EXCEPT ![a] = [accounts[a] EXCEPT !.kind = "PERMANENT"]]
    BY <1>5 DEF ChangePassword
  <2>2. [accounts[a] EXCEPT !.kind = "PERMANENT"] \in AccountRow
    BY <1>2, RowWritten
  <2>3. /\ End(c) /\ UNCHANGED recoverable /\ sessions' \subseteq Accounts
        /\ invitations' \in [Invitations -> InvitationRow]
    BY <1>1, <1>5, Typed DEF ChangePassword
  <2> QED
    BY <1>1, <2>1, <2>2, <2>3, WriteKeeps
<1> QED
  BY <1>3, <1>4, <1>5

LEMMA InsertKeeps ==
  ASSUME IInv, NEW c \in Calls, NEW a \in Accounts,
         CreateAccount(c, a) \/ RegisterWithInvitation(c, a)
  PROVE  IInv'
<1>1. CallShape(c)
  BY DEF IInv, CallSound
<1>2. CASE CreateAccount(c, a)
  <2>1. [role |-> calls[c].argument, status |-> "ACTIVE", kind |-> "TEMPORARY"] \in AccountRow
    BY <1>1, <1>2 DEF CreateAccount, CallShape, AccountRow, Roles, Statuses
  <2> QED
    BY <1>2, <2>1, Typed, WriteKeeps DEF CreateAccount, Insert
<1>3. CASE RegisterWithInvitation(c, a)
  <2>1. [role |-> "USER", status |-> "ACTIVE", kind |-> "PERMANENT"] \in AccountRow
    BY DEF AccountRow, Roles, Statuses
  <2>2. invitations' \in [Invitations -> InvitationRow]
    <3>1. calls[c].target \in Invitations
      BY <1>1, <1>3 DEF RegisterWithInvitation, CallShape
    <3> QED
      BY <1>3, <3>1, Typed DEF RegisterWithInvitation, InvitationRow, InvitationStates
  <2> QED
    BY <1>3, <2>1, <2>2, Typed, WriteKeeps DEF RegisterWithInvitation, Insert
<1> QED
  BY <1>2, <1>3

(* Commits that write no account. *)
LEMMA OtherCommitKeeps ==
  ASSUME IInv, NEW c \in Calls,
         \/ RevokeInvitation(c) \/ LogoutAll(c) \/ Login(c) \/ Abort(c)
         \/ \E i \in Invitations : CreateInvitation(c, i)
  PROVE  IInv'
<1>1. CallShape(c)
  BY DEF IInv, CallSound
<1>2. CASE RevokeInvitation(c)
  <2>1. invitations' \in [Invitations -> InvitationRow]
    <3>1. invitations \in [Invitations -> InvitationRow]
      BY Typed
    <3>2. CASE invitations[calls[c].target].state = "ACTIVE"
      <4>1. ASSUME NEW t \in Invitations
            PROVE  [invitations[t] EXCEPT !.state = "REVOKED"] \in InvitationRow
        BY <3>1 DEF InvitationRow, InvitationStates
      <4> QED
        BY <1>2, <3>1, <3>2, <4>1 DEF RevokeInvitation
    <3>3. CASE invitations[calls[c].target].state # "ACTIVE"
      BY <1>2, <3>1, <3>3 DEF RevokeInvitation
    <3> QED
      BY <3>2, <3>3
  <2> QED
    BY <1>2, <2>1, Typed, EndedKeeps DEF RevokeInvitation, InvitationRow
<1>3. CASE LogoutAll(c)
  BY <1>3, Typed, EndedKeeps DEF LogoutAll, InvitationRow
<1>4. CASE Login(c)
  BY <1>1, <1>4, Typed, EndedKeeps DEF Login, CallShape, InvitationRow
<1>5. CASE Abort(c)
  BY <1>5, Typed, EndedKeeps DEF Abort, InvitationRow
<1>6. ASSUME NEW i \in Invitations, CreateInvitation(c, i)
      PROVE  IInv'
  <2>1. calls[c].actor \in Accounts
    BY <1>1, <1>6 DEF CallShape, CreateInvitation
  <2>2. invitations' \in [Invitations -> InvitationRow]
    BY <1>6, <2>1, Typed DEF CreateInvitation, InvitationRow, InvitationStates
  <2> QED
    BY <1>6, <2>2, Typed, EndedKeeps DEF CreateInvitation, InvitationRow
<1> QED
  BY <1>2, <1>3, <1>4, <1>5, <1>6

-----------------------------------------------------------------------------
(* Steps without a call. *)
LEMMA UncalledKeeps ==
  ASSUME IInv, UNCHANGED <<locks, calls>>,
         accounts' \in [Accounts -> AccountRow], sessions' \subseteq Accounts,
         invitations' \in [Invitations -> InvitationRow], recoverable' \in Accounts \cup {None},
         \A a \in Accounts : locks[a] # None /\ accounts[a].status # "ABSENT" =>
           accounts'[a] = accounts[a] /\ (recoverable = a => recoverable' = a)
  PROVE  IInv'
<1>1. \A d \in Calls : d # None
  BY NoneAssumption
<1>2. \A d \in Calls : CallSound(d)'
  BY <1>1, OtherCallSound
<1> QED
  BY <1>2 DEF IInv, TypeOK, AccountRow, InvitationRow

LEMMA BootstrapKeeps ==
  ASSUME IInv, NEW a \in Accounts, BootstrapSuperadmin(a)
  PROVE  IInv'
<1>1. [role |-> "SUPERADMIN", status |-> "ACTIVE", kind |-> "PERMANENT"] \in AccountRow
  BY DEF AccountRow, Roles, Statuses
<1> QED
  BY <1>1, Typed, UncalledKeeps DEF BootstrapSuperadmin, Insert

LEMMA LogoutKeeps ==
  ASSUME IInv, NEW a \in Accounts, LogoutCurrent(a)
  PROVE  IInv'
BY Typed, UncalledKeeps DEF LogoutCurrent

LEMMA EraseKeeps ==
  ASSUME IInv, NEW a \in Accounts, EraseIdentityAccount(a)
  PROVE  IInv'
<1>1. accounts' \in [Accounts -> AccountRow]
      /\ \A b \in Accounts \ {a} : accounts'[b] = accounts[b]
  <2>1. accounts' = [accounts EXCEPT ![a] =
                       [accounts[a] EXCEPT !.status = "DELETED", !.kind = "PERMANENT"]]
    BY DEF EraseIdentityAccount
  <2>2. [accounts[a] EXCEPT !.status = "DELETED", !.kind = "PERMANENT"] \in AccountRow
    BY Typed DEF AccountRow, Statuses
  <2> QED
    BY <2>1, <2>2, Typed
<1>2. invitations' \in [Invitations -> InvitationRow]
  <2>1. \A i \in Invitations :
          /\ [state |-> "DELETED", by |-> None, user |-> None] \in InvitationRow
          /\ [invitations[i] EXCEPT !.user = IF @ = a THEN None ELSE @] \in InvitationRow
    BY Typed DEF InvitationRow, InvitationStates
  <2> QED
    BY <2>1 DEF EraseIdentityAccount
<1> QED
  BY <1>1, <1>2, Typed, UncalledKeeps DEF EraseIdentityAccount

-----------------------------------------------------------------------------
LEMMA InitInvariant == Init => IInv
<1> SUFFICES ASSUME Init
             PROVE  IInv
  OBVIOUS
<1>1. Idle \in Call /\ Absent \in AccountRow
  BY DEF Idle, Call, Absent, AccountRow, Roles, Statuses
<1>2. TypeOK
  BY <1>1 DEF Init, TypeOK, AccountRow, InvitationStates
<1>3. \A c \in Calls : CallSound(c)
  BY DEF Init, CallSound, CallShape, LocksHeld, ReadsHold, ActorLocked, TargetLocked, Idle,
         OnSelf, OnAnother
<1> QED
  BY <1>2, <1>3 DEF IInv

LEMMA StepInvariant == IInv /\ [Next]_vars => IInv'
<1> SUFFICES ASSUME IInv, [Next]_vars
             PROVE  IInv'
  OBVIOUS
<1>1. ASSUME NEW c \in Calls, NEW actor \in sessions, Begin(c, actor) \/ ResolveActor(c, actor)
      PROVE  IInv'
  BY <1>1, Typed, BeginKeeps, ResolveKeeps
<1>2. ASSUME NEW c \in Calls, NEW a \in Accounts, BeginRecovery(c, a) \/ ReadLogin(c, a)
      PROVE  IInv'
  BY <1>2, GivenWithoutActor
<1>3. ASSUME NEW c \in Calls, NEW i \in Invitations, BeginRegistration(c, i)
      PROVE  IInv'
  BY <1>3, BeginRegistrationKeeps
<1>4. ASSUME NEW c \in Calls,
             LockActor(c) \/ LockTarget(c) \/ LockInvitation(c) \/ CountOthers(c)
      PROVE  IInv'
  BY <1>4, LockActorKeeps, LockTargetKeeps, LockInvitationKeeps, CountOthersKeeps
<1>5. ASSUME NEW c \in Calls, Commit(c) \/ Abort(c)
      PROVE  IInv'
  BY <1>5, TargetCommitKeeps, SelfCommitKeeps, InsertKeeps, OtherCommitKeeps DEF Commit
<1>6. ASSUME NEW a \in Accounts,
             LogoutCurrent(a) \/ BootstrapSuperadmin(a) \/ EraseIdentityAccount(a)
      PROVE  IInv'
  BY <1>6, LogoutKeeps, BootstrapKeeps, EraseKeeps
<1>7. CASE UNCHANGED vars
  <2>1. \A d \in Calls : CallSound(d)'
    BY <1>7, OtherCallSound DEF vars
  <2> QED
    BY <1>7, <2>1 DEF IInv, TypeOK, vars
<1> QED
  BY <1>1, <1>2, <1>3, <1>4, <1>5, <1>6, <1>7 DEF Next

(* Every row and call has its type. *)
THEOREM TypeCorrect == Spec => []TypeOK
<1>1. IInv => TypeOK
  BY DEF IInv
<1> QED
  BY <1>1, InitInvariant, StepInvariant, PTL DEF Spec

(* Whatever happens in between, the actor of a command that changes an     *)
(* account, and the account it names, still are at the commit what the     *)
(* command requires (the row locks of the transaction).                    *)
THEOREM AuthorisedUntilCommitHolds == Spec => []AuthorisedUntilCommit
<1>1. IInv => AuthorisedUntilCommit
  BY DEF IInv, CallSound, ReadsHold, AuthorisedUntilCommit
<1> QED
  BY <1>1, InitInvariant, StepInvariant, PTL DEF Spec

-----------------------------------------------------------------------------
(* The last SUPERADMIN. *)
Unfounded ==
  /\ \A a \in Accounts : accounts[a].status = "ABSENT"
  /\ sessions = {} /\ recoverable = None
  /\ \A i \in Invitations : invitations[i].state = "NONE"
  /\ \A c \in Calls : calls[c].pc = "idle"

Founded == Unfounded \/ \E a \in Accounts : Superadmin(a)

NamesAnother(c) == calls[c].command \in OnAnother => calls[c].target # calls[c].actor

Remains == Founded /\ \A c \in Calls : NamesAnother(c)

(* Before the bootstrap there is nothing but the bootstrap. *)
LEMMA UnfoundedStep ==
  ASSUME IInv, Unfounded, [Next]_vars
  PROVE  Founded'
<1>1. ASSUME NEW a \in Accounts, BootstrapSuperadmin(a)
      PROVE  Founded'
  <2>1. accounts'[a] = [role |-> "SUPERADMIN", status |-> "ACTIVE", kind |-> "PERMANENT"]
    BY <1>1, Typed DEF BootstrapSuperadmin, Insert
  <2> QED
    BY <2>1 DEF Founded, Superadmin
<1>2. ASSUME NEW c \in Calls, NEW a \in Accounts, BeginRecovery(c, a) \/ ReadLogin(c, a)
      PROVE  FALSE
  BY <1>2, NoneAssumption DEF Unfounded, BeginRecovery, ReadLogin
<1>3. ASSUME NEW c \in Calls, NEW i \in Invitations, BeginRegistration(c, i)
      PROVE  FALSE
  BY <1>3 DEF Unfounded, BeginRegistration
<1>4. ASSUME NEW c \in Calls,
             \/ LockActor(c) \/ LockTarget(c) \/ LockInvitation(c)
             \/ CountOthers(c) \/ Commit(c) \/ Abort(c)
      PROVE  FALSE
  <2>1. calls[c].pc = "idle"
    BY DEF Unfounded
  <2> QED
    BY <1>4, <2>1
    DEF LockActor, LockTarget, LocksTarget, LockInvitation, CountOthers, Commit, Abort, Decided,
        SetAccountRole, SetAccountStatus, RequestSelfDeletion, RequestAccountDeletion,
        CancelSelfDeletion, ChangePassword, ResetAccountPassword, RecoverSuperadmin,
        RevokeInvitation, LogoutAll, Login, CreateAccount, RegisterWithInvitation,
        CreateInvitation
<1>5. ASSUME NEW a \in Accounts, LogoutCurrent(a) \/ EraseIdentityAccount(a)
      PROVE  FALSE
  BY <1>5 DEF Unfounded, LogoutCurrent, EraseIdentityAccount
<1>6. CASE UNCHANGED vars
  BY <1>6 DEF vars, Founded, Unfounded
<1> QED
  BY <1>1, <1>2, <1>3, <1>4, <1>5, <1>6 DEF Next, Unfounded

(* Who demotes or disables a SUPERADMIN is one, and another account. *)
LEMMA TakingKeepsActor ==
  ASSUME IInv, NEW c \in Calls, NamesAnother(c), \E a \in Accounts : Superadmin(a),
         SetAccountRole(c) \/ SetAccountStatus(c)
  PROVE  \E a \in Accounts : Superadmin(a)'
<1> DEFINE actor == calls[c].actor
           target == calls[c].target
<1>1. /\ actor \in Accounts /\ target \in Accounts /\ target # actor
      /\ ActorMay(calls[c].command, actor) /\ TargetMay(c)
      /\ calls[c].role = accounts[actor].role
  BY Holds DEF SetAccountRole, SetAccountStatus, Decided, NamesAnother, OnAnother
<1>2. \A a \in Accounts \ {target} : accounts'[a] = accounts[a]
  BY Typed DEF SetAccountRole, SetAccountStatus
<1>3. CASE accounts[actor].role = "SUPERADMIN"
  BY <1>1, <1>2, <1>3 DEF Superadmin, ActorMay, SetAccountRole, SetAccountStatus
<1>4. CASE accounts[actor].role # "SUPERADMIN"
  <2>1. calls[c].command = "SET_ACCOUNT_STATUS" /\ accounts[actor].role = "ADMIN"
    BY <1>1, <1>4 DEF ActorMay, SetAccountRole, SetAccountStatus
  <2>2. accounts[target].role = "USER"
    BY <1>1, <2>1 DEF TargetMay
  <2>3. PICK a \in Accounts : Superadmin(a)
    OBVIOUS
  <2> QED
    BY <1>2, <2>2, <2>3 DEF Superadmin
<1> QED
  BY <1>3, <1>4

(* No other commit takes the role or the status of a SUPERADMIN. *)
LEMMA OthersKeepSuperadmin ==
  ASSUME IInv, NEW a \in Accounts, Superadmin(a),
         \/ \E c \in Calls : \/ RequestSelfDeletion(c) \/ RequestAccountDeletion(c)
                             \/ CancelSelfDeletion(c) \/ ChangePassword(c)
                             \/ ResetAccountPassword(c) \/ RecoverSuperadmin(c)
                             \/ \E b \in Accounts : CreateAccount(c, b)
                                                      \/ RegisterWithInvitation(c, b)
         \/ \E b \in Accounts : BootstrapSuperadmin(b) \/ EraseIdentityAccount(b)
  PROVE  Superadmin(a)'
<1>1. accounts \in [Accounts -> AccountRow] /\ accounts[a] \in AccountRow
  BY Typed
<1>2. ASSUME NEW c \in Calls, RequestSelfDeletion(c)
      PROVE  Superadmin(a)'
  <2>1. accounts[calls[c].actor].role = "USER" /\ calls[c].actor \in Accounts
    BY <1>2, Holds DEF RequestSelfDeletion, ActorMay
  <2> QED
    BY <1>1, <1>2, <2>1 DEF RequestSelfDeletion, AwaitDeletion, Superadmin
<1>3. ASSUME NEW c \in Calls, RequestAccountDeletion(c)
      PROVE  Superadmin(a)'
  <2>1. accounts[calls[c].target].role = "USER" /\ calls[c].target \in Accounts
    BY <1>3, Holds DEF RequestAccountDeletion, TargetMay
  <2> QED
    BY <1>1, <1>3, <2>1 DEF RequestAccountDeletion, AwaitDeletion, Superadmin
<1>4. ASSUME NEW c \in Calls, CancelSelfDeletion(c)
      PROVE  Superadmin(a)'
  BY <1>1, <1>4 DEF CancelSelfDeletion, Superadmin, AccountRow
<1>5. ASSUME NEW c \in Calls,
             ChangePassword(c) \/ ResetAccountPassword(c) \/ RecoverSuperadmin(c)
      PROVE  Superadmin(a)'
  BY <1>1, <1>5 DEF ChangePassword, ResetAccountPassword, RecoverSuperadmin, Superadmin, AccountRow
<1>6. ASSUME NEW c \in Calls, NEW b \in Accounts,
             CreateAccount(c, b) \/ RegisterWithInvitation(c, b) \/ BootstrapSuperadmin(b)
      PROVE  Superadmin(a)'
  <2>1. Insert(b, calls[c].argument, "TEMPORARY") \/ Insert(b, "USER", "PERMANENT")
          \/ Insert(b, "SUPERADMIN", "PERMANENT")
    BY <1>6 DEF CreateAccount, RegisterWithInvitation, BootstrapSuperadmin
  <2> QED
    BY <1>1, <2>1 DEF Insert, Superadmin
<1>7. ASSUME NEW b \in Accounts, BootstrapSuperadmin(b)
      PROVE  FALSE
  BY <1>7 DEF BootstrapSuperadmin, Superadmin
<1>8. ASSUME NEW b \in Accounts, EraseIdentityAccount(b)
      PROVE  Superadmin(a)'
  BY <1>1, <1>8 DEF EraseIdentityAccount, Superadmin
<1> QED
  BY <1>2, <1>3, <1>4, <1>5, <1>6, <1>7, <1>8

LEMMA FoundedStep ==
  ASSUME IInv, Remains, [Next]_vars
  PROVE  Founded'
<1>1. CASE Unfounded
  BY <1>1, UnfoundedStep
<1>2. CASE \E a \in Accounts : Superadmin(a)
  <2>1. PICK a \in Accounts : Superadmin(a)
    BY <1>2
  <2>2. ASSUME UNCHANGED accounts
        PROVE  Founded'
    BY <2>1, <2>2 DEF Founded, Superadmin
  <2>3. ASSUME NEW c \in Calls, SetAccountRole(c) \/ SetAccountStatus(c)
        PROVE  Founded'
    BY <1>2, <2>3, TakingKeepsActor DEF Remains, Founded
  <2>4. ASSUME NEW c \in Calls, NEW actor \in sessions, Begin(c, actor) \/ ResolveActor(c, actor)
        PROVE  UNCHANGED accounts
    BY <2>4 DEF Begin, ResolveActor, Give
  <2>5. ASSUME NEW c \in Calls, NEW b \in Accounts, BeginRecovery(c, b) \/ ReadLogin(c, b)
        PROVE  UNCHANGED accounts
    BY <2>5 DEF BeginRecovery, ReadLogin, Give
  <2>6. ASSUME NEW c \in Calls, NEW i \in Invitations,
               BeginRegistration(c, i) \/ CreateInvitation(c, i)
        PROVE  UNCHANGED accounts
    BY <2>6 DEF BeginRegistration, CreateInvitation, Give
  <2>7. ASSUME NEW c \in Calls,
               \/ LockActor(c) \/ LockTarget(c) \/ LockInvitation(c) \/ CountOthers(c)
               \/ RevokeInvitation(c) \/ LogoutAll(c) \/ Login(c) \/ Abort(c)
        PROVE  UNCHANGED accounts
    BY <2>7 DEF LockActor, LockTarget, LockInvitation, CountOthers, RevokeInvitation, LogoutAll,
                Login, Abort
  <2>8. ASSUME NEW b \in Accounts, LogoutCurrent(b)
        PROVE  UNCHANGED accounts
    BY <2>8 DEF LogoutCurrent
  <2>9. ASSUME \/ \E c \in Calls : \/ RequestSelfDeletion(c) \/ RequestAccountDeletion(c)
                                   \/ CancelSelfDeletion(c) \/ ChangePassword(c)
                                   \/ ResetAccountPassword(c) \/ RecoverSuperadmin(c)
                                   \/ \E b \in Accounts : CreateAccount(c, b)
                                                            \/ RegisterWithInvitation(c, b)
               \/ \E b \in Accounts : BootstrapSuperadmin(b) \/ EraseIdentityAccount(b)
        PROVE  Founded'
    BY <2>1, <2>9, OthersKeepSuperadmin DEF Founded
  <2>10. CASE UNCHANGED vars
    BY <2>2, <2>10 DEF vars
  <2> QED
    BY <2>2, <2>3, <2>4, <2>5, <2>6, <2>7, <2>8, <2>9, <2>10 DEF Next, Commit
<1> QED
  BY <1>1, <1>2 DEF Remains, Founded

(* A command names its target once. *)
LEMMA NamesAnotherStep ==
  ASSUME ~SelfService, IInv, \A c \in Calls : NamesAnother(c), [Next]_vars,
         NEW d \in Calls
  PROVE  NamesAnother(d)'
<1>1. calls \in [Calls -> Call]
  BY DEF IInv, TypeOK
<1>2. ASSUME calls'[d].command = calls[d].command /\ calls'[d].target = calls[d].target
               /\ calls'[d].actor = calls[d].actor
      PROVE  NamesAnother(d)'
  BY <1>2 DEF NamesAnother
<1>3. ASSUME NEW c \in Calls, End(c)
      PROVE  NamesAnother(d)'
  <2>1. calls' = [calls EXCEPT ![c] = Idle] /\ Idle.command = "NONE"
    BY <1>3 DEF End, Idle
  <2> QED
    BY <1>1, <2>1 DEF NamesAnother, OnAnother
<1>4. ASSUME NEW c \in Calls, NEW command, NEW actor, NEW target, NEW argument, NEW pc,
             Give(c, command, actor, target, argument, pc),
             command \in OnAnother => target # actor
      PROVE  NamesAnother(d)'
  BY <1>1, <1>4 DEF Give, NamesAnother
<1>5. ASSUME NEW c \in Calls, NEW actor \in sessions, Begin(c, actor)
      PROVE  NamesAnother(d)'
  BY <1>4, <1>5 DEF Begin, OnSelf, OnAnother
<1>6. ASSUME NEW c \in Calls, NEW actor \in sessions, ResolveActor(c, actor)
      PROVE  NamesAnother(d)'
  BY <1>4, <1>6 DEF ResolveActor, OnAnother
<1>7. ASSUME NEW c \in Calls, NEW a \in Accounts, BeginRecovery(c, a) \/ ReadLogin(c, a)
      PROVE  NamesAnother(d)'
  BY <1>4, <1>7 DEF BeginRecovery, ReadLogin, OnAnother
<1>8. ASSUME NEW c \in Calls, NEW i \in Invitations, BeginRegistration(c, i)
      PROVE  NamesAnother(d)'
  BY <1>4, <1>8 DEF BeginRegistration, OnAnother
<1>9. ASSUME NEW c \in Calls,
             LockActor(c) \/ LockTarget(c) \/ LockInvitation(c) \/ CountOthers(c)
      PROVE  NamesAnother(d)'
  <2>1. \/ End(c)
        \/ calls' = [calls EXCEPT ![c].pc = "actor", ![c].role = accounts[calls[c].actor].role]
        \/ calls' = [calls EXCEPT ![c].pc = "target"]
        \/ calls' = [calls EXCEPT ![c].pc = "counted"]
    BY <1>9 DEF LockActor, LockTarget, LockInvitation, CountOthers
  <2> QED
    BY <1>1, <1>2, <1>3, <2>1 DEF Call
<1>10. ASSUME NEW c \in Calls, Commit(c) \/ Abort(c)
       PROVE  End(c)
  BY <1>10 DEF Commit, Abort, SetAccountRole, SetAccountStatus, RequestSelfDeletion,
     RequestAccountDeletion, CancelSelfDeletion, ChangePassword, ResetAccountPassword,
     RecoverSuperadmin, RevokeInvitation, LogoutAll, Login, CreateAccount,
     RegisterWithInvitation, CreateInvitation
<1>11. ASSUME NEW a \in Accounts,
              LogoutCurrent(a) \/ BootstrapSuperadmin(a) \/ EraseIdentityAccount(a)
       PROVE  UNCHANGED calls
  BY <1>11 DEF LogoutCurrent, BootstrapSuperadmin, EraseIdentityAccount
<1>12. CASE UNCHANGED vars
  BY <1>2, <1>12 DEF vars
<1> QED
  BY <1>2, <1>3, <1>5, <1>6, <1>7, <1>8, <1>9, <1>10, <1>11, <1>12 DEF Next

(* While nobody demotes or disables itself, an ACTIVE SUPERADMIN remains,  *)
(* however many commands run at the same time (the locks of actor and      *)
(* target, and LAST_SUPERADMIN).                                           *)
THEOREM SuperadminAlwaysRemains ==
  ASSUME ~SelfService
  PROVE  Spec => []SuperadminRemains
<1>1. Init => Remains
  BY NoneAssumption DEF Init, Remains, Founded, Unfounded, NamesAnother, Absent, Idle, OnAnother
<1>2. IInv /\ Remains /\ [Next]_vars => Remains'
  BY FoundedStep, NamesAnotherStep DEF Remains
<1>3. Remains => SuperadminRemains
  BY DEF Remains, Founded, Unfounded, SuperadminRemains
<1> QED
  BY <1>1, <1>2, <1>3, InitInvariant, StepInvariant, PTL DEF Spec
-----------------------------------------------------------------------------
(* Deletion.  A step writes the account of a call that holds its row, one  *)
(* that nobody has yet, or one whose deletion is due.                      *)
Kept(a) ==
  /\ accounts[a].status = "DELETED" => accounts'[a] = accounts[a]
  /\ accounts[a].status = "PENDING_DELETION" => accounts'[a].status # "DISABLED"

LEMMA TargetCommitsKeep ==
  ASSUME IInv, NEW a \in Accounts, NEW c \in Calls,
         SetAccountRole(c) \/ SetAccountStatus(c) \/ RequestAccountDeletion(c)
           \/ ResetAccountPassword(c) \/ RecoverSuperadmin(c)
  PROVE  Kept(a)
<1> DEFINE t == calls[c].target
<1>1. t \in Accounts /\ TargetMay(c)
  BY Holds DEF SetAccountRole, SetAccountStatus, RequestAccountDeletion,
     ResetAccountPassword, RecoverSuperadmin, Decided
<1>2. /\ accounts[t].status # "DELETED"
      /\ calls[c].command = "SET_ACCOUNT_STATUS" => accounts[t].status # "PENDING_DELETION"
  BY <1>1 DEF TargetMay
<1>3. accounts \in [Accounts -> AccountRow]
  BY Typed
<1>4. CASE SetAccountStatus(c)
  BY <1>1, <1>2, <1>3, <1>4 DEF SetAccountStatus, Kept, AccountRow
<1>5. CASE SetAccountRole(c)
  BY <1>1, <1>2, <1>3, <1>5 DEF SetAccountRole, Kept, AccountRow
<1>6. CASE RequestAccountDeletion(c)
  BY <1>1, <1>2, <1>3, <1>6 DEF RequestAccountDeletion, AwaitDeletion, Kept, AccountRow
<1>7. CASE ResetAccountPassword(c)
  BY <1>1, <1>2, <1>3, <1>7 DEF ResetAccountPassword, Kept, AccountRow
<1>8. CASE RecoverSuperadmin(c)
  BY <1>1, <1>2, <1>3, <1>8 DEF RecoverSuperadmin, Kept, AccountRow
<1> QED
  BY <1>4, <1>5, <1>6, <1>7, <1>8

LEMMA SelfCommitsKeep ==
  ASSUME IInv, NEW a \in Accounts, NEW c \in Calls,
         RequestSelfDeletion(c) \/ CancelSelfDeletion(c) \/ ChangePassword(c)
  PROVE  Kept(a)
<1> DEFINE t == calls[c].actor
<1>1. t \in Accounts /\ ActorMay(calls[c].command, t)
  BY Holds DEF RequestSelfDeletion, CancelSelfDeletion, ChangePassword
<1>2. accounts[t].status \in {"ACTIVE", "PENDING_DELETION"}
  BY <1>1 DEF ActorMay
<1>3. accounts \in [Accounts -> AccountRow]
  BY Typed
<1>4. CASE RequestSelfDeletion(c)
  BY <1>1, <1>2, <1>3, <1>4 DEF RequestSelfDeletion, AwaitDeletion, Kept, AccountRow
<1>5. CASE CancelSelfDeletion(c)
  BY <1>1, <1>2, <1>3, <1>5 DEF CancelSelfDeletion, Kept, AccountRow
<1>6. CASE ChangePassword(c)
  BY <1>1, <1>2, <1>3, <1>6 DEF ChangePassword, Kept, AccountRow
<1> QED
  BY <1>4, <1>5, <1>6

LEMMA UnheldKeep ==
  ASSUME IInv, NEW a \in Accounts, NEW b \in Accounts,
         \/ \E c \in Calls : CreateAccount(c, b) \/ RegisterWithInvitation(c, b)
         \/ BootstrapSuperadmin(b) \/ EraseIdentityAccount(b)
  PROVE  Kept(a)
<1>1. accounts \in [Accounts -> AccountRow]
  BY Typed
<1>2. CASE EraseIdentityAccount(b)
  BY <1>1, <1>2 DEF EraseIdentityAccount, Kept, AccountRow
<1>3. CASE ~EraseIdentityAccount(b)
  <2>1. \E role, kind : Insert(b, role, kind)
    BY <1>3 DEF CreateAccount, RegisterWithInvitation, BootstrapSuperadmin
  <2> QED
    BY <1>1, <2>1 DEF Insert, Kept, AccountRow
<1> QED
  BY <1>2, <1>3

(* The other steps write no account. *)
LEMMA DeletionStep ==
  ASSUME IInv, [Next]_vars, NEW a \in Accounts
  PROVE  Kept(a)
<1>1. CASE UNCHANGED accounts
  BY <1>1, Typed DEF Kept, AccountRow
<1>2. ASSUME NEW c \in Calls, NEW x \in sessions, Begin(c, x) \/ ResolveActor(c, x)
      PROVE  UNCHANGED accounts
  BY <1>2 DEF Begin, ResolveActor, Give
<1>3. ASSUME NEW c \in Calls, NEW x \in Accounts, BeginRecovery(c, x) \/ ReadLogin(c, x)
      PROVE  UNCHANGED accounts
  BY <1>3 DEF BeginRecovery, ReadLogin, Give
<1>4. ASSUME NEW c \in Calls, NEW i \in Invitations, BeginRegistration(c, i)
      PROVE  UNCHANGED accounts
  BY <1>4 DEF BeginRegistration, Give
<1>5. ASSUME NEW c \in Calls,
             \/ LockActor(c) \/ LockTarget(c) \/ LockInvitation(c) \/ CountOthers(c) \/ Abort(c)
             \/ RevokeInvitation(c) \/ LogoutAll(c) \/ Login(c)
             \/ \E i \in Invitations : CreateInvitation(c, i)
      PROVE  UNCHANGED accounts
  BY <1>5 DEF LockActor, LockTarget, LockInvitation, CountOthers, Abort, RevokeInvitation,
     LogoutAll, Login, CreateInvitation
<1>6. ASSUME NEW x \in Accounts, LogoutCurrent(x)
      PROVE  UNCHANGED accounts
  BY <1>6 DEF LogoutCurrent
<1>7. CASE UNCHANGED vars
  BY <1>1, <1>7 DEF vars
<1> QED
  BY <1>1, <1>2, <1>3, <1>4, <1>5, <1>6, <1>7, TargetCommitsKeep, SelfCommitsKeep, UnheldKeep
     DEF Next, Commit

(* An erased account is never written again, and nothing but its own       *)
(* cancellation or the erasure changes the status of one that waits for    *)
(* it (eraseIdentityAccount and the conditions of the commands).           *)
THEOREM DeletionIsFinalHolds == Spec => DeletionIsFinal
<1>1. IInv /\ [Next]_vars =>
        \A a \in Accounts :
          /\ accounts[a].status = "DELETED" => accounts'[a] = accounts[a]
          /\ accounts[a].status = "PENDING_DELETION" => accounts'[a].status # "DISABLED"
  BY DeletionStep DEF Kept
<1> QED
  BY <1>1, InitInvariant, StepInvariant, PTL DEF Spec, DeletionIsFinal

-----------------------------------------------------------------------------
(* Invitations.  A registration that holds the row of its invitation finds *)
(* it ACTIVE until it commits.                                             *)
RegistersActive ==
  \A c \in Calls :
    calls[c].pc = "target" /\ calls[c].command = "REGISTER_WITH_INVITATION" =>
      invitations[calls[c].target].state = "ACTIVE"

Spent(i) ==
  /\ invitations[i].state = "USED" => invitations'[i].user \in {None, invitations[i].user}
  /\ invitations[i].state \in {"USED", "REVOKED"} =>
       invitations'[i].state \in {invitations[i].state, "DELETED"}

(* A step that writes an invitation holds it, or nobody does; the state of *)
(* a used or revoked one only changes when its author is erased.           *)
LEMMA InvitationStep ==
  ASSUME IInv, RegistersActive, [Next]_vars, NEW i \in Invitations
  PROVE  /\ Spent(i)
         /\ \A d \in Calls :
              locks[i] = d /\ calls'[d] = calls[d] /\ invitations[i].state = "ACTIVE" =>
                invitations'[i].state = "ACTIVE"
<1> DEFINE Safe == \A d \in Calls :
                     locks[i] = d /\ calls'[d] = calls[d] /\ invitations[i].state = "ACTIVE" =>
                       invitations'[i].state = "ACTIVE"
<1>1. /\ invitations \in [Invitations -> InvitationRow] /\ calls \in [Calls -> Call]
      /\ \A d \in Calls : d # None
  BY Typed, NoneAssumption DEF IInv, TypeOK
<1>2. CASE UNCHANGED invitations
  BY <1>1, <1>2 DEF Spent, InvitationRow
<1>3. ASSUME NEW c \in Calls, RevokeInvitation(c)
      PROVE  Spent(i) /\ Safe
  <2>1. calls'[c] # calls[c]
    BY <1>1, <1>3 DEF RevokeInvitation, End, Idle, Call
  <2>2. CASE calls[c].target = i /\ invitations[i].state = "ACTIVE"
    <3>1. locks[i] \in {None, c}
      BY <1>3, <2>2 DEF RevokeInvitation, Free
    <3> QED
      BY <1>1, <2>1, <2>2, <3>1 DEF Spent
  <2>3. CASE ~(calls[c].target = i /\ invitations[i].state = "ACTIVE")
    <3>1. invitations'[i] = invitations[i]
      BY <1>1, <1>3, <2>3 DEF RevokeInvitation
    <3> QED
      BY <1>1, <3>1 DEF Spent, InvitationRow
  <2> QED
    BY <2>2, <2>3
<1>4. ASSUME NEW c \in Calls, NEW a \in Accounts, RegisterWithInvitation(c, a)
      PROVE  Spent(i) /\ Safe
  <2>1. /\ calls'[c] # calls[c] /\ locks[calls[c].target] = c
        /\ invitations[calls[c].target].state = "ACTIVE"
    <3>1. CallSound(c)
      BY DEF IInv
    <3> QED
      BY <1>1, <1>4, <3>1 DEF RegisterWithInvitation, RegistersActive, CallSound, LocksHeld,
         End, Idle, Call
  <2>2. CASE calls[c].target = i
    BY <1>1, <2>1, <2>2 DEF Spent
  <2>3. CASE calls[c].target # i
    <3>1. invitations'[i] = invitations[i]
      BY <1>1, <1>4, <2>3 DEF RegisterWithInvitation
    <3> QED
      BY <1>1, <3>1 DEF Spent, InvitationRow
  <2> QED
    BY <2>2, <2>3
<1>5. ASSUME NEW c \in Calls, NEW j \in Invitations, CreateInvitation(c, j)
      PROVE  Spent(i) /\ Safe
  <2>1. invitations[i].state # "NONE" => invitations'[i] = invitations[i]
    BY <1>1, <1>5 DEF CreateInvitation
  <2> QED
    BY <1>1, <2>1 DEF Spent, InvitationRow
<1>6. ASSUME NEW a \in Accounts, EraseIdentityAccount(a)
      PROVE  Spent(i) /\ Safe
  <2>1. CASE invitations[i].by = a
    <3>1. locks[i] = None /\ invitations'[i] = [state |-> "DELETED", by |-> None, user |-> None]
      BY <1>6, <2>1 DEF EraseIdentityAccount
    <3> QED
      BY <1>1, <3>1 DEF Spent
  <2>2. CASE invitations[i].by # a
    <3>1. invitations'[i] = [invitations[i] EXCEPT !.user = IF @ = a THEN None ELSE @]
      BY <1>6, <2>2 DEF EraseIdentityAccount
    <3> QED
      BY <1>1, <3>1 DEF Spent, InvitationRow
  <2> QED
    BY <2>1, <2>2
<1>7. CASE UNCHANGED vars
  BY <1>2, <1>7 DEF vars
<1>8. ASSUME NEW c \in Calls, NEW x \in sessions, Begin(c, x) \/ ResolveActor(c, x)
      PROVE  UNCHANGED invitations
  BY <1>8 DEF Begin, ResolveActor, Give
<1>9. ASSUME NEW c \in Calls, NEW x \in Accounts, BeginRecovery(c, x) \/ ReadLogin(c, x)
      PROVE  UNCHANGED invitations
  BY <1>9 DEF BeginRecovery, ReadLogin, Give
<1>10. ASSUME NEW c \in Calls, NEW j \in Invitations, BeginRegistration(c, j)
       PROVE  UNCHANGED invitations
  BY <1>10 DEF BeginRegistration, Give
<1>11. ASSUME NEW c \in Calls,
              \/ LockActor(c) \/ LockTarget(c) \/ LockInvitation(c) \/ CountOthers(c) \/ Abort(c)
              \/ SetAccountRole(c) \/ SetAccountStatus(c)
              \/ RequestSelfDeletion(c) \/ RequestAccountDeletion(c) \/ CancelSelfDeletion(c)
              \/ ChangePassword(c) \/ ResetAccountPassword(c) \/ RecoverSuperadmin(c)
              \/ LogoutAll(c) \/ Login(c) \/ \E a \in Accounts : CreateAccount(c, a)
       PROVE  UNCHANGED invitations
  BY <1>11 DEF LockActor, LockTarget, LockInvitation, CountOthers, Abort, SetAccountRole,
     SetAccountStatus, RequestSelfDeletion, RequestAccountDeletion, CancelSelfDeletion,
     ChangePassword, ResetAccountPassword, RecoverSuperadmin, LogoutAll, Login, CreateAccount
<1>12. ASSUME NEW a \in Accounts, LogoutCurrent(a) \/ BootstrapSuperadmin(a)
       PROVE  UNCHANGED invitations
  BY <1>12 DEF LogoutCurrent, BootstrapSuperadmin
<1> QED
  BY <1>2, <1>3, <1>4, <1>5, <1>6, <1>7, <1>8, <1>9, <1>10, <1>11, <1>12 DEF Next, Commit

(* The step that brings a registration to the row of its invitation finds  *)
(* it ACTIVE; after that the row is its own.                               *)
LEMMA RegistersActiveStep ==
  IInv /\ RegistersActive /\ [Next]_vars => RegistersActive'
<1> SUFFICES ASSUME IInv, RegistersActive, [Next]_vars, NEW d \in Calls,
                    calls'[d].pc = "target", calls'[d].command = "REGISTER_WITH_INVITATION"
             PROVE  invitations'[calls'[d].target].state = "ACTIVE"
  BY DEF RegistersActive
<1>1. calls \in [Calls -> Call]
  BY DEF IInv, TypeOK
<1>2. CASE calls'[d] = calls[d]
  <2>1. CallSound(d)
    BY DEF IInv
  <2>2. calls[d].target \in Invitations /\ locks[calls[d].target] = d
    BY <1>2, <2>1 DEF CallSound, CallShape, LocksHeld
  <2>3. invitations[calls[d].target].state = "ACTIVE"
    BY <1>2 DEF RegistersActive
  <2> QED
    BY <1>2, <2>2, <2>3, InvitationStep
<1>3. CASE LockInvitation(d)
  <2>1. ~End(d)
    BY <1>1 DEF End, Idle
  <2>2. /\ invitations[calls[d].target].state = "ACTIVE" /\ UNCHANGED invitations
        /\ calls' = [calls EXCEPT ![d].pc = "target"]
    BY <1>3, <2>1 DEF LockInvitation
  <2>3. calls'[d].target = calls[d].target
    BY <1>1, <2>2 DEF Call
  <2> QED
    BY <2>2, <2>3
<1>4. CASE calls'[d] # calls[d] /\ ~LockInvitation(d)
  <2>1. ASSUME NEW c \in Calls, NEW command, NEW actor, NEW target, NEW argument,
               NEW pc \in {"begun", "resolved"}, Give(c, command, actor, target, argument, pc)
        PROVE  FALSE
    BY <1>1, <1>4, <2>1 DEF Give
  <2>2. ASSUME NEW c \in Calls, End(c)
        PROVE  FALSE
    BY <1>1, <1>4, <2>2 DEF End, Idle
  <2>3. ASSUME NEW c \in Calls, LockActor(c) \/ CountOthers(c)
        PROVE  FALSE
    <3>1. ~End(c)
      BY <2>2
    <3>2. \/ calls' = [calls EXCEPT ![c].pc = "actor", ![c].role = accounts[calls[c].actor].role]
          \/ calls' = [calls EXCEPT ![c].pc = "counted"]
      BY <2>3, <3>1 DEF LockActor, CountOthers
    <3> QED
      BY <1>1, <1>4, <3>2 DEF Call
  <2>4. ASSUME NEW c \in Calls, LockTarget(c)
        PROVE  FALSE
    <3>1. ~End(c)
      BY <2>2
    <3>2. /\ calls' = [calls EXCEPT ![c].pc = "target"]
          /\ calls[c].command # "REGISTER_WITH_INVITATION"
      BY <2>4, <3>1 DEF LockTarget, LocksTarget, OnAnother
    <3> QED
      BY <1>1, <1>4, <3>2 DEF Call
  <2>5. ASSUME NEW c \in Calls, LockInvitation(c)
        PROVE  FALSE
    <3>1. ~End(c) /\ c # d
      BY <1>4, <2>2, <2>5
    <3>2. calls' = [calls EXCEPT ![c].pc = "target"]
      BY <2>5, <3>1 DEF LockInvitation
    <3> QED
      BY <1>1, <1>4, <3>1, <3>2
  <2>6. ASSUME NEW c \in Calls, Commit(c) \/ Abort(c)
        PROVE  End(c)
    BY <2>6 DEF Commit, Abort, SetAccountRole, SetAccountStatus, RequestSelfDeletion,
       RequestAccountDeletion, CancelSelfDeletion, ChangePassword, ResetAccountPassword,
       RecoverSuperadmin, RevokeInvitation, LogoutAll, Login, CreateAccount,
       RegisterWithInvitation, CreateInvitation
  <2>7. ASSUME NEW c \in Calls, NEW x \in sessions, Begin(c, x) \/ ResolveActor(c, x)
        PROVE  FALSE
    BY <2>1, <2>7 DEF Begin, ResolveActor
  <2>8. ASSUME NEW c \in Calls, NEW x \in Accounts, BeginRecovery(c, x) \/ ReadLogin(c, x)
        PROVE  FALSE
    BY <2>1, <2>8 DEF BeginRecovery, ReadLogin
  <2>9. ASSUME NEW c \in Calls, NEW i \in Invitations, BeginRegistration(c, i)
        PROVE  FALSE
    BY <2>1, <2>9 DEF BeginRegistration
  <2>10. ~UNCHANGED calls
    BY <1>4
  <2> QED
    BY <2>2, <2>3, <2>4, <2>5, <2>6, <2>7, <2>8, <2>9, <2>10
       DEF Next, vars, LogoutCurrent, BootstrapSuperadmin, EraseIdentityAccount
<1> QED
  BY <1>2, <1>3, <1>4

(* However many registrations, revocations and erasures race for an        *)
(* invitation, it makes one account (registerWithInvitation takes its row  *)
(* before it looks at its state).                                          *)
THEOREM InvitationUsedOnceHolds == Spec => InvitationUsedOnce
<1>1. Init => RegistersActive
  BY DEF Init, RegistersActive, Idle
<1>2. IInv /\ RegistersActive /\ [Next]_vars =>
        \A i \in Invitations :
          /\ invitations[i].state = "USED" => invitations'[i].user \in {None, invitations[i].user}
          /\ invitations[i].state \in {"USED", "REVOKED"} =>
               invitations'[i].state \in {invitations[i].state, "DELETED"}
  BY InvitationStep DEF Spent
<1> QED
  BY <1>1, <1>2, InitInvariant, StepInvariant, RegistersActiveStep, PTL
     DEF Spec, InvitationUsedOnce
=============================================================================
