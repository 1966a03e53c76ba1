------------------------ MODULE AccountLifecycleProofs ------------------------
(***************************************************************************)
(* Proofs about AccountLifecycle for any number of accounts, workers and   *)
(* operations and any grace period.  IInv is inductive: a worker holds     *)
(* alone an open event whose time has come, what it has passed stays       *)
(* purged, the latest operation it has looked at stays stopped, and a      *)
(* request that was let in before a deletion was asked for is over before  *)
(* the deletion is due.  What source workers and runs write without        *)
(* looking at the account is not among what stays purged: the logins, and  *)
(* the rows of a run whose operation is gone.                              *)
(***************************************************************************)
EXTENDS AccountLifecycle, FiniteSetTheorems, TLAPS

(* The stages of a worker, and the row of an operation.                    *)
Stages == Modules \cup {"idle", "list", "cancel", "commit"}

OperationRow == [state : {"ACTIVE", "FINAL", "PURGED"}, retried : BOOLEAN,
                 run : {"NONE", "OPEN", "LOOSE"}, late : BOOLEAN]

(* What an event that a worker holds is like: open, come to its time, and  *)
(* at the stages of the handler its type has.                              *)
HeldAsPicked(w) ==
  LET e == workers[w].event
  IN /\ e \in DOMAIN events /\ Open(e) /\ events[e].at <= time
     /\ workers[w].pc \in {"list", "cancel", "commit"} \/ Deletes(w)

HoldsOpen == \A w \in Workers : IF At(w, "idle") THEN workers[w].event = 0 ELSE HeldAsPicked(w)

HeldOnce ==
  \A v, w \in Workers : ~At(v, "idle") /\ workers[v].event = workers[w].event => v = w

ActiveIsUnrestricted ==
  \A a \in Accounts : accounts[a].status = "ACTIVE" =>
    \A e \in OfAccount(a, {"RESTRICT"}) : ~Open(e)

CancelsPending == \A a \in cancelling : accounts[a].status = "PENDING_DELETION"

LetInInTime ==
  \A a \in requests :
    /\ accounts[a].status # "DELETED"
    /\ accounts[a].status = "PENDING_DELETION" => time + Grace <= accounts[a].due

Past(pc) ==
  CASE pc = "access" -> {"research"}
    [] pc = "tasks" -> {"research", "access"}
    [] pc = "conversations" -> {"research", "access", "tasks"}
    [] pc = "commit" -> Modules
    [] OTHER -> {}

(* What the purge is there for; a login a source worker opens behind it is *)
(* not among it.                                                           *)
Owned(a) == Holdings(a) \ {"logins"}

PurgedSoFar ==
  \A w \in Workers : ~At(w, "idle") /\ Deletes(w) =>
    Owned(Account(w)) \cap Past(workers[w].pc) = {}

TaskStopped(a) ==
  \A i \in DOMAIN operations[a] : i = Len(operations[a]) => Stopped(Operation(a, i))

StoppedByCommit ==
  \A w \in Workers : At(w, "commit") /\ ~Deletes(w) => TaskStopped(Account(w))

ErasedOwnNothing ==
  \A a \in Accounts : accounts[a].status = "DELETED" => Owned(a) = {}

IInv == /\ TypeOK /\ HoldsOpen /\ HeldOnce /\ DeletionIsQueued /\ ActiveIsUnrestricted
        /\ CancelsPending /\ LetInInTime /\ PurgedSoFar /\ StoppedByCommit
        /\ ErasedOwnNothing /\ LatestStops

-----------------------------------------------------------------------------
(* The queue.                                                              *)
EventRow == [account : Accounts, type : {"RESTRICT", "DELETE"}, at : 0..MaxTime,
             state : {"OPEN", "CANCELLED", "PROCESSED"}]

(* An event is a row of the queue.                                         *)
LEMMA EventsTyped ==
  ASSUME TypeOK
  PROVE  /\ DOMAIN events = 1..Len(events) /\ Len(events) \in Nat
         /\ events \in [1..Len(events) -> EventRow]
         /\ \A e \in DOMAIN events :
              /\ events[e] \in EventRow /\ e \in 1..MaxEvents
              /\ events[e].account \in Accounts /\ events[e].type \in {"RESTRICT", "DELETE"}
              /\ events[e].at \in 0..MaxTime
              /\ events[e].state \in {"OPEN", "CANCELLED", "PROCESSED"}
<1>1. /\ DOMAIN events = 1..Len(events) /\ Len(events) \in Nat
      /\ events \in [1..Len(events) -> EventRow]
  <2>1. events \in Seq(EventRow) BY DEF TypeOK, EventRow
  <2>2. QED BY <2>1
<1>2. ASSUME NEW e \in DOMAIN events PROVE events[e] \in EventRow /\ e \in 1..MaxEvents
  <2>1. events[e] \in EventRow BY <1>1
  <2>2. e \in 1..Len(events) /\ Len(events) \in Nat /\ Len(events) <= MaxEvents
    BY <1>1 DEF TypeOK
  <2>3. QED BY <2>1, <2>2, LifecycleAssumption
<1>3. QED BY <1>1, <1>2 DEF EventRow

(* Rows keep their account, type and time; some change their state.        *)
SameRows(states) ==
  /\ events' \in Seq(EventRow) /\ Len(events') = Len(events) /\ DOMAIN events' = DOMAIN events
  /\ \A e \in DOMAIN events :
       /\ events'[e].account = events[e].account /\ events'[e].type = events[e].type
       /\ events'[e].at = events[e].at /\ events'[e].state = states[e]

LEMMA CancelledRows ==
  ASSUME TypeOK, NEW a \in Accounts, NEW types, events' = Cancelled(a, types)
  PROVE  SameRows([e \in DOMAIN events |->
           IF Open(e) /\ events[e].account = a /\ events[e].type \in types
           THEN "CANCELLED" ELSE events[e].state])
<1>1. ASSUME NEW e \in DOMAIN events
      PROVE  /\ events'[e] \in EventRow
             /\ events'[e].account = events[e].account /\ events'[e].type = events[e].type
             /\ events'[e].at = events[e].at
             /\ events'[e].state =
                  IF Open(e) /\ events[e].account = a /\ events[e].type \in types
                  THEN "CANCELLED" ELSE events[e].state
  <2>1. events[e] \in EventRow BY EventsTyped
  <2>2. events'[e] = IF Open(e) /\ events[e].account = a /\ events[e].type \in types
                     THEN [events[e] EXCEPT !.state = "CANCELLED"] ELSE events[e]
    BY DEF Cancelled, OfAccount
  <2>3. QED BY <2>1, <2>2 DEF EventRow
<1>2. DOMAIN events' = 1..Len(events) /\ Len(events) \in Nat
  BY EventsTyped DEF Cancelled
<1>3. events' = [e \in 1..Len(events) |-> events'[e]]
  BY EventsTyped DEF Cancelled
<1>4. events' \in Seq(EventRow) /\ Len(events') = Len(events)
  BY <1>1, <1>2, <1>3, EventsTyped
<1>5. QED BY <1>1, <1>2, <1>4, EventsTyped DEF SameRows

LEMMA ProcessedRows ==
  ASSUME TypeOK, NEW w \in Workers, Processed(w), workers[w].event \in DOMAIN events
  PROVE  SameRows([e \in DOMAIN events |->
           IF e = workers[w].event THEN "PROCESSED" ELSE events[e].state])
<1>1. ASSUME NEW e \in DOMAIN events
      PROVE  /\ events'[e] \in EventRow
             /\ events'[e].account = events[e].account /\ events'[e].type = events[e].type
             /\ events'[e].at = events[e].at
             /\ events'[e].state =
                  IF e = workers[w].event THEN "PROCESSED" ELSE events[e].state
  <2>1. events[e] \in EventRow BY EventsTyped
  <2>2. events'[e] = IF e = workers[w].event
                     THEN [events[e] EXCEPT !.state = "PROCESSED"] ELSE events[e]
    BY EventsTyped DEF Processed
  <2>3. QED BY <2>1, <2>2 DEF EventRow
<1>2. DOMAIN events' = 1..Len(events) /\ Len(events) \in Nat
  BY EventsTyped DEF Processed
<1>3. events' = [e \in 1..Len(events) |-> events'[e]]
  BY EventsTyped DEF Processed
<1>4. events' \in Seq(EventRow) /\ Len(events') = Len(events)
  BY <1>1, <1>2, <1>3, EventsTyped
<1>5. QED BY <1>1, <1>2, <1>4, EventsTyped DEF SameRows

(* Enqueuing keeps the rows that are there.                                *)
KeepsRows ==
  /\ events' \in Seq(EventRow) /\ DOMAIN events \subseteq DOMAIN events'
  /\ DOMAIN events' = 1..Len(events')
  /\ \A e \in DOMAIN events : events'[e] = events[e]

LEMMA EventIsRow ==
  ASSUME NEW a \in Accounts, NEW type \in {"RESTRICT", "DELETE"}, NEW at \in 0..MaxTime
  PROVE  Event(a, type, at) \in EventRow
BY DEF Event, EventRow

LEMMA OneAppended ==
  ASSUME TypeOK, NEW row \in EventRow, events' = Append(events, row)
  PROVE  /\ KeepsRows /\ Len(events') = Len(events) + 1
         /\ events'[Len(events) + 1] = row
<1>1. events \in Seq(EventRow) BY DEF TypeOK, EventRow
<1>2. QED BY <1>1 DEF KeepsRows

LEMMA TwoAppended ==
  ASSUME TypeOK, NEW row \in EventRow, NEW other \in EventRow,
         events' = events \o <<row, other>>
  PROVE  /\ KeepsRows /\ Len(events') = Len(events) + 2
         /\ events'[Len(events) + 1] = row /\ events'[Len(events) + 2] = other
<1>1. events \in Seq(EventRow) BY DEF TypeOK, EventRow
<1>2. <<row, other>> \in Seq(EventRow) /\ Len(<<row, other>>) = 2
      /\ <<row, other>>[1] = row /\ <<row, other>>[2] = other
  OBVIOUS
<1>3. PICK pair \in Seq(EventRow) : /\ pair = <<row, other>> /\ Len(pair) = 2
                                   /\ pair[1] = row /\ pair[2] = other
  BY <1>2
<1>4. events' = events \o pair BY <1>3
<1>5. events' \in Seq(EventRow) /\ Len(events') = Len(events) + 2
  BY <1>1, <1>3, <1>4
<1>6. \A e \in 1..(Len(events) + 2) :
        events'[e] = IF e <= Len(events) THEN events[e] ELSE pair[e - Len(events)]
  BY <1>1, <1>3, <1>4
<1>7. Len(events) \in Nat /\ DOMAIN events = 1..Len(events) BY <1>1
<1>8. DOMAIN events' = 1..Len(events') BY <1>5
<1>9. events'[Len(events) + 1] = row /\ events'[Len(events) + 2] = other
  BY <1>3, <1>6, <1>7
<1>10. QED BY <1>5, <1>6, <1>7, <1>8, <1>9 DEF KeepsRows

(* DeletionIsQueued without the set of the open events.                    *)
Waits(a, e) ==
  e \in DOMAIN events /\ events[e].account = a /\ events[e].type = "DELETE" /\ Open(e)

WaitsOnce(a) ==
  IF accounts[a].status = "PENDING_DELETION"
  THEN \E e \in DOMAIN events :
         Waits(a, e) /\ events[e].at = accounts[a].due /\ \A f \in DOMAIN events : Waits(a, f) => f = e
  ELSE \A e \in DOMAIN events : ~Waits(a, e)

LEMMA QueuedOnce ==
  /\ DeletionIsQueued <=> \A a \in Accounts : WaitsOnce(a)
  /\ DeletionIsQueued' <=> \A a \in Accounts : WaitsOnce(a)'
BY DEF DeletionIsQueued, WaitsOnce, Waits, OfAccount

-----------------------------------------------------------------------------
(* What a worker holds, and what follows from it.                          *)
LEMMA HeldEvent ==
  ASSUME IInv, NEW w \in Workers, ~At(w, "idle")
  PROVE  /\ workers[w].event \in DOMAIN events /\ workers[w].event # 0
         /\ Open(workers[w].event) /\ Held(workers[w].event)
         /\ events[workers[w].event].at <= time
         /\ Account(w) \in Accounts
         /\ Deletes(w) => Waits(Account(w), workers[w].event)
         /\ ~Deletes(w) => /\ workers[w].event \in OfAccount(Account(w), {"RESTRICT"})
                           /\ events[workers[w].event].type = "RESTRICT"
<1>1. HeldAsPicked(w) BY DEF IInv, HoldsOpen
<1>2. TypeOK BY DEF IInv
<1>3. /\ workers[w].event \in DOMAIN events /\ workers[w].event # 0
      /\ Account(w) \in Accounts
      /\ events[workers[w].event].type \in {"RESTRICT", "DELETE"}
  BY <1>1, <1>2, EventsTyped DEF HeldAsPicked, Account
<1>4. QED
  BY <1>1, <1>3 DEF HeldAsPicked, Held, Deletes, Account, Waits, OfAccount

(* A worker that deletes finds the account pending and due, and no request *)
(* of it left.                                                             *)
LEMMA DueIsQuiet ==
  ASSUME IInv, NEW w \in Workers, ~At(w, "idle"), Deletes(w)
  PROVE  /\ accounts[Account(w)].status = "PENDING_DELETION"
         /\ accounts[Account(w)].due = events[workers[w].event].at
         /\ accounts[Account(w)].due <= time
         /\ Account(w) \notin requests
<1>1. /\ workers[w].event \in DOMAIN events /\ events[workers[w].event].at <= time
      /\ Account(w) \in Accounts /\ Waits(Account(w), workers[w].event)
  BY HeldEvent
<1>2. WaitsOnce(Account(w)) BY <1>1, QueuedOnce DEF IInv
<1>3. /\ accounts[Account(w)].status = "PENDING_DELETION"
      /\ accounts[Account(w)].due = events[workers[w].event].at
  BY <1>1, <1>2 DEF WaitsOnce
<1>4. time \in Nat /\ accounts[Account(w)].due \in Nat
  BY <1>1, LifecycleAssumption DEF IInv, TypeOK
<1>5. Account(w) \notin requests
  BY <1>1, <1>3, <1>4, LifecycleAssumption DEF IInv, LetInInTime
<1>6. QED BY <1>1, <1>3, <1>5

(* A worker that restricts finds an account that is not ACTIVE.            *)
LEMMA RestrictedIsInactive ==
  ASSUME IInv, NEW w \in Workers, ~At(w, "idle"), ~Deletes(w)
  PROVE  accounts[Account(w)].status # "ACTIVE"
BY HeldEvent DEF IInv, ActiveIsUnrestricted

-----------------------------------------------------------------------------
(* The owner at work.                                                      *)
OwnerFrame ==
  /\ UNCHANGED <<time, accounts, events, cancelling, workers>>
  /\ \A b \in requests' : b \in requests \/ accounts[b].status = "ACTIVE"
  /\ \A b \in Accounts \ requests : Owned(b)' = Owned(b)
  /\ \A b \in Accounts : accounts[b].status # "ACTIVE" /\ TaskStopped(b) => TaskStopped(b)'

LEMMA OwnerFrameKeeps ==
  ASSUME IInv, TypeOK', OwnerFrame
  PROVE  IInv'
<1>1. HoldsOpen' /\ HeldOnce' /\ DeletionIsQueued' /\ ActiveIsUnrestricted' /\ CancelsPending'
  BY DEF IInv, OwnerFrame, HoldsOpen, HeldAsPicked, HeldOnce, DeletionIsQueued,
         ActiveIsUnrestricted, CancelsPending, OfAccount, Open, At, Deletes
<1>2. LetInInTime'
  BY DEF IInv, OwnerFrame, LetInInTime
<1>3. PurgedSoFar'
  <2> SUFFICES ASSUME NEW w \in Workers, ~At(w, "idle"), Deletes(w)
               PROVE  Owned(Account(w))' \cap Past(workers[w].pc) = {}
    BY DEF PurgedSoFar, OwnerFrame, At, Deletes, Account, Owned, Holdings, Purged, Past
  <2>1. Owned(Account(w))' = Owned(Account(w))
    BY HeldEvent, DueIsQuiet DEF OwnerFrame, Account, Owned, Holdings, Purged
  <2>2. QED BY <2>1 DEF IInv, PurgedSoFar
<1>4. StoppedByCommit'
  <2> SUFFICES ASSUME NEW w \in Workers, At(w, "commit"), ~Deletes(w)
               PROVE  TaskStopped(Account(w))'
    BY DEF StoppedByCommit, OwnerFrame, At, Deletes, Account, TaskStopped, Stopped, Operation
  <2>1. ~At(w, "idle") BY DEF At
  <2>2. TaskStopped(Account(w)) /\ accounts[Account(w)].status # "ACTIVE" /\ Account(w) \in Accounts
    BY <2>1, HeldEvent, RestrictedIsInactive DEF IInv, StoppedByCommit
  <2>3. QED BY <2>2 DEF OwnerFrame, Account, TaskStopped, Stopped, Operation
<1>5. ErasedOwnNothing'
  BY DEF IInv, OwnerFrame, ErasedOwnNothing, LetInInTime
<1>6. LatestStops'
  BY DEF IInv, OwnerFrame, LatestStops, Restricted, OfAccount, Open, TaskStopped, Stopped, Operation
<1>7. QED BY <1>1, <1>2, <1>3, <1>4, <1>5, <1>6 DEF IInv

LEMMA BeginRequestKeeps ==
  ASSUME IInv, NEW a \in Accounts, BeginRequest(a)
  PROVE  IInv'
<1>1. TypeOK' BY DEF IInv, TypeOK, BeginRequest
<1>2. OwnerFrame BY DEF BeginRequest, OwnerFrame, Owned, Holdings, Purged, TaskStopped, Stopped,
                        Operation
<1>3. QED BY <1>1, <1>2, OwnerFrameKeeps

LEMMA EndRequestKeeps ==
  ASSUME IInv, NEW a \in Accounts, EndRequest(a)
  PROVE  IInv'
<1>1. TypeOK' BY DEF IInv, TypeOK, EndRequest
<1>2. OwnerFrame BY DEF EndRequest, OwnerFrame, Owned, Holdings, Purged, TaskStopped, Stopped,
                        Operation
<1>3. QED BY <1>1, <1>2, OwnerFrameKeeps

LEMMA StoreKeeps ==
  ASSUME IInv, NEW a \in Accounts, Store(a)
  PROVE  IInv'
<1>1. PICK m \in Uses : stored' = [stored EXCEPT ![a] = @ \cup {m}] BY DEF Store
<1>2. m \in Modules \ {"tasks"} BY LifecycleAssumption
<1>3. stored' \in [Accounts -> SUBSET ((Modules \ {"tasks"}) \cup {"logins"})]
  BY <1>1, <1>2 DEF IInv, TypeOK
<1>4. TypeOK' BY <1>3 DEF IInv, TypeOK, Store
<1>5. \A b \in Accounts \ requests : stored'[b] = stored[b]
  BY <1>1 DEF Store, IInv, TypeOK
<1>6. OwnerFrame
  BY <1>5 DEF Store, OwnerFrame, Owned, Holdings, Purged, TaskStopped, Stopped, Operation
<1>7. QED BY <1>4, <1>6, OwnerFrameKeeps

(* An operation that is appended, and one that is altered.                 *)
LEMMA OperationsTyped ==
  ASSUME TypeOK, NEW a \in Accounts
  PROVE  /\ operations[a] \in Seq(OperationRow) /\ Len(operations[a]) \in Nat
         /\ DOMAIN operations[a] = 1..Len(operations[a])
         /\ Len(operations[a]) <= MaxOperations
<1>1. operations[a] \in Seq(OperationRow) BY DEF TypeOK, OperationRow
<1>2. QED BY <1>1 DEF TypeOK

LEMMA Appended ==
  ASSUME TypeOK, NEW a \in Accounts, NEW row \in OperationRow, Len(operations[a]) < MaxOperations,
         operations' = [operations EXCEPT ![a] = Append(@, row)]
  PROVE  /\ operations' \in [Accounts -> Seq(OperationRow)]
         /\ \A b \in Accounts : Len(operations'[b]) <= MaxOperations
         /\ \A b \in Accounts \ {a} : operations'[b] = operations[b]
         /\ DOMAIN operations'[a] = 1..(Len(operations[a]) + 1)
         /\ Len(operations'[a]) = Len(operations[a]) + 1
         /\ operations'[a][Len(operations[a]) + 1] = row
<1>1. /\ operations'[a] = Append(operations[a], row)
      /\ \A b \in Accounts \ {a} : operations'[b] = operations[b]
      /\ DOMAIN operations' = Accounts /\ operations' = [b \in Accounts |-> operations'[b]]
  BY DEF TypeOK
<1>2. /\ operations'[a] \in Seq(OperationRow)
      /\ Len(operations'[a]) = Len(operations[a]) + 1
      /\ DOMAIN operations'[a] = 1..(Len(operations[a]) + 1)
      /\ operations'[a][Len(operations[a]) + 1] = row
  BY <1>1, OperationsTyped
<1>3. \A b \in Accounts : operations'[b] \in Seq(OperationRow)
  BY <1>1, <1>2, OperationsTyped
<1>4. \A b \in Accounts : Len(operations'[b]) <= MaxOperations
  BY <1>1, <1>2, OperationsTyped, LifecycleAssumption
<1>5. QED BY <1>1, <1>2, <1>3, <1>4

LEMMA Altered ==
  ASSUME TypeOK, NEW a \in Accounts, NEW i \in DOMAIN operations[a], NEW row \in OperationRow,
         Alter(a, i, row)
  PROVE  /\ operations' \in [Accounts -> Seq(OperationRow)]
         /\ \A b \in Accounts : Len(operations'[b]) <= MaxOperations
         /\ \A b \in Accounts : /\ Len(operations'[b]) = Len(operations[b])
                                /\ DOMAIN operations'[b] = DOMAIN operations[b]
         /\ \A b \in Accounts : \A j \in DOMAIN operations[b] :
              operations'[b][j] = IF b = a /\ j = i THEN row ELSE operations[b][j]
<1>1. /\ operations'[a] = [operations[a] EXCEPT ![i] = row]
      /\ \A b \in Accounts \ {a} : operations'[b] = operations[b]
      /\ operations' = [b \in Accounts |-> operations'[b]]
  BY DEF TypeOK, Alter
<1>2. /\ operations'[a] \in Seq(OperationRow)
      /\ Len(operations'[a]) = Len(operations[a])
      /\ DOMAIN operations'[a] = DOMAIN operations[a]
      /\ \A j \in DOMAIN operations[a] :
           operations'[a][j] = IF j = i THEN row ELSE operations[a][j]
  BY <1>1, OperationsTyped
<1>3. \A b \in Accounts : operations'[b] \in Seq(OperationRow)
  BY <1>1, <1>2, OperationsTyped
<1>4. \A b \in Accounts : /\ Len(operations'[b]) <= MaxOperations
                          /\ Len(operations'[b]) = Len(operations[b])
                          /\ DOMAIN operations'[b] = DOMAIN operations[b]
  BY <1>1, <1>2, OperationsTyped
<1>5. ASSUME NEW b \in Accounts, NEW j \in DOMAIN operations[b]
      PROVE  operations'[b][j] = IF b = a /\ j = i THEN row ELSE operations[b][j]
  BY <1>1, <1>2
<1>6. QED BY <1>1, <1>3, <1>4, <1>5

(* An operation that is submitted after the restriction is a late one.     *)
LEMMA SubmitKeeps ==
  ASSUME IInv, NEW a \in Accounts, Submit(a)
  PROVE  IInv'
<1> DEFINE row == [state |-> "ACTIVE", retried |-> FALSE, run |-> "NONE",
                   late |-> accounts[a].status # "ACTIVE"]
<1>1. row \in OperationRow BY DEF OperationRow
<1>2. TypeOK BY DEF IInv
<1>3. /\ operations' \in [Accounts -> Seq(OperationRow)]
      /\ \A b \in Accounts : Len(operations'[b]) <= MaxOperations
      /\ \A b \in Accounts \ {a} : operations'[b] = operations[b]
      /\ Len(operations'[a]) = Len(operations[a]) + 1
      /\ operations'[a][Len(operations[a]) + 1] = row
  BY <1>1, <1>2, Appended DEF Submit
<1>4. TypeOK' BY <1>2, <1>3 DEF TypeOK, OperationRow, Submit
<1>5. \A b \in Accounts \ {a} : Owned(b)' = Owned(b) /\ (TaskStopped(b) => TaskStopped(b)')
  BY <1>3 DEF Submit, Owned, Holdings, Purged, TaskStopped, Stopped, Operation
<1>6. accounts[a].status # "ACTIVE" => TaskStopped(a)'
  <2> SUFFICES ASSUME accounts[a].status # "ACTIVE" PROVE TaskStopped(a)' OBVIOUS
  <2>1. row.late OBVIOUS
  <2> HIDE DEF row
  <2>2. QED BY <1>3, <2>1 DEF TaskStopped, Stopped, Operation
<1>7. OwnerFrame BY <1>5, <1>6 DEF Submit, OwnerFrame
<1>8. QED BY <1>4, <1>7, OwnerFrameKeeps

(* The orchestrator and the adapter end an operation or write rows of its  *)
(* run; none makes an operation active that was not.                       *)
LEMMA OperationKeeps ==
  ASSUME IInv, NEW a \in Accounts, NEW i \in DOMAIN operations[a],
         \/ TaskEnds(a, i) \/ Retry(a, i) \/ StartRun(a, i) \/ PutRawSnapshot(a, i)
         \/ SaveRecoveryFacts(a, i)
  PROVE  IInv'
<1>1. TypeOK BY DEF IInv
<1>2. Operation(a, i) \in OperationRow BY <1>1, OperationsTyped DEF Operation
<1>3. PICK row \in OperationRow :
        /\ Alter(a, i, row)
        /\ row.late = Operation(a, i).late
        /\ row.state = "PURGED" <=> Operation(a, i).state = "PURGED"
        /\ row.state = "ACTIVE" => Operation(a, i).state = "ACTIVE"
  <2>1. CASE TaskEnds(a, i) BY <2>1, <1>2 DEF TaskEnds, OperationRow
  <2>2. CASE Retry(a, i) BY <2>2, <1>2 DEF Retry, OperationRow
  <2>3. CASE StartRun(a, i) BY <2>3, <1>2 DEF StartRun, OperationRow
  <2>4. CASE PutRawSnapshot(a, i) BY <2>4, <1>2 DEF PutRawSnapshot, OperationRow
  <2>5. CASE SaveRecoveryFacts(a, i) BY <2>5, <1>2 DEF SaveRecoveryFacts, OperationRow
  <2>6. QED BY <2>1, <2>2, <2>3, <2>4, <2>5
<1>4. UNCHANGED <<time, accounts, events, stored, requests, researching, cancelling, workers, faults>>
  BY DEF TaskEnds, Retry, StartRun, PutRawSnapshot, SaveRecoveryFacts
<1>5. /\ operations' \in [Accounts -> Seq(OperationRow)]
      /\ \A b \in Accounts : /\ Len(operations'[b]) <= MaxOperations
                             /\ Len(operations'[b]) = Len(operations[b])
                             /\ DOMAIN operations'[b] = DOMAIN operations[b]
      /\ \A b \in Accounts : \A j \in DOMAIN operations[b] :
           operations'[b][j] = IF b = a /\ j = i THEN row ELSE operations[b][j]
  BY <1>1, <1>3, Altered
<1>6. TypeOK' BY <1>1, <1>4, <1>5 DEF TypeOK, OperationRow
<1>7. ASSUME NEW b \in Accounts
      PROVE  Owned(b)' = Owned(b) /\ (TaskStopped(b) => TaskStopped(b)')
  <2>1. \A j \in DOMAIN operations[b] :
          /\ operations'[b][j].state = "PURGED" <=> operations[b][j].state = "PURGED"
          /\ operations'[b][j].state = "ACTIVE" => operations[b][j].state = "ACTIVE"
          /\ operations'[b][j].late = operations[b][j].late
    BY <1>3, <1>5 DEF Operation
  <2>2. Owned(b)' = Owned(b) BY <2>1, <1>4, <1>5 DEF Owned, Holdings, Purged
  <2>3. TaskStopped(b) => TaskStopped(b)'
    BY <2>1, <1>5 DEF TaskStopped, Stopped, Operation
  <2>4. QED BY <2>2, <2>3
<1>8. OwnerFrame BY <1>4, <1>7 DEF OwnerFrame
<1>9. QED BY <1>6, <1>8, OwnerFrameKeeps

LEMMA JobKeeps ==
  ASSUME IInv, NEW a \in Accounts, ClaimJob(a) \/ EndJob(a)
  PROVE  IInv'
<1>1. TypeOK' BY DEF IInv, TypeOK, ClaimJob, EndJob
<1>2. OwnerFrame
  BY DEF ClaimJob, EndJob, OwnerFrame, Owned, Holdings, Purged, TaskStopped, Stopped, Operation
<1>3. QED BY <1>1, <1>2, OwnerFrameKeeps

(* A login may be opened at any time, of an erased account as well.        *)
LEMMA BeginLoginKeeps ==
  ASSUME IInv, NEW a \in Accounts, BeginLogin(a)
  PROVE  IInv'
<1>1. /\ stored' \in [Accounts -> SUBSET ((Modules \ {"tasks"}) \cup {"logins"})]
      /\ \A b \in Accounts : stored'[b] \ {"logins"} = stored[b] \ {"logins"}
  BY DEF IInv, TypeOK, BeginLogin
<1>2. TypeOK' BY <1>1 DEF IInv, TypeOK, BeginLogin
<1>3. \A b \in Accounts : Owned(b)' = Owned(b)
  BY <1>1 DEF Owned, Holdings, Purged, BeginLogin
<1>4. OwnerFrame BY <1>3 DEF BeginLogin, OwnerFrame, TaskStopped, Stopped, Operation
<1>5. QED BY <1>2, <1>4, OwnerFrameKeeps

(* Time does not pass while a request is under way.                        *)
LEMMA TickKeeps ==
  ASSUME IInv, Tick
  PROVE  IInv'
<1>1. TypeOK' BY LifecycleAssumption DEF IInv, TypeOK, Tick
<1>2. time \in Nat BY LifecycleAssumption DEF IInv, TypeOK
<1>3. HoldsOpen'
  <2> SUFFICES ASSUME NEW w \in Workers, ~At(w, "idle") PROVE HeldAsPicked(w)'
    BY DEF IInv, HoldsOpen, Tick, At
  <2>1. HeldAsPicked(w) /\ events[workers[w].event].at \in 0..MaxTime
    BY EventsTyped DEF IInv, HoldsOpen, HeldAsPicked
  <2>2. QED BY <1>2, <2>1, LifecycleAssumption DEF HeldAsPicked, Tick, Open, At, Deletes
<1>4. HeldOnce' /\ DeletionIsQueued' /\ ActiveIsUnrestricted' /\ CancelsPending' /\ LetInInTime'
  BY DEF IInv, Tick, HeldOnce, DeletionIsQueued, ActiveIsUnrestricted, CancelsPending,
         LetInInTime, OfAccount, Open, At
<1>5. PurgedSoFar' /\ StoppedByCommit' /\ ErasedOwnNothing' /\ LatestStops'
  BY DEF IInv, Tick, PurgedSoFar, StoppedByCommit, ErasedOwnNothing, LatestStops, Restricted,
         Owned, Holdings, Purged, TaskStopped, Stopped, Operation, OfAccount, Open, At, Deletes,
         Account
<1>6. QED BY <1>1, <1>3, <1>4, <1>5 DEF IInv

-----------------------------------------------------------------------------
(* The account and its events change together.  What a worker holds stays  *)
(* what it was.                                                            *)
HeldStay ==
  /\ UNCHANGED <<time, operations, stored, workers>>
  /\ \A w \in Workers : ~At(w, "idle") =>
       LET e == workers[w].event
       IN /\ e \in DOMAIN events' /\ events'[e].state = "OPEN"
          /\ events'[e].account = events[e].account /\ events'[e].type = events[e].type
          /\ events'[e].at = events[e].at

LEMMA HeldStayKeeps ==
  ASSUME IInv, HeldStay
  PROVE  HoldsOpen' /\ HeldOnce' /\ PurgedSoFar' /\ StoppedByCommit'
<1>1. HoldsOpen'
  BY DEF IInv, HoldsOpen, HeldAsPicked, HeldStay, Open, At, Deletes
<1>2. HeldOnce'
  BY DEF IInv, HeldOnce, HeldStay, At
<1>3. PurgedSoFar'
  BY DEF IInv, PurgedSoFar, HeldStay, At, Deletes, Account, Owned, Holdings, Purged, Past
<1>4. StoppedByCommit'
  BY DEF IInv, StoppedByCommit, HeldStay, At, Deletes, Account, TaskStopped, Stopped, Operation
<1>5. QED BY <1>1, <1>2, <1>3, <1>4

LEMMA KeptRowsStay ==
  ASSUME IInv, KeepsRows, UNCHANGED <<time, operations, stored, workers>>
  PROVE  HeldStay
BY HeldEvent DEF KeepsRows, HeldStay, Open

LEMMA SetAccountDisabledKeeps ==
  ASSUME IInv, NEW a \in Accounts, SetAccountDisabled(a)
  PROVE  IInv'
<1> DEFINE row == Event(a, "RESTRICT", time)
           n == Len(events) + 1
<1>1. TypeOK BY DEF IInv
<1>2. row \in EventRow BY EventIsRow DEF IInv, TypeOK
<1>3. /\ KeepsRows /\ Len(events') = n /\ events'[n] = row
  BY <1>1, <1>2, OneAppended DEF SetAccountDisabled
<1>4. /\ Len(events) \in Nat /\ DOMAIN events = 1..Len(events) /\ DOMAIN events' = 1..n
      /\ \A e \in DOMAIN events : events'[e] = events[e]
      /\ \A e \in DOMAIN events' : e \in DOMAIN events \/ e = n
      /\ DOMAIN events \subseteq DOMAIN events' /\ n \in DOMAIN events'
  BY <1>1, <1>3, EventsTyped DEF KeepsRows
<1>5. /\ row.account = a /\ row.type = "RESTRICT" /\ row.state = "OPEN" BY DEF Event
<1>6. /\ \A b \in Accounts \ {a} : accounts'[b] = accounts[b]
      /\ accounts[a].status = "ACTIVE" /\ accounts'[a].status = "DISABLED"
      /\ accounts' \in [Accounts -> [status : {"ACTIVE", "DISABLED", "PENDING_DELETION", "DELETED"},
                                     due : 0..MaxTime]]
  <2>1. accounts \in [Accounts -> [status : {"ACTIVE", "DISABLED", "PENDING_DELETION", "DELETED"},
                                   due : 0..MaxTime]]
    BY DEF IInv, TypeOK
  <2>2. QED BY <2>1 DEF SetAccountDisabled
<1>7. TypeOK'
  <2>1. events' \in Seq(EventRow) BY <1>3 DEF KeepsRows
  <2>2. Len(events') <= MaxEvents
    BY <1>3, <1>4, LifecycleAssumption DEF SetAccountDisabled
  <2>3. QED BY <1>6, <2>1, <2>2 DEF SetAccountDisabled, IInv, TypeOK, EventRow
<1> HIDE DEF row, n
<1>8. HoldsOpen' /\ HeldOnce' /\ PurgedSoFar' /\ StoppedByCommit'
  BY <1>3, KeptRowsStay, HeldStayKeeps DEF SetAccountDisabled
<1>9. DeletionIsQueued'
  <2> SUFFICES ASSUME NEW b \in Accounts PROVE WaitsOnce(b)' BY QueuedOnce
  <2>1. WaitsOnce(b) BY QueuedOnce DEF IInv
  <2>2. \A e \in DOMAIN events : Waits(b, e)' <=> Waits(b, e)
    BY <1>4 DEF Waits, Open
  <2>3. \A e \in DOMAIN events' : Waits(b, e)' => e \in DOMAIN events
    BY <1>3, <1>4, <1>5 DEF Waits
  <2>4. accounts[b].status = "PENDING_DELETION" <=> accounts'[b].status = "PENDING_DELETION"
    BY <1>6
  <2>5. QED BY <1>4, <1>6, <2>1, <2>2, <2>3, <2>4 DEF WaitsOnce
<1>10. ActiveIsUnrestricted' /\ LatestStops'
  <2> SUFFICES ASSUME NEW b \in Accounts
               PROVE  /\ accounts'[b].status = "ACTIVE" =>
                           \A e \in OfAccount(b, {"RESTRICT"})' : ~Open(e)'
                      /\ (accounts'[b].status # "ACTIVE"
                            /\ \A e \in OfAccount(b, {"RESTRICT"})' : ~Open(e)') => TaskStopped(b)'
    BY DEF ActiveIsUnrestricted, LatestStops, Restricted, TaskStopped, Stopped, Operation
  <2>1. CASE b = a
    BY <2>1, <1>3, <1>4, <1>5, <1>6 DEF OfAccount, Open
  <2>2. CASE b # a
    <3>1. OfAccount(b, {"RESTRICT"})' = OfAccount(b, {"RESTRICT"})
      BY <2>2, <1>3, <1>4, <1>5 DEF OfAccount
    <3>2. \A e \in OfAccount(b, {"RESTRICT"}) : Open(e)' <=> Open(e)
      BY <1>4 DEF OfAccount, Open
    <3>3. QED
      BY <2>2, <1>6, <3>1, <3>2
      DEF IInv, ActiveIsUnrestricted, LatestStops, Restricted, TaskStopped, Stopped, Operation,
          SetAccountDisabled
  <2>3. QED BY <2>1, <2>2
<1>11. CancelsPending' /\ LetInInTime' /\ ErasedOwnNothing'
  <2>1. CancelsPending' /\ LetInInTime'
    BY <1>6 DEF IInv, TypeOK, CancelsPending, LetInInTime, SetAccountDisabled
  <2>2. UNCHANGED <<operations, stored>> BY DEF SetAccountDisabled
  <2>3. \A b \in Accounts : Owned(b)' = Owned(b) BY <2>2 DEF Owned, Holdings, Purged
  <2>4. \A b \in Accounts : accounts'[b].status = "DELETED" => accounts[b].status = "DELETED"
    BY <1>6
  <2>5. ErasedOwnNothing' BY <2>3, <2>4 DEF IInv, ErasedOwnNothing
  <2>6. QED BY <2>1, <2>5
<1>12. QED BY <1>7, <1>8, <1>9, <1>10, <1>11 DEF IInv

LEMMA RequestDeletionKeeps ==
  ASSUME IInv, NEW a \in Accounts, RequestDeletion(a)
  PROVE  IInv'
<1> DEFINE due == time + Grace
           row == Event(a, "RESTRICT", time)
           last == Event(a, "DELETE", due)
           n == Len(events) + 1
<1> PICK k : k = Len(events) + 2 OBVIOUS
<1>1. TypeOK BY DEF IInv
<1>2. due \in 0..MaxTime BY LifecycleAssumption DEF IInv, TypeOK, RequestDeletion
<1>3. row \in EventRow /\ last \in EventRow BY <1>2, EventIsRow DEF IInv, TypeOK
<1>4. KeepsRows /\ Len(events') = k /\ events'[n] = row /\ events'[k] = last
  BY <1>1, <1>3, TwoAppended DEF RequestDeletion
<1>5. /\ Len(events) \in Nat /\ DOMAIN events = 1..Len(events) /\ DOMAIN events' = 1..k
      /\ \A e \in DOMAIN events : events'[e] = events[e]
      /\ \A e \in DOMAIN events' : e \in DOMAIN events \/ e = n \/ e = k
      /\ DOMAIN events \subseteq DOMAIN events'
      /\ n \in DOMAIN events' /\ k \in DOMAIN events' /\ n # k
  BY <1>1, <1>4, EventsTyped DEF KeepsRows
<1>6. /\ row.account = a /\ row.type = "RESTRICT" /\ row.state = "OPEN"
      /\ last.account = a /\ last.type = "DELETE" /\ last.state = "OPEN" /\ last.at = due
  BY DEF Event
<1>7. /\ \A b \in Accounts \ {a} : accounts'[b] = accounts[b]
      /\ accounts[a].status = "ACTIVE"
      /\ accounts'[a].status = "PENDING_DELETION" /\ accounts'[a].due = due
      /\ accounts' \in [Accounts -> [status : {"ACTIVE", "DISABLED", "PENDING_DELETION", "DELETED"},
                                     due : 0..MaxTime]]
  BY <1>2 DEF RequestDeletion, IInv, TypeOK
<1>8. TypeOK'
  <2>1. events' \in Seq(EventRow) BY <1>4 DEF KeepsRows
  <2>2. Len(events') <= MaxEvents
    BY <1>4, <1>5, LifecycleAssumption DEF RequestDeletion
  <2>3. QED BY <1>7, <2>1, <2>2 DEF RequestDeletion, IInv, TypeOK, EventRow
<1>9. time \in Nat /\ due = time + Grace BY LifecycleAssumption DEF IInv, TypeOK
<1> HIDE DEF due, row, last, n
<1>10. HoldsOpen' /\ HeldOnce' /\ PurgedSoFar' /\ StoppedByCommit'
  BY <1>4, KeptRowsStay, HeldStayKeeps DEF RequestDeletion
<1>11. DeletionIsQueued'
  <2> SUFFICES ASSUME NEW b \in Accounts PROVE WaitsOnce(b)' BY QueuedOnce
  <2>1. WaitsOnce(b) BY QueuedOnce DEF IInv
  <2>2. \A e \in DOMAIN events : Waits(b, e)' <=> Waits(b, e)
    BY <1>5 DEF Waits, Open
  <2>3. \A e \in DOMAIN events' : Waits(b, e)' => e \in DOMAIN events \/ (b = a /\ e = k)
    BY <1>4, <1>5, <1>6 DEF Waits
  <2>4. CASE b = a
    <3>1. Waits(b, k)' /\ events'[k].at = accounts'[b].due
      BY <2>4, <1>4, <1>5, <1>6, <1>7 DEF Waits, Open
    <3>2. \A e \in DOMAIN events : ~Waits(b, e)
      BY <2>1, <2>4, <1>7 DEF WaitsOnce
    <3>3. \A e \in DOMAIN events' : Waits(b, e)' => e = k
      BY <2>2, <2>3, <3>2
    <3>4. accounts'[b].status = "PENDING_DELETION" BY <2>4, <1>7
    <3>5. QED BY <3>1, <3>3, <3>4, <1>5 DEF WaitsOnce
  <2>5. CASE b # a
    BY <1>5, <1>7, <2>1, <2>2, <2>3, <2>5 DEF WaitsOnce
  <2>6. QED BY <2>4, <2>5
<1>12. ActiveIsUnrestricted' /\ LatestStops'
  <2> SUFFICES ASSUME NEW b \in Accounts
               PROVE  /\ accounts'[b].status = "ACTIVE" =>
                           \A e \in OfAccount(b, {"RESTRICT"})' : ~Open(e)'
                      /\ (accounts'[b].status # "ACTIVE"
                            /\ \A e \in OfAccount(b, {"RESTRICT"})' : ~Open(e)') => TaskStopped(b)'
    BY DEF ActiveIsUnrestricted, LatestStops, Restricted, TaskStopped, Stopped, Operation
  <2>1. CASE b = a
    BY <2>1, <1>4, <1>5, <1>6, <1>7 DEF OfAccount, Open
  <2>2. CASE b # a
    <3>1. OfAccount(b, {"RESTRICT"})' = OfAccount(b, {"RESTRICT"})
      BY <2>2, <1>4, <1>5, <1>6 DEF OfAccount
    <3>2. \A e \in OfAccount(b, {"RESTRICT"}) : Open(e)' <=> Open(e)
      BY <1>5 DEF OfAccount, Open
    <3>3. QED
      BY <2>2, <1>7, <3>1, <3>2
      DEF IInv, ActiveIsUnrestricted, LatestStops, Restricted, TaskStopped, Stopped, Operation,
          RequestDeletion
  <2>3. QED BY <2>1, <2>2
<1>13. CancelsPending' /\ ErasedOwnNothing'
  <2>1. CancelsPending'
    BY <1>7 DEF IInv, TypeOK, CancelsPending, RequestDeletion
  <2>2. UNCHANGED <<operations, stored>> BY DEF RequestDeletion
  <2>3. \A b \in Accounts : Owned(b)' = Owned(b) BY <2>2 DEF Owned, Holdings, Purged
  <2>4. \A b \in Accounts : accounts'[b].status = "DELETED" => accounts[b].status = "DELETED"
    BY <1>7
  <2>5. ErasedOwnNothing' BY <2>3, <2>4 DEF IInv, ErasedOwnNothing
  <2>6. QED BY <2>1, <2>5
<1>14. LetInInTime'
  BY <1>7, <1>9, LifecycleAssumption DEF IInv, TypeOK, LetInInTime, RequestDeletion
<1>15. QED BY <1>8, <1>10, <1>11, <1>12, <1>13, <1>14 DEF IInv

(* Only events that nobody holds are cancelled.                            *)
LEMMA CancelledStay ==
  ASSUME IInv, NEW a \in Accounts, NEW types,
         events' = Cancelled(a, types), UNCHANGED <<time, operations, stored, workers>>,
         \A e \in OfAccount(a, types) : Open(e) => ~Held(e)
  PROVE  HeldStay
<1>1. TypeOK BY DEF IInv
<1>2. SameRows([e \in DOMAIN events |->
        IF Open(e) /\ events[e].account = a /\ events[e].type \in types
        THEN "CANCELLED" ELSE events[e].state])
  BY <1>1, CancelledRows
<1>3. ASSUME NEW w \in Workers, ~At(w, "idle"), NEW e, e = workers[w].event
      PROVE  /\ e \in DOMAIN events' /\ events'[e].state = "OPEN"
             /\ events'[e].account = events[e].account
             /\ events'[e].type = events[e].type
             /\ events'[e].at = events[e].at
  <2>1. e \in DOMAIN events /\ Open(e) /\ Held(e) BY <1>3, HeldEvent
  <2>2. e \notin OfAccount(a, types) BY <2>1
  <2>3. QED BY <1>2, <2>1, <2>2 DEF SameRows, OfAccount, Open
<1>4. QED BY <1>3 DEF HeldStay

(* Cancelling leaves the other accounts' events, and of this account none  *)
(* of the types open.                                                      *)
LEMMA CancelledOpen ==
  ASSUME TypeOK, NEW a \in Accounts, NEW types, events' = Cancelled(a, types), NEW b \in Accounts
  PROVE  /\ DOMAIN events' = DOMAIN events
         /\ \A e \in DOMAIN events :
              /\ events'[e].at = events[e].at /\ events'[e].account = events[e].account
              /\ events'[e].type = events[e].type
              /\ Open(e)' <=> Open(e) /\ ~(events[e].account = a /\ events[e].type \in types)
         /\ OfAccount(b, {"RESTRICT"})' = OfAccount(b, {"RESTRICT"})
         /\ \A e \in DOMAIN events : Waits(b, e)' <=> Waits(b, e) /\ ~(b = a /\ "DELETE" \in types)
<1>1. SameRows([e \in DOMAIN events |->
        IF Open(e) /\ events[e].account = a /\ events[e].type \in types
        THEN "CANCELLED" ELSE events[e].state])
  BY CancelledRows
<1>2. /\ DOMAIN events' = DOMAIN events
      /\ \A e \in DOMAIN events :
           /\ events'[e].at = events[e].at /\ events'[e].account = events[e].account
           /\ events'[e].type = events[e].type
           /\ Open(e)' <=> Open(e) /\ ~(events[e].account = a /\ events[e].type \in types)
  BY <1>1 DEF SameRows, Open
<1>3. OfAccount(b, {"RESTRICT"})' = OfAccount(b, {"RESTRICT"})
  BY <1>2 DEF OfAccount
<1>4. QED BY <1>2, <1>3 DEF Waits

LEMMA CancelledTyped ==
  ASSUME TypeOK, NEW a \in Accounts, NEW types, events' = Cancelled(a, types)
  PROVE  events' \in Seq(EventRow) /\ Len(events') <= MaxEvents
<1>1. SameRows([e \in DOMAIN events |->
        IF Open(e) /\ events[e].account = a /\ events[e].type \in types
        THEN "CANCELLED" ELSE events[e].state])
  BY CancelledRows
<1>2. QED BY <1>1 DEF SameRows, TypeOK

LEMMA SetAccountActiveKeeps ==
  ASSUME IInv, NEW a \in Accounts, SetAccountActive(a)
  PROVE  IInv'
<1>1. TypeOK BY DEF IInv
<1>2. /\ \A b \in Accounts \ {a} : accounts'[b] = accounts[b]
      /\ accounts[a].status = "DISABLED" /\ accounts'[a].status = "ACTIVE"
      /\ accounts' \in [Accounts -> [status : {"ACTIVE", "DISABLED", "PENDING_DELETION", "DELETED"},
                                     due : 0..MaxTime]]
  <2>1. accounts \in [Accounts -> [status : {"ACTIVE", "DISABLED", "PENDING_DELETION", "DELETED"},
                                   due : 0..MaxTime]]
    BY DEF IInv, TypeOK
  <2>2. QED BY <2>1 DEF SetAccountActive
<1>3. events' = Cancelled(a, {"RESTRICT"}) BY DEF SetAccountActive
<1>4. TypeOK'
  <2>1. events' \in Seq(EventRow) /\ Len(events') <= MaxEvents BY <1>1, <1>3, CancelledTyped
  <2>2. QED BY <1>1, <1>2, <2>1 DEF SetAccountActive, TypeOK, EventRow
<1>5. HoldsOpen' /\ HeldOnce' /\ PurgedSoFar' /\ StoppedByCommit'
  BY <1>3, CancelledStay, HeldStayKeeps DEF SetAccountActive
<1>6. DeletionIsQueued'
  <2> SUFFICES ASSUME NEW b \in Accounts PROVE WaitsOnce(b)' BY QueuedOnce
  <2>1. WaitsOnce(b) BY QueuedOnce DEF IInv
  <2>2. /\ DOMAIN events' = DOMAIN events
        /\ \A e \in DOMAIN events : events'[e].at = events[e].at /\ (Waits(b, e)' <=> Waits(b, e))
    BY <1>1, <1>3, CancelledOpen
  <2>3. QED BY <1>2, <2>1, <2>2 DEF WaitsOnce
<1>7. ActiveIsUnrestricted'
  <2> SUFFICES ASSUME NEW b \in Accounts, accounts'[b].status = "ACTIVE",
                      NEW e \in OfAccount(b, {"RESTRICT"})
               PROVE  ~Open(e)'
    BY <1>1, <1>3, CancelledOpen DEF ActiveIsUnrestricted
  <2>1. Open(e)' <=> Open(e) /\ ~(events[e].account = a /\ events[e].type \in {"RESTRICT"})
    BY <1>1, <1>3, CancelledOpen DEF OfAccount
  <2>2. QED BY <1>2, <2>1 DEF IInv, ActiveIsUnrestricted, OfAccount
<1>8. LatestStops'
  <2> SUFFICES ASSUME NEW b \in Accounts, accounts'[b].status # "ACTIVE",
                      \A e \in OfAccount(b, {"RESTRICT"})' : ~Open(e)'
               PROVE  TaskStopped(b)'
    BY DEF LatestStops, Restricted, TaskStopped, Stopped, Operation
  <2>1. b # a BY <1>2
  <2>2. \A e \in OfAccount(b, {"RESTRICT"}) : ~Open(e)
    <3> SUFFICES ASSUME NEW e \in OfAccount(b, {"RESTRICT"}) PROVE ~Open(e) OBVIOUS
    <3>1. OfAccount(b, {"RESTRICT"})' = OfAccount(b, {"RESTRICT"})
      BY <1>1, <1>3, CancelledOpen
    <3>2. Open(e)' <=> Open(e) /\ ~(events[e].account = a /\ events[e].type \in {"RESTRICT"})
      BY <1>1, <1>3, CancelledOpen DEF OfAccount
    <3>3. QED BY <2>1, <3>1, <3>2 DEF OfAccount
  <2>3. QED BY <1>2, <2>1, <2>2 DEF IInv, LatestStops, Restricted, TaskStopped, Stopped,
                                    Operation, SetAccountActive
<1>9. CancelsPending' /\ LetInInTime' /\ ErasedOwnNothing'
  <2>1. CancelsPending' /\ LetInInTime'
    BY <1>2 DEF IInv, TypeOK, CancelsPending, LetInInTime, SetAccountActive
  <2>2. UNCHANGED <<operations, stored>> BY DEF SetAccountActive
  <2>3. \A b \in Accounts : Owned(b)' = Owned(b) BY <2>2 DEF Owned, Holdings, Purged
  <2>4. \A b \in Accounts : accounts'[b].status = "DELETED" => accounts[b].status = "DELETED"
    BY <1>2
  <2>5. ErasedOwnNothing' BY <2>3, <2>4 DEF IInv, ErasedOwnNothing
  <2>6. QED BY <2>1, <2>5
<1>10. QED BY <1>4, <1>5, <1>6, <1>7, <1>8, <1>9 DEF IInv

LEMMA CancelSelfDeletionKeeps ==
  ASSUME IInv, NEW a \in Accounts, CancelSelfDeletion(a)
  PROVE  IInv'
<1>1. TypeOK BY DEF IInv
<1>2. /\ \A b \in Accounts \ {a} : accounts'[b] = accounts[b]
      /\ accounts'[a].status = "ACTIVE"
      /\ accounts' \in [Accounts -> [status : {"ACTIVE", "DISABLED", "PENDING_DELETION", "DELETED"},
                                     due : 0..MaxTime]]
  BY LifecycleAssumption DEF CancelSelfDeletion, IInv, TypeOK
<1>3. events' = Cancelled(a, {"DELETE", "RESTRICT"}) BY DEF CancelSelfDeletion
<1>4. TypeOK'
  <2>1. events' \in Seq(EventRow) /\ Len(events') <= MaxEvents BY <1>1, <1>3, CancelledTyped
  <2>2. QED BY <1>1, <1>2, <2>1 DEF CancelSelfDeletion, TypeOK, EventRow
<1>5. HoldsOpen' /\ HeldOnce' /\ PurgedSoFar' /\ StoppedByCommit'
  BY <1>3, CancelledStay, HeldStayKeeps DEF CancelSelfDeletion
<1>6. DeletionIsQueued'
  <2> SUFFICES ASSUME NEW b \in Accounts PROVE WaitsOnce(b)' BY QueuedOnce
  <2>1. WaitsOnce(b) BY QueuedOnce DEF IInv
  <2>2. /\ DOMAIN events' = DOMAIN events
        /\ \A e \in DOMAIN events :
             events'[e].at = events[e].at /\ (Waits(b, e)' <=> Waits(b, e) /\ b # a)
    BY <1>1, <1>3, CancelledOpen
  <2>3. CASE b = a BY <1>2, <2>2, <2>3 DEF WaitsOnce
  <2>4. CASE b # a BY <1>2, <2>1, <2>2, <2>4 DEF WaitsOnce
  <2>5. QED BY <2>3, <2>4
<1>7. ActiveIsUnrestricted'
  <2> SUFFICES ASSUME NEW b \in Accounts, accounts'[b].status = "ACTIVE",
                      NEW e \in OfAccount(b, {"RESTRICT"})
               PROVE  ~Open(e)'
    BY <1>1, <1>3, CancelledOpen DEF ActiveIsUnrestricted
  <2>1. Open(e)' <=> Open(e) /\ ~(events[e].account = a /\ events[e].type \in {"DELETE", "RESTRICT"})
    BY <1>1, <1>3, CancelledOpen DEF OfAccount
  <2>2. QED BY <1>2, <2>1 DEF IInv, ActiveIsUnrestricted, OfAccount
<1>8. LatestStops'
  <2> SUFFICES ASSUME NEW b \in Accounts, accounts'[b].status # "ACTIVE",
                      \A e \in OfAccount(b, {"RESTRICT"})' : ~Open(e)'
               PROVE  TaskStopped(b)'
    BY DEF LatestStops, Restricted, TaskStopped, Stopped, Operation
  <2>1. b # a BY <1>2
  <2>2. \A e \in OfAccount(b, {"RESTRICT"}) : ~Open(e)
    <3> SUFFICES ASSUME NEW e \in OfAccount(b, {"RESTRICT"}) PROVE ~Open(e) OBVIOUS
    <3>1. OfAccount(b, {"RESTRICT"})' = OfAccount(b, {"RESTRICT"})
      BY <1>1, <1>3, CancelledOpen
    <3>2. Open(e)' <=> Open(e) /\ ~(events[e].account = a /\ events[e].type \in {"DELETE", "RESTRICT"})
      BY <1>1, <1>3, CancelledOpen DEF OfAccount
    <3>3. QED BY <2>1, <3>1, <3>2 DEF OfAccount
  <2>3. QED BY <1>2, <2>1, <2>2 DEF IInv, LatestStops, Restricted, TaskStopped, Stopped,
                                    Operation, CancelSelfDeletion
<1>9. CancelsPending' /\ LetInInTime' /\ ErasedOwnNothing'
  <2>1. CancelsPending' /\ LetInInTime'
    BY <1>2 DEF IInv, TypeOK, CancelsPending, LetInInTime, CancelSelfDeletion
  <2>2. UNCHANGED <<operations, stored>> BY DEF CancelSelfDeletion
  <2>3. \A b \in Accounts : Owned(b)' = Owned(b) BY <2>2 DEF Owned, Holdings, Purged
  <2>4. \A b \in Accounts : accounts'[b].status = "DELETED" => accounts[b].status = "DELETED"
    BY <1>2
  <2>5. ErasedOwnNothing' BY <2>3, <2>4 DEF IInv, ErasedOwnNothing
  <2>6. QED BY <2>1, <2>5
<1>10. QED BY <1>4, <1>5, <1>6, <1>7, <1>8, <1>9 DEF IInv

(* A cancellation that begins or is aborted changes nothing else.          *)
LEMMA OnlyCancelling ==
  ASSUME IInv, TypeOK', CancelsPending',
         UNCHANGED <<time, accounts, events, operations, stored, requests, researching, workers>>
  PROVE  IInv'
<1>1. HoldsOpen' /\ HeldOnce' /\ PurgedSoFar' /\ StoppedByCommit'
  BY HeldEvent, HeldStayKeeps DEF HeldStay, Open
<1>2. DeletionIsQueued' /\ ActiveIsUnrestricted' /\ LetInInTime'
  BY DEF IInv, DeletionIsQueued, ActiveIsUnrestricted, LetInInTime, OfAccount, Open
<1>3. ErasedOwnNothing' /\ LatestStops'
  BY DEF IInv, ErasedOwnNothing, LatestStops, Restricted, OfAccount, Open, Owned, Holdings,
         Purged, TaskStopped, Stopped, Operation
<1>4. QED BY <1>1, <1>2, <1>3 DEF IInv

LEMMA LockAccountKeeps ==
  ASSUME IInv, NEW a \in Accounts, LockAccount(a)
  PROVE  IInv'
<1>1. TypeOK' BY DEF IInv, TypeOK, LockAccount
<1>2. CancelsPending' BY DEF IInv, CancelsPending, LockAccount
<1>3. QED BY <1>1, <1>2, OnlyCancelling DEF LockAccount

LEMMA AbortCancellationKeeps ==
  ASSUME IInv, NEW w \in Workers, AbortCancellation(w)
  PROVE  IInv'
<1>1. TypeOK' BY DEF IInv, TypeOK, AbortCancellation
<1>2. CancelsPending' BY DEF IInv, CancelsPending, AbortCancellation
<1>3. QED BY <1>1, <1>2, OnlyCancelling DEF AbortCancellation

-----------------------------------------------------------------------------
(* The worker.                                                             *)
LEMMA WorkerRow ==
  ASSUME TypeOK, NEW w \in Workers, NEW row, workers' = [workers EXCEPT ![w] = row]
  PROVE  workers'[w] = row /\ \A v \in Workers \ {w} : workers'[v] = workers[v]
BY DEF TypeOK

LEMMA WorkerGoes ==
  ASSUME TypeOK, NEW w \in Workers, NEW pc \in Stages, Go(w, pc)
  PROVE  /\ workers'[w].pc = pc /\ workers'[w].event = workers[w].event
         /\ \A v \in Workers \ {w} : workers'[v] = workers[v]
         /\ workers' \in [Workers -> [pc : Stages, event : 0..MaxEvents]]
BY DEF TypeOK, Go, Stages

(* A worker that has let go of its event, and the others with theirs.      *)
OthersStay(w) ==
  /\ UNCHANGED <<time, operations, stored>> /\ Rest(w)
  /\ \A v \in Workers \ {w} : \A e \in DOMAIN events : ~At(v, "idle") /\ workers[v].event = e =>
       /\ e \in DOMAIN events' /\ events'[e].state = "OPEN"
       /\ events'[e].account = events[e].account /\ events'[e].type = events[e].type
       /\ events'[e].at = events[e].at

LEMMA OthersStayKeep ==
  ASSUME IInv, NEW w \in Workers, OthersStay(w)
  PROVE  HoldsOpen' /\ HeldOnce' /\ PurgedSoFar' /\ StoppedByCommit'
<1>1. /\ workers'[w] = IdleWorker /\ At(w, "idle")' /\ workers'[w].event = 0
      /\ \A v \in Workers \ {w} : workers'[v] = workers[v]
  <2>1. workers'[w] = IdleWorker /\ \A v \in Workers \ {w} : workers'[v] = workers[v]
    BY WorkerRow DEF IInv, OthersStay, Rest
  <2>2. QED BY <2>1 DEF IdleWorker, At
<1>2. ASSUME NEW v \in Workers, ~At(v, "idle")'
      PROVE  /\ v # w /\ ~At(v, "idle") /\ workers'[v] = workers[v]
             /\ workers[v].event \in DOMAIN events /\ workers[v].event \in DOMAIN events'
             /\ Open(workers[v].event)'
             /\ Account(v)' = Account(v) /\ (Deletes(v)' <=> Deletes(v))
             /\ events'[workers[v].event].at = events[workers[v].event].at
  <2>1. v # w BY <1>1, <1>2
  <2>2. workers'[v] = workers[v] /\ ~At(v, "idle") BY <1>1, <1>2, <2>1 DEF At
  <2>3. PICK e \in DOMAIN events : e = workers[v].event BY <2>2, HeldEvent
  <2>4. /\ e \in DOMAIN events' /\ events'[e].state = "OPEN"
        /\ events'[e].account = events[e].account /\ events'[e].type = events[e].type
        /\ events'[e].at = events[e].at
    BY <2>1, <2>2, <2>3 DEF OthersStay
  <2>5. QED BY <2>1, <2>2, <2>3, <2>4 DEF Open, Account, Deletes
<1>3. HoldsOpen'
  <2> SUFFICES ASSUME NEW v \in Workers, ~At(v, "idle")' PROVE HeldAsPicked(v)'
    <3>1. ASSUME NEW v \in Workers, At(v, "idle")' PROVE workers'[v].event = 0
      BY <3>1, <1>1 DEF IInv, HoldsOpen, At
    <3>2. QED BY <3>1 DEF HoldsOpen
  <2>1. HeldAsPicked(v) BY <1>2 DEF IInv, HoldsOpen
  <2>2. QED BY <1>2, <2>1 DEF HeldAsPicked, At, OthersStay
<1>4. HeldOnce'
  <2> SUFFICES ASSUME NEW u \in Workers, NEW v \in Workers, ~At(u, "idle")',
                      workers'[u].event = workers'[v].event
               PROVE  u = v
    BY DEF HeldOnce
  <2>1. u # w /\ ~At(u, "idle") /\ workers'[u] = workers[u] BY <1>2
  <2>2. workers'[v].event # 0 BY <2>1, HeldEvent
  <2>3. workers'[v] = workers[v] BY <1>1, <2>2
  <2>4. QED BY <2>1, <2>3 DEF IInv, HeldOnce
<1>5. PurgedSoFar'
  BY <1>2 DEF IInv, PurgedSoFar, OthersStay, At, Owned, Holdings, Purged, Past
<1>6. StoppedByCommit'
  BY <1>1, <1>2 DEF IInv, StoppedByCommit, OthersStay, At, TaskStopped, Stopped, Operation,
                    IdleWorker
<1>7. QED BY <1>3, <1>4, <1>5, <1>6

LEMMA LetsGoKeeps ==
  ASSUME IInv, NEW w \in Workers, Rest(w), faults' \in 0..MaxFaults,
         UNCHANGED <<time, accounts, events, operations, stored, requests, researching, cancelling>>
  PROVE  IInv'
<1>1. TypeOK'
  <2>1. IdleWorker \in [pc : Stages, event : 0..MaxEvents]
    BY LifecycleAssumption DEF IdleWorker, Stages
  <2>2. QED BY <2>1 DEF IInv, TypeOK, Rest, Stages
<1>2. OthersStay(w)
  BY HeldEvent DEF OthersStay, Open
<1>3. HoldsOpen' /\ HeldOnce' /\ PurgedSoFar' /\ StoppedByCommit' BY <1>2, OthersStayKeep
<1>4. QED
  BY <1>1, <1>3 DEF IInv, DeletionIsQueued, ActiveIsUnrestricted, CancelsPending, LetInInTime,
                    ErasedOwnNothing, LatestStops, Restricted, OfAccount, Open, Owned, Holdings,
                    Purged, TaskStopped, Stopped, Operation

LEMMA PurgeRefusedKeeps ==
  ASSUME IInv, NEW w \in Workers, PurgeRefused(w)
  PROVE  IInv'
BY LetsGoKeeps DEF PurgeRefused, IInv, TypeOK

LEMMA FailKeeps ==
  ASSUME IInv, NEW w \in Workers, Fail(w)
  PROVE  IInv'
<1>1. faults' \in 0..MaxFaults BY LifecycleAssumption DEF IInv, TypeOK, Fail
<1>2. QED BY <1>1, LetsGoKeeps DEF Fail

LEMMA AbortWorkerKeeps ==
  ASSUME IInv, NEW w \in Workers, AbortWorker(w)
  PROVE  IInv'
BY LetsGoKeeps DEF AbortWorker, IInv, TypeOK

LEMMA PickKeeps ==
  ASSUME IInv, NEW w \in Workers, Pick(w)
  PROVE  IInv'
<1>1. TypeOK BY DEF IInv
<1>2. PICK e \in DOMAIN events :
        Scheduled(e) /\ workers' = [workers EXCEPT ![w] = [pc |-> "list", event |-> e]]
  BY DEF Pick
<1>3. /\ workers'[w] = [pc |-> "list", event |-> e]
      /\ \A v \in Workers \ {w} : workers'[v] = workers[v]
  BY <1>1, <1>2, WorkerRow
<1>4. Open(e) /\ events[e].at <= time /\ \A v \in Workers : workers[v].event # e
  BY <1>2 DEF Scheduled, Locked, Held
<1>5. TypeOK'
  <2>1. e \in 0..MaxEvents BY <1>1, EventsTyped, LifecycleAssumption
  <2>2. [pc |-> "list", event |-> e] \in
          [pc : Stages, event : 0..MaxEvents]
    BY <2>1 DEF Stages
  <2>3. workers' \in [Workers -> [pc : Stages, event : 0..MaxEvents]]
    BY <1>1, <1>2, <2>2 DEF TypeOK, Stages
  <2>4. QED BY <1>1, <2>3 DEF TypeOK, Pick, Stages
<1>6. HoldsOpen'
  <2>1. IF At(w, "idle")' THEN workers'[w].event = 0 ELSE HeldAsPicked(w)'
    BY <1>3, <1>4 DEF HeldAsPicked, Pick, Open, At
  <2>2. ASSUME NEW v \in Workers \ {w}
        PROVE  IF At(v, "idle")' THEN workers'[v].event = 0 ELSE HeldAsPicked(v)'
    BY <1>3 DEF IInv, HoldsOpen, HeldAsPicked, Pick, Open, At, Deletes
  <2>3. QED BY <2>1, <2>2 DEF HoldsOpen
<1>7. HeldOnce'
  BY <1>3, <1>4 DEF IInv, HeldOnce, At
<1>8. PurgedSoFar'
  <2>1. Past("list") = {} BY DEF Past
  <2>2. Owned(Account(w))' \cap Past(workers'[w].pc) = {} BY <1>3, <2>1
  <2>3. ASSUME NEW v \in Workers \ {w}, ~At(v, "idle")', Deletes(v)'
        PROVE  Owned(Account(v))' \cap Past(workers'[v].pc) = {}
    <3>1. workers'[v] = workers[v] BY <1>3
    <3>2. ~At(v, "idle") /\ Deletes(v) BY <2>3, <3>1 DEF Pick, At, Deletes
    <3>3. Owned(Account(v))' = Owned(Account(v))
      BY <3>1 DEF Pick, Account, Owned, Holdings, Purged
    <3>4. QED BY <3>1, <3>2, <3>3 DEF IInv, PurgedSoFar
  <2>4. QED BY <2>2, <2>3 DEF PurgedSoFar
<1>9. StoppedByCommit'
  <2>1. ~At(w, "commit")' BY <1>3 DEF At
  <2>2. QED BY <1>3, <2>1 DEF IInv, StoppedByCommit, Pick, At, Deletes, Account, TaskStopped,
                              Stopped, Operation
<1>10. QED
  BY <1>5, <1>6, <1>7, <1>8, <1>9
  DEF IInv, Pick, DeletionIsQueued, ActiveIsUnrestricted, CancelsPending, LetInInTime,
      ErasedOwnNothing, LatestStops, Restricted, OfAccount, Open, Owned, Holdings, Purged,
      TaskStopped, Stopped, Operation

(* The other workers, when one goes on without touching the queue.         *)
LEMMA WorkerGoesOn ==
  ASSUME IInv, NEW w \in Workers, NEW pc \in Stages \ {"idle"}, Go(w, pc),
         ~At(w, "idle"), pc \in {"list", "cancel", "commit"} \/ Deletes(w),
         UNCHANGED <<time, accounts, events, requests, cancelling>>,
         TypeOK', NEW a \in Accounts, a = Account(w),
         Deletes(w) => Owned(a)' \cap Past(pc) = {},
         pc = "commit" /\ ~Deletes(w) => TaskStopped(a)',
         \A b \in Accounts : /\ Owned(b)' \subseteq Owned(b)
                             /\ TaskStopped(b) => TaskStopped(b)'
  PROVE  IInv'
<1>1. /\ workers'[w].pc = pc /\ workers'[w].event = workers[w].event
      /\ \A v \in Workers \ {w} : workers'[v] = workers[v]
  BY WorkerGoes DEF IInv
<1>2. /\ ~At(w, "idle")'
      /\ \A v \in Workers : /\ workers'[v].event = workers[v].event
                            /\ At(v, "idle")' <=> At(v, "idle")
                            /\ Account(v)' = Account(v) /\ (Deletes(v)' <=> Deletes(v))
  BY <1>1 DEF At, Account, Deletes, Modules
<1>3. HoldsOpen'
  BY <1>1, <1>2 DEF IInv, HoldsOpen, HeldAsPicked, Open, At
<1>4. HeldOnce'
  BY <1>2 DEF IInv, HeldOnce
<1>5. PurgedSoFar'
  <2> SUFFICES ASSUME NEW v \in Workers, ~At(v, "idle")', Deletes(v)'
               PROVE  Owned(Account(v))' \cap Past(workers'[v].pc) = {}
    BY DEF PurgedSoFar, Past
  <2>1. CASE v = w
    <3>1. Account(v)' = a BY <1>2, <2>1
    <3>2. Owned(Account(v))' = Owned(a)' BY <3>1 DEF Owned, Holdings, Purged
    <3>3. QED BY <2>1, <3>2, <1>1, <1>2
  <2>2. CASE v # w
    <3>1. Account(v) \in Accounts /\ Owned(Account(v)) \cap Past(workers[v].pc) = {}
      BY <1>2, HeldEvent DEF IInv, PurgedSoFar
    <3>2. PICK b \in Accounts : b = Account(v) BY <3>1
    <3>3. Account(v)' = b BY <1>2, <3>2
    <3>4. Owned(b)' \subseteq Owned(b) OBVIOUS
    <3>5. Owned(Account(v))' = Owned(b)' BY <3>3 DEF Owned, Holdings, Purged
    <3>6. workers'[v].pc = workers[v].pc BY <1>1, <2>2
    <3>7. QED BY <3>1, <3>2, <3>4, <3>5, <3>6
  <2>3. QED BY <2>1, <2>2
<1>6. StoppedByCommit'
  <2> SUFFICES ASSUME NEW v \in Workers, At(v, "commit")', ~Deletes(v)'
               PROVE  TaskStopped(Account(v))'
    BY DEF StoppedByCommit, TaskStopped, Stopped, Operation
  <2>1. CASE v = w
    <3>1. Account(v)' = a BY <1>2, <2>1
    <3>2. TaskStopped(Account(v))' = TaskStopped(a)' BY <3>1 DEF TaskStopped, Stopped, Operation
    <3>3. QED BY <2>1, <3>2, <1>1, <1>2 DEF At
  <2>2. CASE v # w
    <3>1. At(v, "commit") /\ ~Deletes(v) /\ ~At(v, "idle") BY <1>1, <1>2, <2>2 DEF At
    <3>2. PICK b \in Accounts : b = Account(v) BY <3>1, HeldEvent
    <3>3. TaskStopped(b) BY <3>1, <3>2 DEF IInv, StoppedByCommit
    <3>4. TaskStopped(b)' BY <3>3
    <3>5. Account(v)' = b BY <1>2, <3>2
    <3>6. QED BY <3>4, <3>5 DEF TaskStopped, Stopped, Operation
  <2>3. QED BY <2>1, <2>2
<1>7. ErasedOwnNothing'
  <2> SUFFICES ASSUME NEW b \in Accounts, accounts'[b].status = "DELETED"
               PROVE  Owned(b)' = {}
    BY DEF ErasedOwnNothing, Owned, Holdings, Purged
  <2>1. Owned(b) = {} BY DEF IInv, ErasedOwnNothing
  <2>2. QED BY <2>1
<1>8. LatestStops'
  <2> SUFFICES ASSUME NEW b \in Accounts, accounts'[b].status # "ACTIVE",
                      \A e \in OfAccount(b, {"RESTRICT"})' : ~Open(e)'
               PROVE  TaskStopped(b)'
    BY DEF LatestStops, Restricted, TaskStopped, Stopped, Operation
  <2>1. TaskStopped(b) BY DEF IInv, LatestStops, Restricted, OfAccount, Open, TaskStopped,
                              Stopped, Operation
  <2>2. QED BY <2>1
<1>9. DeletionIsQueued' /\ ActiveIsUnrestricted' /\ CancelsPending' /\ LetInInTime'
  BY DEF IInv, DeletionIsQueued, ActiveIsUnrestricted, CancelsPending, LetInInTime, OfAccount, Open
<1>10. QED BY <1>3, <1>4, <1>5, <1>6, <1>7, <1>8, <1>9 DEF IInv

(* The list and the cancellation of the latest operation.                  *)
LEMMA ListActiveTasksKeeps ==
  ASSUME IInv, NEW w \in Workers, ListActiveTasks(w)
  PROVE  IInv'
<1>1. TypeOK /\ ~At(w, "idle") BY DEF IInv, ListActiveTasks, At
<1>2. PICK a \in Accounts : a = Account(w) BY <1>1, HeldEvent
<1>3. PICK pc \in Stages \ {"idle"} :
        /\ Go(w, pc)
        /\ IF LatestActive(a) THEN pc = "cancel" ELSE pc = AfterTasks(w)
  BY <1>2 DEF ListActiveTasks, AfterTasks, Stages, Modules
<1>4. workers' \in [Workers -> [pc : Stages, event : 0..MaxEvents]]
  BY <1>1, <1>3, WorkerGoes
<1>5. TypeOK' BY <1>1, <1>4 DEF TypeOK, ListActiveTasks, Stages
<1>6. \A b \in Accounts : Owned(b)' = Owned(b) /\ (TaskStopped(b)' <=> TaskStopped(b))
  BY DEF ListActiveTasks, Owned, Holdings, Purged, TaskStopped, Stopped, Operation
<1>7. Past(pc) = {} \/ ~Deletes(w) BY <1>3 DEF AfterTasks, Past
<1>8. pc \in {"list", "cancel", "commit"} \/ Deletes(w) BY <1>3 DEF AfterTasks
<1>9. pc = "commit" => TaskStopped(a)'
  <2> SUFFICES ASSUME pc = "commit" PROVE TaskStopped(a) BY <1>6
  <2>1. operations[a] = <<>> \/ Latest(a).state # "ACTIVE" BY <1>3 DEF AfterTasks, LatestActive
  <2>2. CASE operations[a] = <<>> BY <2>2, <1>1, OperationsTyped DEF TaskStopped
  <2>3. CASE Latest(a).state # "ACTIVE" BY <2>3 DEF TaskStopped, Latest, Operation, Stopped
  <2>4. QED BY <2>1, <2>2, <2>3
<1>10. QED
  BY <1>1, <1>2, <1>3, <1>5, <1>6, <1>7, <1>8, <1>9, WorkerGoesOn DEF ListActiveTasks

LEMMA RequestRuntimeCancelKeeps ==
  ASSUME IInv, NEW w \in Workers, RequestRuntimeCancel(w)
  PROVE  IInv'
<1>1. TypeOK /\ ~At(w, "idle") BY DEF IInv, RequestRuntimeCancel, At
<1>2. PICK a \in Accounts : a = Account(w) BY <1>1, HeldEvent
<1>3. PICK pc \in Stages \ {"idle"} : Go(w, pc) /\ pc = AfterTasks(w)
  BY DEF RequestRuntimeCancel, AfterTasks, Stages, Modules
<1>4. workers' \in [Workers -> [pc : Stages, event : 0..MaxEvents]]
  BY <1>1, <1>3, WorkerGoes
<1>5. /\ operations' \in [Accounts -> Seq(OperationRow)]
      /\ \A b \in Accounts : Len(operations'[b]) <= MaxOperations
      /\ \A b \in Accounts : Owned(b)' = Owned(b) /\ (TaskStopped(b) => TaskStopped(b)')
      /\ TaskStopped(a)'
  <2>0. UNCHANGED stored BY DEF RequestRuntimeCancel
  <2>1. CASE LatestActive(a)
    <3> DEFINE n == Len(operations[a])
               row == [Latest(a) EXCEPT !.state = "FINAL"]
    <3>1. n \in DOMAIN operations[a] /\ Latest(a) = Operation(a, n)
      BY <2>1, <1>1, OperationsTyped DEF Latest, LatestActive, Operation
    <3>2. Latest(a) \in OperationRow BY <3>1, <1>1, OperationsTyped DEF Latest
    <3>3. row \in OperationRow /\ row.state = "FINAL" BY <3>2 DEF OperationRow
    <3>4. Alter(a, n, row) BY <2>1, <1>2 DEF RequestRuntimeCancel
    <3> HIDE DEF row
    <3>5. /\ operations' \in [Accounts -> Seq(OperationRow)]
          /\ \A b \in Accounts : /\ Len(operations'[b]) <= MaxOperations
                                 /\ Len(operations'[b]) = Len(operations[b])
                                 /\ DOMAIN operations'[b] = DOMAIN operations[b]
          /\ \A b \in Accounts : \A j \in DOMAIN operations[b] :
               operations'[b][j] = IF b = a /\ j = n THEN row ELSE operations[b][j]
      BY <1>1, <3>1, <3>3, <3>4, Altered
    <3>6. operations[a][n].state = "ACTIVE" BY <2>1, <3>1 DEF Operation, LatestActive
    <3>7. \A b \in Accounts : Owned(b)' = Owned(b)
      BY <3>3, <3>5, <3>6, <3>1, <2>0 DEF Owned, Holdings, Purged
    <3>8. TaskStopped(a)' BY <3>3, <3>5, <3>1 DEF TaskStopped, Stopped, Operation
    <3>9. \A b \in Accounts \ {a} : TaskStopped(b) => TaskStopped(b)'
      BY <3>5 DEF TaskStopped, Stopped, Operation
    <3>10. QED BY <3>5, <3>7, <3>8, <3>9
  <2>2. CASE ~LatestActive(a)
    <3>1. UNCHANGED operations BY <2>2, <1>2 DEF RequestRuntimeCancel
    <3>2. TaskStopped(a)
      <4>1. CASE operations[a] = <<>> BY <4>1, <1>1, OperationsTyped DEF TaskStopped
      <4>2. CASE operations[a] # <<>>
        BY <4>2, <2>2 DEF TaskStopped, LatestActive, Latest, Operation, Stopped
      <4>3. QED BY <4>1, <4>2
    <3>3. QED
      BY <3>1, <3>2, <2>0, <1>1
      DEF TypeOK, OperationRow, Owned, Holdings, Purged, TaskStopped, Stopped, Operation
  <2>3. QED BY <2>1, <2>2
<1>6. TypeOK' BY <1>1, <1>4, <1>5 DEF TypeOK, RequestRuntimeCancel, Stages, OperationRow
<1>7. Past(pc) = {} \/ ~Deletes(w) BY <1>3 DEF AfterTasks, Past
<1>8. pc \in {"list", "cancel", "commit"} \/ Deletes(w) BY <1>3 DEF AfterTasks
<1>9. QED
  BY <1>1, <1>2, <1>3, <1>5, <1>6, <1>7, <1>8, WorkerGoesOn DEF RequestRuntimeCancel

LEMMA ThenIsPast ==
  ASSUME NEW m \in Modules
  PROVE  Then[m] \in Stages \ {"idle"} /\ Past(Then[m]) = Past(m) \cup {m}
BY DEF Modules, Then, Past, Stages

LEMMA PurgeModuleKeeps ==
  ASSUME IInv, NEW w \in Workers, PurgeModule(w)
  PROVE  IInv'
<1>1. PICK m \in Modules \ {"tasks"} : m = workers[w].pc BY DEF PurgeModule
<1>2. TypeOK /\ ~At(w, "idle") /\ Deletes(w)
  BY <1>1 DEF IInv, HoldsOpen, HeldAsPicked, At, Modules
<1>3. PICK a \in Accounts : a = Account(w) BY <1>2, HeldEvent
<1>4. PICK pc \in Stages \ {"idle"} : pc = Then[m] BY ThenIsPast
<1>5. Go(w, pc) /\ Past(pc) = Past(m) \cup {m} BY <1>1, <1>4, ThenIsPast DEF PurgeModule
<1>6. /\ stored' \in [Accounts -> SUBSET ((Modules \ {"tasks"}) \cup {"logins"})]
      /\ m \notin stored'[a]
      /\ \A b \in Accounts : stored'[b] \subseteq stored[b]
  BY <1>1, <1>2, <1>3 DEF PurgeModule, TypeOK
<1>7. workers' \in [Workers -> [pc : Stages, event : 0..MaxEvents]]
  BY <1>2, <1>5, WorkerGoes
<1>8. TypeOK' BY <1>2, <1>6, <1>7 DEF TypeOK, PurgeModule, Stages
<1>9. \A b \in Accounts : Owned(b)' \subseteq Owned(b) /\ (TaskStopped(b) => TaskStopped(b)')
  BY <1>6 DEF Owned, Holdings, Purged, TaskStopped, Stopped, Operation, PurgeModule
<1>10. Owned(a)' \cap Past(pc) = {}
  <2>1. Owned(a) \cap Past(m) = {} BY <1>1, <1>2, <1>3 DEF IInv, PurgedSoFar
  <2>2. m \notin Owned(a)' BY <1>1, <1>6 DEF Owned, Holdings, Purged, PurgeModule
  <2>3. QED BY <1>5, <1>9, <2>1, <2>2
<1>11. QED
  BY <1>2, <1>3, <1>5, <1>8, <1>9, <1>10, WorkerGoesOn DEF PurgeModule

LEMMA PurgeTasksKeeps ==
  ASSUME IInv, NEW w \in Workers, PurgeTasks(w)
  PROVE  IInv'
<1>1. TypeOK /\ ~At(w, "idle") /\ Deletes(w) /\ workers[w].pc = "tasks"
  BY DEF PurgeTasks, IInv, HoldsOpen, HeldAsPicked, At
<1>2. PICK a \in Accounts : a = Account(w) BY <1>1, HeldEvent
<1>3. "tasks" \in Modules BY DEF Modules
<1>4. PICK pc \in Stages \ {"idle"} : pc = Then["tasks"]
  BY <1>3, ThenIsPast
<1>5. Go(w, pc) /\ Past(pc) = Past("tasks") \cup {"tasks"}
  BY <1>3, <1>4, ThenIsPast DEF PurgeTasks
<1>6. /\ operations' \in [Accounts -> Seq(OperationRow)]
      /\ \A b \in Accounts : Len(operations'[b]) <= MaxOperations
      /\ \A b \in Accounts \ {a} : operations'[b] = operations[b]
      /\ \A i \in DOMAIN operations'[a] : operations'[a][i].state = "PURGED"
  <2> DEFINE purged == [i \in DOMAIN operations[a] |-> [operations[a][i] EXCEPT !.state = "PURGED"]]
  <2>1. /\ operations'[a] = purged
        /\ \A b \in Accounts \ {a} : operations'[b] = operations[b]
        /\ operations' = [b \in Accounts |-> operations'[b]]
    BY <1>1, <1>2 DEF PurgeTasks, TypeOK
  <2>2. \A i \in DOMAIN operations[a] :
          [operations[a][i] EXCEPT !.state = "PURGED"] \in OperationRow
    <3>1. \A i \in DOMAIN operations[a] : operations[a][i] \in OperationRow
      BY <1>1, OperationsTyped
    <3>2. QED BY <3>1 DEF OperationRow
  <2>3. \A i \in DOMAIN operations[a] : [operations[a][i] EXCEPT !.state = "PURGED"].state = "PURGED"
    <3>1. \A i \in DOMAIN operations[a] : operations[a][i] \in OperationRow
      BY <1>1, OperationsTyped
    <3>2. QED BY <3>1 DEF OperationRow
  <2>4. /\ purged \in Seq(OperationRow) /\ Len(purged) = Len(operations[a])
        /\ DOMAIN purged = DOMAIN operations[a]
    <3>1. DOMAIN operations[a] = 1..Len(operations[a]) /\ Len(operations[a]) \in Nat
      BY <1>1, OperationsTyped
    <3>2. purged \in [1..Len(operations[a]) -> OperationRow] BY <3>1, <2>2
    <3>3. QED BY <3>1, <3>2
  <2>5. \A i \in DOMAIN purged : purged[i].state = "PURGED" BY <2>3
  <2> HIDE DEF purged
  <2>6. \A b \in Accounts : operations'[b] \in Seq(OperationRow) /\ Len(operations'[b]) <= MaxOperations
    BY <2>1, <2>4, <1>1, OperationsTyped
  <2>7. QED BY <2>1, <2>4, <2>5, <2>6
<1>7. workers' \in [Workers -> [pc : Stages, event : 0..MaxEvents]]
  BY <1>1, <1>5, WorkerGoes
<1>8. TypeOK' BY <1>1, <1>6, <1>7 DEF TypeOK, PurgeTasks, Stages, OperationRow
<1>9. \A b \in Accounts : Owned(b)' \subseteq Owned(b) /\ (TaskStopped(b) => TaskStopped(b)')
  BY <1>6 DEF Owned, Holdings, Purged, TaskStopped, Stopped, Operation, PurgeTasks
<1>10. Owned(a)' \cap Past(pc) = {}
  <2>1. Owned(a) \cap Past("tasks") = {} BY <1>1, <1>2 DEF IInv, PurgedSoFar
  <2>2. "tasks" \notin Owned(a)'
    BY <1>1, <1>6 DEF Owned, Holdings, Purged, PurgeTasks, TypeOK
  <2>3. QED BY <1>5, <1>9, <2>1, <2>2
<1>11. QED
  BY <1>1, <1>2, <1>5, <1>8, <1>9, <1>10, WorkerGoesOn DEF PurgeTasks

-----------------------------------------------------------------------------
(* The mark of the event, with which a worker is done.                     *)
LEMMA ProcessedStay ==
  ASSUME IInv, NEW w \in Workers, ~At(w, "idle"), Processed(w), Rest(w),
         UNCHANGED <<time, operations, stored>>
  PROVE  OthersStay(w)
<1>1. TypeOK /\ workers[w].event \in DOMAIN events BY HeldEvent DEF IInv
<1>2. SameRows([e \in DOMAIN events |->
        IF e = workers[w].event THEN "PROCESSED" ELSE events[e].state])
  BY <1>1, ProcessedRows
<1>3. ASSUME NEW v \in Workers \ {w}, NEW e \in DOMAIN events, ~At(v, "idle"), workers[v].event = e
      PROVE  /\ e \in DOMAIN events' /\ events'[e].state = "OPEN"
             /\ events'[e].account = events[e].account /\ events'[e].type = events[e].type
             /\ events'[e].at = events[e].at
  <2>1. Open(e) BY <1>3, HeldEvent
  <2>2. e # workers[w].event BY <1>3 DEF IInv, HeldOnce
  <2>3. QED BY <1>2, <2>1, <2>2 DEF SameRows, Open
<1>4. QED BY <1>3 DEF OthersStay

(* What the mark does to the open events, of which it closes one.          *)
LEMMA ProcessedOpen ==
  ASSUME IInv, NEW w \in Workers, ~At(w, "idle"), Processed(w), NEW b \in Accounts
  PROVE  /\ DOMAIN events' = DOMAIN events
         /\ \A e \in DOMAIN events :
              /\ events'[e].at = events[e].at
              /\ Open(e)' <=> Open(e) /\ e # workers[w].event
              /\ Waits(b, e)' <=> Waits(b, e) /\ e # workers[w].event
         /\ OfAccount(b, {"RESTRICT"})' = OfAccount(b, {"RESTRICT"})
<1>1. TypeOK /\ workers[w].event \in DOMAIN events BY HeldEvent DEF IInv
<1>2. SameRows([e \in DOMAIN events |->
        IF e = workers[w].event THEN "PROCESSED" ELSE events[e].state])
  BY <1>1, ProcessedRows
<1>3. /\ DOMAIN events' = DOMAIN events
      /\ \A e \in DOMAIN events :
           /\ events'[e].at = events[e].at /\ events'[e].account = events[e].account
           /\ events'[e].type = events[e].type
           /\ Open(e)' <=> Open(e) /\ e # workers[w].event
  BY <1>2 DEF SameRows, Open
<1>4. OfAccount(b, {"RESTRICT"})' = OfAccount(b, {"RESTRICT"}) BY <1>3 DEF OfAccount
<1>5. QED BY <1>3, <1>4 DEF Waits

LEMMA ProcessedTyped ==
  ASSUME IInv, NEW w \in Workers, ~At(w, "idle"), Processed(w), Rest(w)
  PROVE  /\ events' \in Seq(EventRow) /\ Len(events') <= MaxEvents
         /\ workers' \in [Workers -> [pc : Stages, event : 0..MaxEvents]]
<1>1. TypeOK /\ workers[w].event \in DOMAIN events BY HeldEvent DEF IInv
<1>2. SameRows([e \in DOMAIN events |->
        IF e = workers[w].event THEN "PROCESSED" ELSE events[e].state])
  BY <1>1, ProcessedRows
<1>3. IdleWorker \in [pc : Stages, event : 0..MaxEvents]
  BY LifecycleAssumption DEF IdleWorker, Stages
<1>4. QED BY <1>1, <1>2, <1>3 DEF SameRows, TypeOK, Rest, Stages

LEMMA RestrictKeeps ==
  ASSUME IInv, NEW w \in Workers, MarkProcessed(w)
  PROVE  IInv'
<1>1. TypeOK /\ ~At(w, "idle") /\ ~Deletes(w) /\ Processed(w) /\ Rest(w)
  BY DEF IInv, MarkProcessed, At
<1>2. TypeOK' BY <1>1, ProcessedTyped DEF TypeOK, EventRow, MarkProcessed, Stages
<1>3. HoldsOpen' /\ HeldOnce' /\ PurgedSoFar' /\ StoppedByCommit'
  BY <1>1, ProcessedStay, OthersStayKeep DEF MarkProcessed
<1>4. DeletionIsQueued'
  <2> SUFFICES ASSUME NEW b \in Accounts PROVE WaitsOnce(b)' BY QueuedOnce
  <2>1. WaitsOnce(b) BY QueuedOnce DEF IInv
  <2>2. ~Waits(b, workers[w].event) BY <1>1, HeldEvent DEF Waits
  <2>3. /\ DOMAIN events' = DOMAIN events
        /\ \A e \in DOMAIN events :
             events'[e].at = events[e].at /\ (Waits(b, e)' <=> Waits(b, e))
    BY <1>1, <2>2, ProcessedOpen
  <2>4. QED BY <2>1, <2>3 DEF WaitsOnce, MarkProcessed
<1>5. ActiveIsUnrestricted'
  <2> SUFFICES ASSUME NEW b \in Accounts, accounts[b].status = "ACTIVE",
                      NEW e \in OfAccount(b, {"RESTRICT"})
               PROVE  ~Open(e)'
    BY <1>1, ProcessedOpen DEF ActiveIsUnrestricted, MarkProcessed
  <2>1. Open(e)' => Open(e) BY <1>1, ProcessedOpen DEF OfAccount
  <2>2. QED BY <2>1 DEF IInv, ActiveIsUnrestricted
<1>6. LatestStops'
  <2> SUFFICES ASSUME NEW b \in Accounts, accounts[b].status # "ACTIVE",
                      \A e \in OfAccount(b, {"RESTRICT"})' : ~Open(e)'
               PROVE  TaskStopped(b)
    BY DEF LatestStops, Restricted, TaskStopped, Stopped, Operation, MarkProcessed
  <2>1. \A e \in OfAccount(b, {"RESTRICT"}) : Open(e) => e = workers[w].event
    BY <1>1, ProcessedOpen DEF OfAccount
  <2>2. CASE workers[w].event \in OfAccount(b, {"RESTRICT"})
    <3>1. b = Account(w) BY <2>2 DEF OfAccount, Account
    <3>2. QED BY <1>1, <3>1 DEF IInv, StoppedByCommit, MarkProcessed
  <2>3. CASE workers[w].event \notin OfAccount(b, {"RESTRICT"})
    BY <2>1, <2>3 DEF IInv, LatestStops, Restricted, TaskStopped, Stopped, Operation
  <2>4. QED BY <2>2, <2>3
<1>7. CancelsPending' /\ LetInInTime' /\ ErasedOwnNothing'
  BY DEF IInv, CancelsPending, LetInInTime, ErasedOwnNothing, Owned, Holdings, Purged, MarkProcessed
<1>8. QED BY <1>2, <1>3, <1>4, <1>5, <1>6, <1>7 DEF IInv

(* When the worker erases the account it has purged every module, and no   *)
(* request is left that could store anything.                              *)
LEMMA EraseKeeps ==
  ASSUME IInv, NEW w \in Workers, EraseIdentityAccount(w)
  PROVE  IInv'
<1>1. /\ TypeOK /\ ~At(w, "idle") /\ Deletes(w) /\ workers[w].pc = "commit"
      /\ Processed(w) /\ Rest(w)
  BY DEF IInv, EraseIdentityAccount, Erasing, At
<1>2. PICK a \in Accounts : a = Account(w) BY <1>1, HeldEvent
<1>3. /\ \A b \in Accounts \ {a} : accounts'[b] = accounts[b]
      /\ accounts[a].status = "PENDING_DELETION" /\ accounts'[a].status = "DELETED"
      /\ accounts' \in [Accounts -> [status : {"ACTIVE", "DISABLED", "PENDING_DELETION", "DELETED"},
                                     due : 0..MaxTime]]
  BY <1>1, <1>2, LifecycleAssumption DEF EraseIdentityAccount, TypeOK
<1>4. a \notin requests /\ a \notin cancelling
  BY <1>1, <1>2, DueIsQuiet DEF EraseIdentityAccount
<1>5. TypeOK' BY <1>1, <1>3, ProcessedTyped DEF TypeOK, EventRow, EraseIdentityAccount, Stages
<1>6. HoldsOpen' /\ HeldOnce' /\ PurgedSoFar' /\ StoppedByCommit'
  BY <1>1, ProcessedStay, OthersStayKeep DEF EraseIdentityAccount
<1>7. DeletionIsQueued'
  <2> SUFFICES ASSUME NEW b \in Accounts PROVE WaitsOnce(b)' BY QueuedOnce
  <2>1. WaitsOnce(b) BY QueuedOnce DEF IInv
  <2>2. /\ DOMAIN events' = DOMAIN events
        /\ \A e \in DOMAIN events : /\ events'[e].at = events[e].at
                                    /\ Waits(b, e)' <=> Waits(b, e) /\ e # workers[w].event
    BY <1>1, ProcessedOpen
  <2>3. Waits(a, workers[w].event) /\ workers[w].event \in DOMAIN events
    BY <1>1, <1>2, HeldEvent
  <2>4. CASE b = a
    <3>1. \A e \in DOMAIN events : Waits(b, e) => e = workers[w].event
      BY <2>1, <2>3, <2>4, <1>3 DEF WaitsOnce
    <3>2. \A e \in DOMAIN events' : ~Waits(b, e)' BY <2>2, <3>1
    <3>3. accounts'[b].status # "PENDING_DELETION" BY <2>4, <1>3
    <3>4. QED BY <3>2, <3>3 DEF WaitsOnce
  <2>5. CASE b # a
    <3>1. ~Waits(b, workers[w].event) BY <2>3, <2>5 DEF Waits
    <3>2. \A e \in DOMAIN events : Waits(b, e)' <=> Waits(b, e) BY <2>2, <3>1
    <3>3. accounts'[b] = accounts[b] BY <2>5, <1>3
    <3>4. QED BY <2>1, <2>2, <3>2, <3>3 DEF WaitsOnce
  <2>6. QED BY <2>4, <2>5
<1>8. \A e \in DOMAIN events : events[e].type = "RESTRICT" => (Open(e)' <=> Open(e))
  BY <1>1, ProcessedOpen DEF Deletes
<1>9. ActiveIsUnrestricted'
  <2> SUFFICES ASSUME NEW b \in Accounts, accounts'[b].status = "ACTIVE",
                      NEW e \in OfAccount(b, {"RESTRICT"})
               PROVE  ~Open(e)'
    BY <1>1, ProcessedOpen DEF ActiveIsUnrestricted
  <2>1. Open(e)' => Open(e) BY <1>8 DEF OfAccount
  <2>2. accounts[b].status = "ACTIVE" BY <1>3
  <2>3. QED BY <2>1, <2>2 DEF IInv, ActiveIsUnrestricted
<1>10. LatestStops'
  <2> SUFFICES ASSUME NEW b \in Accounts, accounts'[b].status # "ACTIVE",
                      \A e \in OfAccount(b, {"RESTRICT"})' : ~Open(e)'
               PROVE  TaskStopped(b)
    BY DEF LatestStops, Restricted, TaskStopped, Stopped, Operation, EraseIdentityAccount
  <2>1. \A e \in OfAccount(b, {"RESTRICT"}) : ~Open(e)
    BY <1>1, <1>8, ProcessedOpen DEF OfAccount
  <2>2. accounts[b].status # "ACTIVE" BY <1>3
  <2>3. QED BY <2>1, <2>2 DEF IInv, LatestStops, Restricted, TaskStopped, Stopped, Operation
<1>11. ErasedOwnNothing'
  <2> SUFFICES ASSUME NEW b \in Accounts, accounts'[b].status = "DELETED" PROVE Owned(b) = {}
    BY DEF ErasedOwnNothing, Owned, Holdings, Purged, EraseIdentityAccount
  <2>1. CASE b = a
    <3>1. Owned(a) \cap Modules = {}
      BY <1>1, <1>2 DEF IInv, PurgedSoFar, Past, Modules
    <3>2. Owned(a) \subseteq Modules BY <1>1 DEF TypeOK, Owned, Holdings, Purged, Modules
    <3>3. QED BY <2>1, <3>1, <3>2
  <2>2. CASE b # a BY <2>2, <1>3 DEF IInv, ErasedOwnNothing
  <2>3. QED BY <2>1, <2>2
<1>12. CancelsPending' /\ LetInInTime'
  BY <1>1, <1>3, <1>4 DEF IInv, TypeOK, CancelsPending, LetInInTime, EraseIdentityAccount
<1>13. QED BY <1>5, <1>6, <1>7, <1>9, <1>10, <1>11, <1>12 DEF IInv

-----------------------------------------------------------------------------
LEMMA InitInvariant == Init => IInv
<1> SUFFICES ASSUME Init PROVE IInv OBVIOUS
<1>1. TypeOK
  <2>1. events \in Seq([account : Accounts, type : {"RESTRICT", "DELETE"}, at : 0..MaxTime,
                        state : {"OPEN", "CANCELLED", "PROCESSED"}]) /\ Len(events) = 0
    BY DEF Init
  <2>2. QED BY <2>1, LifecycleAssumption DEF Init, TypeOK, IdleWorker
<1>2. \A w \in Workers : At(w, "idle") /\ ~At(w, "commit") /\ workers[w].event = 0
  BY DEF Init, IdleWorker, At
<1>3. HoldsOpen /\ HeldOnce /\ PurgedSoFar /\ StoppedByCommit
  BY <1>2 DEF HoldsOpen, HeldOnce, PurgedSoFar, StoppedByCommit
<1>4. QED
  BY <1>1, <1>3 DEF Init, IInv, DeletionIsQueued, ActiveIsUnrestricted, CancelsPending, LetInInTime,
                    ErasedOwnNothing, LatestStops, Restricted, OfAccount

LEMMA NextInvariant == IInv /\ [Next]_vars => IInv'
<1> SUFFICES ASSUME IInv, [Next]_vars PROVE IInv' OBVIOUS
<1>1. CASE Tick BY <1>1, TickKeeps
<1>2. ASSUME NEW a \in Accounts,
             \/ BeginRequest(a) \/ Submit(a) \/ Store(a) \/ EndRequest(a)
             \/ ClaimJob(a) \/ BeginLogin(a) \/ EndJob(a)
             \/ \E i \in DOMAIN operations[a] :
                  TaskEnds(a, i) \/ Retry(a, i) \/ StartRun(a, i) \/ PutRawSnapshot(a, i)
                  \/ SaveRecoveryFacts(a, i)
      PROVE  IInv'
  BY <1>2, BeginRequestKeeps, SubmitKeeps, StoreKeeps, EndRequestKeeps,
     JobKeeps, BeginLoginKeeps, OperationKeeps
<1>3. ASSUME NEW a \in Accounts,
             \/ SetAccountDisabled(a) \/ SetAccountActive(a) \/ RequestDeletion(a)
             \/ LockAccount(a) \/ CancelSelfDeletion(a)
      PROVE  IInv'
  BY <1>3, SetAccountDisabledKeeps, SetAccountActiveKeeps, RequestDeletionKeeps,
     LockAccountKeeps, CancelSelfDeletionKeeps
<1>4. ASSUME NEW w \in Workers, Work(w) PROVE IInv'
  BY <1>4, PickKeeps, ListActiveTasksKeeps, RequestRuntimeCancelKeeps, PurgeModuleKeeps, PurgeTasksKeeps,
     PurgeRefusedKeeps, RestrictKeeps, EraseKeeps DEF Work
<1>5. ASSUME NEW w \in Workers, Fail(w) \/ AbortWorker(w) \/ AbortCancellation(w) PROVE IInv'
  BY <1>5, FailKeeps, AbortWorkerKeeps, AbortCancellationKeeps
<1>6. CASE UNCHANGED vars
  <2>1. UNCHANGED <<time, accounts, events, operations, stored, requests, researching, workers,
                     cancelling, faults>>
    BY <1>6 DEF vars
  <2>2. TypeOK' /\ CancelsPending' BY <2>1 DEF IInv, TypeOK, CancelsPending
  <2>3. QED BY <2>1, <2>2, OnlyCancelling
<1>7. QED BY <1>1, <1>2, <1>3, <1>4, <1>5, <1>6 DEF Next

(* The inductive invariant: a worker holds an open event alone, what it    *)
(* has passed is purged, or its latest operation stopped, and requests let *)
(* in before a deletion are over before it is due.                         *)
THEOREM InductiveInvariant == Spec => []IInv
BY InitInvariant, NextInvariant, PTL DEF Spec

(* An account waits for its deletion exactly while one open DELETE event   *)
(* with its due time waits for it, whatever fails or is cancelled.         *)
THEOREM QueuedStateHolds == Spec => []QueuedState
<1>1. IInv => QueuedState BY DEF IInv, QueuedState
<1>2. QED BY <1>1, InductiveInvariant, PTL

(* Of an account that was erased no row is left that the purge is there    *)
(* for, whatever requests, runs and source workers did meanwhile.          *)
THEOREM ErasedIsPurgedHolds == Spec => []ErasedIsPurged
<1>1. IInv => ErasedIsPurged BY DEF IInv, ErasedOwnNothing, Owned, ErasedIsPurged
<1>2. QED BY <1>1, InductiveInvariant, PTL

(* Where no worker executes an operation and nobody has research, nobody   *)
(* writes without a request of the owner.                                  *)
NoOtherWriter ==
  /\ researching = {}
  /\ \A a \in Accounts :
       /\ stored[a] \cap {"research", "logins"} = {}
       /\ \A i \in DOMAIN operations[a] : operations[a][i].run = "NONE"

LEMMA NoOtherWriterStays ==
  ASSUME TypeOK, NoOtherWriter, [Next]_vars, MaxRuns = 0, "research" \notin Uses
  PROVE  NoOtherWriter'
<1> DEFINE Still(a) == /\ stored'[a] \cap {"research", "logins"} = {}
                       /\ \A i \in DOMAIN operations'[a] : operations'[a][i].run = "NONE"
           Quiet == researching' = {} /\ \A a \in Accounts : Still(a)
<1>1. UNCHANGED <<operations, stored, researching>> => Quiet
  BY DEF NoOtherWriter
<1>2. ASSUME NEW a \in Accounts, NEW i \in DOMAIN operations[a], NEW row \in OperationRow,
             Alter(a, i, row), row.run = "NONE", UNCHANGED <<stored, researching>>
      PROVE  Quiet
  <2>1. \A b \in Accounts : /\ DOMAIN operations'[b] = DOMAIN operations[b]
                            /\ \A j \in DOMAIN operations[b] :
                                 operations'[b][j] = IF b = a /\ j = i THEN row ELSE operations[b][j]
    BY <1>2, Altered
  <2>2. QED BY <1>2, <2>1 DEF NoOtherWriter
<1>3. ASSUME NEW a \in Accounts, NEW i \in DOMAIN operations[a],
             \/ TaskEnds(a, i) \/ Retry(a, i) \/ StartRun(a, i) \/ PutRawSnapshot(a, i)
             \/ SaveRecoveryFacts(a, i)
      PROVE  Quiet
  <2>1. Operation(a, i) \in OperationRow /\ Operation(a, i).run = "NONE"
    BY OperationsTyped DEF Operation, NoOtherWriter
  <2>2. Running(a) = {} BY DEF Running, Operation, NoOtherWriter
  <2>3. ~(Cardinality(Running(a)) < MaxRuns) BY <2>2, FS_EmptySet
  <2>4. TaskEnds(a, i) BY <1>3, <2>1, <2>3 DEF Retry, StartRun, PutRawSnapshot, SaveRecoveryFacts
  <2>5. PICK row \in OperationRow : Alter(a, i, row) /\ row.run = "NONE"
    BY <2>1, <2>4 DEF TaskEnds, OperationRow
  <2>6. QED BY <1>2, <2>4, <2>5 DEF TaskEnds
<1>4. ASSUME NEW a \in Accounts, Submit(a) PROVE Quiet
  <2> DEFINE row == [state |-> "ACTIVE", retried |-> FALSE, run |-> "NONE",
                     late |-> accounts[a].status # "ACTIVE"]
  <2>1. row \in OperationRow /\ row.run = "NONE" BY DEF OperationRow
  <2>2. operations'[a] = Append(operations[a], row) /\ operations[a] \in Seq(OperationRow)
    BY <1>4, OperationsTyped DEF Submit, TypeOK
  <2>3. \A b \in Accounts \ {a} : operations'[b] = operations[b]
    BY <1>4 DEF Submit, TypeOK
  <2>4. UNCHANGED <<stored, researching>> BY <1>4 DEF Submit
  <2> HIDE DEF row
  <2>5. \A i \in DOMAIN operations'[a] : operations'[a][i].run = "NONE"
    BY <2>1, <2>2 DEF NoOtherWriter
  <2>6. QED BY <2>3, <2>4, <2>5 DEF NoOtherWriter
<1>5. ASSUME NEW a \in Accounts, Store(a) PROVE Quiet
  <2>1. PICK m \in Uses : stored' = [stored EXCEPT ![a] = @ \cup {m}] BY <1>5 DEF Store
  <2>2. m \notin {"research", "logins"} BY LifecycleAssumption DEF Modules
  <2>3. UNCHANGED <<operations, researching>> BY <1>5 DEF Store
  <2>4. QED BY <2>1, <2>2, <2>3 DEF NoOtherWriter, TypeOK
<1>6. ASSUME NEW a \in Accounts, ClaimJob(a) \/ BeginLogin(a) \/ EndJob(a) PROVE FALSE
  BY <1>6 DEF ClaimJob, BeginLogin, EndJob, NoOtherWriter
<1>7. ASSUME NEW w \in Workers, PurgeModule(w) PROVE Quiet
  <2>1. \A b \in Accounts : stored'[b] \subseteq stored[b] BY <1>7 DEF PurgeModule, TypeOK
  <2>2. QED BY <1>7, <2>1 DEF PurgeModule, NoOtherWriter
<1>8. ASSUME NEW w \in Workers, RequestRuntimeCancel(w) PROVE Quiet
  <2> DEFINE a == Account(w)
             i == Len(operations[a])
  <2>1. UNCHANGED <<stored, researching>> BY <1>8 DEF RequestRuntimeCancel
  <2>2. CASE UNCHANGED operations BY <1>1, <2>1, <2>2
  <2>3. CASE operations' # operations
    <3>1. LatestActive(a) /\ Alter(a, i, [Latest(a) EXCEPT !.state = "FINAL"])
      BY <1>8, <2>3 DEF RequestRuntimeCancel
    <3>2. a \in Accounts BY <3>1, <2>3 DEF Alter, TypeOK
    <3>3. i \in DOMAIN operations[a] BY <3>1, <3>2, OperationsTyped DEF LatestActive
    <3>4. Latest(a) \in OperationRow /\ Latest(a).run = "NONE"
      BY <3>2, <3>3, OperationsTyped DEF Latest, NoOtherWriter
    <3>5. [Latest(a) EXCEPT !.state = "FINAL"] \in OperationRow
          /\ [Latest(a) EXCEPT !.state = "FINAL"].run = "NONE"
      BY <3>4 DEF OperationRow
    <3>6. QED BY <1>2, <2>1, <3>1, <3>2, <3>3, <3>5
  <2>4. QED BY <2>2, <2>3
<1>9. ASSUME NEW w \in Workers, PurgeTasks(w) PROVE Quiet
  <2>1. ASSUME NEW b \in Accounts
        PROVE  \/ operations'[b] = operations[b]
               \/ operations'[b] = [i \in DOMAIN operations[b] |->
                                      [operations[b][i] EXCEPT !.state = "PURGED"]]
    BY <1>9 DEF PurgeTasks, TypeOK
  <2>2. ASSUME NEW b \in Accounts, NEW i \in DOMAIN operations[b]
        PROVE  [operations[b][i] EXCEPT !.state = "PURGED"].run = "NONE"
    BY OperationsTyped DEF NoOtherWriter, OperationRow
  <2>3. ASSUME NEW b \in Accounts, NEW i \in DOMAIN operations'[b]
        PROVE  operations'[b][i].run = "NONE"
    <3>1. CASE operations'[b] = operations[b] BY <2>3, <3>1 DEF NoOtherWriter
    <3>2. CASE operations'[b] # operations[b]
      <4>1. /\ i \in DOMAIN operations[b]
            /\ operations'[b][i] = [operations[b][i] EXCEPT !.state = "PURGED"]
        BY <2>1, <2>3, <3>2
      <4>2. QED BY <2>2, <4>1
    <3>3. QED BY <3>1, <3>2
  <2>4. UNCHANGED <<stored, researching>> BY <1>9 DEF PurgeTasks
  <2>5. QED BY <2>3, <2>4 DEF NoOtherWriter
<1> HIDE DEF Quiet
<1>10. ASSUME NEW w \in Workers, Work(w) \/ Fail(w) \/ AbortWorker(w) \/ AbortCancellation(w)
       PROVE  Quiet
  BY <1>1, <1>7, <1>8, <1>9, <1>10 DEF Work, Pick, ListActiveTasks, PurgeRefused, MarkProcessed,
     EraseIdentityAccount, Fail, AbortWorker, AbortCancellation
<1>11. ASSUME NEW a \in Accounts,
              \/ BeginRequest(a) \/ EndRequest(a) \/ SetAccountDisabled(a) \/ SetAccountActive(a)
              \/ RequestDeletion(a) \/ LockAccount(a) \/ CancelSelfDeletion(a)
       PROVE  Quiet
  BY <1>1, <1>11 DEF BeginRequest, EndRequest, SetAccountDisabled, SetAccountActive,
     RequestDeletion, LockAccount, CancelSelfDeletion
<1>12. Tick \/ UNCHANGED vars => Quiet BY <1>1 DEF Tick, vars
<1>13. Quiet
  BY <1>3, <1>4, <1>5, <1>6, <1>10, <1>11, <1>12 DEF Next
<1>14. QED BY <1>13 DEF Quiet, NoOtherWriter

(* An erased account leaves nothing at all behind where only its requests  *)
(* write: what may remain comes from runs and source research alone.       *)
THEOREM ErasedLeavesNothingQuiet ==
  ASSUME MaxRuns = 0, "research" \notin Uses
  PROVE  Spec => []ErasedLeavesNothing
<1>1. Init => NoOtherWriter
  BY DEF Init, NoOtherWriter
<1>2. IInv /\ NoOtherWriter /\ [Next]_vars => NoOtherWriter'
  BY NoOtherWriterStays DEF IInv
<1>3. IInv /\ NoOtherWriter => ErasedLeavesNothing
  BY DEF IInv, ErasedOwnNothing, Owned, NoOtherWriter, ErasedLeavesNothing, Holdings, Operation
<1>4. QED BY <1>1, <1>2, <1>3, InductiveInvariant, PTL DEF Spec

(* After its restriction the latest operation of an account's task is not  *)
(* active, unless it is a late one.                                        *)
THEOREM LatestStopsHolds == Spec => []LatestStops
<1>1. IInv => LatestStops BY DEF IInv
<1>2. QED BY <1>1, InductiveInvariant, PTL

(* Of a task that has one operation nothing goes on: the restriction stops *)
(* what it should as long as no task is submitted twice.                   *)
THEOREM RestrictedStopsAlone ==
  ASSUME MaxOperations <= 1
  PROVE  Spec => []RestrictedStops
<1>1. IInv => RestrictedStops
  <2> SUFFICES ASSUME IInv, NEW a \in Accounts, Restricted(a), NEW i \in DOMAIN operations[a]
               PROVE  Stopped(Operation(a, i))
    BY DEF RestrictedStops
  <2>1. i = Len(operations[a])
    BY OperationsTyped, LifecycleAssumption DEF IInv
  <2>2. QED BY <2>1 DEF IInv, LatestStops
<1>2. QED BY <1>1, InductiveInvariant, PTL

(* Only the worker erases an account, and only one that is pending and due. *)
LEMMA ErasesWhenDue ==
  ASSUME IInv, [Next]_vars, NEW a \in Accounts,
         accounts'[a].status = "DELETED", accounts[a].status # "DELETED"
  PROVE  /\ accounts[a].status = "PENDING_DELETION" /\ accounts[a].due <= time
         /\ \E w \in Workers : EraseIdentityAccount(w)
<1>1. accounts' # accounts OBVIOUS
<1>2. \E w \in Workers : EraseIdentityAccount(w)
  <2>1. ASSUME NEW b \in Accounts,
               SetAccountDisabled(b) \/ SetAccountActive(b) \/ RequestDeletion(b) \/ CancelSelfDeletion(b)
        PROVE  FALSE
    <3>1. accounts \in [Accounts -> [status : {"ACTIVE", "DISABLED", "PENDING_DELETION", "DELETED"},
                                     due : 0..MaxTime]]
      BY DEF IInv, TypeOK
    <3>2. accounts'[a] = accounts[a] \/ accounts'[a].status \in {"ACTIVE", "DISABLED", "PENDING_DELETION"}
      <4>1. CASE SetAccountDisabled(b) BY <4>1, <3>1 DEF SetAccountDisabled
      <4>2. CASE SetAccountActive(b) BY <4>2, <3>1 DEF SetAccountActive
      <4>3. CASE RequestDeletion(b) BY <4>3, <3>1 DEF RequestDeletion
      <4>4. CASE CancelSelfDeletion(b) BY <4>4, <3>1 DEF CancelSelfDeletion
      <4>5. QED BY <2>1, <4>1, <4>2, <4>3, <4>4
    <3>3. QED BY <3>2
  <2>2. ASSUME NEW b \in Accounts,
               \/ BeginRequest(b) \/ Submit(b) \/ Store(b) \/ EndRequest(b) \/ LockAccount(b)
               \/ ClaimJob(b) \/ BeginLogin(b) \/ EndJob(b)
               \/ \E i \in DOMAIN operations[b] :
                    TaskEnds(b, i) \/ Retry(b, i) \/ StartRun(b, i) \/ PutRawSnapshot(b, i)
                    \/ SaveRecoveryFacts(b, i)
        PROVE  FALSE
    BY <2>2, <1>1 DEF BeginRequest, Submit, Store, EndRequest, LockAccount, ClaimJob, BeginLogin,
       EndJob, TaskEnds, Retry, StartRun, PutRawSnapshot, SaveRecoveryFacts
  <2>3. ASSUME NEW w \in Workers,
               Work(w) \/ Fail(w) \/ AbortWorker(w) \/ AbortCancellation(w)
        PROVE  EraseIdentityAccount(w)
    BY <2>3, <1>1 DEF Work, Pick, ListActiveTasks, RequestRuntimeCancel, PurgeModule, PurgeTasks,
                      PurgeRefused,
       MarkProcessed, Fail, AbortWorker, AbortCancellation
  <2>4. ~Tick /\ ~UNCHANGED vars BY <1>1 DEF Tick, vars
  <2>5. QED BY <2>1, <2>2, <2>3, <2>4 DEF Next
<1>3. PICK w \in Workers : EraseIdentityAccount(w) BY <1>2
<1>4. ~At(w, "idle") /\ Deletes(w) BY <1>3 DEF EraseIdentityAccount, Erasing, At
<1>5. a = Account(w)
  BY <1>3 DEF EraseIdentityAccount, IInv, TypeOK
<1>6. QED BY <1>2, <1>4, <1>5, DueIsQuiet

(* An account is erased only when its seven days are over.                 *)
THEOREM ErasedWhenDueHolds == Spec => ErasedWhenDue
<1>1. IInv /\ [Next]_vars =>
        [\A a \in Accounts :
           accounts'[a].status = "DELETED" /\ accounts[a].status # "DELETED" =>
             accounts[a].status = "PENDING_DELETION" /\ accounts[a].due <= time]_vars
  BY ErasesWhenDue
<1>2. QED BY <1>1, InductiveInvariant, PTL DEF Spec, ErasedWhenDue

(* No cancellation that was under way revives an account that was erased.  *)
ErasedForGood ==
  [][\A a \in Accounts : accounts[a].status = "DELETED" => accounts'[a].status = "DELETED"]_vars

THEOREM ErasedForGoodHolds == Spec => ErasedForGood
<1>1. ASSUME IInv, [Next]_vars, NEW a \in Accounts, accounts[a].status = "DELETED"
      PROVE  accounts'[a].status = "DELETED"
  <2>1. ASSUME NEW b \in Accounts,
               SetAccountDisabled(b) \/ SetAccountActive(b) \/ RequestDeletion(b) \/ CancelSelfDeletion(b)
        PROVE  accounts'[a] = accounts[a]
    BY <2>1, <1>1 DEF SetAccountDisabled, SetAccountActive, RequestDeletion, CancelSelfDeletion,
       IInv, TypeOK, CancelsPending
  <2>2. ASSUME NEW b \in Accounts,
               \/ BeginRequest(b) \/ Submit(b) \/ Store(b) \/ EndRequest(b) \/ LockAccount(b)
               \/ ClaimJob(b) \/ BeginLogin(b) \/ EndJob(b)
               \/ \E i \in DOMAIN operations[b] :
                    TaskEnds(b, i) \/ Retry(b, i) \/ StartRun(b, i) \/ PutRawSnapshot(b, i)
                    \/ SaveRecoveryFacts(b, i)
        PROVE  accounts' = accounts
    BY <2>2 DEF BeginRequest, Submit, Store, EndRequest, LockAccount, ClaimJob, BeginLogin,
       EndJob, TaskEnds, Retry, StartRun, PutRawSnapshot, SaveRecoveryFacts
  <2>3. ASSUME NEW w \in Workers,
               Work(w) \/ Fail(w) \/ AbortWorker(w) \/ AbortCancellation(w)
        PROVE  accounts'[a] = accounts[a]
    <3>1. CASE EraseIdentityAccount(w)
      BY <3>1, <1>1 DEF EraseIdentityAccount, IInv, TypeOK
    <3>2. CASE ~EraseIdentityAccount(w)
      BY <2>3, <3>2 DEF Work, Pick, ListActiveTasks, RequestRuntimeCancel, PurgeModule,
                        PurgeTasks, PurgeRefused,
         MarkProcessed, Fail, AbortWorker, AbortCancellation
    <3>3. QED BY <3>1, <3>2
  <2>4. Tick \/ UNCHANGED vars => accounts' = accounts BY DEF Tick, vars
  <2>5. QED BY <1>1, <2>1, <2>2, <2>3, <2>4 DEF Next
<1>2. IInv /\ [Next]_vars =>
        [\A a \in Accounts : accounts[a].status = "DELETED" => accounts'[a].status = "DELETED"]_vars
  BY <1>1
<1>3. QED BY <1>2, InductiveInvariant, PTL DEF Spec, ErasedForGood
=============================================================================
