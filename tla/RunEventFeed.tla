----------------------------- MODULE RunEventFeed -----------------------------
(***************************************************************************)
(* The run events of the operations on their way to a page: transactions   *)
(* of the persistence insert them with a cursor, the notification          *)
(* publisher announces them through Redis, an API stream lists what is     *)
(* behind its cursor and the page merges what arrives.                     *)
(*                                                                         *)
(* A cursor is an identity value: it is taken at the insert, whatever      *)
(* becomes of the transaction, so cursors may become visible in another    *)
(* order than they were taken.  Every transaction that inserts events      *)
(* holds the lock on the row of its operation, which keeps the order of    *)
(* the events of one operation.  A page follows a task (the                *)
(* decision_task_id of one owner), and nothing keeps an owner from         *)
(* submitting several operations under one decision_task_id: between those *)
(* there is no lock.                                                       *)
(***************************************************************************)
EXTENDS Integers

CONSTANTS Tasks, Operations, Writers, Pages,
          TaskOf,        \* the task an operation was submitted for
          ShownTask,     \* the task a page shows
          Nothing,       \* no operation, no notification
          MaxCursor,     \* bound: identity values taken
          MaxFeedFaults  \* bound: lost connections, Redis failures, ended publishers

ASSUME FeedAssumption ==
  /\ TaskOf \in [Operations -> Tasks] /\ ShownTask \in [Pages -> Tasks]
  /\ Nothing \notin Operations

VARIABLES nextCursor,  \* the identity sequence
          rows,        \* decision_task_run_events: [cursor, operation], committed
          unannounced, \* decision_task_run_event_notifications without published_at
          tx,          \* a transaction: [operation, rows], idle without an operation
          publisher,   \* the notification row the publisher holds, or Nothing
          stream,      \* an API stream: [pc, cursor, out]; the events in out are on
                       \* their way to the page, in the order of their cursors
          page,        \* [events, last]: persistedEvents and lastEventCursor
          overtaken,   \* history: the rows that became visible behind a row of another
                       \* operation of their task
          feedFaults

feedVars ==
  <<nextCursor, rows, unannounced, tx, publisher, stream, page, overtaken, feedFaults>>

Idle == [operation |-> Nothing, rows |-> {}]
Off == [pc |-> "off", cursor |-> 0, out |-> {}]

InitFeed ==
  /\ nextCursor = 1 /\ rows = {} /\ unannounced = {} /\ publisher = Nothing
  /\ tx = [w \in Writers |-> Idle]
  /\ stream = [p \in Pages |-> Off]
  /\ page = [p \in Pages |-> [events |-> {}, last |-> 0]]
  /\ overtaken = {} /\ feedFaults = 0

(* The first and the last of some events. *)
First(e, events) == e \in events /\ \A f \in events : e.cursor <= f.cursor
Final(e, events) == e \in events /\ \A f \in events : f.cursor <= e.cursor

-----------------------------------------------------------------------------
(* Transactions that change an operation: SELECT ... FOR UPDATE OF         *)
(* operation, then the events, each with a row of its notification.        *)

(* Mutant: the row of the operation is read without a lock. *)
LocksNothing(o) == TRUE

LocksOperation(o) == \A w \in Writers : tx[w].operation # o

Begin(w, o) ==
  /\ tx[w] = Idle /\ LocksOperation(o)
  /\ tx' = [tx EXCEPT ![w].operation = o]
  /\ UNCHANGED <<nextCursor, rows, unannounced, publisher, stream, page, overtaken, feedFaults>>

InsertRunEvent(w) ==
  /\ tx[w] # Idle /\ nextCursor <= MaxCursor
  /\ tx' = [tx EXCEPT ![w].rows = @ \cup
                         {[cursor |-> nextCursor, operation |-> tx[w].operation]}]
  /\ nextCursor' = nextCursor + 1
  /\ UNCHANGED <<rows, unannounced, publisher, stream, page, overtaken, feedFaults>>

(* A row of another operation of the same task was visible before it. *)
OvertakenAtCommit(e) ==
  \E f \in rows : /\ TaskOf[f.operation] = TaskOf[e.operation]
                  /\ f.operation # e.operation /\ f.cursor > e.cursor

Commit(w) ==
  /\ tx[w].rows # {}
  /\ overtaken' = overtaken \cup {e \in tx[w].rows : OvertakenAtCommit(e)}
  /\ rows' = rows \cup tx[w].rows
  /\ unannounced' = unannounced \cup tx[w].rows
  /\ tx' = [tx EXCEPT ![w] = Idle]
  /\ UNCHANGED <<nextCursor, publisher, stream, page, feedFaults>>

RollBack(w) ==
  /\ tx[w] # Idle
  /\ tx' = [tx EXCEPT ![w] = Idle]
  /\ UNCHANGED <<nextCursor, rows, unannounced, publisher, stream, page, overtaken, feedFaults>>

-----------------------------------------------------------------------------
(* The notification publisher: one row at a time, in a transaction.        *)

PickNotification ==
  /\ publisher = Nothing
  /\ \E row \in unannounced : First(row, unannounced) /\ publisher' = row
  /\ UNCHANGED <<nextCursor, rows, unannounced, tx, stream, page, overtaken, feedFaults>>

(* Only a stream that waits hears a message. *)
Woken(t) ==
  [p \in Pages |-> IF ShownTask[p] = t /\ stream[p].pc = "waiting"
                     THEN [stream[p] EXCEPT !.pc = "reading"] ELSE stream[p]]

Marked(row) == unannounced \ {row}

(* A message that could not be sent, or not be marked as sent because the  *)
(* process ended before its COMMIT, is sent later.                         *)
Announce ==
  /\ publisher # Nothing
  /\ \/ stream' = Woken(TaskOf[publisher.operation]) /\ unannounced' = Marked(publisher)
        /\ UNCHANGED feedFaults
     \/ /\ feedFaults < MaxFeedFaults /\ feedFaults' = feedFaults + 1
        /\ stream' \in {stream, Woken(TaskOf[publisher.operation])}
        /\ UNCHANGED unannounced
  /\ publisher' = Nothing
  /\ UNCHANGED <<nextCursor, rows, tx, page, overtaken>>

-----------------------------------------------------------------------------
(* The stream of the API and the page behind it. *)

(* connect: the page names the last cursor it has seen. *)
Connect(p) ==
  /\ stream[p].pc = "off"
  /\ stream' = [stream EXCEPT ![p] = [pc |-> "reading", cursor |-> page[p].last, out |-> {}]]
  /\ UNCHANGED <<nextCursor, rows, unannounced, tx, publisher, page, overtaken, feedFaults>>

After(t, cursor) == {e \in rows : TaskOf[e.operation] = t /\ e.cursor > cursor}

ListEvents(p) ==
  LET found == After(ShownTask[p], stream[p].cursor)
  IN /\ stream[p].pc = "reading"
     /\ \/ found = {} /\ stream' = [stream EXCEPT ![p].pc = "listed"]
        \/ \E e \in found :
             /\ Final(e, found)
             /\ stream' = [stream EXCEPT ![p] = [pc |-> "listed", cursor |-> e.cursor,
                                                 out |-> @.out \cup found]]
     /\ UNCHANGED <<nextCursor, rows, unannounced, tx, publisher, page, overtaken, feedFaults>>

(* waitFor: what was announced since the events were listed goes unheard.  *)
Wait(p) ==
  /\ stream[p].pc = "listed"
  /\ stream' = [stream EXCEPT ![p].pc = "waiting"]
  /\ UNCHANGED <<nextCursor, rows, unannounced, tx, publisher, page, overtaken, feedFaults>>

(* Mutant: only a notification ends the wait. *)
NeverPolls(p) == FALSE /\ UNCHANGED feedVars

(* waitForNextEvent ends with the poll at the latest. *)
Poll(p) ==
  /\ stream[p].pc = "waiting"
  /\ stream' = [stream EXCEPT ![p].pc = "reading"]
  /\ UNCHANGED <<nextCursor, rows, unannounced, tx, publisher, page, overtaken, feedFaults>>

(* onmessage: the event is merged by its cursor. *)
Receive(p) ==
  \E event \in stream[p].out :
    /\ First(event, stream[p].out)
    /\ page' = [page EXCEPT ![p] =
         [events |-> @.events \cup {event},
          last |-> IF event.cursor > @.last THEN event.cursor ELSE @.last]]
    /\ stream' = [stream EXCEPT ![p].out = @ \ {event}]
    /\ UNCHANGED <<nextCursor, rows, unannounced, tx, publisher, overtaken, feedFaults>>

(* The connection is lost with what is on its way. *)
Disconnect(p) ==
  /\ stream[p].pc # "off" /\ feedFaults < MaxFeedFaults
  /\ feedFaults' = feedFaults + 1
  /\ stream' = [stream EXCEPT ![p] = Off]
  /\ UNCHANGED <<nextCursor, rows, unannounced, tx, publisher, page, overtaken>>

FeedNext ==
  \/ \E w \in Writers : \/ \E o \in Operations : Begin(w, o)
                        \/ InsertRunEvent(w) \/ Commit(w) \/ RollBack(w)
  \/ PickNotification \/ Announce
  \/ \E p \in Pages : Connect(p) \/ ListEvents(p) \/ Wait(p) \/ Poll(p) \/ Receive(p)
                         \/ Disconnect(p)

(* The publisher's loop goes on, the poll timer of a stream runs out and an *)
(* open page connects again.                                                *)
FeedFairness ==
  /\ WF_feedVars(PickNotification) /\ WF_feedVars(Announce)
  /\ \A p \in Pages :
       /\ WF_feedVars(Connect(p)) /\ WF_feedVars(ListEvents(p))
       /\ WF_feedVars(Wait(p)) /\ WF_feedVars(Poll(p)) /\ WF_feedVars(Receive(p))

FeedSpec == InitFeed /\ [][FeedNext]_feedVars /\ FeedFairness

-----------------------------------------------------------------------------
(* Properties. *)

(* A page has these events of its task up to the last cursor it has seen,  *)
(* and a connected one has or will receive them up to the cursor of its    *)
(* stream: what is behind a cursor is never asked for again.               *)
HasUpToCursor(events) ==
  \A p \in Pages, e \in events : TaskOf[e.operation] = ShownTask[p] =>
    /\ e.cursor <= page[p].last => e \in page[p].events
    /\ stream[p].pc # "off" /\ e.cursor <= stream[p].cursor =>
         e \in page[p].events \cup stream[p].out

(* No page misses an event, unless an operation of the same task was       *)
(* faster: an event that became visible behind a later one of its own      *)
(* operation, or behind what any page or stream has seen, would be lost to *)
(* the page for ever.                                                      *)
NothingSkipped == HasUpToCursor(rows \ overtaken)

(* No page misses an event at all: true only of tasks with one operation   *)
(* (ClientViewProofs).                                                     *)
NothingEverSkipped == HasUpToCursor(rows)

(* Whatever connections and notifications are lost, an open page shows     *)
(* every event of its task in the end, but for those another operation of  *)
(* the task overtook.                                                      *)
EventsAreShown ==
  \A p \in Pages, o \in Operations, n \in 1..MaxCursor :
    LET event == [cursor |-> n, operation |-> o]
    IN TaskOf[o] = ShownTask[p] =>
         (event \in rows \ overtaken ~> event \in page[p].events)
=============================================================================
