------------------------------ MODULE Conversation ------------------------------
(***************************************************************************)
(* One conversation session: pages create it, append turns and show it     *)
(* (packages/conversation/src/index.ts and apps/web/src/app/               *)
(* conversation-workbench.tsx).  A request goes on at the server when its  *)
(* page has given up waiting, and the page may send the same text again.   *)
(*                                                                         *)
(* A text is a value for the requirement the page asked about; message and *)
(* revision ids, titles and times are left out.                            *)
(***************************************************************************)
EXTENDS FiniteSets, Integers, Sequences

CONSTANTS Tabs, Calls, Texts, None,
          MaxTurns,   \* bound: client turn ids
          MaxLost     \* bound: answers lost and transactions that fail

Fields == <<"GOAL", "SCENARIO", "CONSTRAINTS">>
FieldNames == {Fields[i] : i \in DOMAIN Fields}

ASSUME NoneAssumption == None \notin Texts \cup Calls \cup FieldNames

VARIABLES exists,     \* the session of the owner's client request id
          messages,   \* conversation_messages: [role, turn, field, text, asks]
          revisions,  \* conversation_requirement_revisions: [values, source]
          rowLock,    \* the call that holds the row of the session
          call,       \* a request at the server
          tab,        \* a page: [session, shows, edits, attempt, waits]
          turns,      \* client turn ids given
          lost,
          failed,     \* history: a turn was refused although its transaction did not fail
          meant       \* history: texts the user meant to send

vars == <<exists, messages, revisions, rowLock, call, tab, turns, lost, failed, meant>>

NoCall == [pc |-> "none", turn |-> 0, field |-> None, text |-> None, seen |-> 0, answer |-> None]
NoAttempt == [turn |-> 0, field |-> None, text |-> None]
NoValues == [f \in FieldNames |-> None]
NewPage == [session |-> FALSE, shows |-> NoValues, edits |-> None, attempt |-> NoAttempt,
            waits |-> None]

Message(role, turn, field, text, asks) ==
  [role |-> role, turn |-> turn, field |-> field, text |-> text, asks |-> asks]

Init ==
  /\ exists = FALSE /\ messages = <<>> /\ revisions = <<>> /\ rowLock = None
  /\ call = [c \in Calls |-> NoCall]
  /\ tab = [t \in Tabs |-> NewPage]
  /\ turns = 0 /\ lost = 0 /\ failed = FALSE /\ meant = 0

-----------------------------------------------------------------------------
(* The requirement. *)

Missing(values) == {i \in DOMAIN Fields : values[Fields[i]] = None}

(* missingKeys[0]; None when the requirement is ready for research.        *)
FirstMissing(values) ==
  IF Missing(values) = {} THEN None
  ELSE Fields[CHOOSE i \in Missing(values) : \A j \in Missing(values) : i <= j]

Current == IF revisions = <<>> THEN NoValues ELSE revisions[Len(revisions)].values

(* Mutant: what an update does not name is forgotten. *)
MergeOnlyUpdate(values, field, text) ==
  [f \in FieldNames |-> IF f = field THEN text ELSE None]

MergeRequirement(values, field, text) == [values EXCEPT ![field] = text]

(* The turn named by its client turn id, if it is recorded. *)
Recorded(turn) == {i \in DOMAIN messages : messages[i].role = "USER" /\ messages[i].turn = turn}

-----------------------------------------------------------------------------
(* The server. *)

Answer(c, answer) == call' = [call EXCEPT ![c].pc = "answering", ![c].answer = answer]

(* createSession: INSERT ... ON CONFLICT DO NOTHING and the first message. *)
CreateSession(c) ==
  /\ call[c].pc = "create"
  /\ \/ exists /\ UNCHANGED <<exists, messages>>
     \/ /\ ~exists
        /\ exists' = TRUE
        /\ messages' = <<Message("ASSISTANT", 0, None, None, "GOAL")>>
  /\ Answer(c, "OK")
  /\ UNCHANGED <<revisions, rowLock, tab, turns, lost, failed, meant>>

(* Mutant: the session is read without FOR UPDATE. *)
Unlocked == TRUE

(* SELECT ... FOR UPDATE of the session. *)
SessionFree == rowLock = None

LockSession(c) ==
  /\ call[c].pc = "append" /\ SessionFree
  /\ rowLock' = c
  /\ call' = [call EXCEPT ![c].pc = "locked"]
  /\ UNCHANGED <<exists, messages, revisions, tab, turns, lost, failed, meant>>

SameTurn(c, i) == messages[i].field = call[c].field /\ messages[i].text = call[c].text

Release(c) == rowLock' = IF rowLock = c THEN None ELSE rowLock

(* The turn is recorded already, or what follows builds on what is read.   *)
ReadTurn(c) ==
  /\ call[c].pc = "locked"
  /\ \/ /\ Recorded(call[c].turn) = {}
        /\ call' = [call EXCEPT ![c].pc = "read", ![c].seen = Len(messages)]
        /\ UNCHANGED <<rowLock, failed>>
     \/ \E i \in Recorded(call[c].turn) :
          /\ Answer(c, IF SameTurn(c, i) THEN "OK" ELSE "CONFLICT")
          /\ failed' = (failed \/ ~SameTurn(c, i))
          /\ Release(c)
  /\ UNCHANGED <<exists, messages, revisions, tab, turns, lost, meant>>

(* UNIQUE (session_id, ordinal) and (session_id, client_turn_id).          *)
Insertable(c) == call[c].seen = Len(messages) /\ Recorded(call[c].turn) = {}

Refuse(c) ==
  /\ failed' = TRUE /\ Answer(c, "UNAVAILABLE")
  /\ UNCHANGED <<messages, revisions>>

(* The turn, a revision if the requirement changed, and the next question. *)
Record(c) ==
  LET next == MergeRequirement(Current, call[c].field, call[c].text)
  IN /\ messages' = messages \o
          <<Message("USER", call[c].turn, call[c].field, call[c].text, None),
            Message("ASSISTANT", 0, None, None, FirstMissing(next))>>
     /\ revisions' = IF next = Current THEN revisions
                     ELSE Append(revisions, [values |-> next, source |-> Len(messages) + 1])
     /\ Answer(c, "OK")
     /\ UNCHANGED failed

AppendTurn(c) ==
  /\ call[c].pc = "read"
  /\ IF Insertable(c) THEN Record(c) ELSE Refuse(c)
  /\ Release(c)
  /\ UNCHANGED <<exists, tab, turns, lost, meant>>

(* The connection to PostgreSQL is lost: the transaction rolls back. *)
FailTurn(c) ==
  /\ call[c].pc \in {"locked", "read"} /\ lost < MaxLost
  /\ lost' = lost + 1
  /\ Answer(c, "UNAVAILABLE") /\ Release(c)
  /\ UNCHANGED <<exists, messages, revisions, tab, turns, failed, meant>>

-----------------------------------------------------------------------------
(* The page. *)

Send(t, c, request) ==
  /\ tab[t].waits = None /\ call[c] = NoCall
  /\ call' = [call EXCEPT ![c] = request]

AskSession(t, c) ==
  /\ ~tab[t].session
  /\ Send(t, c, [NoCall EXCEPT !.pc = "create"])
  /\ tab' = [tab EXCEPT ![t].waits = c]
  /\ UNCHANGED <<exists, messages, revisions, rowLock, turns, lost, failed, meant>>

(* composerPrompt: the field that is edited, the first one the page does   *)
(* not know, or the goal once it knows all.                                *)
Prompt(t) ==
  IF tab[t].edits # None THEN tab[t].edits
  ELSE IF FirstMissing(tab[t].shows) = None THEN "GOAL" ELSE FirstMissing(tab[t].shows)

(* The user turns to a field; what was sent before is no longer retried.   *)
EditRequirement(t, field) ==
  /\ tab[t].shows # NoValues
  /\ tab' = [tab EXCEPT ![t].edits = field, ![t].attempt = NoAttempt]
  /\ UNCHANGED <<exists, messages, revisions, rowLock, call, turns, lost, failed, meant>>

(* Mutant: every submission has a turn id of its own. *)
NeverAgain(t, field, text) == FALSE

(* The text of an attempt that was not answered is sent under its id.      *)
Again(t, field, text) ==
  /\ tab[t].attempt.turn # 0
  /\ tab[t].attempt.field = field /\ tab[t].attempt.text = text

TurnId(t, field, text) == IF Again(t, field, text) THEN tab[t].attempt.turn ELSE turns + 1

SubmitTurn(t, c, text) ==
  LET field == Prompt(t)
      turn == TurnId(t, field, text)
  IN /\ tab[t].session /\ turn <= MaxTurns
     /\ Send(t, c, [NoCall EXCEPT !.pc = "append", !.turn = turn, !.field = field,
                                  !.text = text])
     /\ tab' = [tab EXCEPT ![t].waits = c,
                           ![t].attempt = [turn |-> turn, field |-> field, text |-> text]]
     /\ turns' = IF turn > turns THEN turn ELSE turns
     /\ meant' = IF tab[t].attempt # NoAttempt /\ tab[t].attempt.field = field
                     /\ tab[t].attempt.text = text
                   THEN meant ELSE meant + 1
     /\ UNCHANGED <<exists, messages, revisions, rowLock, lost, failed>>

(* The session as it is after the commit; an error leaves the attempt.     *)
Receive(t, c) ==
  /\ tab[t].waits = c /\ call[c].pc = "answering"
  /\ tab' = [tab EXCEPT ![t] =
       IF call[c].answer = "OK"
         THEN [NewPage EXCEPT !.session = TRUE, !.shows = Current]
         ELSE [@ EXCEPT !.waits = None]]
  /\ call' = [call EXCEPT ![c] = NoCall]
  /\ UNCHANGED <<exists, messages, revisions, rowLock, turns, lost, failed, meant>>

(* The request fails at the page; the server does not know.                *)
GiveUp(t) ==
  /\ tab[t].waits # None /\ lost < MaxLost
  /\ lost' = lost + 1
  /\ tab' = [tab EXCEPT ![t].waits = None]
  /\ UNCHANGED <<exists, messages, revisions, rowLock, call, turns, failed, meant>>

Unheard(c) ==
  /\ call[c].pc = "answering" /\ \A t \in Tabs : tab[t].waits # c
  /\ call' = [call EXCEPT ![c] = NoCall]
  /\ UNCHANGED <<exists, messages, revisions, rowLock, tab, turns, lost, failed, meant>>

(* openSession, and the effect that restores the session of a new page.    *)
OpenSession(t) ==
  /\ exists /\ tab[t].waits = None
  /\ tab' = [tab EXCEPT ![t] = [NewPage EXCEPT !.session = TRUE, !.shows = Current]]
  /\ UNCHANGED <<exists, messages, revisions, rowLock, call, turns, lost, failed, meant>>

Next ==
  \/ \E c \in Calls : CreateSession(c) \/ LockSession(c) \/ ReadTurn(c) \/ AppendTurn(c)
                      \/ FailTurn(c) \/ Unheard(c)
  \/ \E t \in Tabs : \/ GiveUp(t) \/ OpenSession(t)
                      \/ \E field \in FieldNames : EditRequirement(t, field)
  \/ \E t \in Tabs, c \in Calls : \/ AskSession(t, c) \/ Receive(t, c)
                                  \/ \E text \in Texts : SubmitTurn(t, c, text)

Spec == Init /\ [][Next]_vars

-----------------------------------------------------------------------------
(* Properties. *)

(* A turn a page sends, of the length the API takes (2000 characters), is  *)
(* never refused unless its transaction fails: two requests at once, of    *)
(* two pages or of one that sent its text again, never run into the        *)
(* uniqueness of ordinals and turn ids.                                    *)
NoTurnRefused == ~failed

(* The last text a recorded turn gave to the field, up to message n.       *)
Given(field, n) ==
  LET said == {i \in 1..n : messages[i].role = "USER" /\ messages[i].field = field}
  IN IF said = {} THEN None
     ELSE messages[CHOOSE i \in said : \A j \in said : j <= i].text

(* The requirement is what the recorded turns add up to, however the       *)
(* pages' requests were mixed: every revision holds the last text for each *)
(* field at the turn it comes from, and every answer of the assistant asks *)
(* for the first field still missing then.                                 *)
HistoryAddsUp ==
  /\ \A f \in FieldNames : Current[f] = Given(f, Len(messages))
  /\ \A r \in DOMAIN revisions, f \in FieldNames :
       revisions[r].values[f] = Given(f, revisions[r].source)
  /\ \A i \in DOMAIN messages : messages[i].role = "ASSISTANT" =>
       messages[i].asks = FirstMissing([f \in FieldNames |-> Given(f, i)])

(* A text sent again, because its page does not know whether it arrived,   *)
(* is not recorded again, whatever became of the first request.            *)
SentOnce == Cardinality({i \in DOMAIN messages : messages[i].role = "USER"}) <= meant
=============================================================================
