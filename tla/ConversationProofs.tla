--------------------------- MODULE ConversationProofs ---------------------------
(***************************************************************************)
(* Proofs about Conversation for every set of pages, requests and texts,   *)
(* every number of turns and of answers lost.                              *)
(*                                                                         *)
(* TypeInv; SessionInv, that a session exists where one is used;           *)
(* LockInv, that a request which has read the messages finds them as it    *)
(* read them; TurnsInv, that a turn id always names the same field and     *)
(* text; OnceInv, that it names one message; and AddsInv, that a last text *)
(* for a field exists wherever there is one at all.                        *)
(***************************************************************************)
EXTENDS Conversation, FiniteSetTheorems, TLAPS

NoneOr(S) == S \cup {None}
MessageRow == [role : {"USER", "ASSISTANT"}, turn : Nat, field : NoneOr(FieldNames),
               text : NoneOr(Texts), asks : NoneOr(FieldNames)]
Values == [FieldNames -> NoneOr(Texts)]
Revision == [values : Values, source : Nat]
Request == [pc : {"none", "create", "append", "locked", "read", "answering"},
            turn : Nat, field : NoneOr(FieldNames), text : NoneOr(Texts), seen : Nat,
            answer : NoneOr({"OK", "CONFLICT", "UNAVAILABLE"})]
Attempt == [turn : Nat, field : NoneOr(FieldNames), text : NoneOr(Texts)]
Page == [session : BOOLEAN, shows : Values, edits : NoneOr(FieldNames), attempt : Attempt,
         waits : NoneOr(Calls)]

TypeInv ==
  /\ exists \in BOOLEAN
  /\ messages \in Seq(MessageRow)
  /\ revisions \in Seq(Revision)
  /\ rowLock \in NoneOr(Calls)
  /\ call \in [Calls -> Request]
  /\ tab \in [Tabs -> Page]
  /\ turns \in Nat /\ meant \in Nat

Appending(c) == call[c].pc \in {"append", "locked", "read"}

(* What uses the session exists, and what is in it comes from its messages. *)
SessionInv ==
  /\ ~exists => messages = <<>>
  /\ \A c \in Calls : Appending(c) => exists
  /\ \A c \in Calls : call[c].pc = "answering" /\ call[c].answer = "OK" => exists
  /\ \A t \in Tabs : tab[t].session => exists
  /\ \A r \in DOMAIN revisions : revisions[r].source \in 1..Len(messages)

(* Who holds the row finds what it has read. *)
LockInv ==
  \A c \in Calls :
    /\ call[c].pc \in {"locked", "read"} => rowLock = c
    /\ call[c].pc = "read" => call[c].seen = Len(messages) /\ Recorded(call[c].turn) = {}

(* Turn k says text for field: in a request, a message or a page. *)
Says(k, field, text) ==
  \/ \E c \in Calls : /\ Appending(c)
                      /\ call[c].turn = k /\ call[c].field = field /\ call[c].text = text
  \/ \E i \in DOMAIN messages : /\ messages[i].role = "USER" /\ messages[i].turn = k
                                /\ messages[i].field = field /\ messages[i].text = text
  \/ \E t \in Tabs : tab[t].attempt # NoAttempt
                     /\ tab[t].attempt = [turn |-> k, field |-> field, text |-> text]

(* A turn id has been given, and always stands for the same text. *)
TurnsInv ==
  \A k \in Nat, field \in NoneOr(FieldNames), text \in NoneOr(Texts) :
    Says(k, field, text) =>
      /\ k \in 1..turns /\ field \in FieldNames /\ text \in Texts
      /\ \A f \in NoneOr(FieldNames), x \in NoneOr(Texts) : Says(k, f, x) => f = field /\ x = text

(* One message records a turn, and a turn is meant. *)
OnceInv ==
  /\ turns = meant
  /\ \A i, j \in DOMAIN messages :
       messages[i].role = "USER" /\ messages[j].role = "USER"
         /\ messages[i].turn = messages[j].turn => i = j

(* The messages that gave the field a text, up to message n, and the last. *)
Said(ms, field, n) == {i \in 1..n : ms[i].role = "USER" /\ ms[i].field = field}
LastSaid(ms, field, n, i) == i \in Said(ms, field, n) /\ \A j \in Said(ms, field, n) : j <= i
HasLast(ms) ==
  \A field \in FieldNames, n \in 0..Len(ms) :
    Said(ms, field, n) = {} \/ \E i \in 1..n : LastSaid(ms, field, n, i)

AddsInv == HasLast(messages)

-----------------------------------------------------------------------------
(* Sequences and what has been said in them.                               *)

(* The two messages of a turn come after the others. *)
LEMMA TwoMore ==
  ASSUME NEW S, NEW ms \in Seq(S), NEW u \in S, NEW a \in S, NEW more, more = ms \o <<u, a>>
  PROVE  /\ more \in Seq(S) /\ Len(more) = Len(ms) + 2
         /\ more[Len(ms) + 1] = u /\ more[Len(ms) + 2] = a
         /\ \A i \in 1..Len(ms) : more[i] = ms[i]
OBVIOUS

(* The text of the last message is what was given. *)
LastOf(ms, said) ==
  IF said = {} THEN None ELSE ms[CHOOSE i \in said : \A j \in said : j <= i].text

GivenIn(ms, field, n) == LastOf(ms, Said(ms, field, n))

(* Given is GivenIn of the messages. *)
LEMMA GivenInMessages ==
  ASSUME NEW field, NEW n
  PROVE  Given(field, n) = GivenIn(messages, field, n)
BY DEF Given, GivenIn, LastOf, Said

(* What the last message for a field gave it. *)
LEMMA GivenIsLast ==
  ASSUME NEW ms, NEW field, NEW n \in Nat, NEW i \in 1..n, LastSaid(ms, field, n, i)
  PROVE  GivenIn(ms, field, n) = ms[i].text
<1> DEFINE said == Said(ms, field, n)
           last == CHOOSE k \in said : \A j \in said : j <= k
<1>1. said \subseteq 1..n
  BY DEF Said
<1>2. i \in said /\ \A j \in said : j <= i
  BY DEF LastSaid
<1>3. last \in said /\ \A j \in said : j <= last
  BY <1>2
<1>4. last = i
  <2> HIDE DEF said, last
  <2> QED
    BY <1>1, <1>2, <1>3
<1>5. said # {}
  BY <1>2
<1> QED
  BY <1>4, <1>5 DEF GivenIn, LastOf

(* A field nothing was said for was given nothing. *)
LEMMA GivenNone ==
  ASSUME NEW ms, NEW field, NEW n, Said(ms, field, n) = {}
  PROVE  GivenIn(ms, field, n) = None
BY DEF GivenIn, LastOf

(* What the same messages say is the same. *)
LEMMA GivenSame ==
  ASSUME NEW ms, NEW more, NEW field, NEW n \in Nat,
         \A i \in 1..n : more[i] = ms[i],
         Said(ms, field, n) = {} \/ \E i \in 1..n : LastSaid(ms, field, n, i)
  PROVE  /\ Said(more, field, n) = Said(ms, field, n)
         /\ GivenIn(more, field, n) = GivenIn(ms, field, n)
<1>1. Said(more, field, n) = Said(ms, field, n)
  BY DEF Said
<1>2. CASE Said(ms, field, n) = {}
  BY <1>1, <1>2, GivenNone
<1>3. ASSUME NEW i \in 1..n, LastSaid(ms, field, n, i)
      PROVE GivenIn(more, field, n) = GivenIn(ms, field, n)
  <2>1. LastSaid(more, field, n, i)
    BY <1>1, <1>3 DEF LastSaid
  <2>2. GivenIn(more, field, n) = more[i].text /\ GivenIn(ms, field, n) = ms[i].text
    BY <1>3, <2>1, GivenIsLast
  <2> QED
    BY <2>2
<1> QED
  BY <1>1, <1>2, <1>3

(* What a turn u gives, appended to ms. *)
Gives(ms, u, more) ==
  \A field \in FieldNames :
    /\ \A n \in 0..Len(ms) : GivenIn(more, field, n) = GivenIn(ms, field, n)
    /\ \A n \in {Len(ms) + 1, Len(ms) + 2} : GivenIn(more, field, n) =
         IF field = u.field THEN u.text ELSE GivenIn(ms, field, Len(ms))

(* A turn gives its field its text and leaves what was given before.       *)
LEMMA TurnGives ==
  ASSUME NEW ms \in Seq(MessageRow), HasLast(ms), NEW u \in MessageRow, NEW a \in MessageRow,
         u.role = "USER", u.field \in FieldNames, a.role = "ASSISTANT",
         NEW more, more = ms \o <<u, a>>
  PROVE  HasLast(more) /\ Gives(ms, u, more)
<1> DEFINE k == Len(ms)
<1>0. /\ k \in Nat /\ Len(more) = k + 2 /\ more[k + 1] = u /\ more[k + 2] = a
      /\ \A i \in 1..k : more[i] = ms[i]
  BY TwoMore
<1> SUFFICES ASSUME NEW field \in FieldNames
             PROVE  /\ \A n \in 0..Len(more) :
                         Said(more, field, n) = {} \/ \E i \in 1..n : LastSaid(more, field, n, i)
                    /\ \A n \in 0..k : GivenIn(more, field, n) = GivenIn(ms, field, n)
                    /\ \A n \in {k + 1, k + 2} : GivenIn(more, field, n) =
                         IF field = u.field THEN u.text ELSE GivenIn(ms, field, k)
  BY DEF HasLast, Gives
<1> HIDE DEF k
<1>1. \A n \in 0..k : Said(ms, field, n) = {} \/ \E i \in 1..n : LastSaid(ms, field, n, i)
  BY DEF HasLast, k
<1>2. \A n \in 0..k : /\ GivenIn(more, field, n) = GivenIn(ms, field, n)
                      /\ Said(more, field, n) = Said(ms, field, n)
  <2> TAKE n \in 0..k
  <2>1. n \in Nat /\ \A i \in 1..n : more[i] = ms[i]
    BY <1>0
  <2> QED
    BY <1>1, <2>1, GivenSame, ZenonT(60)
<1>3. \A n \in 0..k : Said(more, field, n) = {} \/ \E i \in 1..n : LastSaid(more, field, n, i)
  BY <1>1, <1>2 DEF LastSaid
<1>4. ASSUME NEW n \in {k + 1, k + 2}
      PROVE /\ Said(more, field, n) = {} \/ \E i \in 1..n : LastSaid(more, field, n, i)
            /\ GivenIn(more, field, n) =
                 IF field = u.field THEN u.text ELSE GivenIn(ms, field, k)
  <2>0. n \in Nat /\ k \in 0..k /\ k + 1 \in 1..n
    BY <1>0
  <2>1. CASE field = u.field
    <3>1. LastSaid(more, field, n, k + 1)
      BY <1>0, <2>0, <2>1, SMTT(20) DEF LastSaid, Said
    <3>2. GivenIn(more, field, n) = more[k + 1].text
      BY <2>0, <3>1, GivenIsLast
    <3>3. GivenIn(more, field, n) = u.text
      BY <1>0, <3>2
    <3>4. Said(more, field, n) = {} \/ \E i \in 1..n : LastSaid(more, field, n, i)
      BY <2>0, <3>1
    <3> QED
      BY <2>1, <3>3, <3>4
  <2>2. CASE field # u.field
    <3>1. Said(more, field, n) = Said(more, field, k)
      BY <1>0, <2>0, <2>2 DEF Said
    <3>2. GivenIn(more, field, n) = GivenIn(more, field, k)
      BY <3>1 DEF GivenIn
    <3>3. Said(more, field, n) = {} \/ \E i \in 1..n : LastSaid(more, field, n, i)
      <4>1. Said(more, field, k) = {} \/ \E i \in 1..k : LastSaid(more, field, k, i)
        BY <1>3, <2>0
      <4>2. 1..k \subseteq 1..n
        BY <1>0, <2>0
      <4> QED
        BY <3>1, <4>1, <4>2 DEF LastSaid
    <3> QED
      BY <1>2, <2>0, <2>2, <3>2, <3>3
  <2> QED
    BY <2>1, <2>2
<1>5. 0..Len(more) = (0..k) \cup {k + 1, k + 2}
  BY <1>0
<1> QED
  BY <1>2, <1>3, <1>4, <1>5

-----------------------------------------------------------------------------
(* The rows, requests and pages have their types.                          *)

(* The three fields, in the order they are asked for. *)
LEMMA FieldFacts ==
  /\ DOMAIN Fields = {1, 2, 3}
  /\ FieldNames = {"GOAL", "SCENARIO", "CONSTRAINTS"}
  /\ Fields[1] = "GOAL" /\ Fields[2] = "SCENARIO" /\ Fields[3] = "CONSTRAINTS"
<1>1. DOMAIN Fields = {1, 2, 3} /\ Fields[1] = "GOAL" /\ Fields[2] = "SCENARIO"
      /\ Fields[3] = "CONSTRAINTS"
  BY DEF Fields
<1> QED
  BY <1>1 DEF FieldNames

(* What is asked for next is a field, of a new session the goal. *)
LEMMA FirstMissingTyped ==
  /\ \A values : FirstMissing(values) \in NoneOr(FieldNames)
  /\ FirstMissing(NoValues) = "GOAL"
<1>1. ASSUME NEW values, Missing(values) # {}
      PROVE  \E i \in Missing(values) : /\ \A j \in Missing(values) : i <= j
                                        /\ FirstMissing(values) = Fields[i]
  <2> DEFINE missing == Missing(values)
             first == CHOOSE i \in missing : \A j \in missing : i <= j
  <2>1. missing \subseteq {1, 2, 3}
    BY FieldFacts DEF Missing
  <2>2. \E i \in missing : \A j \in missing : i <= j
    <3>1. CASE 1 \in missing
      BY <2>1, <3>1
    <3>2. CASE 1 \notin missing /\ 2 \in missing
      BY <2>1, <3>2
    <3>3. CASE missing = {3}
      BY <3>3
    <3> QED
      BY <1>1, <2>1, <3>1, <3>2, <3>3
  <2>3. first \in missing /\ \A j \in missing : first <= j
    BY <2>2
  <2>4. FirstMissing(values) = Fields[first]
    BY <1>1 DEF FirstMissing
  <2> QED
    BY <2>3, <2>4
<1>2. ASSUME NEW values PROVE FirstMissing(values) \in NoneOr(FieldNames)
  <2>1. CASE Missing(values) = {}
    BY <2>1 DEF FirstMissing, NoneOr
  <2>2. CASE Missing(values) # {}
    <3>1. PICK i \in Missing(values) : FirstMissing(values) = Fields[i]
      BY <1>1, <2>2
    <3>2. i \in {1, 2, 3}
      BY FieldFacts DEF Missing
    <3> QED
      BY <3>1, <3>2, FieldFacts DEF NoneOr
  <2> QED
    BY <2>1, <2>2
<1>3. FirstMissing(NoValues) = "GOAL"
  <2>1. 1 \in Missing(NoValues) /\ Missing(NoValues) \subseteq {1, 2, 3}
    BY FieldFacts DEF Missing, NoValues
  <2>2. PICK i \in Missing(NoValues) : /\ \A j \in Missing(NoValues) : i <= j
                                       /\ FirstMissing(NoValues) = Fields[i]
    BY <1>1, <2>1
  <2>3. i = 1
    BY <2>1, <2>2
  <2> QED
    BY <2>2, <2>3, FieldFacts
<1> QED
  BY <1>2, <1>3

(* The requirement has its type. *)
LEMMA CurrentTyped ==
  ASSUME TypeInv
  PROVE  Current \in Values
<1>1. CASE revisions = <<>>
  BY <1>1 DEF Current, NoValues, Values, NoneOr
<1>2. CASE revisions # <<>>
  <2>1. Len(revisions) \in DOMAIN revisions
    BY <1>2 DEF TypeInv
  <2>2. revisions[Len(revisions)] \in Revision
    BY <2>1 DEF TypeInv
  <2> QED
    BY <1>2, <2>2 DEF Current, Revision
<1> QED
  BY <1>1, <1>2

(* The pages and requests that are made. *)
LEMMA MadeTyped ==
  /\ NoValues \in Values /\ NoCall \in Request /\ NoAttempt \in Attempt /\ NewPage \in Page
  /\ \A shows \in Values : [NewPage EXCEPT !.session = TRUE, !.shows = shows] \in Page
  /\ [NoCall EXCEPT !.pc = "create"] \in Request
  /\ \A turn \in Nat, field \in NoneOr(FieldNames), text \in NoneOr(Texts) :
       [NoCall EXCEPT !.pc = "append", !.turn = turn, !.field = field, !.text = text] \in Request
<1>1. NoValues \in Values /\ NoCall \in Request /\ NoAttempt \in Attempt
  BY DEF NoValues, Values, NoCall, Request, NoAttempt, Attempt, NoneOr
<1>2. NewPage \in Page
  BY <1>1 DEF NewPage, Page, NoneOr
<1>3. ASSUME NEW shows \in Values PROVE [NewPage EXCEPT !.session = TRUE, !.shows = shows] \in Page
  BY <1>2 DEF Page
<1>4. [NoCall EXCEPT !.pc = "create"] \in Request
  BY <1>1 DEF Request
<1>5. ASSUME NEW turn \in Nat, NEW field \in NoneOr(FieldNames), NEW text \in NoneOr(Texts)
      PROVE  [NoCall EXCEPT !.pc = "append", !.turn = turn, !.field = field, !.text = text] \in Request
  BY <1>1, <1>5 DEF Request
<1> QED
  BY <1>1, <1>2, <1>3, <1>4, <1>5

(* A request that changes keeps what it asks for. *)
LEMMA RequestTyped ==
  ASSUME NEW r \in Request, NEW pc \in {"locked", "read", "answering"},
         NEW seen \in Nat, NEW answer \in NoneOr({"OK", "CONFLICT", "UNAVAILABLE"})
  PROVE  /\ [r EXCEPT !.pc = pc] \in Request
         /\ [r EXCEPT !.pc = pc, !.seen = seen] \in Request
         /\ [r EXCEPT !.pc = pc, !.answer = answer] \in Request
BY DEF Request

(* What a page asks for is a field. *)
LEMMA PromptTyped ==
  ASSUME TypeInv, NEW t \in Tabs
  PROVE  Prompt(t) \in FieldNames
<1>1. tab[t].edits \in NoneOr(FieldNames)
  BY DEF TypeInv, Page
<1> QED
  BY <1>1, FirstMissingTyped, FieldFacts DEF Prompt, NoneOr

(* A request is answered. *)
LEMMA AnswerTyped ==
  ASSUME TypeInv, NEW c \in Calls, NEW answer \in {"OK", "CONFLICT", "UNAVAILABLE"},
         Answer(c, answer)
  PROVE  call' \in [Calls -> Request]
<1>1. [call[c] EXCEPT !.pc = "answering", !.answer = answer] \in Request
  BY RequestTyped DEF TypeInv, NoneOr
<1> QED
  BY <1>1 DEF Answer, TypeInv

(* A recorded turn leaves messages and revisions typed. *)
LEMMA RecordTyped ==
  ASSUME TypeInv, NEW c \in Calls, Record(c)
  PROVE  messages' \in Seq(MessageRow) /\ revisions' \in Seq(Revision)
<1> DEFINE next == MergeRequirement(Current, call[c].field, call[c].text)
<1>0. call[c] \in Request /\ messages \in Seq(MessageRow) /\ revisions \in Seq(Revision)
  BY DEF TypeInv
<1>1. next \in Values
  BY <1>0, CurrentTyped DEF MergeRequirement, Values, Request
<1>2. /\ Message("USER", call[c].turn, call[c].field, call[c].text, None) \in MessageRow
      /\ Message("ASSISTANT", 0, None, None, FirstMissing(next)) \in MessageRow
  BY <1>0, FirstMissingTyped DEF Message, MessageRow, Request, NoneOr
<1>3. messages' \in Seq(MessageRow)
  BY <1>0, <1>2, TwoMore DEF Record
<1>4. [values |-> next, source |-> Len(messages) + 1] \in Revision
  BY <1>0, <1>1 DEF Revision
<1> HIDE DEF next
<1>5. revisions' = revisions \/ revisions' = Append(revisions, [values |-> next, source |-> Len(messages) + 1])
  BY DEF Record, next
<1>6. revisions' \in Seq(Revision)
  BY <1>0, <1>4, <1>5
<1> QED
  BY <1>3, <1>6

(* Every step keeps the types. *)
LEMMA TypeStep ==
  ASSUME TypeInv, [Next]_vars
  PROVE  TypeInv'
<1> DEFINE Goal == TypeInv'
<1>0. /\ call \in [Calls -> Request] /\ tab \in [Tabs -> Page] /\ messages \in Seq(MessageRow)
      /\ rowLock \in NoneOr(Calls) /\ turns \in Nat /\ meant \in Nat
  BY DEF TypeInv
<1>1. CASE UNCHANGED vars
  BY <1>1 DEF TypeInv, vars
<1>2. ASSUME NEW c \in Calls, CreateSession(c) PROVE Goal
  <2>1. call' \in [Calls -> Request]
    BY <1>2, AnswerTyped DEF CreateSession
  <2>2. Message("ASSISTANT", 0, None, None, "GOAL") \in MessageRow
    BY FieldFacts DEF Message, MessageRow, NoneOr
  <2>3. exists' \in BOOLEAN /\ messages' \in Seq(MessageRow)
    <3>1. messages' = messages \/ messages' = <<Message("ASSISTANT", 0, None, None, "GOAL")>>
      BY <1>2 DEF CreateSession
    <3>2. messages' \in Seq(MessageRow)
      <4>1. PICK row \in MessageRow : row = Message("ASSISTANT", 0, None, None, "GOAL")
        BY <2>2
      <4>2. <<row>> \in Seq(MessageRow)
        OBVIOUS
      <4> QED
        BY <1>0, <3>1, <4>1, <4>2
    <3> QED
      BY <1>2, <3>2 DEF CreateSession, TypeInv
  <2> QED
    BY <1>2, <2>1, <2>3 DEF CreateSession, TypeInv
<1>3. ASSUME NEW c \in Calls, LockSession(c) PROVE Goal
  <2>1. [call[c] EXCEPT !.pc = "locked"] \in Request
    BY <1>0 DEF Request
  <2>2. call' \in [Calls -> Request] /\ rowLock' \in NoneOr(Calls)
    BY <1>0, <1>3, <2>1 DEF LockSession, NoneOr
  <2> QED
    BY <1>3, <2>2 DEF LockSession, TypeInv
<1>4. ASSUME NEW c \in Calls, ReadTurn(c) PROVE Goal
  <2>1. [call[c] EXCEPT !.pc = "read", !.seen = Len(messages)] \in Request
    <3>1. Len(messages) \in Nat /\ call[c] \in Request
      BY <1>0
    <3> QED
      BY <3>1, RequestTyped DEF NoneOr
  <2>2. ASSUME call' = [call EXCEPT ![c].pc = "read", ![c].seen = Len(messages)]
        PROVE  call' \in [Calls -> Request]
    BY <1>0, <2>1, <2>2
  <2>3. ASSUME NEW answer \in {"OK", "CONFLICT"}, Answer(c, answer)
        PROVE  call' \in [Calls -> Request]
    BY <2>3, AnswerTyped
  <2>4. call' \in [Calls -> Request]
    BY <1>4, <2>2, <2>3 DEF ReadTurn
  <2>5. rowLock' \in NoneOr(Calls)
    BY <1>0, <1>4 DEF ReadTurn, Release, NoneOr
  <2> QED
    BY <1>4, <2>4, <2>5 DEF ReadTurn, TypeInv
<1>5. ASSUME NEW c \in Calls, AppendTurn(c) PROVE Goal
  <2>1. rowLock' \in NoneOr(Calls)
    BY <1>0, <1>5 DEF AppendTurn, Release, NoneOr
  <2>2. CASE Record(c)
    BY <1>5, <2>1, <2>2, RecordTyped, AnswerTyped DEF AppendTurn, Record, TypeInv
  <2>3. CASE Refuse(c)
    BY <1>5, <2>1, <2>3, AnswerTyped DEF AppendTurn, Refuse, TypeInv
  <2> QED
    BY <1>5, <2>2, <2>3 DEF AppendTurn
<1>6. ASSUME NEW c \in Calls, FailTurn(c) PROVE Goal
  <2>1. rowLock' \in NoneOr(Calls)
    BY <1>0, <1>6 DEF FailTurn, Release, NoneOr
  <2> QED
    BY <1>6, <2>1, AnswerTyped DEF FailTurn, TypeInv
<1>7. ASSUME NEW c \in Calls, Unheard(c) PROVE Goal
  BY <1>0, <1>7, MadeTyped DEF Unheard, TypeInv
<1>8. ASSUME NEW t \in Tabs, GiveUp(t) PROVE Goal
  <2>1. [tab[t] EXCEPT !.waits = None] \in Page
    BY <1>0 DEF Page, NoneOr
  <2> QED
    BY <1>0, <1>8, <2>1 DEF GiveUp, TypeInv
<1>9. ASSUME NEW t \in Tabs, OpenSession(t) PROVE Goal
  <2>1. [NewPage EXCEPT !.session = TRUE, !.shows = Current] \in Page
    BY CurrentTyped, MadeTyped
  <2>2. tab' \in [Tabs -> Page]
    BY <1>0, <1>9, <2>1 DEF OpenSession
  <2> QED
    BY <1>9, <2>2 DEF OpenSession, TypeInv
<1>10. ASSUME NEW t \in Tabs, NEW field \in FieldNames, EditRequirement(t, field) PROVE Goal
  <2>1. [tab[t] EXCEPT !.edits = field, !.attempt = NoAttempt] \in Page
    BY <1>0, MadeTyped DEF Page, NoneOr
  <2> QED
    BY <1>0, <1>10, <2>1 DEF EditRequirement, TypeInv
<1>11. ASSUME NEW t \in Tabs, NEW c \in Calls, AskSession(t, c) PROVE Goal
  <2>1. [tab[t] EXCEPT !.waits = c] \in Page
    BY <1>0 DEF Page, NoneOr
  <2> QED
    BY <1>0, <1>11, <2>1, MadeTyped DEF AskSession, Send, TypeInv
<1>12. ASSUME NEW t \in Tabs, NEW c \in Calls, Receive(t, c) PROVE Goal
  <2>1. [NewPage EXCEPT !.session = TRUE, !.shows = Current] \in Page
    BY CurrentTyped, MadeTyped
  <2>2. [tab[t] EXCEPT !.waits = None] \in Page
    BY <1>0 DEF Page, NoneOr
  <2>3. tab' \in [Tabs -> Page] /\ call' \in [Calls -> Request]
    BY <1>0, <1>12, <2>1, <2>2, MadeTyped DEF Receive
  <2> QED
    BY <1>12, <2>3 DEF Receive, TypeInv
<1>13. ASSUME NEW t \in Tabs, NEW c \in Calls, NEW text \in Texts, SubmitTurn(t, c, text) PROVE Goal
  <2>0. Prompt(t) \in FieldNames /\ tab[t] \in Page
    BY <1>0, PromptTyped
  <2>1. TurnId(t, Prompt(t), text) \in Nat
    BY <1>0, <2>0 DEF TurnId, Page, Attempt
  <2>2. PICK turn \in Nat, field \in NoneOr(FieldNames), x \in NoneOr(Texts) :
          turn = TurnId(t, Prompt(t), text) /\ field = Prompt(t) /\ x = text
    BY <2>0, <2>1 DEF NoneOr
  <2>3. [turn |-> turn, field |-> field, text |-> x] \in Attempt
    BY DEF Attempt
  <2>4. [tab[t] EXCEPT !.waits = c, !.attempt = [turn |-> turn, field |-> field, text |-> x]] \in Page
    BY <2>0, <2>3 DEF Page, NoneOr
  <2>5. tab' = [tab EXCEPT ![t].waits = c, ![t].attempt = [turn |-> turn, field |-> field, text |-> x]]
    BY <1>13, <2>2 DEF SubmitTurn
  <2>6. call' = [call EXCEPT ![c] = [NoCall EXCEPT !.pc = "append", !.turn = turn, !.field = field,
                                  !.text = x]]
    BY <1>13, <2>2 DEF SubmitTurn, Send
  <2>7. tab' \in [Tabs -> Page]
    BY <1>0, <2>4, <2>5
  <2>8. call' \in [Calls -> Request]
    BY <1>0, <2>6, MadeTyped
  <2>9. turns' \in Nat /\ meant' \in Nat
    BY <1>0, <1>13, <2>1 DEF SubmitTurn
  <2> QED
    BY <1>13, <2>7, <2>8, <2>9 DEF SubmitTurn, TypeInv
<1> HIDE DEF Goal
<1>14. ASSUME Next PROVE Goal
  BY <1>2, <1>3, <1>4, <1>5, <1>6, <1>7, <1>8, <1>9, <1>10, <1>11, <1>12, <1>13, <1>14, Zenon DEF Next
<1>15. Goal
  BY <1>1, <1>14 DEF Goal
<1> QED
  BY <1>15 DEF Goal

-----------------------------------------------------------------------------
(* What the steps change.                                                  *)

Others(c) == \A d \in Calls \ {c} : call'[d] = call[d]

(* An answer changes its request alone. *)
LEMMA AnswerFields ==
  ASSUME TypeInv, NEW c \in Calls, NEW answer, Answer(c, answer)
  PROVE  Others(c) /\ call'[c].pc = "answering" /\ call'[c].answer = answer
BY DEF TypeInv, Request, Answer, Others

(* Locking the row leaves what the request says. *)
LEMMA LockFields ==
  ASSUME TypeInv, NEW c \in Calls, LockSession(c)
  PROVE  /\ Others(c) /\ call'[c].pc = "locked" /\ call[c].pc = "append"
         /\ call'[c].turn = call[c].turn /\ call'[c].field = call[c].field
         /\ call'[c].text = call[c].text /\ call'[c].answer = call[c].answer
         /\ rowLock = None /\ rowLock' = c
BY DEF TypeInv, Request, LockSession, SessionFree, Others

(* ReadTurn finds the turn, or reads on. *)
ReadsOn(c) ==
  /\ Others(c) /\ call'[c].pc = "read" /\ call[c].pc = "locked"
  /\ call'[c].turn = call[c].turn /\ call'[c].field = call[c].field
  /\ call'[c].text = call[c].text /\ call'[c].answer = call[c].answer
  /\ call'[c].seen = Len(messages) /\ Recorded(call[c].turn) = {}
  /\ UNCHANGED <<rowLock, failed, messages>>

(* A read goes on or answers from the turn it finds. *)
LEMMA ReadFields ==
  ASSUME TypeInv, NEW c \in Calls, ReadTurn(c)
  PROVE  \/ ReadsOn(c)
         \/ /\ call[c].pc = "locked" /\ Release(c)
            /\ \E i \in Recorded(call[c].turn) :
                 /\ Answer(c, IF SameTurn(c, i) THEN "OK" ELSE "CONFLICT")
                 /\ failed' = (failed \/ ~SameTurn(c, i))
<1>1. ASSUME Recorded(call[c].turn) = {},
             call' = [call EXCEPT ![c].pc = "read", ![c].seen = Len(messages)],
             UNCHANGED <<rowLock, failed>>
      PROVE  ReadsOn(c)
  BY <1>1 DEF TypeInv, Request, ReadTurn, ReadsOn, Others
<1> QED
  BY <1>1 DEF ReadTurn

(* A message is recorded by a request that finds what it has read. *)
LEMMA AppendRecords ==
  ASSUME TypeInv, LockInv, NEW c \in Calls, AppendTurn(c)
  PROVE  /\ Record(c) /\ Release(c) /\ call[c].pc = "read" /\ Recorded(call[c].turn) = {}
         /\ UNCHANGED <<exists, tab, turns, lost, meant, failed>>
<1>1. Insertable(c)
  BY DEF LockInv, AppendTurn, Insertable
<1> QED
  BY <1>1 DEF AppendTurn, Record, Insertable

(* A page sends through an idle request. *)
LEMMA SendFields ==
  ASSUME TypeInv, NEW t \in Tabs, NEW c \in Calls, NEW request, Send(t, c, request)
  PROVE  Others(c) /\ call'[c] = request /\ call[c] = NoCall
BY DEF TypeInv, Send, Others

(* A page asks, is answered or is set anew. *)
LEMMA PageFields ==
  ASSUME TypeInv, NEW t \in Tabs
  PROVE  /\ \A p : tab' = [tab EXCEPT ![t] = p] =>
              tab'[t] = p /\ \A u \in Tabs \ {t} : tab'[u] = tab[u]
         /\ \A w : tab' = [tab EXCEPT ![t].waits = w] =>
              /\ tab'[t].session = tab[t].session /\ tab'[t].attempt = tab[t].attempt
              /\ \A u \in Tabs \ {t} : tab'[u] = tab[u]
         /\ \A f, a : tab' = [tab EXCEPT ![t].edits = f, ![t].attempt = a] =>
              /\ tab'[t].session = tab[t].session /\ tab'[t].attempt = a
              /\ \A u \in Tabs \ {t} : tab'[u] = tab[u]
         /\ \A w, a : tab' = [tab EXCEPT ![t].waits = w, ![t].attempt = a] =>
              /\ tab'[t].session = tab[t].session /\ tab'[t].attempt = a
              /\ \A u \in Tabs \ {t} : tab'[u] = tab[u]
BY DEF TypeInv, Page

(* Once a turn is asked for, answered or shown, there is a session.        *)
LEMMA SessionStep ==
  ASSUME TypeInv, SessionInv, LockInv, [Next]_vars
  PROVE  SessionInv'
<1> DEFINE Goal == SessionInv'
<1>0. /\ messages \in Seq(MessageRow) /\ revisions \in Seq(Revision) /\ exists \in BOOLEAN
      /\ call \in [Calls -> Request] /\ tab \in [Tabs -> Page]
  BY DEF TypeInv
<1>1. CASE UNCHANGED vars
  BY <1>1 DEF SessionInv, Appending, vars
<1>2. ASSUME NEW c \in Calls, CreateSession(c) PROVE Goal
  <2>1. Others(c) /\ call'[c].pc = "answering"
    BY <1>2, AnswerFields DEF CreateSession
  <2>2. exists'
    BY <1>2 DEF CreateSession
  <2>3. \A r \in DOMAIN revisions : revisions[r].source \in 1..Len(messages')
    BY <1>2 DEF CreateSession, SessionInv
  <2> QED
    BY <1>2, <2>1, <2>2, <2>3 DEF CreateSession, SessionInv
<1>3. ASSUME NEW c \in Calls, LockSession(c) PROVE Goal
  BY <1>0, <1>3, LockFields DEF LockSession, Others, SessionInv, Appending
<1>4. ASSUME NEW c \in Calls, ReadTurn(c) PROVE Goal
  <2>1. Others(c) /\ call[c].pc = "locked"
    BY <1>4, ReadFields, AnswerFields DEF ReadsOn
  <2> QED
    BY <1>0, <1>4, <2>1 DEF ReadTurn, Others, SessionInv, Appending
<1>5. ASSUME NEW c \in Calls, AppendTurn(c) PROVE Goal
  <2>1. Record(c) /\ call[c].pc = "read" /\ UNCHANGED <<exists, tab>>
    BY <1>5, AppendRecords
  <2>2. Others(c) /\ exists
    BY <2>1, AnswerFields DEF Record, SessionInv, Appending
  <2>3. Len(messages') = Len(messages) + 2
    BY <1>0, <2>1, RecordTyped DEF Record
  <2>4. \A r \in DOMAIN revisions' : revisions'[r].source \in 1..Len(messages')
    <3>1. CASE revisions' = revisions
      BY <1>0, <2>3, <3>1 DEF SessionInv
    <3>2. ASSUME NEW next, revisions' = Append(revisions, [values |-> next, source |-> Len(messages) + 1])
          PROVE \A r \in DOMAIN revisions' : revisions'[r].source \in 1..Len(messages')
      <4>1. PICK last : last = [values |-> next, source |-> Len(messages) + 1]
        OBVIOUS
      <4>2. /\ DOMAIN revisions' = 1..(Len(revisions) + 1) /\ revisions'[Len(revisions) + 1] = last
            /\ \A r \in 1..Len(revisions) : revisions'[r] = revisions[r]
        BY <1>0, <3>2, <4>1
      <4>3. last.source = Len(messages) + 1
        BY <4>1
      <4> QED
        BY <1>0, <2>3, <4>2, <4>3 DEF SessionInv
    <3> QED
      BY <2>1, <3>1, <3>2 DEF Record
  <2> QED
    BY <1>0, <2>1, <2>2, <2>4 DEF Others, SessionInv
<1>6. ASSUME NEW c \in Calls, FailTurn(c) PROVE Goal
  <2>1. Others(c) /\ Appending(c)
    BY <1>6, AnswerFields DEF FailTurn, Appending
  <2> QED
    BY <1>0, <1>6, <2>1 DEF FailTurn, Others, SessionInv, Appending
<1>7. ASSUME NEW c \in Calls, Unheard(c) PROVE Goal
  <2>1. Others(c) /\ call'[c] = NoCall
    BY <1>0, <1>7 DEF Unheard, Others
  <2> QED
    BY <1>0, <1>7, <2>1, NoneAssumption DEF Unheard, Others, SessionInv, Appending, NoCall
<1>8. ASSUME NEW t \in Tabs, GiveUp(t) PROVE Goal
  BY <1>0, <1>8, PageFields DEF GiveUp, SessionInv, Appending
<1>9. ASSUME NEW t \in Tabs, OpenSession(t) PROVE Goal
  BY <1>0, <1>9, PageFields DEF OpenSession, SessionInv, Appending
<1>10. ASSUME NEW t \in Tabs, NEW field \in FieldNames, EditRequirement(t, field) PROVE Goal
  BY <1>0, <1>10, PageFields DEF EditRequirement, SessionInv, Appending
<1>11. ASSUME NEW t \in Tabs, NEW c \in Calls, AskSession(t, c) PROVE Goal
  <2>1. Others(c) /\ call'[c] = [NoCall EXCEPT !.pc = "create"]
    BY <1>11, SendFields DEF AskSession
  <2>2. call'[c].pc = "create" /\ call'[c].answer = None
    BY <2>1 DEF NoCall
  <2>3. \A u \in Tabs : tab'[u].session = tab[u].session
    BY <1>11, PageFields DEF AskSession
  <2> QED
    BY <1>0, <1>11, <2>1, <2>2, <2>3, NoneAssumption DEF AskSession, Others, SessionInv, Appending
<1>12. ASSUME NEW t \in Tabs, NEW c \in Calls, Receive(t, c) PROVE Goal
  <2>1. Others(c) /\ call'[c] = NoCall
    BY <1>0, <1>12 DEF Receive, Others
  <2>2. tab'[t].session => exists
    BY <1>0, <1>12, PageFields DEF Receive, SessionInv
  <2>3. \A u \in Tabs \ {t} : tab'[u] = tab[u]
    BY <1>0, <1>12 DEF Receive
  <2> QED
    BY <1>0, <1>12, <2>1, <2>2, <2>3, NoneAssumption DEF Receive, Others, SessionInv, Appending, NoCall
<1>13. ASSUME NEW t \in Tabs, NEW c \in Calls, NEW text \in Texts, SubmitTurn(t, c, text) PROVE Goal
  <2>1. Others(c) /\ exists
    BY <1>13, SendFields DEF SubmitTurn, SessionInv
  <2>2. \A u \in Tabs : tab'[u].session => exists
    BY <2>1
  <2> QED
    BY <1>0, <1>13, <2>1, <2>2 DEF SubmitTurn, SessionInv
<1> HIDE DEF Goal
<1>14. ASSUME Next PROVE Goal
  BY <1>2, <1>3, <1>4, <1>5, <1>6, <1>7, <1>8, <1>9, <1>10, <1>11, <1>12, <1>13, <1>14, Zenon DEF Next
<1>15. Goal
  BY <1>1, <1>14 DEF Goal
<1> QED
  BY <1>15 DEF Goal

(* The steps that neither write a message nor start a turn. *)
LEMMA MessagesStay ==
  ASSUME UNCHANGED messages
  PROVE  \A k : Recorded(k)' = Recorded(k)
BY DEF Recorded

(* A request that has read holds the row until it has written or failed.   *)
LEMMA LockStep ==
  ASSUME TypeInv, SessionInv, LockInv, [Next]_vars
  PROVE  LockInv'
<1> DEFINE Goal == LockInv'
<1> USE NoneAssumption
<1>0. /\ messages \in Seq(MessageRow) /\ call \in [Calls -> Request]
      /\ rowLock \in NoneOr(Calls)
  BY DEF TypeInv
<1>1. CASE UNCHANGED vars
  BY <1>1 DEF LockInv, Recorded, vars
<1>2. ASSUME NEW c \in Calls, CreateSession(c) PROVE Goal
  <2>1. Others(c) /\ call'[c].pc = "answering" /\ UNCHANGED rowLock
    BY <1>2, AnswerFields DEF CreateSession
  <2>2. CASE UNCHANGED messages
    BY <1>0, <2>1, <2>2, MessagesStay DEF Others, LockInv
  <2>3. CASE ~exists
    BY <1>0, <2>1, <2>3 DEF Others, LockInv, SessionInv, Appending
  <2> QED
    BY <1>2, <2>2, <2>3 DEF CreateSession
<1>3. ASSUME NEW c \in Calls, LockSession(c) PROVE Goal
  <2>1. Others(c) /\ call'[c].pc = "locked" /\ rowLock = None /\ rowLock' = c /\ UNCHANGED messages
    BY <1>3, LockFields DEF LockSession
  <2>2. \A d \in Calls : call[d].pc \notin {"locked", "read"}
    BY <2>1 DEF LockInv
  <2> QED
    BY <1>0, <2>1, <2>2 DEF Others, LockInv
<1>4. ASSUME NEW c \in Calls, NEW answer, Answer(c, answer), Release(c),
             call[c].pc \in {"locked", "read"}
      PROVE Goal
  <2>1. Others(c) /\ call'[c].pc = "answering"
    BY <1>4, AnswerFields
  <2>2. \A d \in Calls \ {c} : call[d].pc \notin {"locked", "read"}
    BY <1>4 DEF LockInv
  <2> QED
    BY <1>0, <2>1, <2>2 DEF Others, LockInv
<1>5. ASSUME NEW c \in Calls, ReadTurn(c) PROVE Goal
  <2>1. CASE ReadsOn(c)
    <3>1. call'[c].pc = "read" /\ call'[c].seen = Len(messages') /\ Recorded(call[c].turn)' = {}
      BY <2>1 DEF ReadsOn, Recorded
    <3>2. rowLock' = c
      BY <2>1 DEF ReadsOn, LockInv
    <3> QED
      BY <1>0, <2>1, <3>1, <3>2, MessagesStay DEF ReadsOn, Others, LockInv
  <2> QED
    BY <1>4, <1>5, <2>1, ReadFields
<1>6. ASSUME NEW c \in Calls, AppendTurn(c) PROVE Goal
  BY <1>4, <1>6, AppendRecords DEF Record
<1>7. ASSUME NEW c \in Calls, FailTurn(c) PROVE Goal
  BY <1>4, <1>7 DEF FailTurn
<1>8. ASSUME NEW c \in Calls, Others(c), call'[c].pc \notin {"locked", "read"},
             UNCHANGED <<messages, rowLock>>
      PROVE  Goal
  BY <1>0, <1>8, MessagesStay DEF Others, LockInv
<1>9. ASSUME NEW c \in Calls, Unheard(c) PROVE Goal
  <2>1. Others(c) /\ call'[c] = NoCall
    BY <1>0, <1>9 DEF Unheard, Others
  <2> QED
    BY <1>8, <1>9, <2>1 DEF Unheard, NoCall
<1>10. ASSUME NEW t \in Tabs, GiveUp(t) \/ OpenSession(t) \/ \E field \in FieldNames : EditRequirement(t, field)
       PROVE Goal
  <2>1. UNCHANGED <<call, messages, rowLock>>
    BY <1>10 DEF GiveUp, OpenSession, EditRequirement
  <2> QED
    BY <2>1, MessagesStay DEF LockInv
<1>11. ASSUME NEW t \in Tabs, NEW c \in Calls, AskSession(t, c) PROVE Goal
  <2>1. Others(c) /\ call'[c] = [NoCall EXCEPT !.pc = "create"]
    BY <1>11, SendFields DEF AskSession
  <2>2. call'[c].pc = "create"
    BY <2>1 DEF NoCall
  <2> QED
    BY <1>8, <1>11, <2>1, <2>2 DEF AskSession
<1>12. ASSUME NEW t \in Tabs, NEW c \in Calls, Receive(t, c) PROVE Goal
  <2>1. Others(c) /\ call'[c] = NoCall
    BY <1>0, <1>12 DEF Receive, Others
  <2> QED
    BY <1>8, <1>12, <2>1 DEF Receive, NoCall
<1>13. ASSUME NEW t \in Tabs, NEW c \in Calls, NEW text \in Texts, SubmitTurn(t, c, text) PROVE Goal
  <2>1. Others(c) /\ call'[c] = [NoCall EXCEPT !.pc = "append", !.turn = TurnId(t, Prompt(t), text),
                                   !.field = Prompt(t), !.text = text]
    BY <1>13, SendFields DEF SubmitTurn
  <2>2. call'[c].pc = "append"
    BY <2>1 DEF NoCall
  <2> QED
    BY <1>8, <1>13, <2>1, <2>2 DEF SubmitTurn
<1> HIDE DEF Goal
<1>14. ASSUME Next PROVE Goal
  BY <1>2, <1>3, <1>5, <1>6, <1>7, <1>9, <1>10, <1>11, <1>12, <1>13, <1>14, Zenon DEF Next
<1>15. Goal
  BY <1>1, <1>14 DEF Goal
<1> QED
  BY <1>15 DEF Goal

(* Apart from the submission of a turn nothing is said that was not said.  *)
LEMMA SaysLess ==
  ASSUME TypeInv, LockInv, SessionInv, Next,
         ~\E t \in Tabs, c \in Calls, text \in Texts : SubmitTurn(t, c, text),
         NEW k, NEW field, NEW text, Says(k, field, text)'
  PROVE  Says(k, field, text)
<1> DEFINE Goal == Says(k, field, text)
<1>0. /\ messages \in Seq(MessageRow) /\ call \in [Calls -> Request] /\ tab \in [Tabs -> Page]
  BY DEF TypeInv
<1>1. ASSUME \A d \in Calls : Appending(d)' =>
               /\ Appending(d) /\ call'[d].turn = call[d].turn
               /\ call'[d].field = call[d].field /\ call'[d].text = call[d].text,
             \A u \in Tabs : tab'[u].attempt \in {tab[u].attempt, NoAttempt},
             UNCHANGED messages
      PROVE  Goal
  BY <1>1 DEF Says
<1>2. ASSUME NEW c \in Calls, Others(c),
             call'[c].pc \notin {"append", "locked", "read"} \/
               /\ Appending(c) /\ call'[c].turn = call[c].turn
               /\ call'[c].field = call[c].field /\ call'[c].text = call[c].text,
             \A u \in Tabs : tab'[u].attempt \in {tab[u].attempt, NoAttempt},
             UNCHANGED messages
      PROVE  Goal
  BY <1>1, <1>2 DEF Others, Appending
<1>3. ASSUME NEW c \in Calls, CreateSession(c) PROVE Goal
  <2>1. Others(c) /\ call'[c].pc = "answering" /\ UNCHANGED tab
    BY <1>3, AnswerFields DEF CreateSession
  <2>2. CASE UNCHANGED messages
    BY <1>2, <2>1, <2>2
  <2>3. CASE messages' = <<Message("ASSISTANT", 0, None, None, "GOAL")>>
    <3>1. \A i \in DOMAIN messages' : messages'[i].role # "USER"
      BY <2>3 DEF Message
    <3> QED
      BY <2>1, <3>1 DEF Says, Others, Appending
  <2> QED
    BY <1>3, <2>2, <2>3 DEF CreateSession
<1>4. ASSUME NEW c \in Calls, LockSession(c) PROVE Goal
  BY <1>2, <1>4, LockFields DEF LockSession, Appending
<1>5. ASSUME NEW c \in Calls, ReadTurn(c) PROVE Goal
  <2>1. UNCHANGED <<messages, tab>>
    BY <1>5 DEF ReadTurn
  <2>2. Others(c) /\ call[c].pc = "locked" /\ (call'[c].pc = "answering" \/ ReadsOn(c))
    BY <1>5, ReadFields, AnswerFields DEF ReadsOn
  <2> QED
    BY <1>2, <2>1, <2>2 DEF ReadsOn, Appending
<1>6. ASSUME NEW c \in Calls, AppendTurn(c) PROVE Goal
  <2>1. Record(c) /\ call[c].pc = "read" /\ UNCHANGED tab
    BY <1>6, AppendRecords
  <2>2. Others(c) /\ call'[c].pc = "answering"
    BY <2>1, AnswerFields DEF Record
  <2>3. PICK u \in MessageRow, a \in MessageRow :
          /\ u = Message("USER", call[c].turn, call[c].field, call[c].text, None)
          /\ a.role = "ASSISTANT"
          /\ messages' = messages \o <<u, a>>
    <3>1. /\ Message("USER", call[c].turn, call[c].field, call[c].text, None) \in MessageRow
          /\ Message("ASSISTANT", 0, None, None,
               FirstMissing(MergeRequirement(Current, call[c].field, call[c].text))) \in MessageRow
      BY <1>0, FirstMissingTyped DEF Message, MessageRow, Request, NoneOr
    <3> QED
      BY <2>1, <3>1 DEF Record, Message
  <2>4. /\ DOMAIN messages' = 1..(Len(messages) + 2) /\ DOMAIN messages = 1..Len(messages)
        /\ Len(messages) \in Nat
        /\ messages'[Len(messages) + 1] = u /\ messages'[Len(messages) + 2] = a
        /\ \A i \in 1..Len(messages) : messages'[i] = messages[i]
    <3>1. messages' \in Seq(MessageRow) /\ Len(messages') = Len(messages) + 2
      BY <1>0, <2>3, TwoMore
    <3> QED
      BY <1>0, <2>3, <3>1, TwoMore
  <2>5. ASSUME NEW i \in DOMAIN messages', messages'[i].role = "USER", messages'[i].turn = k,
               messages'[i].field = field, messages'[i].text = text
        PROVE  Goal
    <3>1. CASE i \in 1..Len(messages)
      BY <2>4, <2>5, <3>1 DEF Says
    <3>2. CASE i = Len(messages) + 1
      <4>1. call[c].turn = k /\ call[c].field = field /\ call[c].text = text
        BY <2>3, <2>4, <2>5, <3>2 DEF Message
      <4> QED
        BY <2>1, <4>1 DEF Says, Appending
    <3>3. i # Len(messages) + 2
      BY <2>3, <2>4, <2>5
    <3> QED
      BY <2>4, <3>1, <3>2, <3>3
  <2>6. ASSUME NEW d \in Calls, Appending(d)', call'[d].turn = k, call'[d].field = field,
               call'[d].text = text
        PROVE  Goal
    BY <2>2, <2>6 DEF Others, Appending, Says
  <2> HIDE DEF Goal
  <2>7. ASSUME NEW u2 \in Tabs, tab'[u2].attempt # NoAttempt,
               tab'[u2].attempt = [turn |-> k, field |-> field, text |-> text]
        PROVE  Goal
    BY <2>1, <2>7 DEF Says, Goal
  <2> QED
    BY <2>5, <2>6, <2>7 DEF Says
<1>7. ASSUME NEW c \in Calls, FailTurn(c) PROVE Goal
  BY <1>2, <1>7, AnswerFields DEF FailTurn
<1>8. ASSUME NEW c \in Calls, Unheard(c) PROVE Goal
  <2>1. Others(c) /\ call'[c].pc = "none"
    BY <1>0, <1>8 DEF Unheard, Others, NoCall
  <2> QED
    BY <1>2, <1>8, <2>1 DEF Unheard
<1>9. ASSUME NEW t \in Tabs, GiveUp(t) \/ OpenSession(t) \/ \E f \in FieldNames : EditRequirement(t, f)
      PROVE Goal
  <2>1. \A u \in Tabs : tab'[u].attempt \in {tab[u].attempt, NoAttempt}
    <3>1. CASE GiveUp(t)
      BY <3>1, PageFields DEF GiveUp
    <3>2. CASE OpenSession(t)
      <4>1. tab'[t] = [NewPage EXCEPT !.session = TRUE, !.shows = Current]
        BY <3>2, PageFields DEF OpenSession
      <4>2. tab'[t].attempt = NoAttempt
        BY <4>1 DEF NewPage
      <4> QED
        BY <3>2, <4>2, PageFields DEF OpenSession
    <3>3. CASE \E f \in FieldNames : EditRequirement(t, f)
      <4>1. PICK f \in FieldNames : tab' = [tab EXCEPT ![t].edits = f, ![t].attempt = NoAttempt]
        BY <3>3 DEF EditRequirement
      <4>2. tab'[t].attempt = NoAttempt /\ \A u \in Tabs \ {t} : tab'[u] = tab[u]
        BY <1>0, <4>1 DEF Page
      <4> QED
        BY <4>2
    <3> QED
      BY <1>9, <3>1, <3>2, <3>3
  <2>2. UNCHANGED <<call, messages>>
    BY <1>9 DEF GiveUp, OpenSession, EditRequirement
  <2> QED
    BY <1>1, <2>1, <2>2 DEF Appending
<1>10. ASSUME NEW t \in Tabs, NEW c \in Calls, AskSession(t, c) PROVE Goal
  <2>1. Others(c) /\ call'[c] = [NoCall EXCEPT !.pc = "create"]
    BY <1>10, SendFields DEF AskSession
  <2>2. call'[c].pc = "create"
    BY <2>1 DEF NoCall
  <2>3. \A u \in Tabs : tab'[u].attempt \in {tab[u].attempt, NoAttempt}
    BY <1>10, PageFields DEF AskSession
  <2> QED
    BY <1>2, <1>10, <2>1, <2>2, <2>3 DEF AskSession
<1>11. ASSUME NEW t \in Tabs, NEW c \in Calls, Receive(t, c) PROVE Goal
  <2>1. Others(c) /\ call'[c].pc = "none"
    BY <1>0, <1>11 DEF Receive, Others, NoCall
  <2>2. \A u \in Tabs : tab'[u].attempt \in {tab[u].attempt, NoAttempt}
    <3>1. tab'[t] = [NewPage EXCEPT !.session = TRUE, !.shows = Current]
            \/ tab'[t] = [tab[t] EXCEPT !.waits = None]
      BY <1>0, <1>11 DEF Receive
    <3>2. tab'[t].attempt \in {tab[t].attempt, NoAttempt}
      BY <1>0, <3>1 DEF NewPage, Page
    <3> QED
      BY <1>0, <1>11, <3>2 DEF Receive
  <2> QED
    BY <1>2, <1>11, <2>1, <2>2 DEF Receive
<1> HIDE DEF Goal
<1>12. Goal
  BY <1>3, <1>4, <1>5, <1>6, <1>7, <1>8, <1>9, <1>10, <1>11, Zenon DEF Next
<1> QED
  BY <1>12 DEF Goal

-----------------------------------------------------------------------------
(* Turn ids.                                                               *)

(* Only a submission gives a turn id. *)
LEMMA TurnsStay ==
  ASSUME TypeInv, LockInv, [Next]_vars,
         ~\E t \in Tabs, c \in Calls, text \in Texts : SubmitTurn(t, c, text)
  PROVE  UNCHANGED <<turns, meant>>
<1> DEFINE Goal == UNCHANGED <<turns, meant>>
<1>1. ASSUME NEW c \in Calls, CreateSession(c) \/ LockSession(c) \/ ReadTurn(c) \/ AppendTurn(c)
                               \/ FailTurn(c) \/ Unheard(c)
      PROVE  Goal
  BY <1>1 DEF CreateSession, LockSession, ReadTurn, AppendTurn, FailTurn, Unheard
<1>2. ASSUME NEW t \in Tabs, GiveUp(t) \/ OpenSession(t) \/ \E f \in FieldNames : EditRequirement(t, f)
      PROVE  Goal
  BY <1>2 DEF GiveUp, OpenSession, EditRequirement
<1>3. ASSUME NEW t \in Tabs, NEW c \in Calls, AskSession(t, c) \/ Receive(t, c)
      PROVE  Goal
  BY <1>3 DEF AskSession, Receive
<1>4. CASE UNCHANGED vars
  BY <1>4 DEF vars
<1> HIDE DEF Goal
<1>5. ASSUME Next PROVE Goal
  BY <1>1, <1>2, <1>3, <1>5, Zenon DEF Next
<1>6. Goal
  BY <1>4, <1>5 DEF Goal
<1> QED
  BY <1>6 DEF Goal

(* A submission says what its page meant, under the id of the attempt or a *)
(* new one.                                                                *)
LEMMA SubmitSays ==
  ASSUME TypeInv, TurnsInv, NEW t \in Tabs, NEW c \in Calls, NEW text \in Texts,
         SubmitTurn(t, c, text)
  PROVE  \E turn \in Nat, field \in FieldNames :
           /\ \A k, f, x : Says(k, f, x)' =>
                Says(k, f, x) \/ (k = turn /\ f = field /\ x = text)
           /\ \/ turns' = turns /\ meant' = meant /\ Says(turn, field, text)
              \/ turn = turns + 1 /\ turns' = turn /\ meant' = meant + 1
           /\ UNCHANGED messages
<1> DEFINE attempt == tab[t].attempt
<1>0. /\ call \in [Calls -> Request] /\ tab \in [Tabs -> Page] /\ attempt \in Attempt
      /\ turns \in Nat /\ meant \in Nat
  BY DEF TypeInv, Page
<1>1. PICK turn \in Nat, field \in FieldNames :
        turn = TurnId(t, Prompt(t), text) /\ field = Prompt(t)
  <2>1. TurnId(t, Prompt(t), text) \in Nat
    BY <1>0 DEF TurnId, Attempt
  <2> QED
    BY <2>1, PromptTyped
<1>2. /\ Send(t, c, [NoCall EXCEPT !.pc = "append", !.turn = turn, !.field = field, !.text = text])
      /\ tab' = [tab EXCEPT ![t].waits = c,
                            ![t].attempt = [turn |-> turn, field |-> field, text |-> text]]
      /\ turns' = IF turn > turns THEN turn ELSE turns
      /\ meant' = IF attempt # NoAttempt /\ attempt.field = field /\ attempt.text = text
                    THEN meant ELSE meant + 1
      /\ UNCHANGED messages
  BY <1>1 DEF SubmitTurn
<1>3. attempt = [turn |-> attempt.turn, field |-> attempt.field, text |-> attempt.text]
  BY <1>0 DEF Attempt
<1>4. /\ Others(c) /\ call[c] = NoCall
      /\ call'[c] = [NoCall EXCEPT !.pc = "append", !.turn = turn, !.field = field, !.text = text]
  BY <1>2, SendFields
<1>5. /\ call'[c].turn = turn /\ call'[c].field = field /\ call'[c].text = text
  BY <1>4 DEF NoCall
<1>6. /\ tab'[t].attempt = [turn |-> turn, field |-> field, text |-> text]
      /\ \A u \in Tabs \ {t} : tab'[u] = tab[u]
  BY <1>0, <1>2 DEF Page
<1>7. ASSUME NEW k, NEW f, NEW x, Says(k, f, x)'
      PROVE  Says(k, f, x) \/ (k = turn /\ f = field /\ x = text)
  <2> SUFFICES ASSUME ~(k = turn /\ f = field /\ x = text) PROVE Says(k, f, x)
    OBVIOUS
  <2>1. ASSUME NEW d \in Calls, Appending(d)', call'[d].turn = k, call'[d].field = f, call'[d].text = x
        PROVE  Says(k, f, x)
    BY <1>4, <1>5, <2>1 DEF Says, Others, Appending
  <2>2. ASSUME NEW i \in DOMAIN messages', messages'[i].role = "USER", messages'[i].turn = k,
               messages'[i].field = f, messages'[i].text = x
        PROVE  Says(k, f, x)
    BY <1>2, <2>2 DEF Says
  <2>3. ASSUME NEW u \in Tabs, tab'[u].attempt # NoAttempt,
               tab'[u].attempt = [turn |-> k, field |-> f, text |-> x]
        PROVE  Says(k, f, x)
    <3>1. u # t
      <4>1. ASSUME [turn |-> turn, field |-> field, text |-> text] = [turn |-> k, field |-> f, text |-> x]
            PROVE k = turn /\ f = field /\ x = text
        BY <4>1
      <4> QED
        BY <1>6, <2>3, <4>1
    <3> QED
      BY <1>6, <2>3, <3>1 DEF Says
  <2> QED
    BY <1>7, <2>1, <2>2, <2>3 DEF Says
<1>8. attempt # NoAttempt => attempt.turn \in 1..turns /\ Says(attempt.turn, attempt.field, attempt.text)
  <2> SUFFICES ASSUME attempt # NoAttempt
               PROVE  attempt.turn \in 1..turns /\ Says(attempt.turn, attempt.field, attempt.text)
    OBVIOUS
  <2>1. Says(attempt.turn, attempt.field, attempt.text)
    BY <1>3 DEF Says
  <2> QED
    BY <1>0, <2>1 DEF TurnsInv, Attempt
<1>9. CASE attempt # NoAttempt /\ attempt.field = field /\ attempt.text = text
  <2>1. turn = attempt.turn
    BY <1>0, <1>1, <1>8, <1>9 DEF TurnId, Again
  <2>2. turn \in Nat /\ turns' = turns /\ meant' = meant /\ Says(turn, field, text)
    BY <1>0, <1>2, <1>8, <1>9, <2>1
  <2> QED
    BY <1>2, <1>7, <2>2
<1>10. CASE ~(attempt # NoAttempt /\ attempt.field = field /\ attempt.text = text)
  <2>1. turn = turns + 1
    BY <1>1, <1>10 DEF TurnId, Again, NoAttempt
  <2>2. turn \in Nat /\ turns' = turn /\ meant' = meant + 1
    BY <1>0, <1>2, <1>10, <2>1
  <2> QED
    BY <1>2, <1>7, <2>1, <2>2
<1> QED
  BY <1>9, <1>10

(* A turn id stands for one text of one field. *)
LEMMA TurnsStep ==
  ASSUME TypeInv, SessionInv, LockInv, TurnsInv, [Next]_vars
  PROVE  TurnsInv'
<1>0. turns \in Nat
  BY DEF TypeInv
<1>1. ASSUME turns' = turns, \A k, f, x : Says(k, f, x)' => Says(k, f, x)
      PROVE  TurnsInv'
  BY <1>1 DEF TurnsInv
<1>2. CASE UNCHANGED vars
  <2>1. \A k, f, x : Says(k, f, x)' => Says(k, f, x)
    BY <1>2 DEF Says, Appending, vars
  <2> QED
    BY <1>1, <1>2, <2>1 DEF vars
<1>3. CASE Next /\ ~\E t \in Tabs, c \in Calls, text \in Texts : SubmitTurn(t, c, text)
  <2>1. turns' = turns
    BY <1>3, TurnsStay
  <2>2. \A k, f, x : Says(k, f, x)' => Says(k, f, x)
    BY <1>3, SaysLess
  <2> QED
    BY <1>1, <2>1, <2>2
<1>4. ASSUME NEW t \in Tabs, NEW c \in Calls, NEW text \in Texts, SubmitTurn(t, c, text)
      PROVE  TurnsInv'
  <2>1. PICK turn \in Nat, field \in FieldNames :
           /\ \A k, f, x : Says(k, f, x)' =>
                Says(k, f, x) \/ (k = turn /\ f = field /\ x = text)
           /\ \/ turns' = turns /\ meant' = meant /\ Says(turn, field, text)
              \/ turn = turns + 1 /\ turns' = turn /\ meant' = meant + 1
    BY <1>4, SubmitSays
  <2>2. CASE turns' = turns /\ Says(turn, field, text)
    BY <1>1, <2>1, <2>2
  <2>3. CASE turn = turns + 1 /\ turns' = turn
    <3>1. \A f \in NoneOr(FieldNames), x \in NoneOr(Texts) : ~Says(turn, f, x)
      BY <1>0, <2>1, <2>3 DEF TurnsInv
    <3>2. SUFFICES ASSUME NEW k \in Nat, NEW f \in NoneOr(FieldNames), NEW x \in NoneOr(Texts),
                          Says(k, f, x)'
                   PROVE  /\ k \in 1..turns' /\ f \in FieldNames /\ x \in Texts
                          /\ \A g \in NoneOr(FieldNames), y \in NoneOr(Texts) :
                               Says(k, g, y)' => g = f /\ y = x
      BY DEF TurnsInv
    <3>3. CASE k = turn
      BY <1>0, <1>4, <2>1, <2>3, <3>1, <3>2, <3>3
    <3>4. CASE k # turn
      <4>1. Says(k, f, x)
        BY <2>1, <3>2, <3>4
      <4>2. k \in 1..turns /\ f \in FieldNames /\ x \in Texts
        BY <4>1 DEF TurnsInv
      <4>3. \A g \in NoneOr(FieldNames), y \in NoneOr(Texts) : Says(k, g, y)' => g = f /\ y = x
        BY <2>1, <3>4, <4>1 DEF TurnsInv
      <4> QED
        BY <1>0, <2>3, <4>2, <4>3
    <3> QED
      BY <3>3, <3>4
  <2> QED
    BY <2>1, <2>2, <2>3
<1> QED
  BY <1>2, <1>3, <1>4

-----------------------------------------------------------------------------
(* What is recorded.                                                       *)

(* The two messages of a turn, the requirement it makes and the revision.  *)
RecordsAt(c, next, u, a) ==
  /\ next = MergeRequirement(Current, call[c].field, call[c].text)
  /\ u = Message("USER", call[c].turn, call[c].field, call[c].text, None)
  /\ a = Message("ASSISTANT", 0, None, None, FirstMissing(next))
  /\ messages' = messages \o <<u, a>>
  /\ revisions' = IF next = Current THEN revisions
                  ELSE Append(revisions, [values |-> next, source |-> Len(messages) + 1])

(* Messages are written by a turn under the row's lock, or begin a session. *)
LEMMA Writes ==
  ASSUME TypeInv, SessionInv, LockInv, [Next]_vars
  PROVE  \/ UNCHANGED <<messages, revisions>>
         \/ /\ messages = <<>> /\ messages' = <<Message("ASSISTANT", 0, None, None, "GOAL")>>
            /\ revisions = <<>> /\ revisions' = <<>> /\ UNCHANGED <<turns, meant>>
         \/ \E c \in Calls : /\ Record(c) /\ call[c].pc = "read" /\ Recorded(call[c].turn) = {}
                             /\ UNCHANGED <<turns, meant>>
<1> DEFINE Goal ==
         \/ UNCHANGED <<messages, revisions>>
         \/ /\ messages = <<>> /\ messages' = <<Message("ASSISTANT", 0, None, None, "GOAL")>>
            /\ revisions = <<>> /\ revisions' = <<>> /\ UNCHANGED <<turns, meant>>
         \/ \E c \in Calls : /\ Record(c) /\ call[c].pc = "read" /\ Recorded(call[c].turn) = {}
                             /\ UNCHANGED <<turns, meant>>
<1>1. ASSUME NEW c \in Calls, CreateSession(c) PROVE Goal
  <2>1. CASE exists /\ UNCHANGED messages
    BY <1>1, <2>1 DEF CreateSession
  <2>2. CASE ~exists /\ messages' = <<Message("ASSISTANT", 0, None, None, "GOAL")>>
    <3>1. messages = <<>> /\ revisions \in Seq(Revision)
      BY <2>2 DEF SessionInv, TypeInv
    <3>2. DOMAIN revisions = {}
      BY <3>1 DEF SessionInv
    <3>3. revisions = <<>>
      BY <3>1, <3>2
    <3> QED
      BY <1>1, <2>2, <3>1, <3>3 DEF CreateSession
  <2> QED
    BY <1>1, <2>1, <2>2 DEF CreateSession
<1>2. ASSUME NEW c \in Calls, LockSession(c) \/ ReadTurn(c) \/ FailTurn(c) \/ Unheard(c) PROVE Goal
  BY <1>2 DEF LockSession, ReadTurn, FailTurn, Unheard
<1>3. ASSUME NEW c \in Calls, AppendTurn(c) PROVE Goal
  <2>1. Record(c) /\ call[c].pc = "read" /\ Recorded(call[c].turn) = {} /\ UNCHANGED meant
    BY <1>3, AppendRecords
  <2>2. UNCHANGED turns
    BY <1>3 DEF AppendTurn
  <2> QED
    BY <2>1, <2>2
<1>4. ASSUME NEW t \in Tabs, GiveUp(t) \/ OpenSession(t) \/ \E f \in FieldNames : EditRequirement(t, f)
      PROVE  Goal
  BY <1>4 DEF GiveUp, OpenSession, EditRequirement
<1>5. ASSUME NEW t \in Tabs, NEW c \in Calls,
             AskSession(t, c) \/ Receive(t, c) \/ \E text \in Texts : SubmitTurn(t, c, text)
      PROVE  Goal
  BY <1>5 DEF AskSession, Receive, SubmitTurn
<1>6. CASE UNCHANGED vars
  BY <1>6 DEF vars
<1> HIDE DEF Goal
<1>7. ASSUME Next PROVE Goal
  BY <1>1, <1>2, <1>3, <1>4, <1>5, <1>7, Zenon DEF Next
<1>8. Goal
  BY <1>6, <1>7 DEF Goal
<1> QED
  BY <1>8 DEF Goal

(* What a turn records has its type, and is what the turn's request says.  *)
LEMMA RecordsWhatIsSaid ==
  ASSUME TypeInv, TurnsInv, NEW c \in Calls, Record(c), call[c].pc = "read"
  PROVE  \E next \in Values, u \in MessageRow, a \in MessageRow :
           /\ RecordsAt(c, next, u, a)
           /\ u.role = "USER" /\ u.turn = call[c].turn /\ u.turn \in 1..turns
           /\ u.field = call[c].field /\ u.text = call[c].text
           /\ u.field \in FieldNames /\ u.text \in Texts
           /\ a.role = "ASSISTANT" /\ a.asks = FirstMissing(next)
<1>0. call[c] \in Request
  BY DEF TypeInv
<1>1. PICK next : next = MergeRequirement(Current, call[c].field, call[c].text)
  OBVIOUS
<1>2. next \in Values
  BY <1>0, <1>1, CurrentTyped DEF MergeRequirement, Values, Request
<1>3. PICK u, a : /\ u = Message("USER", call[c].turn, call[c].field, call[c].text, None)
                  /\ a = Message("ASSISTANT", 0, None, None, FirstMissing(next))
  OBVIOUS
<1>4. u \in MessageRow /\ a \in MessageRow
  BY <1>0, <1>3, FirstMissingTyped DEF Message, MessageRow, Request, NoneOr
<1>5. RecordsAt(c, next, u, a)
  BY <1>1, <1>3 DEF Record, RecordsAt
<1>6. Says(call[c].turn, call[c].field, call[c].text)
  BY DEF Says, Appending
<1>7. call[c].turn \in 1..turns /\ call[c].field \in FieldNames /\ call[c].text \in Texts
  BY <1>0, <1>6 DEF TurnsInv, Request
<1>8. /\ u.role = "USER" /\ u.turn = call[c].turn /\ u.field = call[c].field /\ u.text = call[c].text
      /\ a.role = "ASSISTANT" /\ a.asks = FirstMissing(next)
  BY <1>3 DEF Message
<1> QED
  BY <1>2, <1>4, <1>5, <1>7, <1>8

(* A turn is recorded once, and every turn id that is given is meant. *)
LEMMA OnceStep ==
  ASSUME TypeInv, SessionInv, LockInv, TurnsInv, OnceInv, [Next]_vars
  PROVE  OnceInv'
<1>0. messages \in Seq(MessageRow)
  BY DEF TypeInv
<1>1. (turns = meant)'
  <2>1. CASE \E t \in Tabs, c \in Calls, text \in Texts : SubmitTurn(t, c, text)
    <3>1. PICK t \in Tabs, c \in Calls, text \in Texts : SubmitTurn(t, c, text)
      BY <2>1
    <3>2. (turns' = turns /\ meant' = meant) \/ (turns' = turns + 1 /\ meant' = meant + 1)
      BY <3>1, SubmitSays
    <3> QED
      BY <3>2 DEF OnceInv
  <2>2. CASE ~\E t \in Tabs, c \in Calls, text \in Texts : SubmitTurn(t, c, text)
    BY <2>2, TurnsStay DEF OnceInv
  <2> QED
    BY <2>1, <2>2
<1>2. CASE UNCHANGED <<messages, revisions>>
  BY <1>1, <1>2 DEF OnceInv
<1>3. CASE messages' = <<Message("ASSISTANT", 0, None, None, "GOAL")>>
  <2>1. \A i \in DOMAIN messages' : messages'[i].role # "USER"
    BY <1>3 DEF Message
  <2> QED
    BY <1>1, <2>1 DEF OnceInv
<1>4. ASSUME NEW c \in Calls, Record(c), call[c].pc = "read", Recorded(call[c].turn) = {}
      PROVE  OnceInv'
  <2>1. PICK next \in Values, u \in MessageRow, a \in MessageRow :
          /\ messages' = messages \o <<u, a>>
          /\ u.turn = call[c].turn /\ a.role = "ASSISTANT"
    BY <1>4, RecordsWhatIsSaid DEF RecordsAt
  <2>2. /\ Len(messages) \in Nat /\ DOMAIN messages = 1..Len(messages)
        /\ DOMAIN messages' = 1..(Len(messages) + 2)
        /\ messages'[Len(messages) + 1] = u /\ messages'[Len(messages) + 2] = a
        /\ \A i \in 1..Len(messages) : messages'[i] = messages[i]
    <3>1. messages' \in Seq(MessageRow) /\ Len(messages') = Len(messages) + 2
      BY <1>0, <2>1, TwoMore
    <3> QED
      BY <1>0, <2>1, <3>1, TwoMore
  <2>3. \A i \in DOMAIN messages : ~(messages[i].role = "USER" /\ messages[i].turn = u.turn)
    BY <1>4, <2>1 DEF Recorded
  <2>4. ASSUME NEW i \in DOMAIN messages', NEW j \in DOMAIN messages',
               messages'[i].role = "USER", messages'[j].role = "USER",
               messages'[i].turn = messages'[j].turn
        PROVE  i = j
    <3>1. i # Len(messages) + 2 /\ j # Len(messages) + 2
      BY <2>1, <2>2, <2>4
    <3>2. i \in 1..Len(messages) \/ i = Len(messages) + 1
      BY <2>2, <3>1
    <3>3. j \in 1..Len(messages) \/ j = Len(messages) + 1
      BY <2>2, <3>1
    <3>4. CASE i \in 1..Len(messages) /\ j \in 1..Len(messages)
      BY <2>2, <2>4, <3>4 DEF OnceInv
    <3>5. CASE i = Len(messages) + 1 /\ j \in 1..Len(messages)
      BY <2>2, <2>3, <2>4, <3>5
    <3>6. CASE i \in 1..Len(messages) /\ j = Len(messages) + 1
      BY <2>2, <2>3, <2>4, <3>6
    <3> QED
      BY <3>2, <3>3, <3>4, <3>5, <3>6
  <2> QED
    BY <1>1, <2>4 DEF OnceInv
<1> QED
  BY <1>2, <1>3, <1>4, Writes

-----------------------------------------------------------------------------
(* The requirement.                                                        *)

(* HistoryAddsUp of the messages, the requirement and the revisions. *)
AddsUp(ms, current, revs) ==
  /\ \A f \in FieldNames : current[f] = GivenIn(ms, f, Len(ms))
  /\ \A r \in DOMAIN revs, f \in FieldNames :
       revs[r].values[f] = GivenIn(ms, f, revs[r].source)
  /\ \A i \in DOMAIN ms : ms[i].role = "ASSISTANT" =>
       ms[i].asks = FirstMissing([f \in FieldNames |-> GivenIn(ms, f, i)])

(* The property of the state is AddsUp of its parts, before and after. *)
LEMMA HistoryIsAddsUp ==
  /\ HistoryAddsUp <=> AddsUp(messages, Current, revisions)
  /\ HistoryAddsUp' <=> AddsUp(messages', Current', revisions')
<1>1. HistoryAddsUp <=> AddsUp(messages, Current, revisions)
  BY GivenInMessages DEF HistoryAddsUp, AddsUp
<1>2. \A field, n : Given(field, n)' = GivenIn(messages', field, n)
  BY DEF Given, GivenIn, LastOf, Said
<1>3. HistoryAddsUp' <=> AddsUp(messages', Current', revisions')
  BY <1>2 DEF HistoryAddsUp, AddsUp
<1> QED
  BY <1>1, <1>3

(* A session begins by asking for the goal. *)
LEMMA BeginsAddedUp ==
  ASSUME NEW ms, ms = <<Message("ASSISTANT", 0, None, None, "GOAL")>>
  PROVE  HasLast(ms) /\ AddsUp(ms, NoValues, <<>>)
<1>1. Len(ms) = 1 /\ DOMAIN ms = {1} /\ ms[1].role = "ASSISTANT" /\ ms[1].asks = "GOAL"
  BY DEF Message
<1>2. \A f \in FieldNames, n \in 0..1 : Said(ms, f, n) = {}
  BY <1>1 DEF Said
<1>3. \A f \in FieldNames, n \in 0..1 : GivenIn(ms, f, n) = None
  BY <1>2, GivenNone
<1>4. [f \in FieldNames |-> GivenIn(ms, f, 1)] = NoValues
  BY <1>3 DEF NoValues
<1>5. \A f \in FieldNames : NoValues[f] = GivenIn(ms, f, Len(ms))
  BY <1>1, <1>3 DEF NoValues
<1>6. ms[1].asks = FirstMissing([f \in FieldNames |-> GivenIn(ms, f, 1)])
  BY <1>1, <1>4, FirstMissingTyped
<1>7. HasLast(ms)
  BY <1>1, <1>2 DEF HasLast
<1> QED
  BY <1>1, <1>5, <1>6, <1>7 DEF AddsUp

(* The requirement after a turn. *)
LEMMA CurrentFollows ==
  ASSUME TypeInv, NEW next \in Values,
         revisions' = IF next = Current THEN revisions
                      ELSE Append(revisions, [values |-> next, source |-> Len(messages) + 1])
  PROVE  Current' = next
<1>0. revisions \in Seq(Revision)
  BY DEF TypeInv
<1>1. CASE next = Current
  BY <1>1 DEF Current
<1>2. CASE next # Current
  <2>1. PICK last : last = [values |-> next, source |-> Len(messages) + 1]
    OBVIOUS
  <2>2. revisions' = Append(revisions, last) /\ last.values = next
    BY <1>2, <2>1
  <2>3. revisions' # <<>> /\ revisions'[Len(revisions')] = last
    BY <1>0, <2>2
  <2> QED
    BY <2>2, <2>3 DEF Current
<1> QED
  BY <1>1, <1>2

(* A turn that is recorded adds up with what was there. *)
LEMMA RecordAddsUp ==
  ASSUME TypeInv, SessionInv, TurnsInv, AddsInv, HistoryAddsUp,
         NEW c \in Calls, Record(c), call[c].pc = "read"
  PROVE  AddsInv' /\ HistoryAddsUp'
<1> DEFINE k == Len(messages)
<1>0. /\ messages \in Seq(MessageRow) /\ revisions \in Seq(Revision) /\ k \in Nat
      /\ DOMAIN messages = 1..k
  BY DEF TypeInv
<1>1. PICK next \in Values, u \in MessageRow, a \in MessageRow :
           /\ RecordsAt(c, next, u, a)
           /\ u.role = "USER" /\ u.field = call[c].field /\ u.text = call[c].text
           /\ u.field \in FieldNames
           /\ a.role = "ASSISTANT" /\ a.asks = FirstMissing(next)
  BY RecordsWhatIsSaid
<1>2. PICK more : more = messages \o <<u, a>>
  OBVIOUS
<1>3. messages' = more
  BY <1>1, <1>2 DEF RecordsAt
<1>4. /\ HasLast(more)
      /\ \A field \in FieldNames :
              /\ \A n \in 0..k : GivenIn(more, field, n) = GivenIn(messages, field, n)
              /\ \A n \in {k + 1, k + 2} : GivenIn(more, field, n) =
                   IF field = u.field THEN u.text ELSE GivenIn(messages, field, k)
  <2>1. HasLast(messages)
    BY DEF AddsInv
  <2>2. u.role = "USER" /\ u.field \in FieldNames /\ a.role = "ASSISTANT"
    BY <1>1
  <2>3. messages \in Seq(MessageRow)
    BY <1>0
  <2>4. HasLast(more) /\ Gives(messages, u, more)
    BY <1>2, <2>1, <2>2, <2>3, TurnGives
  <2> QED
    BY <2>4 DEF Gives
<1>5. /\ more \in Seq(MessageRow) /\ Len(more) = k + 2 /\ DOMAIN more = 1..(k + 2)
      /\ more[k + 1] = u /\ more[k + 2] = a /\ \A i \in 1..k : more[i] = messages[i]
  <2>1. more \in Seq(MessageRow) /\ Len(more) = k + 2
    BY <1>0, <1>2, TwoMore
  <2> QED
    BY <1>0, <1>2, <2>1, TwoMore
<1>6. Current' = next
  BY <1>1, CurrentFollows DEF RecordsAt
<1>7. AddsUp(messages, Current, revisions)
  BY HistoryIsAddsUp
<1>8. \A f \in FieldNames : next[f] = IF f = u.field THEN u.text ELSE Current[f]
  BY <1>1, CurrentTyped DEF RecordsAt, MergeRequirement, Values
<1> HIDE DEF k
<1>9. \A f \in FieldNames, n \in {k + 1, k + 2} : next[f] = GivenIn(more, f, n)
  BY <1>4, <1>7, <1>8 DEF AddsUp, k
<1>10. \A f \in FieldNames : next[f] = GivenIn(more, f, Len(more))
  BY <1>5, <1>9
<1>11. \A r \in DOMAIN revisions' : revisions'[r].source \in 1..(k + 1) /\
         \A f \in FieldNames : revisions'[r].values[f] = GivenIn(more, f, revisions'[r].source)
  <2>1. ASSUME NEW r \in DOMAIN revisions
        PROVE  /\ revisions[r].source \in 1..(k + 1)
               /\ \A f \in FieldNames : revisions[r].values[f] = GivenIn(more, f, revisions[r].source)
    <3>1. revisions[r].source \in 1..k
      BY DEF SessionInv, k
    <3> QED
      BY <1>0, <1>4, <1>7, <3>1 DEF AddsUp
  <2>2. CASE next = Current
    BY <1>1, <2>1, <2>2 DEF RecordsAt
  <2>3. CASE next # Current
    <3>1. PICK last : last = [values |-> next, source |-> k + 1]
      OBVIOUS
    <3>2. last.values = next /\ last.source = k + 1
      BY <3>1
    <3>3. revisions' = Append(revisions, last)
      BY <1>1, <2>3, <3>1 DEF RecordsAt, k
    <3>4. /\ DOMAIN revisions' = 1..(Len(revisions) + 1) /\ revisions'[Len(revisions) + 1] = last
          /\ \A r \in 1..Len(revisions) : revisions'[r] = revisions[r]
          /\ DOMAIN revisions = 1..Len(revisions) /\ Len(revisions) \in Nat
      BY <1>0, <3>3
    <3>5. /\ last.source \in 1..(k + 1)
          /\ \A f \in FieldNames : last.values[f] = GivenIn(more, f, last.source)
      BY <1>0, <1>9, <3>2
    <3>6. DOMAIN revisions' = (1..Len(revisions)) \cup {Len(revisions) + 1}
      BY <3>4
    <3> QED
      BY <2>1, <3>4, <3>5, <3>6
  <2> QED
    BY <2>2, <2>3
<1>12. ASSUME NEW i \in DOMAIN more, more[i].role = "ASSISTANT"
       PROVE  more[i].asks = FirstMissing([f \in FieldNames |-> GivenIn(more, f, i)])
  <2>1. CASE i \in 1..k
    <3>1. [f \in FieldNames |-> GivenIn(more, f, i)] = [f \in FieldNames |-> GivenIn(messages, f, i)]
      BY <1>0, <1>4, <2>1
    <3>2. messages[i].asks = FirstMissing([f \in FieldNames |-> GivenIn(messages, f, i)])
      BY <1>0, <1>5, <1>7, <1>12, <2>1 DEF AddsUp
    <3> QED
      BY <1>5, <2>1, <3>1, <3>2
  <2>2. CASE i = k + 2
    <3>1. [f \in FieldNames |-> GivenIn(more, f, i)] = next
      BY <1>9, <2>2 DEF Values
    <3> QED
      BY <1>1, <1>5, <2>2, <3>1
  <2>3. i # k + 1
    BY <1>1, <1>5, <1>12
  <2> QED
    BY <1>0, <1>5, <2>1, <2>2, <2>3
<1>13. AddsUp(more, next, revisions')
  BY <1>10, <1>11, <1>12 DEF AddsUp
<1> QED
  BY <1>3, <1>4, <1>6, <1>13, HistoryIsAddsUp DEF AddsInv

(* The requirement goes on adding up. *)
LEMMA AddsStep ==
  ASSUME TypeInv, SessionInv, LockInv, TurnsInv, AddsInv, HistoryAddsUp, [Next]_vars
  PROVE  AddsInv' /\ HistoryAddsUp'
<1>1. CASE UNCHANGED <<messages, revisions>>
  <2>1. Current' = Current
    BY <1>1 DEF Current
  <2> QED
    BY <1>1, <2>1, HistoryIsAddsUp DEF AddsInv
<1>2. CASE messages' = <<Message("ASSISTANT", 0, None, None, "GOAL")>> /\ revisions' = <<>>
  <2>1. Current' = NoValues
    BY <1>2 DEF Current
  <2>2. HasLast(messages') /\ AddsUp(messages', NoValues, <<>>)
    BY <1>2, BeginsAddedUp
  <2> QED
    BY <1>2, <2>1, <2>2, HistoryIsAddsUp DEF AddsInv
<1> QED
  BY <1>1, <1>2, RecordAddsUp, Writes

-----------------------------------------------------------------------------
(* The theorems.                                                           *)

IInv == TypeInv /\ SessionInv /\ LockInv /\ TurnsInv /\ OnceInv /\ AddsInv

(* All of it holds at first. *)
LEMMA InitIInv == Init => IInv /\ HistoryAddsUp /\ NoTurnRefused
<1> SUFFICES ASSUME Init PROVE IInv /\ HistoryAddsUp /\ NoTurnRefused
  OBVIOUS
<1> USE DEF Init
<1>1. TypeInv
  <2>1. call \in [Calls -> Request] /\ tab \in [Tabs -> Page]
    BY MadeTyped
  <2>2. messages \in Seq(MessageRow) /\ revisions \in Seq(Revision)
    OBVIOUS
  <2>3. rowLock \in NoneOr(Calls)
    BY DEF NoneOr
  <2> QED
    BY <2>1, <2>2, <2>3 DEF TypeInv
<1>2. SessionInv /\ LockInv
  BY NoneAssumption DEF SessionInv, LockInv, Appending, NoCall, NewPage
<1>3. \A k, f, x : ~Says(k, f, x)
  BY DEF Says, Appending, NoCall, NewPage
<1>4. TurnsInv /\ OnceInv
  BY <1>3 DEF TurnsInv, OnceInv
<1>5. \A f \in FieldNames, n \in 0..0 : Said(messages, f, n) = {}
  BY DEF Said
<1>6. AddsInv
  BY <1>5 DEF AddsInv, HasLast
<1>7. \A f \in FieldNames : GivenIn(messages, f, 0) = None
  BY <1>5, GivenNone
<1>8. AddsUp(messages, Current, revisions)
  BY <1>7 DEF AddsUp, Current, NoValues
<1> QED
  BY <1>1, <1>2, <1>4, <1>6, <1>8, HistoryIsAddsUp DEF IInv, NoTurnRefused

(* Every step keeps it. *)
LEMMA StepIInv ==
  ASSUME IInv, HistoryAddsUp, [Next]_vars
  PROVE  IInv' /\ HistoryAddsUp'
BY TypeStep, SessionStep, LockStep, TurnsStep, OnceStep, AddsStep DEF IInv

(* A request that finds its turn recorded finds its own text there. *)
LEMMA FindsItself ==
  ASSUME IInv, NEW c \in Calls, call[c].pc = "locked", NEW i \in Recorded(call[c].turn)
  PROVE  SameTurn(c, i)
<1>1. call[c] \in Request /\ messages \in Seq(MessageRow) /\ i \in DOMAIN messages
  BY DEF IInv, TypeInv, Recorded
<1>2. messages[i] \in MessageRow /\ messages[i].role = "USER" /\ messages[i].turn = call[c].turn
  BY <1>1 DEF Recorded
<1>3. PICK k \in Nat, f \in NoneOr(FieldNames), x \in NoneOr(Texts) :
        k = call[c].turn /\ f = call[c].field /\ x = call[c].text
  BY <1>1 DEF Request
<1>4. Says(k, f, x)
  BY <1>3 DEF Says, Appending
<1>5. PICK g \in NoneOr(FieldNames), y \in NoneOr(Texts) :
        g = messages[i].field /\ y = messages[i].text
  BY <1>2 DEF MessageRow
<1>6. Says(k, g, y)
  BY <1>1, <1>2, <1>3, <1>5 DEF Says
<1>7. g = f /\ y = x
  BY <1>4, <1>6 DEF IInv, TurnsInv
<1> QED
  BY <1>3, <1>5, <1>7 DEF SameTurn

(* Nothing is refused in a step. *)
LEMMA RefusedStep ==
  ASSUME IInv, NoTurnRefused, [Next]_vars
  PROVE  NoTurnRefused'
<1> DEFINE Goal == NoTurnRefused'
<1>1. ASSUME NEW c \in Calls, CreateSession(c) \/ LockSession(c) \/ FailTurn(c) \/ Unheard(c) PROVE Goal
  BY <1>1 DEF CreateSession, LockSession, FailTurn, Unheard, NoTurnRefused
<1>2. ASSUME NEW c \in Calls, ReadTurn(c) PROVE Goal
  <2>1. CASE UNCHANGED failed
    BY <2>1 DEF NoTurnRefused
  <2>2. ASSUME NEW i \in Recorded(call[c].turn), failed' = (failed \/ ~SameTurn(c, i)) PROVE Goal
    <3>1. SameTurn(c, i)
      BY <1>2, <2>2, FindsItself DEF ReadTurn
    <3> QED
      BY <2>2, <3>1 DEF NoTurnRefused
  <2> QED
    BY <1>2, <2>1, <2>2 DEF ReadTurn
<1>3. ASSUME NEW c \in Calls, AppendTurn(c) PROVE Goal
  BY <1>3, AppendRecords DEF NoTurnRefused, IInv
<1>4. ASSUME NEW t \in Tabs, GiveUp(t) \/ OpenSession(t) \/ \E f \in FieldNames : EditRequirement(t, f)
      PROVE  Goal
  BY <1>4 DEF GiveUp, OpenSession, EditRequirement, NoTurnRefused
<1>5. ASSUME NEW t \in Tabs, NEW c \in Calls,
             AskSession(t, c) \/ Receive(t, c) \/ \E text \in Texts : SubmitTurn(t, c, text)
      PROVE  Goal
  BY <1>5 DEF AskSession, Receive, SubmitTurn, NoTurnRefused
<1>6. CASE UNCHANGED vars
  BY <1>6 DEF vars, NoTurnRefused
<1> HIDE DEF Goal
<1>7. ASSUME Next PROVE Goal
  BY <1>1, <1>2, <1>3, <1>4, <1>5, <1>7, Zenon DEF Next
<1>8. Goal
  BY <1>6, <1>7 DEF Goal
<1> QED
  BY <1>8 DEF Goal

(* Each recorded turn has an id of its own among those given. *)
LEMMA OncePerTurn ==
  ASSUME IInv
  PROVE  SentOnce
<1> DEFINE user == {i \in DOMAIN messages : messages[i].role = "USER"}
           idOf == [i \in user |-> messages[i].turn]
<1>0. messages \in Seq(MessageRow) /\ turns \in Nat /\ turns = meant
  BY DEF IInv, TypeInv, OnceInv
<1>1. ASSUME NEW i \in user PROVE messages[i].turn \in 1..turns
  <2>1. messages[i] \in MessageRow
    BY <1>0
  <2>2. PICK k \in Nat, f \in NoneOr(FieldNames), x \in NoneOr(Texts) :
          k = messages[i].turn /\ f = messages[i].field /\ x = messages[i].text
    BY <2>1 DEF MessageRow
  <2>3. Says(k, f, x)
    BY <2>2 DEF Says
  <2> QED
    BY <2>2, <2>3 DEF IInv, TurnsInv
<1>2. \A i, j \in user : messages[i].turn = messages[j].turn => i = j
  BY DEF IInv, OnceInv
<1> HIDE DEF user
<1>3. idOf \in Injection(user, 1..turns)
  <2>1. idOf \in [user -> 1..turns]
    BY <1>1
  <2>2. IsInjective(idOf)
    BY <1>2 DEF IsInjective
  <2> QED
    BY <2>1, <2>2 DEF Injection
<1>4. IsFiniteSet(1..turns) /\ Cardinality(1..turns) = turns
  <2>1. IsFiniteSet(1..turns) /\ Cardinality(1..turns) = IF 1 > turns THEN 0 ELSE turns - 1 + 1
    BY <1>0, FS_Interval
  <2> QED
    BY <1>0, <2>1
<1> HIDE DEF idOf
<1>5. Cardinality(user) <= turns
  BY <1>3, <1>4, FS_Injection
<1> QED
  BY <1>0, <1>5 DEF SentOnce, user

(* The inductive invariant: sessions, the row's lock, turn ids and what    *)
(* they say.                                                               *)
THEOREM ConversationInvariant == Spec => [](IInv /\ HistoryAddsUp)
<1>1. IInv /\ HistoryAddsUp /\ [Next]_vars => IInv' /\ HistoryAddsUp'
  BY StepIInv
<1> QED
  BY <1>1, InitIInv, PTL DEF Spec

(* appendTurn never refuses a turn a page sends: requests that race are    *)
(* ordered by the row's lock, and a turn id stands for one text.           *)
THEOREM NoTurnRefusedHolds == Spec => []NoTurnRefused
<1>1. IInv /\ NoTurnRefused /\ [Next]_vars => NoTurnRefused'
  BY RefusedStep
<1> QED
  BY <1>1, InitIInv, ConversationInvariant, PTL DEF Spec

(* The requirement, each revision and each question of the assistant are   *)
(* what the recorded turns add up to.                                      *)
THEOREM HistoryAddsUpHolds == Spec => []HistoryAddsUp
BY ConversationInvariant, PTL

(* However often a page sends a text again, appendTurn records it once.    *)
THEOREM SentOnceHolds == Spec => []SentOnce
<1>1. IInv => SentOnce
  BY OncePerTurn
<1> QED
  BY <1>1, ConversationInvariant, PTL
=============================================================================
