---------------------------- MODULE DecisionResult ----------------------------
(***************************************************************************)
(* The result of a decision task: the Runtime drafts a bundle row by row,  *)
(* finalizeSuccessfulDecisionTaskResultV1 derives its assessments and      *)
(* accepts or refuses it, and decodeDecisionTaskResultV1 accepts a failed  *)
(* or rejected result (packages/contracts/src/decision/v1/index.ts and     *)
(* invariants.ts).                                                         *)
(*                                                                         *)
(* What the Runtime may draft is given by sets of rows: they may be wrong  *)
(* in any way the schema lets through.  The decision is drafted before its *)
(* rows, the event log comes with the end of the run.                      *)
(***************************************************************************)
EXTENDS DecisionBasis, Sequences

CONSTANTS Requirements, Decisions, Candidates, Claims, Evidence, Links, Logs,
          Errors  \* errors a failed or rejected result may carry

ASSUME CandidatesAssumption == \A c \in Candidates : c.id # None

Stages == <<"CREATED", "UNDERSTANDING", "PLANNING", "RESEARCHING", "VERIFYING",
            "GAP_RESEARCH", "COMPARING", "CRITIQUING", "GENERATING", "COMPLETED">>

VARIABLES bundle,  \* the draft
          log,     \* its run events and the sequence number of its task status
          result   \* what was made of it

vars == <<bundle, log, result>>

NoResult == [kind |-> "NONE", assessments |-> {}, error |-> None]
NoBundle == [requirement |-> None, decision |-> None, candidates |-> {}, claims |-> {},
             evidence |-> {}, links |-> {}]
NoLog == [events |-> <<>>, latest |-> 0]

Init ==
  /\ \E r \in Requirements, d \in Decisions :
       bundle = [requirement |-> r, decision |-> d, candidates |-> {}, claims |-> {},
                 evidence |-> {}, links |-> {}]
  /\ log = NoLog
  /\ result = NoResult

-----------------------------------------------------------------------------
(* The Runtime at work. *)

Draft(field, row) ==
  /\ result = NoResult
  /\ row \notin bundle[field]
  /\ bundle' = [bundle EXCEPT ![field] = @ \cup {row}]
  /\ UNCHANGED <<log, result>>

AddCandidate(row) == Draft("candidates", row)
AddClaim(row) == Draft("claims", row)
AddEvidence(row) == Draft("evidence", row)
AddLink(row) == Draft("links", row)

-----------------------------------------------------------------------------
(* The event log of a result. *)

Last(events) == events[Len(events)]

LogWellFormed(l) ==
  /\ l.events # <<>>
  /\ \A i, j \in DOMAIN l.events : l.events[i].id = l.events[j].id => i = j
  /\ \A i \in DOMAIN l.events : l.events[i].sequence = i /\ l.events[i].task = Task
  /\ l.latest = Last(l.events).sequence

(* Every state is a later stage than the one before. *)
InOrder(events) ==
  \A i \in DOMAIN events : \E s \in DOMAIN Stages :
    /\ events[i].state = Stages[s]
    /\ i > 1 => \E t \in 1..(s - 1) : events[i - 1].state = Stages[t]

SuccessLog(l) ==
  /\ LogWellFormed(l)
  /\ Last(l.events).state = "COMPLETED" /\ Last(l.events).type = "RUNTIME_SUCCEEDED"
  /\ l.events[1].state = "CREATED"
  /\ InOrder(l.events)
  /\ \A i \in 1..(Len(l.events) - 1) : l.events[i].type = "TASK_STATE_CHANGED"

FailureLog(l) ==
  /\ LogWellFormed(l)
  /\ Last(l.events).state = "FAILED" /\ Last(l.events).type = "RUNTIME_FAILED"

-----------------------------------------------------------------------------
(* The decision, whatever the evidence says. *)

BudgetUnclear(b) == ~b.requirement.confirmed \/ BudgetKey \in b.requirement.unknowns

AsksFor(d, key) ==
  \E s \in d.nextSteps : s.action = "PROVIDE_REQUIREMENT" /\ s.target = key

Verifies(d, action, id) == \E s \in d.nextSteps : s.action = action /\ s.target = id

BudgetConfirmation(b) ==
  BudgetUnclear(b) =>
    /\ b.decision.status = "NEED_MORE_INFO"
    /\ b.decision.selected = None
    /\ \E g \in b.decision.gaps : g.key = BudgetKey
    /\ AsksFor(b.decision, BudgetKey)

(* Mutant: a decision that asks may also have disposed of candidates. *)
InformationNeededKeeping(d) ==
  d.status = "NEED_MORE_INFO" =>
    /\ d.gaps # {} /\ d.selected = None
    /\ \A g \in d.gaps : /\ g.resolution = "PROVIDE_REQUIREMENT"
                         /\ g.target = g.key /\ AsksFor(d, g.key)

InformationNeeded(d) ==
  d.status = "NEED_MORE_INFO" =>
    /\ d.gaps # {} /\ d.selected = None /\ d.dispositions = {}
    /\ \A g \in d.gaps : /\ g.resolution = "PROVIDE_REQUIREMENT"
                         /\ g.target = g.key /\ AsksFor(d, g.key)

Conditions(b) ==
  \A c \in b.decision.conditions :
    /\ c.candidate \in Ids(b.candidates) /\ c.candidate = b.decision.selected
    /\ c.type = "MAX_PRICE" /\ HardBudget(b) => c.amount <= b.requirement.max
    /\ Verifies(b.decision, "VERIFY_CONDITION", c.id)

ConditionalPurchase(d) ==
  d.status = "BUY_IF_PRICE" =>
    /\ d.conditions # {}
    /\ \A g \in d.gaps : /\ g.resolution = "VERIFY_CONDITION"
                         /\ g.target \in Ids(d.conditions)

StepsHaveTargets(d) ==
  /\ \A s \in d.nextSteps :
       /\ s.action = "VERIFY_CONDITION" => s.target \in Ids(d.conditions)
       /\ s.action = "VERIFY_RISK" => s.target \in Ids(d.risks)
  /\ \A r \in d.risks : Verifies(d, "VERIFY_RISK", r.id)

(* Of the seven states of a decision two are open so far. *)
DecisionSound(b) ==
  /\ b.decision.status \in {"BUY_IF_PRICE", "NEED_MORE_INFO"}
  /\ b.decision.task = Task /\ b.requirement.task = Task
  /\ b.decision.requirement = b.requirement.id
  /\ BudgetConfirmation(b)
  /\ InformationNeeded(b.decision)
  /\ Conditions(b)
  /\ ConditionalPurchase(b.decision)
  /\ StepsHaveTargets(b.decision)

(* checkDecisionTaskResultInvariants of a success, but for its log. *)
BundleSound(b, assessments) == DecisionSound(b) /\ BasisSound(b, assessments)

-----------------------------------------------------------------------------
(* Results. *)

FinalizedSound(l) ==
  /\ GraphWellFormed(bundle)
  /\ SuccessLog(l)
  /\ BundleSound(bundle, DerivedAssessments(bundle))

FinalizeSuccess(l) ==
  /\ result = NoResult
  /\ FinalizedSound(l)
  /\ result' = [kind |-> "SUCCESS", assessments |-> DerivedAssessments(bundle), error |-> None]
  /\ log' = l
  /\ UNCHANGED bundle

(* What is not accepted is not a result: nothing of it is kept. *)
Invalid(e) ==
  /\ result' = [kind |-> "INVALID", assessments |-> {}, error |-> e]
  /\ bundle' = NoBundle
  /\ UNCHANGED log

FinalizeInvalid(l) ==
  /\ result = NoResult
  /\ ~FinalizedSound(l)
  /\ Invalid(None)

CategoryOf ==
  [CONTRACT_INVALID |-> "VALIDATION", CONTRACT_VERSION_UNSUPPORTED |-> "VERSION",
   AGENT_RUNTIME_FAILED |-> "RUNTIME", DECISION_EXECUTION_STATUS_UNKNOWN |-> "TRANSPORT",
   DECISION_TASK_NOT_FOUND |-> "RESOURCE", IDEMPOTENCY_CONFLICT |-> "VALIDATION",
   PERSISTENCE_UNAVAILABLE |-> "STORAGE"]

RetryModeOf(code) ==
  CASE code = "AGENT_RUNTIME_FAILED" -> "NEW_EXECUTION_ALLOWED"
    [] code \in {"DECISION_EXECUTION_STATUS_UNKNOWN", "PERSISTENCE_UNAVAILABLE"} ->
         "SAME_EXECUTION_ONLY"
    [] OTHER -> "NONE"

ErrorSound(e) == e.category = CategoryOf[e.code] /\ e.retryMode = RetryModeOf(e.code)

(* A result of a task that exists has its log, one without has nothing.    *)
FailedSound(e, l) == ErrorSound(e) /\ FailureLog(l) /\ e.code = "AGENT_RUNTIME_FAILED"

RejectedSound(e) == ErrorSound(e) /\ e.code # "AGENT_RUNTIME_FAILED"

Fail(e, l) ==
  /\ result = NoResult
  /\ \/ /\ FailedSound(e, l)
        /\ result' = [kind |-> "FAILED", assessments |-> {}, error |-> e]
        /\ bundle' = NoBundle /\ log' = l
     \/ ~FailedSound(e, l) /\ Invalid(e)

Reject(e) ==
  /\ result = NoResult
  /\ \/ /\ RejectedSound(e)
        /\ result' = [kind |-> "REJECTED", assessments |-> {}, error |-> e]
        /\ bundle' = NoBundle /\ UNCHANGED log
     \/ ~RejectedSound(e) /\ Invalid(e)

Next ==
  \/ \E row \in Candidates : AddCandidate(row)
  \/ \E row \in Claims : AddClaim(row)
  \/ \E row \in Evidence : AddEvidence(row)
  \/ \E row \in Links : AddLink(row)
  \/ \E l \in Logs : FinalizeSuccess(l) \/ FinalizeInvalid(l)
  \/ \E e \in Errors : Reject(e) \/ \E l \in Logs : Fail(e, l)

Spec == Init /\ [][Next]_vars

-----------------------------------------------------------------------------
(* Properties. *)

Success == result.kind = "SUCCESS"

(* An evidence still valid when the decision takes effect, linked to the   *)
(* claim in this direction.                                                *)
Says(b, e, claim, direction) ==
  /\ e \in b.evidence /\ e.validUntil >= b.decision.validFrom
  /\ e.capturedAt <= b.decision.validFrom
  /\ \E l \in b.links : l.evidence = e.id /\ l.claim = claim /\ l.direction = direction

(* A fact about the candidate that some valid evidence supports and none   *)
(* refutes.                                                                *)
Established(b, c) ==
  /\ c \in b.claims /\ c.claimKind = "FACT_ASSERTION"
  /\ \E e \in b.evidence : Says(b, e, c.id, "SUPPORTS")
  /\ ~\E e \in b.evidence : Says(b, e, c.id, "REFUTES")

(* A purchase is recommended of one candidate of the bundle, and when the  *)
(* budget is hard its price is an established fact within that budget and  *)
(* so is the ceiling the user is told to wait for: conditions, selection,  *)
(* facts and budget are checked in different places.                       *)
PurchaseWithinBudget ==
  Success /\ bundle.decision.status = "BUY_IF_PRICE" =>
    \E c \in bundle.candidates :
      /\ Selected(bundle) = {c}
      /\ HardBudget(bundle) =>
           /\ c.price <= bundle.requirement.max
           /\ \E f \in bundle.claims :
                /\ Established(bundle, f) /\ f.subject = c.id
                /\ f.predicate = PriceKey /\ f.kind = "MONEY" /\ f.amount = c.price
           /\ \A n \in bundle.decision.conditions :
                n.type = "MAX_PRICE" => n.amount <= bundle.requirement.max

(* The selected candidate is the only one that can be bought: an           *)
(* established fact of every other breaks a hard constraint, and shows it  *)
(* with evidence the decision names.                                       *)
BreaksConstraint(b, c, f) ==
  /\ Established(b, f) /\ f.subject = c.id
  /\ \/ HardBudget(b) /\ f.predicate = PriceKey /\ f.amount > b.requirement.max
     \/ \E m \in b.requirement.mustHaves :
          f.predicate = m.key /\ ~Compare(m.operator, f.amount, m.amount)

OthersRuledOut ==
  Success /\ bundle.decision.status = "BUY_IF_PRICE" =>
    \A c \in bundle.candidates \ Selected(bundle) :
      /\ \E f \in bundle.claims : BreaksConstraint(bundle, c, f)
      /\ \E d \in bundle.decision.dispositions :
           d.candidate = c.id /\ \E e \in bundle.evidence : e.id \in d.evidence

(* While the budget is open, or information is missing, a result promises  *)
(* nothing: no candidate is selected or eliminated, no condition or risk   *)
(* is named, and every gap is a question the user is asked.                *)
OpenPromisesNothing ==
  Success /\ (BudgetUnclear(bundle) \/ bundle.decision.status = "NEED_MORE_INFO") =>
    /\ Selected(bundle) = {} /\ bundle.decision.dispositions = {}
    /\ bundle.decision.conditions = {} /\ bundle.decision.risks = {}
    /\ bundle.decision.gaps # {}
    /\ \A g \in bundle.decision.gaps : AsksFor(bundle.decision, g.key)

(* Whatever a purchase rests on is shown: an established fact about the    *)
(* price under a hard budget, or about a must-have, of the selected        *)
(* candidate has all its valid support among the evidence of the decision. *)
BasisIsShown ==
  Success => \A c \in Selected(bundle), f \in bundle.claims :
    /\ Established(bundle, f) /\ f.subject = c.id
    /\ \/ HardBudget(bundle) /\ f.predicate = PriceKey
       \/ \E m \in bundle.requirement.mustHaves : f.predicate = m.key
    => \A e \in bundle.evidence :
         Says(bundle, e, f.id, "SUPPORTS") => e.id \in bundle.decision.evidence

Acceptable(b) == BundleSound(b, DerivedAssessments(b))

(* New evidence against a fact a purchase rests on withdraws it: no draft  *)
(* stays acceptable when a valid evidence it holds turns out to refute a   *)
(* price under a hard budget or a must-have of the selected candidate.     *)
RefutationWithdraws ==
  [][\A l \in bundle'.links \ bundle.links :
       /\ l.direction = "REFUTES" /\ StillValid(bundle, l.evidence)
       /\ \E c \in Selected(bundle), f \in bundle.claims :
            /\ f.id = l.claim /\ f.subject = c.id /\ f.claimKind = "FACT_ASSERTION"
            /\ \/ HardBudget(bundle) /\ f.predicate = PriceKey
               \/ \E m \in bundle.requirement.mustHaves : f.predicate = m.key
       => ~Acceptable(bundle')]_vars

=============================================================================
