----------------------------- MODULE DecisionBasis -----------------------------
(***************************************************************************)
(* When the evidence of a decision bundle carries its decision             *)
(* (packages/contracts/src/decision/v1/decision-basis.ts).  Everything     *)
(* here is a predicate or function of a bundle: what it holds are sets of  *)
(* rows, each with an id of its own, so rows may share an id but no row    *)
(* is there twice.  An issue of the code is a conjunct that fails; which   *)
(* of several issues is reported is left out.                              *)
(*                                                                         *)
(* A claim whose value is neither an amount of money nor a quantity in the *)
(* unit of its constraint has kind OTHER.  Times are numbers.  A bundle    *)
(* without a budget counts as one whose budget is not confirmed.           *)
(***************************************************************************)
EXTENDS Integers

CONSTANTS Task,       \* the decision task of the result
          None,       \* an absent optional field
          BudgetKey,  \* "budget.maxAmountMinor"
          PriceKey    \* "price.observed"

ASSUME KeysAssumption == BudgetKey # PriceKey

Ids(rows) == {row.id : row \in rows}

Unique(rows) == \A r, s \in rows : r.id = s.id => r = s

(* One direction per claim and evidence, and no evidence without a claim.  *)
LinksWellFormed(b) ==
  /\ \A l \in b.links :
       l.task = Task /\ l.claim \in Ids(b.claims) /\ l.evidence \in Ids(b.evidence)
  /\ \A l, m \in b.links : l.claim = m.claim /\ l.evidence = m.evidence => l = m
  /\ \A e \in b.evidence : \E l \in b.links : l.evidence = e.id

(* Without these no assessment is derived at all. *)
GraphWellFormed(b) ==
  /\ Unique(b.candidates) /\ Unique(b.claims) /\ Unique(b.evidence) /\ Unique(b.links)
  /\ \A c \in b.candidates : c.task = Task
  /\ \A c \in b.claims : c.task = Task /\ c.subject \in Ids(b.candidates)
  /\ \A e \in b.evidence :
       /\ e.task = Task
       /\ e.validUntil >= e.capturedAt
       /\ e.capturedAt <= b.decision.validFrom
  /\ b.decision.validUntil >= b.decision.validFrom
  /\ LinksWellFormed(b)

-----------------------------------------------------------------------------
(* What the evidence says of a claim. *)

StillValid(b, id) ==
  \E e \in b.evidence : e.id = id /\ e.validUntil >= b.decision.validFrom

Backing(b, claim, direction) ==
  {l.evidence : l \in {m \in b.links : /\ m.claim = claim /\ m.direction = direction
                                       /\ StillValid(b, m.evidence)}}

(* Mutant: one supporting evidence outweighs what refutes the claim. *)
SupportedByAny(b, claim) ==
  IF Backing(b, claim, "SUPPORTS") # {} THEN "SUPPORTED"
  ELSE IF Backing(b, claim, "REFUTES") # {} THEN "REFUTED" ELSE "INSUFFICIENT"

EvidenceState(b, claim) ==
  IF Backing(b, claim, "SUPPORTS") # {}
    THEN IF Backing(b, claim, "REFUTES") # {} THEN "CONFLICTED" ELSE "SUPPORTED"
    ELSE IF Backing(b, claim, "REFUTES") # {} THEN "REFUTED" ELSE "INSUFFICIENT"

DeriveAssessment(b, claim) ==
  [claim |-> claim, state |-> EvidenceState(b, claim),
   supporting |-> Backing(b, claim, "SUPPORTS"), refuting |-> Backing(b, claim, "REFUTES")]

DerivedAssessments(b) == {DeriveAssessment(b, c.id) : c \in b.claims}

-----------------------------------------------------------------------------
(* What is known of a candidate. *)

Facts(b, candidate, predicate) ==
  {c \in b.claims : /\ c.subject = candidate /\ c.predicate = predicate
                    /\ c.claimKind = "FACT_ASSERTION"}

(* Every fact there is about the predicate is supported and readable.      *)
Trusted(b, candidate, predicate, kind) ==
  /\ Facts(b, candidate, predicate) # {}
  /\ \A c \in Facts(b, candidate, predicate) :
       EvidenceState(b, c.id) = "SUPPORTED" /\ c.kind = kind

Support(b, candidate, predicate) ==
  UNION {Backing(b, c.id, "SUPPORTS") : c \in Facts(b, candidate, predicate)}

(* The single value the trusted facts agree on is amount.                  *)
KnownAs(b, candidate, predicate, kind, amount) ==
  /\ Trusted(b, candidate, predicate, kind)
  /\ {c.amount : c \in Facts(b, candidate, predicate)} = {amount}

HardBudget(b) == b.requirement.confirmed /\ b.requirement.hard

PriceKnown(b, candidate) == KnownAs(b, candidate.id, PriceKey, "MONEY", candidate.price)

(* assessCandidateBudgetConstraint, SATISFIED and VIOLATED; otherwise the  *)
(* assessment is INDETERMINATE.                                            *)
WithinBudget(b, candidate) ==
  PriceKnown(b, candidate) /\ candidate.price <= b.requirement.max

OverBudget(b, candidate) ==
  PriceKnown(b, candidate) /\ candidate.price > b.requirement.max

Compare(operator, amount, bound) ==
  \/ operator = "AT_LEAST" /\ amount >= bound
  \/ operator = "AT_MOST" /\ amount <= bound
  \/ operator = "EQUALS" /\ amount = bound

Amounts(b) == {c.amount : c \in b.claims}

(* assessCandidateConstraint, the same. *)
Satisfies(b, candidate, mustHave) ==
  \E amount \in Amounts(b) :
    /\ KnownAs(b, candidate, mustHave.key, "QUANTITY", amount)
    /\ Compare(mustHave.operator, amount, mustHave.amount)

Violates(b, candidate, mustHave) ==
  \E amount \in Amounts(b) :
    /\ KnownAs(b, candidate, mustHave.key, "QUANTITY", amount)
    /\ ~Compare(mustHave.operator, amount, mustHave.amount)

-----------------------------------------------------------------------------
(* The checks of checkDecisionBasisV1. *)

Selected(b) == {c \in b.candidates : c.id = b.decision.selected}

(* Mutant: the budget is not looked at.                                    *)
SelectedMeetsMustHaves(b) ==
  \A c \in Selected(b), m \in b.requirement.mustHaves : Satisfies(b, c.id, m)

SelectedCandidateBasis(b) ==
  \A c \in Selected(b) :
    /\ HardBudget(b) => WithinBudget(b, c)
    /\ \A m \in b.requirement.mustHaves : Satisfies(b, c.id, m)

HardConstraintKeys(b) ==
  {m.key : m \in b.requirement.mustHaves} \cup IF HardBudget(b) THEN {BudgetKey} ELSE {}

Describes(b, evidence, candidate) ==
  \E l \in b.links, c \in b.claims :
    l.evidence = evidence /\ l.claim = c.id /\ c.subject = candidate

(* assessDispositionConstraint says VIOLATED, by evidence the disposition  *)
(* names.  The key of the budget always means the budget.                  *)
ProvesViolation(b, disposition) ==
  \/ /\ disposition.key = BudgetKey /\ HardBudget(b)
     /\ \E c \in b.candidates : c.id = disposition.candidate /\ OverBudget(b, c)
     /\ disposition.evidence \cap Support(b, disposition.candidate, PriceKey) # {}
  \/ /\ disposition.key # BudgetKey
     /\ \E m \in b.requirement.mustHaves :
          m.key = disposition.key /\ Violates(b, disposition.candidate, m)
     /\ disposition.evidence \cap Support(b, disposition.candidate, disposition.key) # {}

DispositionSound(b, disposition) ==
  /\ disposition.candidate # b.decision.selected
  /\ disposition.candidate \in Ids(b.candidates)
  /\ \A e \in disposition.evidence :
       e \in Ids(b.evidence) /\ Describes(b, e, disposition.candidate)
  /\ disposition.key \in HardConstraintKeys(b)
  /\ ProvesViolation(b, disposition)

(* Mutant: a candidate nobody disposed of is left aside. *)
DispositionsSoundOnly(b) ==
  /\ \A d, e \in b.decision.dispositions : d.candidate = e.candidate => d = e
  /\ \A d \in b.decision.dispositions : DispositionSound(b, d)

Eliminations(b) ==
  /\ \A d, e \in b.decision.dispositions : d.candidate = e.candidate => d = e
  /\ \A d \in b.decision.dispositions : DispositionSound(b, d)
  /\ b.decision.status # "NEED_MORE_INFO" =>
       \A c \in b.candidates \ Selected(b) :
         \E d \in b.decision.dispositions : d.candidate = c.id

RiskClaimBasis(b) ==
  \A r \in b.decision.risks :
    /\ r.candidate \in Ids(b.candidates)
    /\ r.candidate = b.decision.selected
    /\ \E c \in b.claims :
         /\ c.id = r.claim
         /\ c.subject = r.candidate
         /\ EvidenceState(b, c.id) = "SUPPORTED"
         /\ Backing(b, c.id, "SUPPORTS") \cap b.decision.evidence # {}

(* Mutant: the evidence of the price need not be shown. *)
EvidenceClosureOfMustHaves(b) ==
  /\ b.decision.evidence # {} /\ b.decision.evidence \subseteq Ids(b.evidence)
  /\ \A c \in Selected(b), m \in b.requirement.mustHaves :
       Satisfies(b, c.id, m) => Support(b, c.id, m.key) \subseteq b.decision.evidence

DecisionEvidenceClosure(b) ==
  /\ b.decision.evidence # {} /\ b.decision.evidence \subseteq Ids(b.evidence)
  /\ \A c \in Selected(b) :
       /\ HardBudget(b) /\ WithinBudget(b, c) =>
            Support(b, c.id, PriceKey) \subseteq b.decision.evidence
       /\ \A m \in b.requirement.mustHaves :
            Satisfies(b, c.id, m) => Support(b, c.id, m.key) \subseteq b.decision.evidence

(* What checkDecisionBasisV1 accepts, given the assessments of the bundle. *)
BasisSound(b, assessments) ==
  /\ GraphWellFormed(b)
  /\ assessments = DerivedAssessments(b)
  /\ Unique(b.decision.dispositions)
  /\ b.decision.selected = None \/ b.decision.selected \in Ids(b.candidates)
  /\ SelectedCandidateBasis(b)
  /\ Eliminations(b)
  /\ RiskClaimBasis(b)
  /\ DecisionEvidenceClosure(b)
=============================================================================
