--------------------------- MODULE ClientViewProofs ---------------------------
(***************************************************************************)
(* What the owner of a task is shown: the result of its decision, for      *)
(* every draft and every log (DecisionResult), and the events of its run,  *)
(* for any number of tasks, transactions and pages (RunEventFeed).         *)
(***************************************************************************)
EXTENDS DecisionResult, RunEventFeed, TLAPS

-----------------------------------------------------------------------------
(* The result: what an accepted decision rests on.                         *)

(* A draft has the fields of a bundle.                                       *)
Shape ==
  bundle = [requirement |-> bundle.requirement, decision |-> bundle.decision,
            candidates |-> bundle.candidates, claims |-> bundle.claims,
            evidence |-> bundle.evidence, links |-> bundle.links]

Added(field, row) ==
  bundle' = [requirement |-> bundle.requirement, decision |-> bundle.decision,
             candidates |-> bundle.candidates \cup IF field = "candidates" THEN {row} ELSE {},
             claims |-> bundle.claims \cup IF field = "claims" THEN {row} ELSE {},
             evidence |-> bundle.evidence \cup IF field = "evidence" THEN {row} ELSE {},
             links |-> bundle.links \cup IF field = "links" THEN {row} ELSE {}]

(* A row drafted goes to its own field.                                      *)
LEMMA DraftAdds ==
  ASSUME Shape, NEW field \in {"candidates", "claims", "evidence", "links"}, NEW row,
         Draft(field, row)
  PROVE  Added(field, row)
<1>1. bundle' = [bundle EXCEPT ![field] = @ \cup {row}]
  BY DEF Draft
<1> QED BY <1>1 DEF Shape, Added

(* An accepted result was checked as it stands.                              *)
Checked ==
  /\ Shape
  /\ bundle.candidates \subseteq Candidates
  /\ Success => /\ GraphWellFormed(bundle)
                /\ BundleSound(bundle, DerivedAssessments(bundle))

(* Nothing changes an accepted result, and only sound bundles are accepted.  *)
LEMMA CheckedHolds == Spec => []Checked
<1>1. Init => Checked
  BY DEF Init, Checked, Success, NoResult, Shape
<1>2. Checked /\ [Next]_vars => Checked'
  <2> SUFFICES ASSUME Checked, [Next]_vars PROVE Checked'
    OBVIOUS
  <2> USE DEF Checked, Success
  <2>1. ASSUME NEW row \in Candidates, AddCandidate(row) PROVE Checked'
    <3>1. result.kind # "SUCCESS" /\ result' = result
      BY <2>1 DEF AddCandidate, Draft, NoResult
    <3>2. Added("candidates", row)
      BY <2>1, DraftAdds DEF AddCandidate
    <3>3. Shape'
      BY <3>2 DEF Added, Shape
    <3>4. bundle'.candidates \subseteq Candidates
      BY <3>2 DEF Added
    <3> QED BY <3>1, <3>3, <3>4
  <2>2. ASSUME NEW row, AddClaim(row) \/ AddEvidence(row) \/ AddLink(row) PROVE Checked'
    <3>1. result.kind # "SUCCESS" /\ result' = result
      BY <2>2 DEF AddClaim, AddEvidence, AddLink, Draft, NoResult
    <3>2. Added("claims", row) \/ Added("evidence", row) \/ Added("links", row)
      BY <2>2, DraftAdds DEF AddClaim, AddEvidence, AddLink
    <3>3. Shape'
      BY <3>2 DEF Added, Shape
    <3>4. bundle'.candidates = bundle.candidates
      BY <3>2 DEF Added
    <3> QED BY <3>1, <3>3, <3>4
  <2>3. ASSUME NEW l \in Logs, FinalizeSuccess(l) PROVE Checked'
    BY <2>3 DEF FinalizeSuccess, FinalizedSound, Shape
  <2>4. ASSUME NEW e, Invalid(e) PROVE Checked'
    BY <2>4 DEF Invalid, NoBundle, Shape
  <2>5. ASSUME NEW l \in Logs, FinalizeInvalid(l) PROVE Checked'
    BY <2>4, <2>5 DEF FinalizeInvalid
  <2>6. ASSUME NEW e \in Errors, NEW l \in Logs, Fail(e, l) PROVE Checked'
    BY <2>4, <2>6 DEF Fail, NoBundle, Shape
  <2>7. ASSUME NEW e \in Errors, Reject(e) PROVE Checked'
    BY <2>4, <2>7 DEF Reject, NoBundle, Shape
  <2>8. CASE UNCHANGED vars
    BY <2>8 DEF vars, Shape
  <2> QED BY <2>1, <2>2, <2>3, <2>5, <2>6, <2>7, <2>8 DEF Next
<1> QED BY <1>1, <1>2, PTL DEF Spec

-----------------------------------------------------------------------------
(* Lemmas about the basis. *)

(* A trusted fact is established, for every bundle whose graph is sound.     *)
LEMMA TrustedEstablished ==
  ASSUME NEW b, GraphWellFormed(b), NEW candidate, NEW predicate, NEW kind,
         Trusted(b, candidate, predicate, kind),
         NEW f \in Facts(b, candidate, predicate)
  PROVE  /\ Established(b, f) /\ f.subject = candidate /\ f.predicate = predicate
         /\ f.kind = kind
         /\ Backing(b, f.id, "SUPPORTS") # {}
<1>1. /\ EvidenceState(b, f.id) = "SUPPORTED" /\ f.kind = kind
      /\ f \in b.claims /\ f.claimKind = "FACT_ASSERTION"
      /\ f.subject = candidate /\ f.predicate = predicate
  BY DEF Trusted, Facts
<1>2. Backing(b, f.id, "SUPPORTS") # {} /\ Backing(b, f.id, "REFUTES") = {}
  BY <1>1 DEF EvidenceState
<1>3. \E e \in b.evidence : Says(b, e, f.id, "SUPPORTS")
  <2>1. PICK l \in b.links : /\ l.claim = f.id /\ l.direction = "SUPPORTS"
                             /\ StillValid(b, l.evidence)
    BY <1>2 DEF Backing
  <2>2. PICK e \in b.evidence : e.id = l.evidence /\ e.validUntil >= b.decision.validFrom
    BY <2>1 DEF StillValid
  <2>3. e.capturedAt <= b.decision.validFrom
    BY DEF GraphWellFormed
  <2> QED BY <2>1, <2>2, <2>3 DEF Says
<1>4. ~\E e \in b.evidence : Says(b, e, f.id, "REFUTES")
  BY <1>2 DEF Says, Backing, StillValid
<1> QED BY <1>1, <1>2, <1>3, <1>4 DEF Established

(* A known value is that of an established fact.                             *)
LEMMA KnownEstablished ==
  ASSUME NEW b, GraphWellFormed(b), NEW candidate, NEW predicate, NEW kind, NEW amount,
         KnownAs(b, candidate, predicate, kind, amount)
  PROVE  /\ \E f \in b.claims : /\ Established(b, f) /\ f.subject = candidate
                                /\ f.predicate = predicate /\ f.kind = kind
                                /\ f.amount = amount
         /\ Trusted(b, candidate, predicate, kind)
<1>1. Trusted(b, candidate, predicate, kind)
  BY DEF KnownAs
<1>2. PICK f \in Facts(b, candidate, predicate) : f.amount = amount
  BY DEF KnownAs
<1>3. f \in b.claims
  BY <1>2 DEF Facts
<1> QED BY <1>1, <1>2, <1>3, TrustedEstablished

(* What a valid evidence says is in the backing of the claim.                *)
LEMMA SaysBacks ==
  ASSUME NEW b, NEW e, NEW claim, NEW direction, Says(b, e, claim, direction)
  PROVE  e.id \in Backing(b, claim, direction)
BY DEF Says, Backing, StillValid

(* A bundle that names a candidate in a condition or a risk has it selected. *)
LEMMA SelectedOne ==
  ASSUME NEW b, GraphWellFormed(b), b.decision.selected \in Ids(b.candidates)
  PROVE  \E c \in b.candidates : Selected(b) = {c}
<1>1. PICK c \in b.candidates : c.id = b.decision.selected
  BY DEF Ids
<1>2. Selected(b) = {c}
  BY <1>1 DEF Selected, GraphWellFormed, Unique
<1> QED BY <1>2
-----------------------------------------------------------------------------
(* The theorems. *)

(* PurchaseWithinBudget, whatever the Runtime drafts: a recommended purchase *)
(* is of one candidate whose established price is within a hard budget.      *)
THEOREM PurchaseWithinBudgetHolds == Spec => []PurchaseWithinBudget
<1>1. Checked => PurchaseWithinBudget
  <2> SUFFICES ASSUME Checked, Success, bundle.decision.status = "BUY_IF_PRICE"
               PROVE  \E c \in bundle.candidates :
                        /\ Selected(bundle) = {c}
                        /\ HardBudget(bundle) =>
                             /\ c.price <= bundle.requirement.max
                             /\ \E f \in bundle.claims :
                                  /\ Established(bundle, f) /\ f.subject = c.id
                                  /\ f.predicate = PriceKey /\ f.kind = "MONEY"
                                  /\ f.amount = c.price
                             /\ \A n \in bundle.decision.conditions :
                                  n.type = "MAX_PRICE" => n.amount <= bundle.requirement.max
    BY DEF PurchaseWithinBudget
  <2>1. GraphWellFormed(bundle) /\ Conditions(bundle) /\ ConditionalPurchase(bundle.decision)
        /\ SelectedCandidateBasis(bundle)
    BY DEF Checked, BundleSound, DecisionSound, BasisSound
  <2>2. bundle.decision.selected \in Ids(bundle.candidates)
    BY <2>1 DEF ConditionalPurchase, Conditions
  <2>3. PICK c \in bundle.candidates : Selected(bundle) = {c}
    BY <2>1, <2>2, SelectedOne
  <2>4. ASSUME HardBudget(bundle)
        PROVE  /\ c.price <= bundle.requirement.max
               /\ KnownAs(bundle, c.id, PriceKey, "MONEY", c.price)
    BY <2>1, <2>3, <2>4 DEF SelectedCandidateBasis, WithinBudget, PriceKnown
  <2>5. ASSUME HardBudget(bundle)
        PROVE  \E f \in bundle.claims :
                 /\ Established(bundle, f) /\ f.subject = c.id
                 /\ f.predicate = PriceKey /\ f.kind = "MONEY" /\ f.amount = c.price
    BY <2>1, <2>4, <2>5, KnownEstablished
  <2>6. ASSUME HardBudget(bundle)
        PROVE  \A n \in bundle.decision.conditions :
                 n.type = "MAX_PRICE" => n.amount <= bundle.requirement.max
    BY <2>1, <2>6 DEF Conditions
  <2> QED BY <2>3, <2>4, <2>5, <2>6
<1> QED BY <1>1, CheckedHolds, PTL

(* OthersRuledOut: every candidate that is not selected breaks a hard        *)
(* constraint by an established fact, and the decision names its evidence.   *)
THEOREM OthersRuledOutHolds == Spec => []OthersRuledOut
<1>1. Checked => OthersRuledOut
  <2> SUFFICES ASSUME Checked, Success, bundle.decision.status = "BUY_IF_PRICE",
                      NEW c \in bundle.candidates \ Selected(bundle)
               PROVE  /\ \E f \in bundle.claims : BreaksConstraint(bundle, c, f)
                      /\ \E d \in bundle.decision.dispositions :
                           d.candidate = c.id /\ \E e \in bundle.evidence : e.id \in d.evidence
    BY DEF OthersRuledOut
  <2>1. GraphWellFormed(bundle) /\ Eliminations(bundle)
    BY DEF Checked, BundleSound, BasisSound
  <2>2. PICK d \in bundle.decision.dispositions : d.candidate = c.id
    BY <2>1 DEF Eliminations
  <2>3. DispositionSound(bundle, d)
    BY <2>1, <2>2 DEF Eliminations
  <2>4. \E e \in bundle.evidence : e.id \in d.evidence
    <3>1. d.evidence \subseteq Ids(bundle.evidence) /\ ProvesViolation(bundle, d)
      BY <2>3 DEF DispositionSound
    <3>2. d.evidence # {}
      BY <3>1 DEF ProvesViolation
    <3> QED BY <3>1, <3>2 DEF Ids
  <2>5. \E f \in bundle.claims : BreaksConstraint(bundle, c, f)
    <3>1. ProvesViolation(bundle, d)
      BY <2>3 DEF DispositionSound
    <3>2. CASE HardBudget(bundle) /\ \E x \in bundle.candidates :
                 x.id = d.candidate /\ OverBudget(bundle, x)
      <4>1. OverBudget(bundle, c)
        BY <2>1, <2>2, <3>2 DEF GraphWellFormed, Unique
      <4>2. KnownAs(bundle, c.id, PriceKey, "MONEY", c.price) /\ c.price > bundle.requirement.max
        BY <4>1 DEF OverBudget, PriceKnown
      <4>3. PICK f \in bundle.claims : /\ Established(bundle, f) /\ f.subject = c.id
                                       /\ f.predicate = PriceKey /\ f.amount = c.price
        BY <2>1, <4>2, KnownEstablished
      <4> QED BY <3>2, <4>2, <4>3 DEF BreaksConstraint
    <3>3. CASE \E m \in bundle.requirement.mustHaves :
                 m.key = d.key /\ Violates(bundle, d.candidate, m)
      <4>1. PICK m \in bundle.requirement.mustHaves : Violates(bundle, c.id, m)
        BY <2>2, <3>3
      <4>2. PICK amount : /\ KnownAs(bundle, c.id, m.key, "QUANTITY", amount)
                          /\ ~Compare(m.operator, amount, m.amount)
        BY <4>1 DEF Violates
      <4>3. PICK f \in bundle.claims : /\ Established(bundle, f) /\ f.subject = c.id
                                       /\ f.predicate = m.key /\ f.amount = amount
        BY <2>1, <4>2, KnownEstablished
      <4> QED BY <4>2, <4>3 DEF BreaksConstraint
    <3> QED BY <3>1, <3>2, <3>3 DEF ProvesViolation
  <2> QED BY <2>2, <2>4, <2>5
<1> QED BY <1>1, CheckedHolds, PTL

(* OpenPromisesNothing: no draft makes a decision that still asks select,    *)
(* eliminate or condition anything.                                          *)
THEOREM OpenPromisesNothingHolds == Spec => []OpenPromisesNothing
<1>1. Checked => OpenPromisesNothing
  <2> SUFFICES ASSUME Checked, Success,
                      BudgetUnclear(bundle) \/ bundle.decision.status = "NEED_MORE_INFO"
               PROVE  /\ Selected(bundle) = {} /\ bundle.decision.dispositions = {}
                      /\ bundle.decision.conditions = {} /\ bundle.decision.risks = {}
                      /\ bundle.decision.gaps # {}
                      /\ \A g \in bundle.decision.gaps : AsksFor(bundle.decision, g.key)
    BY DEF OpenPromisesNothing
  <2>1. /\ BudgetConfirmation(bundle) /\ InformationNeeded(bundle.decision)
        /\ Conditions(bundle) /\ RiskClaimBasis(bundle)
        /\ bundle.candidates \subseteq Candidates
    BY DEF Checked, BundleSound, DecisionSound, BasisSound
  <2>2. bundle.decision.status = "NEED_MORE_INFO"
    BY <2>1 DEF BudgetConfirmation
  <2>3. /\ bundle.decision.selected = None /\ bundle.decision.dispositions = {}
        /\ bundle.decision.gaps # {}
        /\ \A g \in bundle.decision.gaps : AsksFor(bundle.decision, g.key)
    BY <2>1, <2>2 DEF InformationNeeded
  <2>4. None \notin Ids(bundle.candidates)
    BY <2>1, CandidatesAssumption DEF Ids
  <2>5. Selected(bundle) = {}
    BY <2>3, <2>4 DEF Selected, Ids
  <2>6. bundle.decision.conditions = {}
    BY <2>1, <2>3, <2>4 DEF Conditions
  <2>7. bundle.decision.risks = {}
    BY <2>1, <2>3, <2>4 DEF RiskClaimBasis
  <2> QED BY <2>3, <2>5, <2>6, <2>7
<1> QED BY <1>1, CheckedHolds, PTL

(* BasisIsShown: the decision names all the valid support of the facts a     *)
(* purchase rests on.                                                        *)
THEOREM BasisIsShownHolds == Spec => []BasisIsShown
<1>1. Checked => BasisIsShown
  <2> SUFFICES ASSUME Checked, Success,
                      NEW c \in Selected(bundle), NEW f \in bundle.claims,
                      Established(bundle, f), f.subject = c.id,
                      \/ HardBudget(bundle) /\ f.predicate = PriceKey
                      \/ \E m \in bundle.requirement.mustHaves : f.predicate = m.key,
                      NEW e \in bundle.evidence, Says(bundle, e, f.id, "SUPPORTS")
               PROVE  e.id \in bundle.decision.evidence
    BY DEF BasisIsShown
  <2>1. SelectedCandidateBasis(bundle) /\ DecisionEvidenceClosure(bundle)
    BY DEF Checked, BundleSound, BasisSound
  <2>2. f \in Facts(bundle, c.id, f.predicate)
    BY DEF Established, Facts
  <2>3. e.id \in Support(bundle, c.id, f.predicate)
    BY <2>2, SaysBacks DEF Support
  <2>4. CASE HardBudget(bundle) /\ f.predicate = PriceKey
    BY <2>1, <2>3, <2>4 DEF SelectedCandidateBasis, DecisionEvidenceClosure
  <2>5. CASE \E m \in bundle.requirement.mustHaves : f.predicate = m.key
    <3>1. PICK m \in bundle.requirement.mustHaves : f.predicate = m.key
      BY <2>5
    <3>2. Support(bundle, c.id, m.key) \subseteq bundle.decision.evidence
      BY <2>1 DEF SelectedCandidateBasis, DecisionEvidenceClosure
    <3> QED BY <2>3, <3>1, <3>2
  <2> QED BY <2>4, <2>5
<1> QED BY <1>1, CheckedHolds, PTL

(* A claim a valid evidence refutes is not trusted, so no value is known.    *)
LEMMA RefutedUnknown ==
  ASSUME NEW b, NEW l \in b.links, l.direction = "REFUTES", StillValid(b, l.evidence),
         NEW f \in b.claims, f.id = l.claim, f.claimKind = "FACT_ASSERTION",
         NEW kind, NEW amount
  PROVE  ~KnownAs(b, f.subject, f.predicate, kind, amount)
<1>1. l.evidence \in Backing(b, f.id, "REFUTES")
  BY DEF Backing
<1>2. EvidenceState(b, f.id) # "SUPPORTED"
  BY <1>1 DEF EvidenceState
<1>3. f \in Facts(b, f.subject, f.predicate)
  BY DEF Facts
<1> QED BY <1>2, <1>3 DEF KnownAs, Trusted

(* RefutationWithdraws: a link that refutes what a purchase rests on leaves  *)
(* no draft that could still be accepted.                                    *)
THEOREM RefutationWithdrawsHolds == Spec => RefutationWithdraws
<1> DEFINE A == \A l \in bundle'.links \ bundle.links :
       /\ l.direction = "REFUTES" /\ StillValid(bundle, l.evidence)
       /\ \E c \in Selected(bundle), f \in bundle.claims :
            /\ f.id = l.claim /\ f.subject = c.id /\ f.claimKind = "FACT_ASSERTION"
            /\ \/ HardBudget(bundle) /\ f.predicate = PriceKey
               \/ \E m \in bundle.requirement.mustHaves : f.predicate = m.key
       => ~Acceptable(bundle')
<1>1. Shape /\ Next => A
  <2> SUFFICES ASSUME Shape, Next, NEW l \in bundle'.links \ bundle.links,
                      l.direction = "REFUTES", StillValid(bundle, l.evidence),
                      NEW c \in Selected(bundle), NEW f \in bundle.claims,
                      f.id = l.claim, f.subject = c.id, f.claimKind = "FACT_ASSERTION",
                      \/ HardBudget(bundle) /\ f.predicate = PriceKey
                      \/ \E m \in bundle.requirement.mustHaves : f.predicate = m.key
               PROVE  ~Acceptable(bundle')
    OBVIOUS
  <2>1. \E row : AddLink(row)
    <3>1. \A row : AddCandidate(row) \/ AddClaim(row) \/ AddEvidence(row)
                     => bundle'.links = bundle.links
      BY DraftAdds DEF AddCandidate, AddClaim, AddEvidence, Added
    <3>2. \A e : Invalid(e) => bundle'.links = {}
      BY DEF Invalid, NoBundle
    <3>3. \A k : FinalizeSuccess(k) => bundle'.links = bundle.links
      BY DEF FinalizeSuccess
    <3>4. \A k : FinalizeInvalid(k) => bundle'.links = {}
      BY <3>2 DEF FinalizeInvalid
    <3>5. \A e, k : Fail(e, k) => bundle'.links = {}
      BY <3>2 DEF Fail, NoBundle
    <3>6. \A e : Reject(e) => bundle'.links = {}
      BY <3>2 DEF Reject, NoBundle
    <3> QED BY <3>1, <3>3, <3>4, <3>5, <3>6 DEF Next
  <2>2. /\ bundle'.decision = bundle.decision /\ bundle'.requirement = bundle.requirement
        /\ bundle'.candidates = bundle.candidates /\ bundle'.claims = bundle.claims
        /\ bundle'.evidence = bundle.evidence
    BY <2>1, DraftAdds DEF AddLink, Added
  <2>3. StillValid(bundle', l.evidence)
    BY <2>2 DEF StillValid
  <2>4. f \in bundle'.claims /\ l \in bundle'.links
    BY <2>2
  <2>5. \A kind, amount : ~KnownAs(bundle', c.id, f.predicate, kind, amount)
    BY <2>3, <2>4, RefutedUnknown
  <2>6. c \in Selected(bundle')
    BY <2>2 DEF Selected
  <2>7. ~SelectedCandidateBasis(bundle')
    <3>1. CASE HardBudget(bundle) /\ f.predicate = PriceKey
      BY <2>2, <2>5, <2>6, <3>1 DEF HardBudget, SelectedCandidateBasis, WithinBudget, PriceKnown
    <3>2. CASE \E m \in bundle.requirement.mustHaves : f.predicate = m.key
      BY <2>2, <2>5, <2>6, <3>2 DEF SelectedCandidateBasis, Satisfies
    <3> QED BY <3>1, <3>2
  <2> QED BY <2>7 DEF Acceptable, BundleSound, BasisSound
<1>2. UNCHANGED vars => A
  BY DEF vars
<1>3. Checked /\ [Next]_vars => [A]_vars
  BY <1>1, <1>2 DEF Checked
<1> QED BY <1>3, CheckedHolds, PTL DEF Spec, RefutationWithdraws

-----------------------------------------------------------------------------
(* The events: no page misses one.                                         *)

Row == [cursor : Nat, operation : Operations]

(* The shapes of the variables. *)
FeedTypeOK ==
  /\ nextCursor \in Nat \ {0}
  /\ rows \subseteq Row
  /\ tx \in [Writers -> [operation : Operations \cup {Nothing}, rows : SUBSET Row]]
  /\ stream \in [Pages -> [pc : {"off", "reading", "listed", "waiting"},
                           cursor : Nat, out : SUBSET Row]]
  /\ page \in [Pages -> [events : SUBSET Row, last : Nat]]

(* Every row that was inserted, committed or not. *)
Inserted == rows \cup UNION {tx[w].rows : w \in Writers}

(* One transaction per operation, and what it inserted comes after all the   *)
(* rows of its operation: this is what the lock of the operation is for.     *)
RowsInOrder ==
  /\ \A v, w \in Writers : v # w /\ tx[v].operation = tx[w].operation
                             => tx[v].operation = Nothing
  /\ \A e \in Inserted : 0 < e.cursor /\ e.cursor < nextCursor
  /\ \A e, f \in Inserted : e.cursor = f.cursor => e = f
  /\ \A w \in Writers : \A e \in tx[w].rows :
       /\ e.operation = tx[w].operation
       /\ \A f \in rows : f.operation = e.operation => f.cursor < e.cursor

(* A cursor that was shown is that of a row of the task.                     *)
Seen(cursor, t) == cursor = 0 \/ \E f \in rows : f.cursor = cursor /\ TaskOf[f.operation] = t

NoneAhead ==
  \A p \in Pages :
    /\ Seen(stream[p].cursor, ShownTask[p]) /\ Seen(page[p].last, ShownTask[p])
    /\ \A e \in stream[p].out :
         e \in rows /\ TaskOf[e.operation] = ShownTask[p] /\ e.cursor <= stream[p].cursor

(* Nothing is on its way over a connection that is lost.                     *)
NothingInLostStream == \A p \in Pages : stream[p].pc = "off" => stream[p].out = {}

FeedInv == FeedTypeOK /\ RowsInOrder /\ NoneAhead /\ NothingInLostStream /\ NothingSkipped

(* A transaction begins where no other one of the operation is open.         *)
LEMMA BeginKeeps ==
  ASSUME FeedInv, NEW w \in Writers, NEW o \in Operations, Begin(w, o)
  PROVE  FeedInv'
<1>1. /\ tx' = [tx EXCEPT ![w].operation = o]
      /\ tx[w] = Idle /\ \A v \in Writers : tx[v].operation # o
      /\ UNCHANGED <<nextCursor, rows, stream, page, overtaken>>
  BY DEF Begin, LocksOperation
<1>2. FeedTypeOK'
  BY <1>1 DEF FeedInv, FeedTypeOK
<1>3. /\ tx'[w].operation = o
      /\ \A v \in Writers : /\ tx'[v].rows = tx[v].rows
                            /\ v # w => tx'[v].operation = tx[v].operation
  BY <1>1 DEF FeedInv, FeedTypeOK
<1>4. tx[w].rows = {}
  BY <1>1 DEF Idle
<1>5. Inserted' = Inserted
  BY <1>1, <1>3 DEF Inserted
<1>6. RowsInOrder'
  BY <1>1, <1>3, <1>4, <1>5 DEF FeedInv, RowsInOrder
<1>7. NoneAhead'
  BY <1>1 DEF FeedInv, NoneAhead, Seen
<1>8. NothingSkipped'
  BY <1>1 DEF FeedInv, NothingSkipped, HasUpToCursor
<1> QED BY <1>1, <1>2, <1>6, <1>7, <1>8 DEF FeedInv, NothingInLostStream

(* The cursor taken is beyond all there are.                                 *)
LEMMA InsertKeeps ==
  ASSUME FeedInv, NEW w \in Writers, InsertRunEvent(w)
  PROVE  FeedInv'
<1> DEFINE new == [cursor |-> nextCursor, operation |-> tx[w].operation]
<1>1. /\ tx' = [tx EXCEPT ![w].rows = @ \cup {new}]
      /\ nextCursor' = nextCursor + 1
      /\ tx[w] # Idle
      /\ UNCHANGED <<rows, stream, page, overtaken>>
  BY DEF InsertRunEvent
<1>2. /\ tx[w].operation \in Operations \cup {Nothing} /\ tx[w].rows \subseteq Row
      /\ nextCursor \in Nat
  BY DEF FeedInv, FeedTypeOK
<1>3. tx[w].operation \in Operations
  <2> SUFFICES ASSUME tx[w].operation = Nothing PROVE FALSE
    BY <1>2
  <2>1. tx[w].rows = {}
    BY FeedAssumption DEF FeedInv, FeedTypeOK, RowsInOrder, Row
  <2> QED BY <1>1, <2>1 DEF Idle, FeedInv, FeedTypeOK
<1>4. new \in Row
  BY <1>2, <1>3 DEF Row
<1>5. /\ tx'[w] = [operation |-> tx[w].operation, rows |-> tx[w].rows \cup {new}]
      /\ \A v \in Writers : v # w => tx'[v] = tx[v]
  BY <1>1 DEF FeedInv, FeedTypeOK
<1>6. FeedTypeOK'
  <2>1. tx' \in [Writers -> [operation : Operations \cup {Nothing}, rows : SUBSET Row]]
    BY <1>1, <1>4 DEF FeedInv, FeedTypeOK
  <2> QED BY <1>1, <1>2, <2>1 DEF FeedInv, FeedTypeOK
<1>7. \A v \in Writers : \A e \in tx'[v].rows : e \in tx[v].rows \/ (v = w /\ e = new)
  BY <1>5
<1>8. \A v \in Writers : tx'[v].operation = tx[v].operation
  BY <1>5
<1>9. \A e \in Inserted' : e \in Inserted \/ e = new
  BY <1>1, <1>7 DEF Inserted
<1>10. RowsInOrder'
  <2>1. \A u, v \in Writers : u # v /\ tx'[u].operation = tx'[v].operation
                               => tx'[u].operation = Nothing
    BY <1>8 DEF FeedInv, RowsInOrder
  <2>2. \A e \in Inserted : e.cursor \in Nat /\ 0 < e.cursor /\ e.cursor < nextCursor
    BY DEF FeedInv, FeedTypeOK, RowsInOrder, Row, Inserted
  <2>3. 0 < nextCursor
    BY DEF FeedInv, FeedTypeOK
  <2>4. \A e \in Inserted' : 0 < e.cursor /\ e.cursor < nextCursor'
    BY <1>1, <1>2, <1>9, <2>2, <2>3
  <2>5. \A e, f \in Inserted' : e.cursor = f.cursor => e = f
    <3> SUFFICES ASSUME NEW e \in Inserted', NEW f \in Inserted', e.cursor = f.cursor
                 PROVE  e = f
      OBVIOUS
    <3>1. CASE e \in Inserted /\ f \in Inserted
      BY <3>1 DEF FeedInv, RowsInOrder
    <3>2. CASE e = new /\ f = new
      BY <3>2
    <3>3. CASE e \in Inserted /\ f = new
      BY <1>2, <2>2, <3>3
    <3>4. CASE e = new /\ f \in Inserted
      BY <1>2, <2>2, <3>4
    <3> QED BY <1>9, <3>1, <3>2, <3>3, <3>4
  <2>6. ASSUME NEW v \in Writers, NEW e \in tx'[v].rows
        PROVE  /\ e.operation = tx'[v].operation
               /\ \A f \in rows : f.operation = e.operation => f.cursor < e.cursor
    <3>1. CASE e \in tx[v].rows
      BY <1>8, <3>1 DEF FeedInv, RowsInOrder
    <3>2. CASE v = w /\ e = new
      <4>1. \A f \in rows : f.cursor < nextCursor
        BY <2>2 DEF Inserted
      <4> QED BY <1>8, <3>2, <4>1
    <3> QED BY <1>7, <3>1, <3>2
  <2> QED BY <1>1, <2>1, <2>4, <2>5, <2>6 DEF RowsInOrder
<1>11. NoneAhead'
  BY <1>1 DEF FeedInv, NoneAhead, Seen
<1>12. NothingSkipped'
  BY <1>1 DEF FeedInv, NothingSkipped, HasUpToCursor
<1> QED BY <1>1, <1>6, <1>10, <1>11, <1>12 DEF FeedInv, NothingInLostStream

(* What becomes visible lies behind every cursor that was shown, but for     *)
(* that of another operation of the task.                                    *)
LEMMA CommitKeeps ==
  ASSUME FeedInv, NEW w \in Writers, Commit(w)
  PROVE  FeedInv'
<1>1. /\ rows' = rows \cup tx[w].rows
      /\ tx' = [tx EXCEPT ![w] = Idle]
      /\ overtaken' = overtaken \cup {e \in tx[w].rows : OvertakenAtCommit(e)}
      /\ UNCHANGED <<nextCursor, stream, page>>
  BY DEF Commit
<1>2. FeedTypeOK'
  BY <1>1 DEF FeedInv, FeedTypeOK, Idle
<1>3. /\ tx'[w] = Idle /\ tx'[w].rows = {} /\ tx'[w].operation = Nothing
      /\ \A v \in Writers : v # w => tx'[v] = tx[v]
  BY <1>1 DEF FeedInv, FeedTypeOK, Idle
<1>4. \A v \in Writers : \A e \in tx'[v].rows : v # w /\ e \in tx[v].rows
  BY <1>3
<1>5. Inserted' \subseteq Inserted
  BY <1>1, <1>4 DEF Inserted
<1>6. RowsInOrder'
  <2>1. \A u, v \in Writers : u # v /\ tx'[u].operation = tx'[v].operation
                               => tx'[u].operation = Nothing
    BY <1>3 DEF FeedInv, RowsInOrder
  <2>2. /\ \A e \in Inserted' : 0 < e.cursor /\ e.cursor < nextCursor
        /\ \A e, f \in Inserted' : e.cursor = f.cursor => e = f
    BY <1>5 DEF FeedInv, RowsInOrder
  <2>3. ASSUME NEW v \in Writers, NEW e \in tx'[v].rows, NEW f \in rows',
               f.operation = e.operation
        PROVE  f.cursor < e.cursor
    <3>1. v # w /\ e \in tx[v].rows /\ e.operation = tx[v].operation
      BY <1>4 DEF FeedInv, RowsInOrder
    <3>2. f \notin tx[w].rows
      <4> SUFFICES ASSUME f \in tx[w].rows PROVE FALSE
        OBVIOUS
      <4>1. f.operation = tx[w].operation /\ f \in Row
        BY DEF FeedInv, FeedTypeOK, RowsInOrder
      <4>2. tx[v].operation = Nothing
        BY <2>3, <3>1, <4>1 DEF FeedInv, RowsInOrder
      <4> QED BY <2>3, <3>1, <4>1, <4>2, FeedAssumption DEF Row
    <3> QED BY <1>1, <2>3, <3>1, <3>2 DEF FeedInv, RowsInOrder
  <2>4. \A v \in Writers : \A e \in tx'[v].rows : e.operation = tx'[v].operation
    BY <1>3, <1>4 DEF FeedInv, RowsInOrder
  <2> QED BY <1>1, <2>1, <2>2, <2>3, <2>4 DEF RowsInOrder
<1>7. NoneAhead'
  BY <1>1 DEF FeedInv, NoneAhead, Seen
<1>8. ASSUME NEW e \in tx[w].rows, e \notin overtaken',
             NEW c \in Nat, NEW t, Seen(c, t), TaskOf[e.operation] = t
      PROVE  c < e.cursor
  <2>1. e \in Inserted /\ e.cursor \in Nat /\ 0 < e.cursor
    BY DEF FeedInv, FeedTypeOK, RowsInOrder, Row, Inserted
  <2>2. CASE c = 0
    BY <2>1, <2>2
  <2>3. ASSUME NEW f \in rows, f.cursor = c, TaskOf[f.operation] = t
        PROVE  c < e.cursor
    <3>1. CASE f.operation = e.operation
      BY <2>3, <3>1 DEF FeedInv, RowsInOrder
    <3>2. CASE f.operation # e.operation
      <4>1. ~(f.cursor > e.cursor)
        BY <1>1, <1>8, <2>3, <3>2 DEF OvertakenAtCommit
      <4>2. f \in Inserted
        BY DEF Inserted
      <4>3. f.cursor # e.cursor
        BY <2>1, <3>2, <4>2 DEF FeedInv, RowsInOrder
      <4> QED BY <2>1, <2>3, <4>1, <4>3
    <3> QED BY <3>1, <3>2
  <2> QED BY <1>8, <2>2, <2>3 DEF Seen
<1>9. NothingSkipped'
  <2> SUFFICES ASSUME NEW p \in Pages, NEW e \in rows' \ overtaken',
                      TaskOf[e.operation] = ShownTask[p]
               PROVE  /\ e.cursor <= page[p].last => e \in page[p].events
                      /\ stream[p].pc # "off" /\ e.cursor <= stream[p].cursor =>
                           e \in page[p].events \cup stream[p].out
    BY <1>1 DEF NothingSkipped, HasUpToCursor
  <2>1. CASE e \in rows
    BY <1>1, <2>1 DEF FeedInv, NothingSkipped, HasUpToCursor
  <2>2. CASE e \in tx[w].rows
    <3>1. e.cursor \in Nat /\ page[p].last \in Nat /\ stream[p].cursor \in Nat
      BY <2>2 DEF FeedInv, FeedTypeOK, Row
    <3>2. page[p].last < e.cursor /\ stream[p].cursor < e.cursor
      BY <1>8, <2>2, <3>1 DEF FeedInv, NoneAhead
    <3> QED BY <3>1, <3>2
  <2> QED BY <1>1, <2>1, <2>2
<1> QED BY <1>1, <1>2, <1>6, <1>7, <1>9 DEF FeedInv, NothingInLostStream

(* A transaction that rolls back leaves a gap.                               *)
LEMMA RollBackKeeps ==
  ASSUME FeedInv, NEW w \in Writers, RollBack(w)
  PROVE  FeedInv'
<1>1. /\ tx' = [tx EXCEPT ![w] = Idle]
      /\ UNCHANGED <<nextCursor, rows, stream, page, overtaken>>
  BY DEF RollBack
<1>2. FeedTypeOK'
  BY <1>1 DEF FeedInv, FeedTypeOK, Idle
<1>3. /\ tx'[w].rows = {} /\ tx'[w].operation = Nothing
      /\ \A v \in Writers : v # w => tx'[v] = tx[v]
  BY <1>1 DEF FeedInv, FeedTypeOK, Idle
<1>4. Inserted' \subseteq Inserted
  BY <1>1, <1>3 DEF Inserted
<1>5. RowsInOrder'
  BY <1>1, <1>3, <1>4 DEF FeedInv, RowsInOrder
<1>6. NoneAhead'
  BY <1>1 DEF FeedInv, NoneAhead, Seen
<1>7. NothingSkipped'
  BY <1>1 DEF FeedInv, NothingSkipped, HasUpToCursor
<1> QED BY <1>1, <1>2, <1>5, <1>6, <1>7 DEF FeedInv, NothingInLostStream

(* A step of the stream or the page leaves the tables alone.                 *)
LEMMA ReaderKeeps ==
  ASSUME FeedInv, UNCHANGED <<nextCursor, rows, tx, overtaken>>,
         FeedTypeOK', NoneAhead', NothingInLostStream', NothingSkipped'
  PROVE  FeedInv'
<1>1. Inserted' = Inserted
  BY DEF Inserted
<1>2. RowsInOrder'
  BY <1>1 DEF FeedInv, RowsInOrder
<1> QED BY <1>2 DEF FeedInv

(* A message moves a stream that waits to its next listing, nothing more.    *)
LEMMA AnnounceKeeps ==
  ASSUME FeedInv, Announce
  PROVE  FeedInv'
<1>1. /\ UNCHANGED <<nextCursor, rows, tx, page, overtaken>>
      /\ stream' = stream \/ stream' = Woken(TaskOf[publisher.operation])
  BY DEF Announce
<1>2. FeedTypeOK'
  <2>1. ASSUME NEW t
        PROVE  Woken(t) \in [Pages -> [pc : {"off", "reading", "listed", "waiting"},
                                       cursor : Nat, out : SUBSET Row]]
    BY DEF FeedInv, FeedTypeOK, Woken
  <2> QED BY <1>1, <2>1 DEF FeedInv, FeedTypeOK
<1>3. \A p \in Pages : /\ stream'[p].cursor = stream[p].cursor /\ stream'[p].out = stream[p].out
                       /\ stream'[p].pc = "off" <=> stream[p].pc = "off"
  BY <1>1 DEF Woken, FeedInv, FeedTypeOK
<1>4. NoneAhead'
  BY <1>1, <1>3 DEF FeedInv, NoneAhead, Seen
<1>5. NothingSkipped'
  BY <1>1, <1>3 DEF FeedInv, NothingSkipped, HasUpToCursor
<1>6. NothingInLostStream'
  BY <1>1, <1>3 DEF FeedInv, NothingInLostStream
<1> QED BY <1>1, <1>2, <1>4, <1>5, <1>6, ReaderKeeps

(* A new stream starts where the page left off.                              *)
LEMMA ConnectKeeps ==
  ASSUME FeedInv, NEW q \in Pages, Connect(q)
  PROVE  FeedInv'
<1>1. /\ stream' = [stream EXCEPT ![q] = [pc |-> "reading", cursor |-> page[q].last, out |-> {}]]
      /\ UNCHANGED <<nextCursor, rows, tx, page, overtaken>>
  BY DEF Connect
<1>2. FeedTypeOK'
  BY <1>1 DEF FeedInv, FeedTypeOK
<1>3. /\ stream'[q] = [pc |-> "reading", cursor |-> page[q].last, out |-> {}]
      /\ \A p \in Pages : p # q => stream'[p] = stream[p]
  BY <1>1 DEF FeedInv, FeedTypeOK
<1>4. NoneAhead'
  BY <1>1, <1>3 DEF FeedInv, NoneAhead, Seen
<1>5. NothingSkipped'
  BY <1>1, <1>3 DEF FeedInv, NothingSkipped, HasUpToCursor
<1>6. NothingInLostStream'
  BY <1>1, <1>3 DEF FeedInv, NothingInLostStream
<1> QED BY <1>1, <1>2, <1>4, <1>5, <1>6, ReaderKeeps

(* A listing takes all there is behind its cursor.                           *)
LEMMA ListKeeps ==
  ASSUME FeedInv, NEW q \in Pages, ListEvents(q)
  PROVE  FeedInv'
<1> DEFINE found == After(ShownTask[q], stream[q].cursor)
<1>0. UNCHANGED <<nextCursor, rows, tx, page, overtaken>>
  BY DEF ListEvents
<1>1. CASE found = {} /\ stream' = [stream EXCEPT ![q].pc = "listed"]
  <2>1. FeedTypeOK'
    BY <1>0, <1>1 DEF FeedInv, FeedTypeOK
  <2>2. \A p \in Pages : /\ stream'[p].cursor = stream[p].cursor
                         /\ stream'[p].out = stream[p].out
                         /\ p # q => stream'[p].pc = stream[p].pc
    BY <1>1 DEF FeedInv, FeedTypeOK
  <2>3. stream[q].pc # "off" /\ stream'[q].pc # "off"
    BY <1>1 DEF ListEvents, FeedInv, FeedTypeOK
  <2>4. NoneAhead'
    BY <1>0, <2>2 DEF FeedInv, NoneAhead, Seen
  <2>5. NothingSkipped'
    BY <1>0, <2>2, <2>3 DEF FeedInv, NothingSkipped, HasUpToCursor
  <2>6. NothingInLostStream'
    BY <2>2, <2>3 DEF FeedInv, NothingInLostStream
  <2> QED BY <1>0, <2>1, <2>4, <2>5, <2>6, ReaderKeeps
<1>2. ASSUME NEW e \in found, Final(e, found),
             stream' = [stream EXCEPT ![q] = [pc |-> "listed", cursor |-> e.cursor,
                                             out |-> @.out \cup found]]
      PROVE  FeedInv'
  <2>1. /\ e \in rows /\ e \in Row /\ TaskOf[e.operation] = ShownTask[q] /\ e.cursor > stream[q].cursor
        /\ e.cursor \in Nat /\ stream[q].cursor \in Nat /\ found \subseteq Row
    BY DEF After, FeedInv, FeedTypeOK, Row
  <2>2. /\ stream'[q] = [pc |-> "listed", cursor |-> e.cursor, out |-> stream[q].out \cup found]
        /\ \A p \in Pages : p # q => stream'[p] = stream[p]
    BY <1>2 DEF FeedInv, FeedTypeOK
  <2>3. FeedTypeOK'
    <3>1. stream[q].out \cup found \in SUBSET Row
      BY <2>1 DEF FeedInv, FeedTypeOK
    <3>2. stream' \in [Pages -> [pc : {"off", "reading", "listed", "waiting"},
                                 cursor : Nat, out : SUBSET Row]]
      BY <1>2, <2>1, <3>1 DEF FeedInv, FeedTypeOK
    <3> QED BY <1>0, <3>2 DEF FeedInv, FeedTypeOK
  <2>4. Seen(e.cursor, ShownTask[q])
    BY <2>1 DEF Seen
  <2>5. \A f \in stream[q].out \cup found :
          f \in rows /\ TaskOf[f.operation] = ShownTask[q] /\ f.cursor <= e.cursor
    <3>1. \A f \in stream[q].out : f.cursor \in Nat /\ f.cursor <= stream[q].cursor
      BY DEF FeedInv, FeedTypeOK, NoneAhead, Row
    <3>2. \A f \in stream[q].out : f \in rows /\ TaskOf[f.operation] = ShownTask[q] /\ f.cursor <= e.cursor
      BY <2>1, <3>1 DEF FeedInv, NoneAhead
    <3>3. \A f \in found : f \in rows /\ TaskOf[f.operation] = ShownTask[q] /\ f.cursor <= e.cursor
      BY <1>2 DEF After, Final
    <3> QED BY <3>2, <3>3
  <2>6. NoneAhead'
    <3>1. ASSUME NEW p \in Pages
          PROVE  /\ Seen(stream'[p].cursor, ShownTask[p]) /\ Seen(page[p].last, ShownTask[p])
                 /\ \A f \in stream'[p].out :
                      f \in rows /\ TaskOf[f.operation] = ShownTask[p] /\ f.cursor <= stream'[p].cursor
      <4>1. CASE p = q
        BY <2>2, <2>4, <2>5, <4>1 DEF FeedInv, NoneAhead
      <4>2. CASE p # q
        BY <2>2, <4>2 DEF FeedInv, NoneAhead
      <4> QED BY <4>1, <4>2
    <3> QED BY <1>0, <3>1 DEF NoneAhead, Seen
  <2>7. NothingSkipped'
    <3> SUFFICES ASSUME NEW p \in Pages, NEW f \in rows \ overtaken,
                      TaskOf[f.operation] = ShownTask[p]
                 PROVE  /\ f.cursor <= page[p].last => f \in page[p].events
                        /\ stream'[p].pc # "off" /\ f.cursor <= stream'[p].cursor =>
                             f \in page[p].events \cup stream'[p].out
      BY <1>0 DEF NothingSkipped, HasUpToCursor
    <3>1. CASE p # q
      BY <2>2, <3>1 DEF FeedInv, NothingSkipped, HasUpToCursor
    <3>2. CASE p = q
      <4>1. f.cursor \in Nat
        BY DEF FeedInv, FeedTypeOK, Row
      <4>2. stream[q].pc # "off"
        BY DEF ListEvents
      <4>3. CASE f.cursor <= stream[q].cursor
        BY <2>2, <3>2, <4>2, <4>3 DEF FeedInv, NothingSkipped, HasUpToCursor
      <4>4. CASE f.cursor > stream[q].cursor
        <5>1. f \in found
          BY <3>2, <4>4 DEF After
        <5> QED BY <2>2, <3>2, <5>1 DEF FeedInv, NothingSkipped, HasUpToCursor
      <4> QED BY <2>1, <4>1, <4>3, <4>4
    <3> QED BY <3>1, <3>2
  <2>8. NothingInLostStream'
    BY <2>2 DEF FeedInv, NothingInLostStream
  <2> QED BY <1>0, <2>3, <2>6, <2>7, <2>8, ReaderKeeps
<1> QED BY <1>1, <1>2 DEF ListEvents

(* Waiting and waking change neither cursor nor events.                      *)
LEMMA WaitKeeps ==
  ASSUME FeedInv, NEW q \in Pages, Wait(q) \/ Poll(q)
  PROVE  FeedInv'
<1>1. /\ UNCHANGED <<nextCursor, rows, tx, page, overtaken>>
      /\ stream[q].pc # "off"
      /\ \E pc \in {"waiting", "reading"} : stream' = [stream EXCEPT ![q].pc = pc]
  BY DEF Wait, Poll
<1>2. FeedTypeOK'
  BY <1>1 DEF FeedInv, FeedTypeOK
<1>3. \A p \in Pages : /\ stream'[p].cursor = stream[p].cursor /\ stream'[p].out = stream[p].out
                       /\ p # q => stream'[p].pc = stream[p].pc
  BY <1>1 DEF FeedInv, FeedTypeOK
<1>4. NoneAhead'
  BY <1>1, <1>3 DEF FeedInv, NoneAhead, Seen
<1>5. NothingSkipped'
  BY <1>1, <1>3 DEF FeedInv, NothingSkipped, HasUpToCursor
<1>6. NothingInLostStream'
  BY <1>1, <1>3 DEF FeedInv, NothingInLostStream
<1> QED BY <1>1, <1>2, <1>4, <1>5, <1>6, ReaderKeeps

(* Events arrive in the order of their cursors, so the last one seen has all *)
(* before it.                                                                *)
LEMMA ReceiveKeeps ==
  ASSUME FeedInv, NEW q \in Pages, Receive(q)
  PROVE  FeedInv'
<1>1. PICK event \in stream[q].out :
        /\ First(event, stream[q].out)
        /\ page' = [page EXCEPT ![q] =
             [events |-> @.events \cup {event},
              last |-> IF event.cursor > @.last THEN event.cursor ELSE @.last]]
        /\ stream' = [stream EXCEPT ![q].out = @ \ {event}]
  BY DEF Receive
<1>2. UNCHANGED <<nextCursor, rows, tx, overtaken>>
  BY DEF Receive
<1>3. /\ event \in rows /\ event \in Row /\ TaskOf[event.operation] = ShownTask[q]
      /\ event.cursor \in Nat /\ event.cursor <= stream[q].cursor
      /\ page[q].last \in Nat /\ stream[q].cursor \in Nat
  BY <1>1 DEF FeedInv, FeedTypeOK, NoneAhead, Row
<1>4. /\ page'[q].events = page[q].events \cup {event}
      /\ page'[q].last = IF event.cursor > page[q].last THEN event.cursor ELSE page[q].last
      /\ stream'[q].out = stream[q].out \ {event}
      /\ stream'[q].cursor = stream[q].cursor /\ stream'[q].pc = stream[q].pc
      /\ \A p \in Pages : p # q => page'[p] = page[p] /\ stream'[p] = stream[p]
  BY <1>1 DEF FeedInv, FeedTypeOK
<1>5. FeedTypeOK'
  <2>1. page[q].events \cup {event} \in SUBSET Row
    BY <1>3 DEF FeedInv, FeedTypeOK
  <2>2. page' \in [Pages -> [events : SUBSET Row, last : Nat]]
    BY <1>1, <1>3, <2>1 DEF FeedInv, FeedTypeOK
  <2>3. stream[q].out \ {event} \in SUBSET Row
    BY DEF FeedInv, FeedTypeOK
  <2>4. stream' \in [Pages -> [pc : {"off", "reading", "listed", "waiting"},
                               cursor : Nat, out : SUBSET Row]]
    BY <1>1, <2>3 DEF FeedInv, FeedTypeOK
  <2> QED BY <1>2, <2>2, <2>4 DEF FeedInv, FeedTypeOK
<1>6. stream[q].pc # "off"
  BY <1>1 DEF FeedInv, NothingInLostStream
<1>7. NoneAhead'
  <2>1. Seen(page'[q].last, ShownTask[q])
    <3>1. Seen(event.cursor, ShownTask[q])
      BY <1>3 DEF Seen
    <3>2. Seen(page[q].last, ShownTask[q])
      BY DEF FeedInv, NoneAhead
    <3> QED BY <1>4, <3>1, <3>2
  <2>2. ASSUME NEW p \in Pages
        PROVE  /\ Seen(stream'[p].cursor, ShownTask[p]) /\ Seen(page'[p].last, ShownTask[p])
               /\ \A f \in stream'[p].out :
                    f \in rows /\ TaskOf[f.operation] = ShownTask[p] /\ f.cursor <= stream'[p].cursor
    <3>1. CASE p = q
      BY <1>4, <2>1, <3>1 DEF FeedInv, NoneAhead
    <3>2. CASE p # q
      BY <1>4, <3>2 DEF FeedInv, NoneAhead
    <3> QED BY <3>1, <3>2
  <2> QED BY <1>2, <2>2 DEF NoneAhead, Seen
<1>8. NothingSkipped'
  <2> SUFFICES ASSUME NEW p \in Pages, NEW f \in rows \ overtaken,
                      TaskOf[f.operation] = ShownTask[p]
               PROVE  /\ f.cursor <= page'[p].last => f \in page'[p].events
                      /\ stream'[p].pc # "off" /\ f.cursor <= stream'[p].cursor =>
                           f \in page'[p].events \cup stream'[p].out
    BY <1>2 DEF NothingSkipped, HasUpToCursor
  <2>1. CASE p # q
    BY <1>4, <2>1 DEF FeedInv, NothingSkipped, HasUpToCursor
  <2>2. CASE p = q
    <3>1. f.cursor \in Nat /\ f \in Row
      BY DEF FeedInv, FeedTypeOK, Row
    <3>2. stream[q].pc # "off" /\ f.cursor <= stream[q].cursor =>
            f \in page[q].events \cup stream[q].out
      BY <2>2 DEF FeedInv, NothingSkipped, HasUpToCursor
    <3>3. f.cursor <= page[q].last => f \in page[q].events
      BY <2>2 DEF FeedInv, NothingSkipped, HasUpToCursor
    <3>4. ASSUME f.cursor <= event.cursor
          PROVE  f \in page[q].events \cup {event}
      <4>1. f \in page[q].events \cup stream[q].out
        BY <1>3, <3>1, <3>2, <3>4, <1>6
      <4>2. ASSUME f \in stream[q].out PROVE f = event
        <5>1. event.cursor <= f.cursor
          BY <1>1, <4>2 DEF First
        <5>2. f.cursor = event.cursor
          BY <1>3, <3>1, <3>4, <5>1
        <5> QED BY <1>3, <5>2 DEF FeedInv, RowsInOrder, Inserted
      <4> QED BY <4>1, <4>2
    <3> QED BY <1>3, <1>4, <2>2, <3>1, <3>2, <3>3, <3>4
  <2> QED BY <2>1, <2>2
<1>9. NothingInLostStream'
  BY <1>4, <1>6 DEF FeedInv, NothingInLostStream
<1> QED BY <1>2, <1>5, <1>7, <1>8, <1>9, ReaderKeeps

(* A lost connection takes what was on its way with it, and its cursor too.  *)
LEMMA DisconnectKeeps ==
  ASSUME FeedInv, NEW q \in Pages, Disconnect(q)
  PROVE  FeedInv'
<1>1. /\ stream' = [stream EXCEPT ![q] = Off]
      /\ UNCHANGED <<nextCursor, rows, tx, page, overtaken>>
  BY DEF Disconnect
<1>2. FeedTypeOK'
  BY <1>1 DEF FeedInv, FeedTypeOK, Off
<1>3. /\ stream'[q] = [pc |-> "off", cursor |-> 0, out |-> {}]
      /\ \A p \in Pages : p # q => stream'[p] = stream[p]
  BY <1>1 DEF FeedInv, FeedTypeOK, Off
<1>4. NoneAhead'
  <2>1. Seen(0, ShownTask[q])
    BY DEF Seen
  <2> QED BY <1>1, <1>3, <2>1 DEF FeedInv, NoneAhead, Seen
<1>5. NothingSkipped'
  BY <1>1, <1>3 DEF FeedInv, NothingSkipped, HasUpToCursor
<1>6. NothingInLostStream'
  BY <1>3 DEF FeedInv, NothingInLostStream
<1> QED BY <1>1, <1>2, <1>4, <1>5, <1>6, ReaderKeeps

LEMMA FeedStarts ==
  ASSUME InitFeed
  PROVE  FeedInv
<1>1. FeedTypeOK
  BY DEF InitFeed, FeedTypeOK, Idle, Off
<1>2. /\ \A w \in Writers : tx[w] = [operation |-> Nothing, rows |-> {}]
      /\ \A p \in Pages : /\ stream[p] = [pc |-> "off", cursor |-> 0, out |-> {}]
                          /\ page[p] = [events |-> {}, last |-> 0]
  BY DEF InitFeed, Idle, Off
<1>3. RowsInOrder
  BY <1>2 DEF InitFeed, RowsInOrder, Inserted
<1>4. NoneAhead /\ NothingInLostStream
  BY <1>2 DEF InitFeed, NoneAhead, NothingInLostStream, Seen
<1>5. NothingSkipped
  BY DEF InitFeed, NothingSkipped, HasUpToCursor
<1> QED BY <1>1, <1>3, <1>4, <1>5 DEF FeedInv

LEMMA FeedStep ==
  ASSUME FeedInv, [FeedNext]_feedVars
  PROVE  FeedInv'
<1>1. ASSUME UNCHANGED <<nextCursor, rows, tx, stream, page, overtaken>>
      PROVE  FeedInv'
  BY <1>1 DEF FeedInv, FeedTypeOK, RowsInOrder, Inserted, NoneAhead, Seen,
               NothingInLostStream, NothingSkipped, HasUpToCursor
<1>2. ASSUME NEW w \in Writers,
             \/ \E o \in Operations : Begin(w, o)
             \/ InsertRunEvent(w) \/ Commit(w) \/ RollBack(w)
      PROVE  FeedInv'
  BY <1>2, BeginKeeps, InsertKeeps, CommitKeeps, RollBackKeeps
<1>3. ASSUME NEW p \in Pages,
             \/ Connect(p) \/ ListEvents(p) \/ Wait(p) \/ Poll(p) \/ Receive(p)
             \/ Disconnect(p)
      PROVE  FeedInv'
  BY <1>3, ConnectKeeps, ListKeeps, WaitKeeps, ReceiveKeeps, DisconnectKeeps
<1>4. CASE PickNotification
  BY <1>1, <1>4 DEF PickNotification
<1>5. CASE UNCHANGED feedVars
  BY <1>1, <1>5 DEF feedVars
<1> QED BY <1>2, <1>3, <1>4, <1>5, AnnounceKeeps DEF FeedNext

(* The page has every event of its task up to the last cursor it has seen    *)
(* (listEvents, event.cursor > afterCursor), but for those another operation *)
(* of the task overtook: the lock on the operation row, which the            *)
(* transactions that insert events hold, keeps the events of an operation in *)
(* order for any number of transactions, operations and pages, whatever      *)
(* connections and notifications are lost.                                   *)
THEOREM NothingSkippedHolds == FeedSpec => []NothingSkipped
<1>1. FeedInv => NothingSkipped
  BY DEF FeedInv
<1> QED BY <1>1, FeedStarts, FeedStep, PTL DEF FeedSpec

(* A task of a single operation, which is all the web page ever submits:     *)
(* nothing is overtaken, so no page misses an event at all.                  *)
THEOREM NothingEverSkippedAlone ==
  ASSUME \A o, n \in Operations : TaskOf[o] = TaskOf[n] => o = n
  PROVE  FeedSpec => []NothingEverSkipped
<1> DEFINE Orderly == FeedInv /\ overtaken = {}
<1>1. InitFeed => Orderly
  BY FeedStarts DEF InitFeed
<1>2. Orderly /\ [FeedNext]_feedVars => Orderly'
  <2> SUFFICES ASSUME Orderly, [FeedNext]_feedVars PROVE overtaken' = {}
    BY FeedStep
  <2>1. ASSUME NEW w \in Writers, Commit(w) PROVE overtaken' = {}
    <3>1. rows \subseteq Row /\ tx[w].rows \subseteq Row
      BY DEF FeedInv, FeedTypeOK
    <3>2. \A e \in tx[w].rows : ~OvertakenAtCommit(e)
      BY <3>1 DEF OvertakenAtCommit, Row
    <3> QED BY <2>1, <3>2 DEF Commit
  <2>2. ASSUME NEW w \in Writers,
               (\E o \in Operations : Begin(w, o)) \/ InsertRunEvent(w) \/ RollBack(w)
        PROVE  overtaken' = {}
    BY <2>2 DEF Begin, InsertRunEvent, RollBack
  <2>3. ASSUME NEW p \in Pages,
               \/ Connect(p) \/ ListEvents(p) \/ Wait(p) \/ Poll(p) \/ Receive(p)
               \/ Disconnect(p)
        PROVE  overtaken' = {}
    BY <2>3 DEF Connect, ListEvents, Wait, Poll, Receive, Disconnect
  <2>4. CASE PickNotification \/ Announce \/ UNCHANGED feedVars
    BY <2>4 DEF PickNotification, Announce, feedVars
  <2> QED BY <2>1, <2>2, <2>3, <2>4 DEF FeedNext
<1>3. Orderly => NothingEverSkipped
  BY DEF FeedInv, NothingSkipped, NothingEverSkipped, HasUpToCursor
<1> QED BY <1>1, <1>2, <1>3, PTL DEF FeedSpec
=============================================================================
