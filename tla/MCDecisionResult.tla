--------------------------- MODULE MCDecisionResult ---------------------------
(* What a Runtime may draft, for TLC: two candidates, one within the budget  *)
(* of 10 and one above, facts that are right, wrong or contradict each       *)
(* other, evidence that is valid at the time of the decision (3) or expired, *)
(* links in both directions, and decisions with one fault each.              *)
EXTENDS DecisionResult

CONSTANTS t1, t2, c1, c2, f1, f2, f3, f4, e1, e2, e3, n1, r1

Requirement(confirmed, hard, mustHaves) ==
  [id |-> "R", task |-> t1, confirmed |-> confirmed, hard |-> hard, max |-> 10,
   unknowns |-> {}, mustHaves |-> mustHaves]

RequirementsValue ==
  {Requirement(TRUE, TRUE, {}),
   Requirement(TRUE, FALSE, {[key |-> "ram", operator |-> "AT_LEAST", amount |-> 16]}),
   Requirement(FALSE, TRUE, {})}

CandidatesValue ==
  {[id |-> c1, task |-> t1, price |-> 10], [id |-> c2, task |-> t1, price |-> 20]}

Claim(id, subject, predicate, kind, amount) ==
  [id |-> id, task |-> t1, subject |-> subject, predicate |-> predicate, kind |-> kind,
   amount |-> amount, claimKind |-> "FACT_ASSERTION"]

ClaimsValue ==
  {Claim(f1, c1, PriceKey, "MONEY", 10), Claim(f2, c2, PriceKey, "MONEY", 20),
   Claim(f3, c1, "ram", "QUANTITY", 16), Claim(f4, c2, "ram", "QUANTITY", 8)}

Item(id, until) == [id |-> id, task |-> t1, capturedAt |-> 1, validUntil |-> until]

EvidenceValue == {Item(e1, 5), Item(e2, 2), Item(e3, 5)}

Link(claim, evidence, direction) ==
  [id |-> <<claim, evidence, direction>>, task |-> t1, claim |-> claim,
   evidence |-> evidence, direction |-> direction]

LinksValue ==
  {Link(f1, e1, "SUPPORTS"), Link(f1, e2, "REFUTES"), Link(f1, e3, "REFUTES"),
   Link(f2, e3, "SUPPORTS"), Link(f3, e1, "SUPPORTS"),
   Link(f4, e3, "SUPPORTS")}

Step(action, target) == [action |-> action, target |-> target]

Buy(dispositions, amount, shown) ==
  [task |-> t1, requirement |-> "R", status |-> "BUY_IF_PRICE", selected |-> c1,
   conditions |-> {[id |-> n1, type |-> "MAX_PRICE", candidate |-> c1, amount |-> amount]},
   dispositions |-> dispositions, risks |-> {}, evidence |-> shown, gaps |-> {},
   nextSteps |-> {Step("VERIFY_CONDITION", n1)}, validFrom |-> 3, validUntil |-> 9]

Eliminate(key) == [id |-> "D", candidate |-> c2, key |-> key, evidence |-> {e3}]

Risky(decision) ==
  [decision EXCEPT !.risks = {[id |-> r1, candidate |-> c1, claim |-> f3]},
                   !.nextSteps = @ \cup {Step("VERIFY_RISK", r1)}]

Ask(dispositions) ==
  [Buy(dispositions, 10, {e1}) EXCEPT
     !.status = "NEED_MORE_INFO", !.selected = None, !.conditions = {},
     !.gaps = {[key |-> BudgetKey, resolution |-> "PROVIDE_REQUIREMENT", target |-> BudgetKey]},
     !.nextSteps = {Step("PROVIDE_REQUIREMENT", BudgetKey)}]

DecisionsValue ==
  {Buy({Eliminate(BudgetKey)}, 10, {e1}), Buy({Eliminate(BudgetKey)}, 15, {e1}),
   Buy({Eliminate(BudgetKey)}, 10, {e3}), Buy({}, 10, {e1}),
   Buy({Eliminate("ram")}, 15, {e1, e3}), Risky(Buy({Eliminate("ram")}, 10, {e1, e3})),
   [Buy({Eliminate(BudgetKey)}, 10, {e1}) EXCEPT !.selected = None],
   Ask({}), Ask({Eliminate(BudgetKey)})}

Event(id, sequence, state, type) ==
  [id |-> id, sequence |-> sequence, task |-> t1, state |-> state, type |-> type]

Done(n) == Event(n, n, "COMPLETED", "RUNTIME_SUCCEEDED")
Changed(n, state) == Event(n, n, state, "TASK_STATE_CHANGED")

LogsValue ==
  {[events |-> <<Changed(1, "CREATED"), Changed(2, "GENERATING"), Done(3)>>, latest |-> 3],
   [events |-> <<Changed(1, "CREATED"), Changed(2, "CREATED"), Done(3)>>, latest |-> 3],
   [events |-> <<Changed(1, "CREATED"), Event(2, 2, "FAILED", "RUNTIME_FAILED")>>, latest |-> 2]}

Error(code, category, retryMode) ==
  [code |-> code, category |-> category, retryMode |-> retryMode]

ErrorsValue ==
  {Error("AGENT_RUNTIME_FAILED", "RUNTIME", "NEW_EXECUTION_ALLOWED"),
   Error("CONTRACT_INVALID", "VALIDATION", "NONE"),
   Error("PERSISTENCE_UNAVAILABLE", "STORAGE", "SAME_EXECUTION_ONLY"),
   Error("DECISION_EXECUTION_STATUS_UNKNOWN", "TRANSPORT", "NEW_EXECUTION_ALLOWED")}
=============================================================================
