SPECIFICATION Spec
CONSTANTS
  t1 = t1
  t2 = t2
  c1 = c1
  c2 = c2
  f1 = f1
  f2 = f2
  f3 = f3
  f4 = f4
  e1 = e1
  e2 = e2
  e3 = e3
  n1 = n1
  r1 = r1
  Task = t1
  None = None
  BudgetKey = "budget"
  PriceKey = "price"
  Requirements <- RequirementsValue
  Decisions <- DecisionsValue
  Candidates <- CandidatesValue
  Claims <- ClaimsValue
  Evidence <- EvidenceValue
  Links <- LinksValue
  Logs <- LogsValue
  Errors <- ErrorsValue
INVARIANTS PurchaseWithinBudget OthersRuledOut OpenPromisesNothing BasisIsShown
PROPERTIES RefutationWithdraws
CHECK_DEADLOCK FALSE
