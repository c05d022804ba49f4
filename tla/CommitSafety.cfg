\* Two connections with grants, contexts and a budget.
SPECIFICATION Spec
CONSTANTS
  k1 = k1  k2 = k2  o1 = o1  o2 = o2
  Conns = {k1, k2}
  Origins = {o1, o2}
  Declared = {o1}
  KindSets = {{"open", "change"}, {"provide", "commit"}, {"upload"}, {"pay"}}
  Amounts = {1, 2}
  Policies <- OnePolicy
  MaxUses = 2
  GrantUses = 1
  StepUpTTL = 1
  ContextTTL = 1
  DayLength = 1
  MonthLength = 2
  MaxTime = 1
  MaxOps <- MCOps
  MaxStepUps = 1
  MaxContexts = 1
  LostAnswers = TRUE
  UsageReads = TRUE
  None = None
SYMMETRY MCSymmetry
CHECK_DEADLOCK FALSE
INVARIANTS
  StepUpUsedOnce
  EscalationIsApproved
  RecordedWithinLimit
  UsesAreBounded
  GrantIsBounded
