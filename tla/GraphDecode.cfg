SPECIFICATION SpecGraph
CONSTANTS
  Seqs = {a, b}
  Pages = {p1, p2, p3, p4}
  PageSize = 2
  PromptLen = 1
  MaxLen = 5
  Caps = {1, 2, 4, 8}
  Ceiling = 1
  WarmupNeed = 1
  GraphOn = TRUE
  Native = TRUE
SYMMETRY Symmetry
INVARIANT GraphTypeOK PlanCurrent HistoryIntact
PROPERTY EagerFaithful
CHECK_DEADLOCK FALSE
