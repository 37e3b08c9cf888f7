SPECIFICATION SpecSched
CONSTANTS
  r1 = r1
  r2 = r2
  r3 = r3
  Reqs = {r1, r2, r3}
  PromptLen <- ThreePrompts
  MaxBatch = 2
  MaxTokensPerBatch = 3
  MaxWaiting = 2
  MaxPromptTokens = 4
  MaxTokens = 3
INVARIANT SchedTypeOK EachOnce BatchSound NoOvertaking
PROPERTY AllFinish
CHECK_DEADLOCK FALSE
