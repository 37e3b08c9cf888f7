SPECIFICATION SpecTP
CONSTANTS
  j1 = j1
  j2 = j2
  warm = warm
  Jobs = {j1, j2}
  Warm = warm
  Workers = {1}
  Eos = 0
  Vocab = {0, 1}
  Window = 12
  Resync = 16
  StopString <- NoStopString
  Burst = 2
  MaxTokens <- LongAndShort
  PromptLen = 1
  Acts = {"cancel", "drain", "expire"}
INVARIANT TPTypeOK  BurstsExact
 
CHECK_DEADLOCK FALSE
