SPECIFICATION SpecTP
CONSTANTS
  j1 = j1
  j2 = j2
  warm = warm
  Jobs = {j1}
  Warm = warm
  Workers = {}
  Eos = 0
  Vocab = {0, 1}
  Window = 12
  Resync = 16
  StopString <- NoStopString
  Burst = 3
  MaxTokens <- Four
  PromptLen = 1
  Acts = {}
INVARIANT SentOnce
CHECK_DEADLOCK FALSE
