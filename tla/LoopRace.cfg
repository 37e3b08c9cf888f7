SPECIFICATION SpecLoop
CONSTANTS
  r1 = r1
  r2 = r2
  i1 = i1
  i2 = i2
  Reqs = {r1, r2}
  Ids = {i1, i2}
  IdOf <- OwnIds
  PromptLen <- UnitPrompts
  MaxBatch = 2
  MaxTokensPerBatch = 2
  MaxWaiting = 2
  MaxPromptTokens = 1
  MaxTokens = 2
  QueueSize = 1
  Cancels = {r1}
  Expiring = {i1}
  MayStop = TRUE
  NoReq = NoReq
  StopItem = StopItem
INVARIANT LoopTypeOK NoSilentLoss ExitDrained
PROPERTY CancelIsFinal
CHECK_DEADLOCK FALSE
