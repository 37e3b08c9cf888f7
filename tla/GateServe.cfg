SPECIFICATION SpecGateway
CONSTANTS
  r1 = r1
  Requests <- MCRequests
  MaxTokens = 3
  ChanCap = 1
  QueueCap = 1
  WireCap = 1
INVARIANT GateTypeOK
INVARIANT StopMeansComplete
INVARIANT CancelOnlyAbandoned
PROPERTY RefinesLife
PROPERTY ShutdownEnds
CHECK_DEADLOCK FALSE
