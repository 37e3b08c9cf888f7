SPECIFICATION SpecLoad
CONSTANTS
  World = 2
  Mods = {1, 2}
  Envs <- AllEnvs
  TrueExperts = 4
  PlanDefault = 4
  ArgsDefault = 2
INVARIANT LoadTypeOK KernelsTrusted ReadyMeansWhole LayoutMatchesForward
PROPERTY LoadEnds
CHECK_DEADLOCK FALSE
