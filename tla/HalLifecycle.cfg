SPECIFICATION Spec
CONSTANTS
  Contexts = {c1, c2}
  InitFails = TRUE
INVARIANTS TypeOK ThreadsHaveObjects SignalsFindHandler ClosedLeavesNothing
  UndefinedHasCause
PROPERTY JoinReturns
