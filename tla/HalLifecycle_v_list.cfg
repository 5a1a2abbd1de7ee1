SPECIFICATION Spec
CONSTANTS
  Contexts = {c1, c2}
  InitFails = FALSE
INVARIANT ListExists
