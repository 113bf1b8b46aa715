SPECIFICATION Spec
CONSTANTS
  None = None
  Requests = {r1, r2, r3}
  Learners = {l1}
  MayFail = FALSE
PROPERTIES HashIsKept
CHECK_DEADLOCK FALSE
