SPECIFICATION Spec
CONSTANTS
  None = None
  Ann = Ann
  r1 = r1
  r2 = r2
  r3 = r3
  home = home
  work = work
  AnnEmail = home
  Requests <- ThreeRequests
  Emails <- Addresses
  Workload <- FullLoad
  MaxInFlight = 3
  MayFail = TRUE
SYMMETRY Alike
INVARIANTS TypeOK UniqueEmail AnsweredWritesHold EnabledHasSecret
PROPERTIES SpentIsRefused AnsweredSecretsWork
CHECK_DEADLOCK FALSE
