SPECIFICATION FairSSpec
CONSTANTS
  None = None
  Sample = Sample
  Intro = Intro
  ann = ann
  bob = bob
  eve = eve
  r1 = r1
  r2 = r2
  r3 = r3
  t1 = t1
  t2 = t2
  Instructor = ann
  StartStatuses <- AnyStatus
  Requests <- TwoRequests
  Users <- OneOwner
  RoleOf <- OneOwnerRoles
  Titles <- OneTitle
  Patches <- StatusPatches
  Workload <- FullLoad
  MaxInFlight = 2
  MayFail = TRUE
  Migrated = FALSE
INVARIANTS CacheCoherent IndexTypeOK IndexFollows
PROPERTIES StaleEntryDeleted EveryRequestAnswered IndexCatchesUp
CHECK_DEADLOCK FALSE
