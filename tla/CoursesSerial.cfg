SPECIFICATION Spec
CONSTANTS
  None = None
  Sample = Sample
  Intro = Intro
  ann = ann
  bob = bob
  eve = eve
  r1 = r1
  r2 = r2
  r3 = r3
  t1 = t1
  t2 = t2
  Instructor = ann
  StartStatuses <- Published
  Requests <- ThreeRequests
  Users <- Everyone
  RoleOf <- EveryoneRoles
  Titles <- TwoTitles
  Patches <- AllPatches
  Workload <- FullLoad
  MaxInFlight = 1
  MayFail = FALSE
  Migrated = TRUE
SYMMETRY Alike
INVARIANT ReadsCurrent CountsEnrolled
PROPERTIES BoardSpec AdmittedOnlyPublished RemovedStaysRemoved
CHECK_DEADLOCK FALSE
