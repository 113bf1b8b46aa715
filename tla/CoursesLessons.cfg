SPECIFICATION Spec
CONSTANTS
  None = None
  Sample = Sample
  Intro = Intro
  ann = ann
  bob = bob
  eve = eve
  r1 = r1
  r2 = r2
  r3 = r3
  t1 = t1
  t2 = t2
  Instructor = ann
  StartStatuses <- Published
  Requests <- ThreeRequests
  Users <- Staff
  RoleOf <- StaffRoles
  Titles <- TwoTitles
  Patches <- RenamePatches
  Workload <- LessonLoad
  MaxInFlight = 2
  MayFail = FALSE
  Migrated = TRUE
SYMMETRY Alike
INVARIANTS CacheCoherent LessonsStayHome
PROPERTIES OnlyOwnersChange
CHECK_DEADLOCK FALSE
