SPECIFICATION Spec
CONSTANTS
  None = None
  Sample = Sample
  Intro = Intro
  ann = ann
  bob = bob
  eve = eve
  r1 = r1
  r2 = r2
  r3 = r3
  t1 = t1
  t2 = t2
  Instructor = ann
  StartStatuses <- AnyStatus
  Requests <- ThreeRequests
  Users <- Staff
  RoleOf <- StaffRoles
  Titles <- OneTitle
  Patches <- StatusPatches
  Workload <- AdmitLoad
  MaxInFlight = 3
  MayFail = FALSE
  Migrated = TRUE
SYMMETRY Alike3
PROPERTIES AdmittedOnlyPublished
CHECK_DEADLOCK FALSE
