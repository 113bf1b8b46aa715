SPECIFICATION Spec
CONSTANTS
  None = None
  Requests = {r1, r2, r3}
  Learners = {l1, l2}
  MayFail = TRUE
SYMMETRY Alike
INVARIANTS TypeOK VerifiedOnLedger AnsweredIsRecorded MailIsTrue RefusedOnlyByOverlap AppliedIsRecorded
CHECK_DEADLOCK FALSE
