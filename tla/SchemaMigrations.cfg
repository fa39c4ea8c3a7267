\* Databases of every version and both drivers, two uploads, two crashes.
SPECIFICATION Spec
CONSTANTS
  Upload = {u1, u2}
  MaxCrashes = 2
  None = None
INVARIANTS
  RecordsSurvive
  StartsWithItsSchema
CHECK_DEADLOCK FALSE
