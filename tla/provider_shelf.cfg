SPECIFICATION Spec
CONSTANTS
  MaxJobs = 3
  Absent = Absent
  Torn = Torn
  Fates <- Cards
INVARIANT ShownIsCurrent
PROPERTIES ImplementsCell StaleIsRefreshed
CHECK_DEADLOCK FALSE
