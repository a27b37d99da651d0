SPECIFICATION Spec
CONSTANTS
  Bodies = {b1, b2}
  Nothing = Nothing
  Absent = Absent
  Torn = Torn
  Fates <- Cards
INVARIANTS FailedSaveKeepsOld SavedIsLoaded
PROPERTY ImplementsCell
