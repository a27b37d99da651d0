SPECIFICATION JSpec
CONSTANTS
  p1 = p1
  p2 = p2
  Ids <- MCIds
  Bodies <- MCBodies
  Nothing = Nothing
  Absent = Absent
  Torn = Torn
  Fates <- Cards
INVARIANTS SaveDurable RecordsKept
PROPERTY ImplementsCell
