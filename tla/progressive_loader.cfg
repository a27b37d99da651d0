SPECIFICATION Spec
CONSTANTS
  Files <- TwoFiles
  Fates <- EachFault
  Total = 3
  BufLen = 2
  MaxBegins = 3
  None = None
  Absent = Absent
INVARIANTS CompleteIsWhole ShownIsWhole AppsOwnOpens PublishedOnCard
PROPERTY PlaceholderEnds
CHECK_DEADLOCK FALSE
