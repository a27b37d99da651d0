SPECIFICATION Spec
CONSTANTS
  Last = 1
  MaxAsks = 3
  Fates <- BadCards
INVARIANTS FetchingIsWorked CachedIsWhole ReaderWhole
PROPERTIES QueueServed LoadingEnds
CHECK_DEADLOCK FALSE
