SPECIFICATION DetailSpec
CONSTANTS
  Books = {b1, b2}
  MaxVisits = 4
  None = None
INVARIANTS SnapshotIsOwn PageIsOwn
PROPERTY DetailEnds
CHECK_DEADLOCK FALSE
