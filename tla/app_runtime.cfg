SPECIFICATION FairSpec
CONSTANTS
  MaxGen = 3
  QueueLen = 2
  NoChild = NoChild
\* after the app is left and its owner has gone nothing moves
CHECK_DEADLOCK FALSE
INVARIANTS KindMatches SessionClean ToldAfterClose
PROPERTIES DisplayKept HandoffEnds StopEnds
