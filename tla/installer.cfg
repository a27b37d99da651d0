SPECIFICATION FairSpec
CONSTANTS
  MaxVersion = 2
  NoDir = NoDir
  Fates <- FailingCards
  Env = {}
INVARIANTS CopyKept Launchable
PROPERTIES NoResurrection EntryMatchesLive VisitSettles
