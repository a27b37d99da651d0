SPECIFICATION Spec
CONSTANTS
  MaxVersion = 2
  NoDir = NoDir
  Fates <- Sound
  Env = {"timeout"}
INVARIANT StagedComplete
