SPECIFICATION Spec
CONSTANTS
  Readers = {r1, r2, r3}
  Writers = {w1, w2}
  None = None
  Torn = Torn
  MaxPublications = 3
INVARIANT FirstPin
PROPERTIES ImplementsLatest NeverWaits
