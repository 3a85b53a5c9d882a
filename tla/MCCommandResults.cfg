SPECIFICATION Spec
CONSTANTS
  Keys = {k1}
  Results = {left, right}
  NoResult = NoResult
  MaxRetries = 1
  Workers = {w1, w2}
SYMMETRY Interchangeable
INVARIANTS NoSilentLoss AnnouncedIsStored
PROPERTIES CompletedHolds
