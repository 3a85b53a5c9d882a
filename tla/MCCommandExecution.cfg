SPECIFICATION FairSpec
CONSTANTS
  Keys = {k1}
  Results = {left}
  NoResult = NoResult
  MaxRetries = 1
  Workers = {w1, w2}
INVARIANTS NoSilentLoss AnnouncedIsStored
PROPERTIES CompletedHolds EventuallySettled
