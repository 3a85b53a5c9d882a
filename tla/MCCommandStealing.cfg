SPECIFICATION Spec
CONSTANTS
  Keys = {k1}
  Results = {left}
  NoResult = NoResult
  MaxRetries = 1
  Workers = {w1, w2}
INVARIANT NoStealing
