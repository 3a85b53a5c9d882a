SPECIFICATION Spec
CONSTANTS
  Objects = {o1}
  Payloads = {p, q, bad, never}
  Poison = {bad}
  Refused = {never}
  NoPayload = NoPayload
  MaxLocalRetries = 2
  BatchSize = 1
  Flushers = {f1, f2}
  MaxSerial = 2
INVARIANT LatestIsKept
