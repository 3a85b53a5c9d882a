SPECIFICATION FairSpec
CONSTANTS
  Objects = {o1}
  Payloads = {p, never, bad}
  Poison = {bad}
  Refused = {never}
  NoPayload = NoPayload
  MaxLocalRetries = 2
  BatchSize = 1
  Flushers = {f1, f2}
  MaxSerial = 2
PROPERTY EventuallyDrained
INVARIANTS KeptUnlessOvertaken
CHECK_DEADLOCK FALSE
