SPECIFICATION FairSpec
CONSTANTS
  Objects = {o1, o2}
  Payloads = {p, never}
  Poison = {}
  Refused = {never}
  NoPayload = NoPayload
  MaxLocalRetries = 2
  BatchSize = 1
  Flushers = {f1}
  MaxSerial = 2
PROPERTY EventuallyDrained
INVARIANTS KeptUnlessOvertaken
CHECK_DEADLOCK FALSE
