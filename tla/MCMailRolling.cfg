SPECIFICATION Spec
CONSTANTS
  Drafts = {d1, d2}
  MaxLetters = 2
  None = None
  Window = 2
  Batch = 1
  Unreadable = {}
  Unanswerable = {}
  DailyLimit = 1
  Modes = {"automatic"}
  Initials = {"all", "new"}
  Manual = FALSE
  MaxRevision = 1
  MaxSettings = 2
  MaxValidity = 2
  MaxProfiles = 1
  Days = 1
  Removals = 0
  Faults = 1
INVARIANT DailyLimitKept
CHECK_DEADLOCK FALSE
