SPECIFICATION Spec
CONSTANTS
  Drafts = {d1, d2}
  MaxLetters = 1
  None = None
  Window = 2
  Batch = 1
  Unreadable = {}
  Unanswerable = {}
  DailyLimit = 1
  Modes = {"automatic"}
  Initials = {"all"}
  Manual = TRUE
  MaxRevision = 2
  MaxSettings = 2
  MaxValidity = 1
  MaxProfiles = 1
  Days = 1
  Removals = 0
  Faults = 1
INVARIANTS
  SentAtMostOnce
  SentAsApproved
CHECK_DEADLOCK FALSE
