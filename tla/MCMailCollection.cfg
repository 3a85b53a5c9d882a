SPECIFICATION FairSpec
CONSTANTS
  Drafts = {d1}
  MaxLetters = 3
  None = None
  Window = 2
  Batch = 1
  Unreadable = {3}
  Unanswerable = {2}
  DailyLimit = 1
  Modes = {"automatic"}
  Initials = {"all", "new"}
  Manual = FALSE
  MaxRevision = 1
  MaxSettings = 2
  MaxValidity = 2
  MaxProfiles = 0
  Days = 0
  Removals = 2
  Faults = 1
INVARIANTS
  ArchiveIsNotAnswered
  NothingIsPassedOver
PROPERTIES
  PendingIsWorkedOff
CHECK_DEADLOCK FALSE
