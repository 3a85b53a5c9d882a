SPECIFICATION FairSystem
CONSTANTS
  Jobs = {1}
  TenantOf <- OneTenant
  Fingerprints = {f1, f2}
  NoPrint = NoPrint
  MaxAttempts = 2
  MaxActive = 1
  MaxTenantActive = 1
  PurgeLimit = 1
  LeaseMs = 2
  RetentionMs = 6
  LatencyMs = 1
  CapabilityMs = 3
  SubmitMs = 1
  ExecMs = 1
  MaxClock = 7
  Controllers = {c1, c2}
  Workers = {c1, c2}
  HostOf <- WorkerHost
  Clients = {s1, s2}
  ClientHost <- FirstController
PROPERTY EventuallyEnds
INVARIANTS ExecutingOwnsRow ActiveHasInput CompletedHasPdf NoOrphanPdf
CHECK_DEADLOCK FALSE
