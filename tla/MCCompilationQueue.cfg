SPECIFICATION Spec
CONSTANTS
  Jobs = {1, 2}
  TenantOf <- OneTenant
  Fingerprints = {f1}
  NoPrint = NoPrint
  MaxAttempts = 2
  MaxActive = 2
  MaxTenantActive = 1
  PurgeLimit = 1
  LeaseMs = 1
  RetentionMs = 2
  LatencyMs = 1
  CapabilityMs = 1
  SubmitMs = 0
  MaxClock = 4
INVARIANTS SupersededLapsed GivenUpIsLapsed QuotaRespected
PROPERTIES TerminalIsFinal PurgedOnlyWhenExpired ImplementsLifecycle
CHECK_DEADLOCK FALSE
