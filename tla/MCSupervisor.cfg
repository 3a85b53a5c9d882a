SPECIFICATION FairSpec
CONSTANTS
  Slots = {s1, s2}
  Permits = 2
  Pids = {p1, p2, p3, p4}
  NoPid = NoPid
INVARIANTS NeverRefused GuardIsOwn
PROPERTY EventuallyReaped
