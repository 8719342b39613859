SPECIFICATION Spec
CONSTANTS
  c1 = c1  c2 = c2
  Client = {c1, c2}
  Pid = {p1, p2}
  None = None
  Sites <- MCOpenSites
  MaxCrashes = 0
  MaxFaults = 0
  MaxReboots = 0
INVARIANTS RestrictedWhenSettled
CHECK_DEADLOCK FALSE
