SPECIFICATION Spec
CONSTANTS
  c1 = c1  c2 = c2
  Client = {c1, c2}
  Pid = {p1, p2}
  None = None
  Sites <- MCSites
  MaxCrashes = 1
  MaxFaults = 1
  MaxReboots = 1
INVARIANTS OwnQemuAccepted StoppedMeansExited RestrictedWhenSettled ExportsQuiesced NoUntrackedQemu
  RecordProtectsStrangers
CHECK_DEADLOCK FALSE
