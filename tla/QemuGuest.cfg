SPECIFICATION GuestSpec
CONSTANTS
  m1 = m1  m2 = m2
  Machine = {m1, m2}
  Confs <- MCConfs
  Digest = "pinned"
  HostConfig = TRUE
  None = None
  MaxEdits = 1
  MaxFaults = 1
  MaxCommands <- MCCommands
INVARIANTS
  FreshAsWritten
  RebuildCarriesWritten
  DiskOnPinnedImage
CHECK_DEADLOCK FALSE
