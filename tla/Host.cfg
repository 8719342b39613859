SPECIFICATION Spec
CONSTANTS
  m1 = m1  m2 = m2  m3 = m3
  Machine = {m1, m2, m3}
  Mode <- MCMode
  Pid = {1, 2}
  IP = {11, 12}
  None = None
  MaxFaults = 1
  Scenarios <- MCScenarios
INVARIANTS
  HostsNameOwn
  PidNamesContainer
PROPERTIES
  StartHasTunnel
CHECK_DEADLOCK FALSE
