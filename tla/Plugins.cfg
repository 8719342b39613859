SPECIFICATION PluginsSpec
CONSTANTS
  Selector = {sa, sb, sc}
  Configured = {sa, sb}
  Exposed = {sa, sc}
  Picker = {p1, p2}
  Template <- MCTemplate
  Missing = Missing
  MaxWrites = 4
  MaxLength = 3
  Session = {s1, s2}
  NoEntry = NoEntry
  MAX_PENDING_TOASTS = 3
  MaxPushes = 6
  Selectors = 2
  Cycles = 3
  None = None
  Document = {f1, f2}
  Documents <- MCDocuments
  Content = {"text"}
  Unset = Unset
  Call <- MCCall
  Variants <- MCVariants
  Effort = Unset
  MaxCalls = 2
  MaxEdits = 2
  sa = sa  sb = sb  sc = sc  p1 = p1  p2 = p2  f1 = f1  f2 = f2
INVARIANTS
  FileUsable
  WorkerForPending
  FirstInFirstOut
  TypeOK
  VerdictOfAwaitedCall
  FailsOnlyWhenExhausted
  EveryPolicyApplied
  EvidenceOfWholeHooks
PROPERTIES
  DropsOnlyOldest
  EveryToastLeaves
  AgainOnlyAfterTimeout
  Terminates
CHECK_DEADLOCK FALSE
