SPECIFICATION Spec
CONSTANTS
  core = core  tool = tool  env = env  ci = ci  extra = extra  kc = kc  kcdb = kcdb
  drivers = drivers  monitoring = monitoring  vulkan = vulkan
  engine = engine  bundle = bundle  sycl = sycl  llamafile = llamafile  llamacpp = llamacpp
  UnknownName = UnknownName  UnknownStack = UnknownStack  None = None  Cycle = Cycle
  Unparseable = Unparseable
  Components <- MCComponents
  Core = {core}
  Uv = {env}
  WorkspaceRepos <- MCRepos
  Mandatory = {ci}
  Detect <- MCDetect
  MaxNames = 2
  Initially <- MCInitially
  Checkouts <- MCCheckouts
  Container = {kc, kcdb}
  Version <- MCVersion
  Features = 3
  RootFeature = {2}
  Requires <- MCRequires
  Prereqs <- MCPrereqs
  Undetected = {vulkan}
  Monitoring = monitoring
  Stacks <- MCStacks
  Needs <- MCNeeds
  BuildSteps <- MCBuildSteps
  DeployKind <- MCDeployKind
  Scripted = {drivers, monitoring, vulkan, engine, bundle}
  Diagnostics <- MCDiagnostics
  MaxIds = 2
  Agendas <- MCAgendas
INVARIANTS
  RequirementsFirst
  DeployedLast
PROPERTIES
  EveryRunTakesTheMandatory
  LinkedVersionFits
  NoTickWithoutContainer
  FailedBannerKeepsLog
CHECK_DEADLOCK FALSE
