SPECIFICATION Spec
CONSTANTS
    Endpoints = {1, 2, 3}
    LbTasks = {"a", "b"}
    CountMax = 2147483647
    CountLimit = 1000
    MaxReports = 3
    Rules <- MCRules
    PoolEndpoints = {"e", "f"}
    Checkers = {"check"}
    Reporters = {"a", "b"}
    MaxMarks = 4
    Plugins = {"auth"}
    Limits = {"small", "large"}
    Default = "default"
    Loaders = {"admin", "reload"}
    Reloader = "reload"
    MaxWrites = 2
    MaxLoads = 3
    RlKeys = {"a"}
    RlTasks = {1, 2}
    MaxRequests = 2
    Window = 2
    Burst = 2
    TokenUnit = 2
    Refill = 1
    MaxTime = 5
    MaxChecks = 4
    NoKey = "none"
    MaxCalls = 3
    DriverKinds = {"postgres", "mysql", "redis"}
    Tasks <- MCTasks
    SubChannels = {"c", "d"}
    MaxOpened = 2
    MaxPublished = 2
    MaxPending = 1
    HealthIds = {"a", "b"}
    MaxFailures = 3
    MaxOutcomes = 4
    Crates <- MCCrates
    Others <- MCOthers
    Source <- MCSource
    MaxEdits = 1
    ProviderCounts = {0, 2}
    Callers = {1, 2}
    Prompts = {"plan", "audit"}
    MaxRetries = 1
    Ttl = 1
    CacheCap = 1
    MaxClock = 1
    MaxAnswers = 2
    Images <- MCImages
    MaxReplaced = 1
    Pids = {1}
    EventTypes = {"openat", "read"}
    Filter = {"read"}
    RingCap = 2
    MaxKernel = 3
    MaxProcesses = 2
    MaxInvoked = 1
    Dockerfiles <- MCDockerfiles
    BuildKeys = {"V", "P", "TPT_BUILD_USER"}
    BuildArgs <- MCArgs
    MNames = {"a", "b", "c", "x"}
    Manifests <- MCManifests
    Services = {"web"}
    Kind <- MCKind
    Policy <- MCPolicy
    DependsOn <- MCNothing
    HostPorts <- MCNothing
    Probed = {}
    Retries = 1
    Networks = {}
    Overlay = {}
    Subnet <- MCSubnet
    AutoSubnet = AutoSubnet
    MaxPid = 2
    MaxSups = 2
INVARIANTS PartsTypeOK RoutingSound PoolSound PluginsSound RatesHold WireSound SubscriptionsSound HealthSound ModulesSound AnswersSound AnalysisSound AgentSound ImageMatchesBuild ConfigsSound CleanExit
CHECK_DEADLOCK FALSE
