SPECIFICATION Spec
CONSTANTS
    v1 = v1
    v2 = v2
    s1 = s1
    d1 = d1
    d2 = d2
    b1 = b1
    b2 = b2
    b3 = b3
    Browsers = {b1, b2, b3}
    Address <- MCAddress
    Cookie <- MCCookie
    Fingerprint <- MCFingerprint
    Lan = lan
    Proxies = {p1}
    NoAddr = NoAddr
    NoSid = NoSid
    NoDevice = NoDevice
    Routes = {"/o"}
    FingerprintRoutes = {"/o"}
    Limit <- MCLimit
    Window = 1
    MaxDistinct = 1
    DeviceWindow = 1
    Handlers = {h1, h2}
    MaxClock = 2
    MaxRequests = 4
    Width = 2
    Asns = {10, 20}
    MappedAsns = {10}
    NoNumber = NoNumber
    Names <- MCNames
    MaxRows = 2
    MaxMappings = 2
    Now = 3
    MaxAge = 1
    FutureSlack = 0
    Networks = {"", "movistar"}
    Payloads <- MCPayloads
    Answers <- MCAnswers
    CallAnswers = {"no"}
    Filters <- MCFilters
    PageLimit = 1
    MaxSyncItems = 2
    MaxMeasured = 3
    MaxWrites = 4
    Measured <- MCMeasured
    CellWindow = 0
    MaxSamples = 6
    MaxTime = 1
    MinSamples = 3
    HighConfidenceMinSamples = 6
    ProbableAffectMinSamples = 5
    JitterElevated = 4
    DegradedMinRTT = 4
    DegradedMaxSuccess = 80
    Callers = {h1, h2}
    Queries = {"90.2 km", "90.4 km", "30 days"}
    Key <- MCKey
    Reach <- MCReach
    Places = {"near", "mid"}
    PageSize = 1
    MaxPages = 3
    Cap = 2
    TTL = 1
    NoKey = ""
    MaxEvents = 3
    MaxAsked = 2
    MaxNow = 2
    Lower <- MCLower
    CoverageRows <- MCCoverageRows
    TownFilters = {"", "CALI"}
    OperatorFilters = {"", "claro", "CLARO", "etb"}
    TechFilters = {"", "4G", "4g"}
    CoverageLimit = 1
    ProviderTechs <- MCTechs
    Overlays <- MCOverlays
    OverlayAsks <- MCOverlayAsks
    MaxGets = 2
    ResourceKinds = {"agua", "albergue"}
    ListLimit = 2
    MaxReports = 3
    MaxModerated = 3
    Tokens = {"t1"}
    Notes = {"n1", "n2"}
    Voters = {"f1"}
    EventIds = {"e1", "e2"}
    Endpoints = {"p1"}
    Devices = {"", "movil"}
    SettingKeys = {"k1"}
    SettingValues = {"x"}
    MaxCalls = 3
    Views = {"wide", "near", "east"}
    Inside <- MCInside
    FarViews = {"wide"}
    CellFilters = {"claro", "tigo"}
    Tiles = {"claro"}
    Movistar = "movistar"
    Off = "off"
    MaxActs = 3
SYMMETRY Symmetry
INVARIANTS
    RefusedMeansBusy
    WindowBound
    DevicesRefusedByCrowd
    LookupIsReference
    ScanComplete
    OperatorIsExplained
    ProxyAnswers
    CoverageAnswersRequest
    CountsAddUp
    StoresAgree
    MapFollowsVisitor
PROPERTIES
    OneMeasurementCannotCondemn
CHECK_DEADLOCK FALSE
