SPECIFICATION OperationsSpec
CONSTANTS
    Risks = {"r1", "r2", "r3"}
    RiskUsers = {"u1", "u2"}
    RiskRole <- MCRiskRole
    AssetOwners = {}
    Severities = {"critical", "high"}
    Exposed = {"r1"}
    HighRiskTypes = {}
    AdminTitles = {"r1"}
    Units = {"none"}
    FoundBy <- MCFoundBy
    Criticality <- MCCriticality
    Tickets = {"t1"}
    Requests = {"c1", "c2"}
    Crashes = TRUE
    NotifRules = {"n1", "n2"}
    Window <- MCWindow
    Matching = {"n1", "n2"}
    Reachable = {"n1"}
    DedupeKeys = {"d1"}
    Callers = {"x", "y"}
    MaxInstant = 2
    Exports = {1, 2}
    ReportUsers = {"u1", "u2"}
    ReportRole <- MCReportRole
    TableRows = {1, 2}
    BatchSize = 1
    MaxExportRetry = 1
    RowIds = {1, 2}
    MaxDay = 3
    DefaultDays <- MCDefaultDays
    DefaultBatch = 1
    MaxBatch = 2
    Payloads <- MCPayloads
    Users = {"u1", "u2"}
    FirstAdmin = "u1"
    Passwords = {"p1", "p2"}
    Profiles = {"a", "b"}
    AdminTxs = {1}
    MaxVersion = 2
    Projects = {1, 2}
    WsUsers = {"u1", "u2", "u3"}
    TenantOf <- MCTenantOf
    GlobalRole <- MCGlobalRole
    Domains = {"root", "sub"}
    Under <- MCUnder
    SubjectIds = {1, 2}
    Codes = {"c1"}
    FilingNos = {"n1"}
    Collectors = {"k1", "k2"}
    ClientKeys = {"k1", "k2", "k3"}
    LimitRate = 1
    LimitWindow = 1
    LimitBurst = 2
    MaxKeys = 2
    Throttled = {"q1", "q2"}
    LimiterEnd = 4
INVARIANTS
    OperationsTypeOK
    RiskRecordAgrees
    LinkedRiskTriaged
    SentOncePerWindow
    ExportsCorrect
    RowsKept
    SessionIsCurrent
    OwnershipCorrect
    TableBounded
PROPERTY TicketFollowsTable
CHECK_DEADLOCK FALSE
