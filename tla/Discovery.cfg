SPECIFICATION DiscoverySpec
CONSTANTS
    AssetKeys = {"dom", "sub", "ip"}
    RootOf <- MCRootOf
    Addresses = {"ip"}
    Managed = {"dom"}
    AssetUsers = {"u1"}
    AssetRole <- MCAssetRole
    ImportRows <- MCImportRows
    DiscRuns = {1, 2, 3}
    MissThreshold = 2
    MaxTime = 2
    MaxConfidence = 1
    MaxImportBatch = 2
    MaxGraphEdges = 1
    ScopeIds = {1, 2}
    TemplateIds = {1, 2}
    PlanRuns = {1}
    ScopeUsers = {"u1", "u2", "u3"}
    ScopeRole <- MCScopeRole
    HostUnder <- MCHostUnder
    HostAddresses = {"a1", "a2"}
    BlockOf <- MCBlockOf
    BlockBase <- MCBlockBase
    DangerousHosts = {}
    FactIds = {1, 2}
    FactRun <- MCFactRun
    FactTarget <- MCFactTarget
    SourceRuns <- MCSourceRuns
    TargetLists <- MCTargetLists
    TemplateForms <- MCTemplateForms
    MaxScopeDay = 2
    MaxScopeWindow = 1
    ActiveAPIMaxTargets = 2
    EngineAdmins = {"x", "y"}
    EngineRole <- MCEngineRole
    EngineRuns = {1, 2}
    RunKind <- MCRunKind
    Patches <- MCPatches
    MaxSettings = 3
    CheckCacheLimit = 1
    Resolvers = {"w1", "w2", "w3"}
    Observations = {1}
    Contents <- MCContents
    EnrichWorkers = {"w1", "w2"}
    EnrichVersion <- MCEnrichVersion
    EnrichMax = 2
    Upstreams = 2
    AddressSets = {{"edge"}}
    AliasSets = {{"cdn_suffix"}}
    ActiveTargets <- MCActiveTargets
    ResultOf <- MCResultOf
    PortOptions <- MCPortOptions
    ActivePageSize = 1
    BatchLimit = 6
    MaxExpandedPorts = 100
    ActivePollers = {"p", "q"}
    EngineStatuses = {"processing", "finished", "partial", "unheard_of"}
    ScanKinds = {"passive_intel", "dns", "org_intel", "port_probe"}
    ScanTargets <- MCScanTargets
    Within <- MCWithin
    ZoneOf <- MCZoneOf
    ScanSources = {"fofa", "subfinder"}
    StreamSources = {"subfinder"}
    Wanted <- MCWanted
    Offer <- MCOffer
    SitesOf <- MCSitesOf
    DNSRecord <- MCDNSRecord
    WildcardOf <- MCWildcardOf
    Edges = {"i2"}
    DNSTypes = {"A"}
    SubdomainTargets = {"r"}
    MaxHosts = 2
    FlushSize = 1
    ChunkSize = 1
    ChannelSize = 2
    Slots = 2
    Companies <- MCCompanies
    CompanyRecords <- MCCompanyRecords
    MaxOrgs = 3
    MaxFilings = 2
    CliRequests = {"r1", "r2", "r3"}
    TargetList <- MCTargetList
    KindOf <- MCKindOf
    BlockAddresses <- MCBlockAddresses
    SubSources = {"esd", "space"}
    NamesFrom <- MCNamesFrom
    DerivedNames = {"n4"}
    AddressesOf <- MCAddressesOf
    FrontOf <- MCFrontOf
    CertAddresses = {"z.3"}
    InternalIPs = {"lo"}
    NetOf <- MCNetOf
    MinPerNet = 2
    Concurrencies = {1, 2}
    MaxKills = 2
INVARIANTS
    DiscoveryTypeOK
    AssetRecordAgrees
    PlanWasAuthorised
    SettingsCorrect
    EnrichedFromSource
    ActiveSuccessIsComplete
    ReportsCorrect
PROPERTY NothingUndone
CHECK_DEADLOCK FALSE
