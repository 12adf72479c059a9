SPECIFICATION TimeoutSpec
CONSTANTS
    ActiveTargets <- MCInvalidTargets
    ResultOf <- MCResultOf
    PortOptions <- MCPortOptions
    ActivePageSize = 2
    BatchLimit = 6
    MaxExpandedPorts = 100
    ActivePollers = {"p"}
    EngineStatuses = {"processing", "finished"}
PROPERTY TimedOutActiveRunCloses
CHECK_DEADLOCK FALSE
