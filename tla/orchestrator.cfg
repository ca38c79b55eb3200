SPECIFICATION FairSpec
CONSTANTS
    n1 = n1
    n2 = n2
    Addr <- AllAddr
    NoNode = NoNode
    InitialLists <- OneList
    failure_threshold = 1
    base_timeout = 1
    max_timeout = 1
    backoff_multiplier = 1
    MaxFailures = 1
    hc_failure_threshold = 1
INVARIANTS
    TypeOK
    RosterCoherent
    CircuitCoherent
PROPERTIES
    ManualDisableSticks
    NoSkippedProbation
    PoolImplemented
    RecoveredNodeReturns
    DeadNodeIsolated
