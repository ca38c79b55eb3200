SPECIFICATION RegSpec
CONSTANTS
    n1 = n1
    Addr <- OneAddr
    NoNode = NoNode
    InitialLists <- NodeLists
    failure_threshold = 2
    base_timeout = 1
    max_timeout = 1
    backoff_multiplier = 1
    MaxFailures = 2
    hc_failure_threshold = 1
    register_attempts = 2
    max_attempts = 2
INVARIANTS
    RegTypeOK
    RegisteredIsMember
PROPERTIES
    StartSettles
    AdmittedNodeServes
    GoneNodeIsolated
    PoolInEachLife
