SPECIFICATION RRSpec
CONSTANTS
    n1 = n1
    n2 = n2
    n3 = n3
    Addr <- AllAddr
    NoNode = NoNode
    InitialLists <- StartLists
    failure_threshold = 1
    base_timeout = 1
    max_timeout = 1
    backoff_multiplier = 1
    MaxFailures = 1
SYMMETRY Sym
INVARIANTS
    BoundedBypass
    WalkFindsRoutable
