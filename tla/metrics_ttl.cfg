SPECIFICATION MRSpec
CONSTANTS
    t1 = t1
    t2 = t2
    m1 = m1
    m2 = m2
    m3 = m3
    m4 = m4
    n1 = n1
    Thread = {t1, t2}
    Method = {m1}
    Peer = {n1}
    max_methods = 1
    max_nodes = 1
    method_ttl = 6
    node_ttl = 2
    CLEANUP_INTERVAL = 2
    MaxOps = 4
    MaxClock = 2
PROPERTIES StaleMeansUnused
CHECK_DEADLOCK FALSE
