SPECIFICATION NSSpec
CONSTANTS
    c1 = c1
    c2 = c2
    c3 = c3
    Nobody = Nobody
    Poisoned = Poisoned
    Conn = {c1, c2, c3}
    MaxRequests = 2
    MAX_CONCURRENT_CONNECTIONS = 2
    PoolSize = 1
INVARIANTS NSTypeOK PermitsConserved RecordedIffDelivered
PROPERTIES EveryCallAnswered
