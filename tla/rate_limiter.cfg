SPECIFICATION RLSpec
CONSTANTS
    i1 = i1
    i2 = i2
    r1 = r1
    r2 = r2
    IP = {i1, i2}
    Req = {r1, r2}
    Rate = 1
    Burst = 2
    Cost = 2
    CleanupInterval = 1
    EntryTtl = 2
    MaxClock = 4
SYMMETRY Slots
INVARIANTS
    RLTypeOK
    AdmissionBound
    Budget
CHECK_DEADLOCK FALSE
