SPECIFICATION HSpec
CONSTANTS
    w1 = w1
    w2 = w2
    Writer = {w1, w2}
    Latency = {40, 300000}
    MaxSamples = 3
SYMMETRY Symmetric
INVARIANTS HTypeOK EstimateBracketed
CHECK_DEADLOCK FALSE
