SPECIFICATION HSpec
CONSTANTS
    w1 = w1
    w2 = w2
    Writer = {w1, w2}
    Latency = {40, 300000}
    MaxSamples = 3
SYMMETRY Symmetric
INVARIANT EstimateNotBelowSamples
CHECK_DEADLOCK FALSE
