CONSTANTS
    Samples = 4
    Warmup = 1
    Noise = {0, 1}
    LeakCost = 8
    Isolate = TRUE
SPECIFICATION LabSpec
INVARIANTS SuccessIsEarned AccumulatorExact
CHECK_DEADLOCK FALSE
