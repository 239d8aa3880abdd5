SPECIFICATION OutboxSpec
CONSTANTS
    w1 = w1
    w2 = w2
    Callers <- MCWorkers
    Events = {1, 2}
    batchSize = 1
    Backlogs <- MCBacklogs
    Threshold = 2
    maxRetries = 1
    MaxSleeping = 2
    MaxRestarts = 1
INVARIANTS BreakerRecovers ProcessedWasDelivered DuplicateHasCause
PROPERTIES OutboxDrains
CHECK_DEADLOCK FALSE
