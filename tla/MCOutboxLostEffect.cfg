SPECIFICATION Spec
CONSTANTS
    w1 = w1
    w2 = w2
    Messages = {1}
    Workers = {w1}
    BatchSize = 1
    MaxAttempts = 2
    RetryBase = 1
    RetryMax = 1
    RetentionDelivered = 1
    RetentionFailed = 1
    PruneBatch = 1
    MaxTime = 3
INVARIANT
    DeliveredMeansDone
