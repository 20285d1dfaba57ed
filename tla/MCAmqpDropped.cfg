SPECIFICATION Spec
CONSTANTS
    m1 = m1
    m2 = m2
    q1 = q1
    p1 = p1
    p2 = p2
    p3 = p3
    Queues = {q1}
    Messages <- MCMessages
    QueueOf <- MCQueueOf
    Publishes <- MCPublishes
    Outputs <- MCOutputs
    Calls <- ServiceCalls
    Awaits = {m2}
    Raises = {}
    ConnectionAttempts = 2
    PrefetchCount = 0
    MaxFaults = 1
INVARIANT NothingLost
CHECK_DEADLOCK FALSE
