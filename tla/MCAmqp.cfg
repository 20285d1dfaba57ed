SPECIFICATION FairSpec
CONSTANTS
    m1 = m1
    m2 = m2
    q1 = q1
    p1 = p1
    p2 = p2
    p3 = p3
    Queues = {q1}
    Messages <- MCMessages
    QueueOf <- MCQueueOf
    Publishes <- MCPublishes
    Outputs <- MCOutputs
    Calls <- ServiceCalls
    Awaits = {m1, m2}
    Raises = {m2}
    ConnectionAttempts = 2
    PrefetchCount = 2
    MaxFaults = 1
INVARIANTS TypeOK ConfirmedStored TagsAgree OneStage NothingLost ChannelUntilPublish
PROPERTIES Served
CHECK_DEADLOCK FALSE
