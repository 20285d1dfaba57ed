SPECIFICATION Spec
CONSTANTS
    m1 = m1
    m2 = m2
    Messages = {m1, m2}
    Topics <- MCTopics
    Queues <- MCQueues
    Dead <- MCDead
    Missing = "missing_routing_key"
    Bindings <- MCBindings
    QueueNames <- MCQueueNames
    Patterns <- MCPatterns
    Counts <- MCCounts
    MaxCopies = 5
    MaxCommands = 2
INVARIANTS TypeOK NothingLost RightQueue MissingOnlyRevived
CHECK_DEADLOCK FALSE
