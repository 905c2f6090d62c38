CONSTANTS
    NR_TASKS = 3
    PRIORITY = 1
    Queues = {q1}
    InterruptibleQueues = {q1}
SPECIFICATION FairSpec

    
PROPERTIES
    
    Scheduled
    Interrupted
