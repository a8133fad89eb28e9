\* A queue longer than MAX_SYNC_ITEMS.
SPECIFICATION FairSpec
CONSTANTS
    m1 = m1
    m2 = m2
    Meas = {m1, m2}
    Second <- Apart
    Answers = {yes}
    NoAnswer = NoAnswer
    Syncers = {y1}
    MaxSyncItems = 1
    Refusable = {m2}
    StorageWorks = TRUE
PROPERTIES
    QueueDrains
CHECK_DEADLOCK FALSE
