\* A queue within MAX_SYNC_ITEMS empties; IndexedDB may fail to take an item.
SPECIFICATION FairSpec
CONSTANTS
    m1 = m1
    m2 = m2
    Meas = {m1, m2}
    Second <- Apart
    Answers = {yes}
    NoAnswer = NoAnswer
    Syncers = {y1}
    MaxSyncItems = 2
    Refusable = {m2}
    StorageWorks = FALSE
PROPERTIES
    QueueDrains
CHECK_DEADLOCK FALSE
