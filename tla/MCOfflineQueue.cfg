\* Two pages, overlapping batches.
SPECIFICATION Spec
CONSTANTS
    m1 = m1
    m2 = m2
    Meas = {m1, m2}
    Second <- Apart
    Answers = {yes}
    NoAnswer = NoAnswer
    Syncers = {y1, y2}
    MaxSyncItems = 2
    Refusable = {m2}
    StorageWorks = TRUE
SYMMETRY Symmetric
INVARIANTS
    TypeOK
    NeverLost
    RegisteredOnce
CHECK_DEADLOCK FALSE
