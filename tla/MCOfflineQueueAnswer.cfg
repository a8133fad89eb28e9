\* Is the answer of the visitor kept?
SPECIFICATION Spec
CONSTANTS
    m1 = m1
    m2 = m2
    Meas = {m1, m2}
    Second <- Apart
    Answers = {yes}
    NoAnswer = NoAnswer
    Syncers = {y1}
    MaxSyncItems = 2
    Refusable = {m2}
    StorageWorks = TRUE
INVARIANTS
    AnswerKept
CHECK_DEADLOCK FALSE
