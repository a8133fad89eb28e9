\* One server: does the loop get there, do the notifiers end?
SPECIFICATION FairSpec
CONSTANTS
    Events = {e1, e2}
    Strong = {e1}
    Endpoints = {p1}
    Servers = {s1}
    MaxNotify = 1
PROPERTIES
    EventuallyRecorded
    NotifiersEnd
CHECK_DEADLOCK FALSE
