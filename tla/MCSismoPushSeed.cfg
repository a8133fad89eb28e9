\* Does a server store the history before it announces anything?
SPECIFICATION Spec
CONSTANTS
    Events = {e1, e2}
    Strong = {e1, e2}
    Endpoints = {p1}
    Servers = {s1}
    MaxNotify = 1
PROPERTIES
    SeedsBeforeAnnouncing
CHECK_DEADLOCK FALSE
