\* Two servers on one database: restarts, partial inserts, truncated announcements.
SPECIFICATION Spec
CONSTANTS
    Events = {e1, e2}
    Strong = {e1, e2}
    Endpoints = {p1}
    Servers = {s1, s2}
    MaxNotify = 1
SYMMETRY Symmetric
INVARIANTS
    TypeOK
    AtMostOnce
    ActiveStaysStored
PROPERTIES
    ImplementsLedger
CHECK_DEADLOCK FALSE
