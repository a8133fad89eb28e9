\* Does a request without the owner token leave the content alone?
SPECIFICATION Spec
CONSTANTS
    MaxId = 1
    Contents = {c1, c2}
    NoContent = NoContent
    Owners = {o1}
    NoOwner = NoOwner
    b1 = b1
    b2 = b2
    f1 = f1
    f2 = f2
    Browsers = {b1}
    NoView = NoView
    Fingerprint <- OnePerson
    Handlers = {h1, h2}
    Admins = {a1}
    SeedTables <- SeededCounters
    ReportValues = {1}
    CounterValues = {}
    MaxHelps = 0
    HelpValues = {}
SYMMETRY Symmetric
PROPERTIES
    AnonymousKeepsContent
CHECK_DEADLOCK FALSE
