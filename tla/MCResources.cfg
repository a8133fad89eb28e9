\* One resource, its owner, two visitors, two requests in flight; a client that
\* sends a count nobody gave.
SPECIFICATION Spec
CONSTANTS
    MaxId = 1
    Contents = {c1}
    NoContent = NoContent
    Owners = {o1}
    NoOwner = NoOwner
    b1 = b1
    b2 = b2
    f1 = f1
    f2 = f2
    Browsers = {b1, b2}
    NoView = NoView
    Fingerprint <- TwoPeople
    Handlers = {h1, h2}
    Admins = {a1}
    SeedTables <- SeededCounters
    ReportValues = {1}
    CounterValues = {3}
    MaxHelps = 1
    HelpValues = {0}
SYMMETRY SymmetricPeople
INVARIANTS
    TypeOK
    NeverOvercounted
    ReviewRequired
PROPERTIES
    OwnerForLife
CHECK_DEADLOCK FALSE
