SPECIFICATION Spec

CONSTANTS
    Words = {a, b}
    LastPage = 1
    q1 = q1
    q2 = q2
    u1 = u1
    u2 = u2
    Queries <- MCQueries
    Owner <- MCOwner
    Nobody = Nobody
    MaxKills = 2
    Ids = {1, 2}
    TraceTypes = {x, y}
    MaxRequests = 3
    Hashes = {h1, h2}
    Databases = {d1, d2}
    Tables = {a, b}
    Lookbacks = {0, 1}
    NoTable = NoTable
    Servers = {Localhost, s2}
    NoTables = NoTables
    Names = {n}
    TabIds = {1}
    Elsewhere = 0
    SavedIds = {1, 2}
    MaxHistory = 2
    MaxRuns = 1
    Users = {u1, u2}
    Roles = {r1}
    None = None
    MaxCalls = 2
    Columns = {x, y}
    RowNumber = RowNumber
    AxisKey = x
    Localhost = Localhost
    Tokens = {NoToken, t1}
    NoToken = NoToken
    MaxTests = 2
    MaxTokens = 5
    Texts = {a, b}
    Values = {1, 2}
    MaxLines = 3
    MaxPrinted = 8
    MaxOffset = 2
    Horizon = 5
    NoZone = NoZone

INVARIANTS
    ShownIsOwn
    SpinnersEnd
    TextsAreMeant
    TabsAndHistory
    SessionIsSaved

PROPERTY
    ImportAddsMissing

CHECK_DEADLOCK FALSE
