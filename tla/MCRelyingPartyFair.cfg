CONSTANTS
    Calls = {c1, c2, c3}
    Handles = {h1, h2}
    Cells = {k1}
    NoCell = NoCell
    Absent = Absent
    Free = Free
    Pending = Pending
    Bytes = {b1}
    NotIssued = NotIssued
    MaxClock = 0
    Config <- MCConfig
    Submissions <- FewSubmissions
SPECIFICATION FairSpec
CHECK_DEADLOCK FALSE
PROPERTIES
    EveryCallReturns
    ImplementsSingleUse
