CONSTANTS
    Calls = {c1, c2, c3}
    Handles = {h1, h2}
    Cells = {k1, k2}
    NoCell = NoCell
    Absent = Absent
    Free = Free
    Pending = Pending
    Bytes = {b1}
    NotIssued = NotIssued
    MaxClock = 1
    Config <- MCConfig
    Submissions <- MCSubmissions
SYMMETRY Symmetry
SPECIFICATION Spec
CHECK_DEADLOCK FALSE
INVARIANTS
    TypeOK
    AtMostOneClaim
    LockProtectsSet
    OnlyClaimsSpend
    ReplayErrorIsTruthful
