CONSTANTS
    Workers = {w1, w2}
    Sessions = {s1, s2, s3}
    Ids = {id1}
    Authenticators = {a1}
    BackupStates = {FALSE}
    MaxCount = 2
    MaxResponses = 3
    MaxClock = 1
    Unset = Unset
    Config <- MCConfig
SYMMETRY Symmetry
SPECIFICATION Spec
CHECK_DEADLOCK FALSE
PROPERTIES
    StoredCountNeverDecreases
