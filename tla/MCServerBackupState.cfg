CONSTANTS
    Workers = {w1}
    Sessions = {s1, s2, s3}
    Ids = {id1}
    Authenticators = {a1}
    BackupStates = {FALSE, TRUE}
    MaxCount = 2
    MaxResponses = 2
    MaxClock = 0
    Unset = Unset
    Config <- MCConfig
SPECIFICATION Spec
CHECK_DEADLOCK FALSE
PROPERTIES
    BackupStateFollows
