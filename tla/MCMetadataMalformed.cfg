SPECIFICATION Spec
CONSTANTS
    AaguidLen = 2
    Entries <- OddEntries
    Signer <- MCSigner
    TrustRoot <- MCRoot
    Strangers <- MCStrangers
    MaxEntries = 1
    MaxServed = 1
INVARIANTS
    MalformedAaguidSkipped
CHECK_DEADLOCK FALSE
