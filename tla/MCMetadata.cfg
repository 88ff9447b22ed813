SPECIFICATION Spec
CONSTANTS
    AaguidLen = 2
    Entries <- MCEntries
    Signer <- MCSigner
    TrustRoot <- MCRoot
    Strangers <- MCStrangers
    MaxEntries = 2
    MaxServed = 2
INVARIANTS
    TypeOK
    InstalledWasServed
    CompromiseNotHidden
    ServedIsAccepted
CHECK_DEADLOCK FALSE
