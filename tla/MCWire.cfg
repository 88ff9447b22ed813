SPECIFICATION Spec
CONSTANTS
    Sources <- MCSources
    Cuts = {0, 9, 11, 36, 37, 54, 55, 90, 105, 118, 135}
    Damages = {0, 1, 3, 31, 33, 36, 38, 129, 130}
    MaxDamage = 2
    WordOctets = 3
    MaxU32 = 65535
INVARIANTS
    TypeOK
    RoundTrip
    ExtensionsReadBack
    RecordsAgree
    NothingInvented
    NoPrefixAccepted
    KeyAlwaysUsable
    KeyOrderIrrelevant
CHECK_DEADLOCK FALSE
