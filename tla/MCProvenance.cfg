SPECIFICATION Spec
CONSTANTS
    Attestations <- MCAttestations
    Roots <- MCRoots
    MaxEdits = 3
INVARIANTS
    TypeOK
    GenuineAccepted
    OriginAuthentic
    AnchoredLeafCertified
    AnchorsOnlyRestrict
CHECK_DEADLOCK FALSE
