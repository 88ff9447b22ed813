SPECIFICATION Spec
CONSTANTS
    Attestations <- MCSelfAttestations
    Roots <- MCRoots
    MaxEdits = 1
INVARIANTS
    SelfAttestationVerified
CHECK_DEADLOCK FALSE
