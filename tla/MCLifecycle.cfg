CONSTANTS
    Policies <- MCPolicies
    Devices <- MCDevices
    RegistrationRequests <- MCRegistrationRequests
    AuthenticationRequests <- MCAuthenticationRequests
    MaxCount = 3
    MaxU32 = 65535
    Timeout = 2
SPECIFICATION Spec
INVARIANTS
    TypeOK
    ConformingAccepted
    FaultyNeverAccepted
    LenientAcceptsMore
    AcceptedWasOffered
    CloneAlarmIsGenuine
    OptionsReadable
    ExtensionsAnswered
PROPERTIES
    AcceptedCountsIncrease
