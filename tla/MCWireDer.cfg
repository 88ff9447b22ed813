SPECIFICATION Spec
CONSTANTS
    Sources <- DerSources
    Cuts = {}
    Damages = {0, 131}
    MaxDamage = 2
    WordOctets = 2
    MaxU32 = 65535
INVARIANT TooShortIsNone
CHECK_DEADLOCK FALSE
