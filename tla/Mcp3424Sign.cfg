SPECIFICATION Spec
CONSTANTS
    MCBitrates = {13, 14, 16, 18}
    MCGains = {2, 3, 8}
    SomeConfigs <- MCConfigs
    SomeChannels = {0, 4}
    SomeBytes = {0, 1, 127, 128, 255}
INVARIANT DecodesTwosComplement
