SPECIFICATION Spec
CONSTANTS
    Files <- MCFiles
    Junk <- MCJunk
    MkTime <- MCMkTime
    Airs <- MCAirs
    ResetAir <- MCResetAir
    MaxConversions = 3
    Factor <- MCFactor
    Behind <- MCBehind
    ByteSize = 256
    WordSize = 65536
    Volts = {0, 784}
    Today = 300
INVARIANT PressureInHpa
