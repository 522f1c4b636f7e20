SPECIFICATION CallerSpec
CONSTANTS
    n1 = n1
    n2 = n2
    n3 = n3
    Nonce <- MCNonce
    Readings <- MCReadings
    MaxEntries = 2
    MaxSkew = 1
    TicksPerSecond = 1
    MaxCallerTime = 9
SYMMETRY NonceSymmetry
PROPERTIES
    PeekForeseesCheck
    ImplementsReplayWindow
