SPECIFICATION FairSpec
CONSTANTS
    Nil = Nil
    Garbage = Garbage
    MaxTimeDifference = 2
    KeepNextHandshakeReady = TRUE
    KeyStore = TRUE
    LinkFaults <- NoFaults
    MaxNow = 1
    MaxHandshakes = 3
    MaxRuns = 3
    MaxSeq = 1
    MaxRestarts = 1
PROPERTY
    HandshakeCompletes
