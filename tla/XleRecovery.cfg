SPECIFICATION FairSpec
CONSTANTS
    Nil = Nil
    Garbage = Garbage
    MaxTimeDifference = 2
    KeepNextHandshakeReady = TRUE
    KeyStore = TRUE
    LinkFaults <- NoFaults
    MaxNow = 0
    MaxHandshakes = 4
    MaxRuns = 4
    MaxSeq = 1
    MaxRestarts = 2
PROPERTY
    HandshakeCompletes
