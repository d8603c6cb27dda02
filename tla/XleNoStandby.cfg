SPECIFICATION Spec
CONSTANTS
    Nil = Nil
    Garbage = Garbage
    MaxTimeDifference = 2
    KeepNextHandshakeReady = FALSE
    KeyStore = FALSE
    LinkFaults <- AllFaults
    MaxNow = 0
    MaxHandshakes = 2
    MaxRuns = 2
    MaxSeq = 2
    MaxRestarts = 1
INVARIANTS
    SlaveInOrder
PROPERTIES
    PreviousNoLongerUsed
    DeliversToMaster
