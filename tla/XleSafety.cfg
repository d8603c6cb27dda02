SPECIFICATION Spec
CONSTANTS
    Nil = Nil
    Garbage = Garbage
    MaxTimeDifference = 1
    KeepNextHandshakeReady = TRUE
    KeyStore = TRUE
    LinkFaults <- AllFaults
    MaxNow = 2
    MaxHandshakes = 3
    MaxRuns = 3
    MaxSeq = 1
    MaxRestarts = 1
INVARIANTS
    TypeOK
    ActiveSessionsHaveKeys
    KeysAgree
    SlaveFollowsMaster
    OffersMatchCandidates
    OneAnswerPerHandshake
    NoNullCandidate
PROPERTIES
    DeliversToSlave
