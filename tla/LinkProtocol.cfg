SPECIFICATION FairSpec
CONSTANTS
    Parts = {"strings", "bytes"}
    Chars = {"a", "b"}
    Strings <- AStrings
    Nil = Nil
    BlockSize = 2
    SerialModulus = 3
    CycleModulus = 4
    Retained = FALSE
    Reorder = FALSE
    MaxChanges = 2
    MaxRestarts = 1
    MaxFailsafes = 1
    SignedEnvelopes = {handshake}
    EncryptedEnvelopes = {controls}
    SignedSize = 2
    EncryptedSize = 2
    Contents = {handshake, other}
    MaxEnvelopes = 3
    MaxAir = 6
    MaxDamages = 1
INVARIANTS
    RecoversWhatWasSent
    DamageIsLocal
PROPERTIES
    ImplementsRegister
    StringArrives
CHECK_DEADLOCK FALSE
