SPECIFICATION CodecSpec
CONSTANTS
    Parts = {"strings"}
    Chars = {"a", "b"}
    Strings <- TwoStrings
    Nil = Nil
    BlockSize = 2
    SerialModulus = 3
    CycleModulus = 2
    Retained = FALSE
    Reorder = FALSE
    MaxChanges = 1
    MaxRestarts = 1
    MaxFailsafes = 0
    SignedEnvelopes = {handshake}
    EncryptedEnvelopes = {controls}
    SignedSize = 2
    EncryptedSize = 2
    Contents = {handshake, other}
    MaxEnvelopes = 3
    MaxAir = 6
    MaxDamages = 1
INVARIANT
    NeverMixed
