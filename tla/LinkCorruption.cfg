SPECIFICATION LinkSpec
CONSTANTS
    Envelopes = {handshake, controls}
    Secured = {controls}
    Bitfields = {controls}
    Retained = {handshake}
    Values = {a, zero}
    Zero = zero
    Nil = Nil
    FailsafeAfter = 3
    ReacquireAfter = 2
INVARIANT
    CorruptedMeansNil
