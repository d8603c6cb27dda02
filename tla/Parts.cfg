SPECIFICATION Spec
CONSTANTS
    Parts = {"link", "XBee", "GPS", "CHR-UM6", "screen", "status"}
    Envelopes = {handshake, controls}
    Secured = {controls}
    Bitfields = {controls}
    Retained = {handshake}
    Values = {a, zero}
    Zero = zero
    Nil = Nil
    FailsafeAfter = 3
    ReacquireAfter = 2
    Settings = 2
    HasPowerLevel = TRUE
    MaxWriteFailures = 1
    MaxReadFailures = 0
    MaxPackets = 2
    LineSize = 2
    MaxSwallow = 1
    ConnectionAttempts = 4
    MaxRestartAttempts = 2
    FramesUnderWay = 1
    PacketsUnderWay = 1
    Instruments = {adi, hsi}
    Sizes = {small, large}
    Threads = 1
    MaxChanges = 2
    None = None
    Messages = {overspeed, stall}
INVARIANTS
    SilenceIsNoticed
    FailedMeansCleared
    OpenOrRestarting
    AlwaysWatched
    ServiceableModemIsConfigured
    GpsKeepsTrying
    GpsDataIsFresh
    Um6IsWatched
    OnlyFinishedIsShown
    TasksAreRegistered
    OnlyRaisedAreShown
PROPERTIES
    TrustedOnlyWhenStable
    NeverShowsOlder
    LinkComesBack
    LinkComesUp
    GpsComesUp
    Um6ComesUp
    ScreenIsCurrent
CHECK_DEADLOCK FALSE
