SPECIFICATION FairSpec
CONSTANTS
    Buttons = {}
    NUM_SYNC_PACKETS = 2
    Randoms = {1}
    SEQUENCE_NUMBERS = 2
    RING_SIZE = 6
    Players = {"a", "b"}
    Magic <- MCMagic
    Unanswered <- MCUnanswered
    FrameDelay <- MCFrameDelay
    MAX_PREDICTION_FRAMES = 2
    DueTimers <- MCTimers
    Leavers = {"b"}
    Outages = FALSE
    MaxFrames <- MCMaxFrames
    MaxPackets <- MCMaxPackets
    MaxInFlight <- MCMaxInFlight
    Lifetime = 0
INVARIANT InterruptionShown
PROPERTIES
    InputsArrive
    LeaveIsHeard
    InterruptionEnds
