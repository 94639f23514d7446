SPECIFICATION RunningSpec
CONSTANTS
    Buttons = {1}
    NUM_SYNC_PACKETS = 1
    Randoms = {1}
    SEQUENCE_NUMBERS = 12
    RING_SIZE = 6
    Players = {"a", "b"}
    Magic <- MCMagic
    Unanswered <- MCUnanswered
    FrameDelay <- MCFrameDelay
    MAX_PREDICTION_FRAMES = 2
    DueTimers <- MCRetries
    Leavers = {}
    Outages = FALSE
    MaxFrames <- MCMaxFrames
    MaxPackets <- MCMaxPackets
    MaxInFlight <- MCMaxInFlight
    Lifetime = 2
    ButtonNumbers = {0, 1, 3}
    BITVECTOR_NIBBLE_SIZE = 2
    FRAME_WINDOW_SIZE = 2
    MIN_FRAME_ADVANTAGE = 2
    MAX_FRAME_ADVANTAGE = 3
    Advantages <- MCAdvantages
INVARIANTS
    PacketBitsRoundTrip
    WaitClosesRift
    TypeOK
    NothingLost
    AssertsOnlyAfterLateHandshake
PROPERTIES ImplementsStream ImplementsFlow
CHECK_DEADLOCK FALSE
