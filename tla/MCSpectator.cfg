SPECIFICATION Spec
CONSTANTS
    Buttons = {1}
    NUM_SYNC_PACKETS = 1
    Randoms = {1}
    SEQUENCE_NUMBERS = 20
    RING_SIZE = 4
    Players = {"host", "spectator"}
    Magic <- MCMagic
    Unanswered <- MCUnanswered
    MaxPackets <- MCMaxPackets
    MaxInFlight <- MCMaxInFlight
    Lifetime = 1
    SPECTATOR_FRAME_BUFFER_SIZE = 2
    DueTimers <- MCTimers
    Feed <- MCFeed
INVARIANTS
    TypeOK
    PlaysTheFeed
    OutcomeIsRight
    FeedIsKept
    EndsOnlyOverrun
CHECK_DEADLOCK FALSE
