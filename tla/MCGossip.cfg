SPECIFICATION Spec
CONSTANTS
    Buttons = {}
    NUM_SYNC_PACKETS = 1
    Randoms = {1}
    SEQUENCE_NUMBERS = 20
    RING_SIZE = 8
    NumPlayers = 3
    MayCrash = {2}
    MaxFrames <- MCMaxFrames
    MaxInFlight = 1
INVARIANT ReportsNeverGoBack
CHECK_DEADLOCK FALSE
