CONSTANTS
    n = n
    a = a
    Gone = Gone
    INPUT_QUEUE_LENGTH = 5
    Bits = {n, a}
    NoBits = n
    NumPlayers = 3
    MAX_PREDICTION_FRAMES = 2
    LocalPlayer = 0
    NumSpectators = 1
    Made <- Same
    LocalDelays = {0}
    RemoteDelay = 0
    Leavers = {2}
    Uninitialized = {"syncing"}
    MaxFrame = 2
    MaxBatch = 1
SPECIFICATION Spec
INVARIANTS
    SimulationConsistent
    SpectatorFeedFinal
    OtherAssertsHold
    EarliestReportWins
ACTION_CONSTRAINT OnlyPlayer2Leaves
