CONSTANTS
    n = n
    a = a
    Gone = Gone
    INPUT_QUEUE_LENGTH = 5
    Bits = {n, a}
    NoBits = n
    NumPlayers = 2
    MAX_PREDICTION_FRAMES = 2
    LocalPlayer = 0
    NumSpectators = 1
    Made <- OneMoves
    LocalDelays = {0, 1}
    RemoteDelay = 1
    Leavers = {1}
    Uninitialized = {"syncing"}
    MaxFrame = 6
    MaxBatch = 3
SPECIFICATION Spec
INVARIANTS
    TypeOK
    SimulationConsistent
    SavedFramesAvailable
    PredictionBarrier
    SpectatorFeedFinal
    OtherAssertsHold
PROPERTY
    QueueContract
