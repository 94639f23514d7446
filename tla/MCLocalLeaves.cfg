CONSTANTS
    n = n
    a = a
    Gone = Gone
    INPUT_QUEUE_LENGTH = 5
    Bits = {n, a}
    NoBits = n
    NumPlayers = 2
    MAX_PREDICTION_FRAMES = 2
    LocalPlayer = 0
    NumSpectators = 0
    Made <- OneMoves
    LocalDelays = {0, 1}
    RemoteDelay = 0
    Leavers = {0, 1}
    Uninitialized = {"syncing", "running"}
    MaxFrame = 5
    MaxBatch = 2
SPECIFICATION Spec
INVARIANTS
    SavedFramesAvailable
    OtherAssertsHold
