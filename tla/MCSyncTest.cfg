SPECIFICATION Spec
CONSTANTS
    INPUT_QUEUE_LENGTH = 2
    NoBits = NoBits
    Bits = {NoBits}
    Gone = Gone
    NumPlayers = 0
    MAX_PREDICTION_FRAMES = 2
    Buttons = {1, 2}
    CheckDistances = {0, 1, 2, 3, 4}
    SAVED_FRAMES = 6
    LeakSets = {{}, {0}, {3}, {4}}
    MaxFrame = 6
INVARIANTS
    TypeOK
    OnlyDivergenceIsRaised
    DivergenceIsFound
    SimulationUndisturbed
CHECK_DEADLOCK FALSE
