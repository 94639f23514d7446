CONSTANTS
    INPUT_QUEUE_LENGTH = 4
    Bits = {n, a}
    NoBits = n
    FrameDelays = {0, 1, 2}
    MaxFrame = 6
SPECIFICATION Spec
INVARIANTS
    TypeOK
    MispredictionCaught
    ConfirmedAvailable
    AssertsHold
    IInv
    AddInputIsTheLoop
PROPERTY
    ImplementsTimeline
