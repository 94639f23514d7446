--------------------------------- MODULE Sync ---------------------------------
(***************************************************************************)
(* The synchronization layer (sync.cpp): the frame counter, the ring of     *)
(* saved game states and one input queue per player.  A Sync is a record,   *)
(* its member functions are operators on it, and OpAsserts(s, ...) holds    *)
(* when no ASSERT of Op fires.  The connect status that Sync shares with    *)
(* the backend and the game's state that the callbacks save and load are    *)
(* parameters.                                                              *)
(*                                                                         *)
(* A game state is the history that produced it: for each frame simulated,  *)
(* the vector of the players' inputs.  Gone is the erased input that comes  *)
(* with the disconnect flag of its player.                                  *)
(***************************************************************************)
EXTENDS InputQueue

CONSTANTS
    NumPlayers,                 \* 0 in a sync test
    MAX_PREDICTION_FRAMES,      \* 8 in the code
    Gone

ASSUME SyncAssumption ==
    /\ NumPlayers \in Nat
    /\ MAX_PREDICTION_FRAMES \in Nat \ {0}
    /\ Gone \notin Bits

Players    == 0 .. NumPlayers - 1
SaveSlots  == 0 .. MAX_PREDICTION_FRAMES + 1
Vectors    == [Players -> Bits \cup {Gone}]
Status     == [disconnected : BOOLEAN, last_frame : Frames]
NewGame    == [f \in {} |-> NoBits]

(* memset fills the ring with frame 0 and no buffer.                         *)
InitSync ==
    [framecount |-> 0, last_confirmed_frame |-> NullFrame, head |-> 0,
     saved |-> [slot \in SaveSlots |->
                  [frame |-> 0, full |-> FALSE, state |-> NewGame]],
     queues |-> [i \in Players |-> InitQueue]]

Erased(input) == IF input = Gone THEN NoBits ELSE input
-----------------------------------------------------------------------------
(* The ring of saved states.                                                 *)

(* Mutant: the head of the ring of saved states does not wrap.               *)
NextSlotNoWrap(slot) == slot + 1

NextSlot(slot) == (slot + 1) % (MAX_PREDICTION_FRAMES + 2)

SaveCurrentFrame(s, game) ==
    [s EXCEPT !.saved[s.head] = [frame |-> s.framecount, full |-> TRUE,
                                 state |-> game],
              !.head = NextSlot(@)]

(* GetLastSavedFrame: the slot before the head.                             *)
LastSaved(s) ==
    s.saved[IF s.head = 0 THEN MAX_PREDICTION_FRAMES + 1 ELSE s.head - 1]

SavedAt(s, frame) == {slot \in SaveSlots : s.saved[slot].frame = frame}

(* The first slot that holds the frame; the ASSERT fires when none does.     *)
FindSavedFrameIndex(s, frame) ==
    CHOOSE slot \in SavedAt(s, frame) :
        \A other \in SavedAt(s, frame) : slot <= other
FindSavedFrameIndexAsserts(s, frame) == SavedAt(s, frame) # {}

LoadFrame(s, frame) ==
    IF frame = s.framecount THEN s
    ELSE LET slot == FindSavedFrameIndex(s, frame)
         IN  [s EXCEPT !.framecount = s.saved[slot].frame,
                       !.head = NextSlot(slot)]
(* Mutant: the frame counter goes back, the game state does not.             *)
GameNotLoaded(s, frame, game) == game

LoadedGame(s, frame, game) ==
    IF frame = s.framecount THEN game
    ELSE s.saved[FindSavedFrameIndex(s, frame)].state
LoadFrameAsserts(s, frame) ==
    frame # s.framecount => s.saved[FindSavedFrameIndex(s, frame)].full
-----------------------------------------------------------------------------
(* Inputs.                                                                   *)

(* Mutant: one frame more than MAX_PREDICTION_FRAMES.                        *)
BarrierLate(s) ==
    /\ s.framecount > MAX_PREDICTION_FRAMES
    /\ s.framecount - s.last_confirmed_frame > MAX_PREDICTION_FRAMES

(* The prediction barrier turns the local input away.                        *)
BarrierReached(s) ==
    /\ s.framecount >= MAX_PREDICTION_FRAMES
    /\ s.framecount - s.last_confirmed_frame >= MAX_PREDICTION_FRAMES

AddLocalInput(s, queue, bits, game) ==
    LET start == IF s.framecount = 0 THEN SaveCurrentFrame(s, game) ELSE s
    IN  [start EXCEPT !.queues[queue] = AddInput(@, s.framecount, bits)]

AddRemoteInput(s, queue, frame, bits) ==
    [s EXCEPT !.queues[queue] = AddInput(@, frame, bits)]

(* Mutant: the last frame a player was connected in counts as absent.        *)
AbsentFromLastFrame(status, frame) ==
    {i \in Players : status[i].disconnected /\ frame >= status[i].last_frame}

(* The players whose input for the frame is erased and flagged.              *)
Absent(status, frame) ==
    {i \in Players : status[i].disconnected /\ frame > status[i].last_frame}

SynchronizedInputs(s, status) ==
    [i \in Players |-> IF i \in Absent(status, s.framecount) THEN Gone
                       ELSE GetInputBits(s.queues[i], s.framecount)]
SynchronizeInputs(s, status) ==
    [s EXCEPT !.queues =
        [i \in Players |-> IF i \in Absent(status, s.framecount) THEN @[i]
                           ELSE GetInput(@[i], s.framecount)]]
SynchronizeInputsAsserts(s, status) ==
    \A i \in Players \ Absent(status, s.framecount) :
        GetInputAsserts(s.queues[i], s.framecount)

(* What GetConfirmedInputs may write: the local GameInput it copies from is  *)
(* not initialized, so a queue that lacks the frame yields any bits at all.  *)
ConfirmedInputs(s, status, frame) ==
    LET choices(i) ==
            IF i \in Absent(status, frame) THEN {NoBits}
            ELSE IF HasConfirmed(s.queues[i], frame)
            THEN {ConfirmedBits(s.queues[i], frame)}
            ELSE Bits
    IN  {v \in [Players -> Bits] : \A i \in Players : v[i] \in choices(i)}
ConfirmedInputsAsserts(s, status, frame) ==
    \A i \in Players \ Absent(status, frame) :
        GetConfirmedInputAsserts(s.queues[i], frame)
-----------------------------------------------------------------------------
(* Frames and rollback.  AdvanceFrame is what the application does between   *)
(* SynchronizeInputs and IncrementFrame: it appends the inputs to its        *)
(* history, which IncrementFrame then saves.                                 *)

AdvanceGame(s, status, game) ==
    [f \in 0 .. s.framecount |->
        IF f = s.framecount THEN SynchronizedInputs(s, status) ELSE game[f]]

(* Mutant: the new state is saved under the old frame number.                *)
SaveThenIncrement(s, game) ==
    [SaveCurrentFrame(s, game) EXCEPT !.framecount = @ + 1]

IncrementFrame(s, game) ==
    SaveCurrentFrame([s EXCEPT !.framecount = @ + 1], game)

FirstIncorrectFrames(s) ==
    {s.queues[i].first_incorrect_frame : i \in Players} \ {NullFrame}

(* CheckSimulationConsistency's *seekTo.                                     *)
SeekTo(s) ==
    CHOOSE f \in FirstIncorrectFrames(s) :
        \A g \in FirstIncorrectFrames(s) : f <= g

ResetPredictions(s) ==
    [s EXCEPT !.queues = [i \in Players |-> ResetPrediction(@[i])]]
ResetPredictionsAsserts(s, frame) ==
    \A i \in Players : ResetPredictionAsserts(s.queues[i], frame)

(* Mutant: the confirmed frame itself is discarded, not only those before.   *)
DiscardConfirmedFrame(s, frame) ==
    [s EXCEPT
        !.last_confirmed_frame = frame,
        !.queues = IF frame <= 0 THEN @
                   ELSE [i \in Players |-> DiscardConfirmedFrames(@[i], frame)]]

SetLastConfirmedFrame(s, frame) ==
    [s EXCEPT
        !.last_confirmed_frame = frame,
        !.queues = IF frame <= 0 THEN @
                   ELSE [i \in Players |->
                           DiscardConfirmedFrames(@[i], frame - 1)]]
SetLastConfirmedFrameAsserts(s, frame) ==
    frame > 0 => \A i \in Players :
                     DiscardConfirmedFramesAsserts(s.queues[i], frame - 1)
=============================================================================
