------------------------------ MODULE InputQueue ------------------------------
(***************************************************************************)
(* One player's input queue (input_queue.cpp): a ring of the last           *)
(* INPUT_QUEUE_LENGTH inputs plus the prediction handed out for the frames  *)
(* that have not arrived.  A queue is a record and every member function is *)
(* an operator from queues to queues; OpAsserts(q, ...) holds when no       *)
(* ASSERT of the member function Op fires (ASSERT ends the process).        *)
(*                                                                         *)
(* The bytes of an input are one element of Bits, NoBits standing for the   *)
(* all-zero input that erase() and memset produce.                          *)
(***************************************************************************)
EXTENDS Integers

CONSTANTS
    INPUT_QUEUE_LENGTH,     \* slots of the ring, 128 in the code
    Bits,                   \* the inputs a player can make
    NoBits                  \* the erased input

ASSUME InputQueueAssumption ==
    /\ INPUT_QUEUE_LENGTH \in Nat \ {0}
    /\ NoBits \in Bits

NullFrame == -1
Frames    == Nat \cup {NullFrame}
Slots     == 0 .. INPUT_QUEUE_LENGTH - 1
GameInput == [frame : Frames, bits : Bits]

QueueType ==
    [head : Slots, tail : Slots, length : Int, first_frame : BOOLEAN,
     last_user_added_frame : Frames, last_added_frame : Frames,
     first_incorrect_frame : Frames, last_frame_requested : Frames,
     frame_delay : Nat, inputs : [Slots -> GameInput], prediction : GameInput]

InitQueue ==
    [head |-> 0, tail |-> 0, length |-> 0, first_frame |-> TRUE,
     last_user_added_frame |-> NullFrame, last_added_frame |-> NullFrame,
     first_incorrect_frame |-> NullFrame, last_frame_requested |-> NullFrame,
     frame_delay |-> 0,
     inputs |-> [s \in Slots |-> [frame |-> 0, bits |-> NoBits]],
     prediction |-> [frame |-> NullFrame, bits |-> NoBits]]

PreviousSlot(s)  == IF s = 0 THEN INPUT_QUEUE_LENGTH - 1 ELSE s - 1
LastInput(q)     == q.inputs[PreviousSlot(q.head)]
TailFrame(q)     == q.inputs[q.tail].frame
Predicting(q)    == q.prediction.frame # NullFrame
SetFrameDelay(q, delay) == [q EXCEPT !.frame_delay = delay]

-----------------------------------------------------------------------------
(* AddInput: the input of user frame `frame' lands on TargetFrame, unless    *)
(* a lowered delay leaves it no room and it is dropped; after a raised delay *)
(* the frames before it are filled with copies of the last input.            *)

ExpectedFrame(q) == IF q.first_frame THEN 0 ELSE LastInput(q).frame + 1

(* Mutant: an input that lands exactly on the expected frame is dropped.     *)
TargetFrameStrict(q, frame) ==
    IF ExpectedFrame(q) >= frame + q.frame_delay THEN NullFrame
    ELSE frame + q.frame_delay

TargetFrame(q, frame) ==
    IF ExpectedFrame(q) > frame + q.frame_delay THEN NullFrame
    ELSE frame + q.frame_delay

(* The input that lands on frame f of ExpectedFrame(q) .. target.            *)
DelayedBits(q, bits, target, f) ==
    IF f = target THEN bits ELSE LastInput(q).bits

(* Mutant: a later misprediction replaces the one that is already known.     *)
LatestIncorrectOf(q, bits, target) ==
    IF Predicting(q) /\ DelayedBits(q, bits, target, target) # q.prediction.bits
    THEN target ELSE q.first_incorrect_frame

(* The first of the new frames that contradicts the prediction.  A frame     *)
(* after the last one requested was never predicted, so it is not compared.  *)
FirstIncorrectOf(q, bits, target) ==
    LET first == ExpectedFrame(q)
        Wrong(f) == DelayedBits(q, bits, target, f) # q.prediction.bits
    IN  IF ~Predicting(q) \/ q.first_incorrect_frame # NullFrame
        THEN q.first_incorrect_frame
        ELSE IF Wrong(first) THEN first
        ELSE IF /\ Wrong(target)
                /\ q.last_frame_requested \notin first .. target - 1
             THEN target
        ELSE NullFrame

(* The loop of AdvanceQueueHead and the final AddDelayedInputToQueue, as one *)
(* step over the frames ExpectedFrame(q) .. target.                          *)
AddDelayedInputs(q, bits, target) ==
    LET first     == ExpectedFrame(q)
        count     == target - first + 1
        offset(s) == (s - q.head) % INPUT_QUEUE_LENGTH
        incorrect == FirstIncorrectOf(q, bits, target)
    IN  [q EXCEPT
           !.inputs = [s \in Slots |->
               IF offset(s) < count
               THEN [frame |-> first + offset(s),
                     bits  |-> DelayedBits(q, bits, target, first + offset(s))]
               ELSE q.inputs[s]],
           !.head = (@ + count) % INPUT_QUEUE_LENGTH,
           !.length = @ + count,
           !.first_frame = FALSE,
           !.last_added_frame = target,
           !.first_incorrect_frame = incorrect,
           !.prediction =
               [frame |-> IF \/ ~Predicting(q)
                             \/ /\ incorrect = NullFrame
                                /\ q.last_frame_requested \in first .. target
                          THEN NullFrame
                          ELSE target + 1,
                bits  |-> @.bits]]

(* Mutant: the head moves by one slot after a raised delay filled several.   *)
AddInputOneSlot(q, frame, bits) ==
    LET target == TargetFrame(q, frame)
        user   == [q EXCEPT !.last_user_added_frame = frame]
    IN  IF target = NullFrame THEN user
        ELSE [AddDelayedInputs(user, bits, target) EXCEPT
                !.head = (q.head + 1) % INPUT_QUEUE_LENGTH]

AddInput(q, frame, bits) ==
    LET target == TargetFrame(q, frame)
        user   == [q EXCEPT !.last_user_added_frame = frame]
    IN  IF target = NullFrame THEN user ELSE AddDelayedInputs(user, bits, target)

AddInputAsserts(q, frame) ==
    /\ \/ q.last_user_added_frame = NullFrame
       \/ frame = q.last_user_added_frame + 1
    /\ TargetFrame(q, frame) # NullFrame =>
         /\ \/ q.last_added_frame = NullFrame
            \/ ExpectedFrame(q) = q.last_added_frame + 1
         /\ Predicting(q) => ExpectedFrame(q) = q.prediction.frame
         /\ q.length + TargetFrame(q, frame) - ExpectedFrame(q) + 1
              <= INPUT_QUEUE_LENGTH

-----------------------------------------------------------------------------
(* GetInput: the confirmed input when the queue has it, else the prediction, *)
(* which repeats the last input and is kept until a later input refutes it.  *)

InQueue(q, f) == f - TailFrame(q) < q.length

GetInput(q, f) ==
    LET base == IF f = 0 \/ q.last_added_frame = NullFrame
                THEN [frame |-> q.prediction.frame, bits |-> NoBits]
                ELSE LastInput(q)
        start == ~Predicting(q) /\ ~InQueue(q, f)
    IN  [q EXCEPT !.last_frame_requested = f,
                  !.prediction = IF start
                                 THEN [frame |-> base.frame + 1,
                                       bits  |-> base.bits]
                                 ELSE @]

(* Mutant: the offset counts from the slot after the tail.                   *)
GetInputBitsNextSlot(q, f) ==
    IF ~Predicting(q) /\ InQueue(q, f)
    THEN q.inputs[(f - TailFrame(q) + q.tail + 1) % INPUT_QUEUE_LENGTH].bits
    ELSE GetInput(q, f).prediction.bits

GetInputBits(q, f) ==
    IF ~Predicting(q) /\ InQueue(q, f)
    THEN q.inputs[(f - TailFrame(q) + q.tail) % INPUT_QUEUE_LENGTH].bits
    ELSE GetInput(q, f).prediction.bits

GetInputAsserts(q, f) ==
    /\ q.first_incorrect_frame = NullFrame
    /\ f >= TailFrame(q)
    /\ ~Predicting(q) /\ InQueue(q, f) =>
         q.inputs[(f - TailFrame(q) + q.tail) % INPUT_QUEUE_LENGTH].frame = f
    /\ Predicting(q) \/ ~InQueue(q, f) => GetInput(q, f).prediction.frame >= 0

(* GetConfirmedInput fills its output only when the slot holds the frame;    *)
(* otherwise the caller is left with what its variable held before.          *)
HasConfirmed(q, f) == q.inputs[f % INPUT_QUEUE_LENGTH].frame = f
ConfirmedBits(q, f) == q.inputs[f % INPUT_QUEUE_LENGTH].bits
GetConfirmedInputAsserts(q, f) ==
    q.first_incorrect_frame = NullFrame \/ f < q.first_incorrect_frame

-----------------------------------------------------------------------------
(* DiscardConfirmedFrames moves the tail past frame f, never past the last   *)
(* frame requested; emptying the queue leaves length as it was.              *)

(* Mutant: frames that were not requested yet are discarded too.             *)
DiscardUnrequested(q, f) == f

DiscardTo(q, f) ==
    IF q.last_frame_requested # NullFrame /\ q.last_frame_requested < f
    THEN q.last_frame_requested ELSE f

(* Mutant: the tail runs past the end of the ring.                           *)
DiscardWithoutWrap(q, f) ==
    LET to     == DiscardTo(q, f)
        offset == to - TailFrame(q) + 1
    IN  IF to >= q.last_added_frame THEN [q EXCEPT !.tail = q.head]
        ELSE [q EXCEPT !.tail = @ + offset, !.length = @ - offset]

DiscardConfirmedFrames(q, f) ==
    LET to     == DiscardTo(q, f)
        offset == to - TailFrame(q) + 1
    IN  IF to >= q.last_added_frame THEN [q EXCEPT !.tail = q.head]
        ELSE [q EXCEPT !.tail = (@ + offset) % INPUT_QUEUE_LENGTH,
                       !.length = @ - offset]

DiscardConfirmedFramesAsserts(q, f) ==
    LET to == DiscardTo(q, f)
    IN  /\ f >= 0
        /\ to < q.last_added_frame => to - TailFrame(q) + 1 >= 0
        /\ DiscardConfirmedFrames(q, f).length >= 0

(* Mutant: the last frame requested survives the rollback.                   *)
ResetKeepsRequest(q) ==
    [q EXCEPT !.prediction = [frame |-> NullFrame, bits |-> @.bits],
              !.first_incorrect_frame = NullFrame]

ResetPrediction(q) ==
    [q EXCEPT !.prediction = [frame |-> NullFrame, bits |-> @.bits],
              !.first_incorrect_frame = NullFrame,
              !.last_frame_requested = NullFrame]

ResetPredictionAsserts(q, f) ==
    q.first_incorrect_frame = NullFrame \/ f <= q.first_incorrect_frame
=============================================================================
