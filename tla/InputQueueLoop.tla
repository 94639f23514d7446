---------------------------- MODULE InputQueueLoop ----------------------------
(***************************************************************************)
(* AddInput statement by statement, with the padding loop of                *)
(* AdvanceQueueHead as a recursion: the reference InputQueue!AddInput, which *)
(* adds all the frames in one step, is compared with.                       *)
(***************************************************************************)
EXTENDS InputQueue

Enqueue(q, frame, bits) ==
    [q EXCEPT !.inputs[q.head] = [frame |-> frame, bits |-> bits],
              !.head = (@ + 1) % INPUT_QUEUE_LENGTH,
              !.length = @ + 1,
              !.first_frame = FALSE,
              !.last_added_frame = frame]

CheckPrediction(q, frame, bits) ==
    LET wrong == /\ q.first_incorrect_frame = NullFrame
                 /\ q.prediction.bits # bits
        incorrect == IF wrong THEN frame ELSE q.first_incorrect_frame
        correct   == /\ q.prediction.frame = q.last_frame_requested
                     /\ incorrect = NullFrame
    IN  IF q.prediction.frame = NullFrame THEN q
        ELSE [q EXCEPT !.first_incorrect_frame = incorrect,
                       !.prediction.frame = IF correct THEN NullFrame ELSE @ + 1]

AddDelayedInputToQueue(q, frame, bits) ==
    CheckPrediction(Enqueue(q, frame, bits), frame, bits)

RECURSIVE PadUpTo(_, _, _)
PadUpTo(q, expected, frame) ==
    IF expected < frame
    THEN PadUpTo(AddDelayedInputToQueue(q, expected, LastInput(q).bits),
                 expected + 1, frame)
    ELSE q

LoopAddInput(q, frame, bits) ==
    LET user     == [q EXCEPT !.last_user_added_frame = frame]
        expected == ExpectedFrame(q)
        delayed  == frame + q.frame_delay
    IN  IF expected > delayed THEN user
        ELSE AddDelayedInputToQueue(PadUpTo(user, expected, delayed), delayed, bits)
=============================================================================
