----------------------------- MODULE MCInputQueue -----------------------------
(* A ring of four slots under every legal sequence of calls over six frames. *)
EXTENDS InputQueueClient, InputQueueLoop

(* input_queue.cpp:288-304: adding the padding frames of a raised delay in   *)
(* one step gives the queue that the loop leaves, misprediction and          *)
(* prediction mode included, whatever input comes next.                      *)
AddInputIsTheLoop ==
    \A frame \in NextUserFrames, bits \in Bits :
        CanAdd(frame) => AddInput(q, frame, bits) = LoopAddInput(q, frame, bits)
=============================================================================
