--------------------------- MODULE InputQueueClient ---------------------------
(***************************************************************************)
(* One input queue under the calls that Sync makes on it (sync.cpp), with   *)
(* two history variables: the inputs that were added, frame by frame, and   *)
(* the inputs the simulation received.  The guards are the queue's contract *)
(* as Sync keeps it for a connected player:                                 *)
(*   - an input is added and frames are discarded only when the last frame  *)
(*     requested is the last frame simulated (Settled): a rollback requests *)
(*     its frames again before Sync turns to new inputs;                    *)
(*   - a frame is requested only without a known misprediction;             *)
(*   - a rollback goes back to a frame that is still in the queue, not      *)
(*     after the first incorrect one;                                       *)
(*   - what is discarded has arrived, the newest input is kept, and at      *)
(*     least one frame has been simulated.                                  *)
(***************************************************************************)
EXTENDS InputQueue

CONSTANTS FrameDelays,      \* values of the frame delay, local or the peer's
          MaxFrame          \* bound: frames 0 .. MaxFrame - 1

ASSUME ClientAssumption ==
    /\ FrameDelays \subseteq Nat /\ 0 \in FrameDelays
    /\ MaxFrame \in Nat

VARIABLES q,                \* the queue
          framecount,       \* Sync::_framecount
          log,              \* history: input added for each frame
          played            \* history: input returned for each frame

vars == <<q, framecount, log, played>>

Arrived == q.last_added_frame + 1
Floor   == Arrived - q.length             \* the oldest frame not discarded
Settled == q.last_frame_requested = framecount - 1

Timeline == INSTANCE InputTimeline WITH arrived <- Arrived

TypeOK ==
    /\ q \in QueueType
    /\ framecount \in Nat
    /\ log \in [0 .. Arrived - 1 -> Bits]
    /\ played \in [0 .. framecount - 1 -> Bits]

Init ==
    /\ q = InitQueue
    /\ framecount = 0
    /\ log = [f \in {} |-> NoBits]
    /\ played = [f \in {} |-> NoBits]

(* A remote player's first input carries the frame delay of its peer.        *)
NextUserFrames ==
    IF q.last_user_added_frame = NullFrame THEN FrameDelays
    ELSE {q.last_user_added_frame + 1}

CanAdd(frame) ==
    /\ Settled
    /\ frame \in NextUserFrames
    /\ frame + q.frame_delay < MaxFrame
    /\ TargetFrame(q, frame) # NullFrame =>
         q.length + TargetFrame(q, frame) - ExpectedFrame(q) + 1
           <= INPUT_QUEUE_LENGTH

Add(frame, bits) ==
    LET target == TargetFrame(q, frame)
    IN  /\ CanAdd(frame)
        /\ q' = AddInput(q, frame, bits)
        /\ log' = IF target = NullFrame THEN log
                  ELSE [f \in 0 .. target |->
                          IF f <= q.last_added_frame THEN log[f]
                          ELSE DelayedBits(q, bits, target, f)]
        /\ UNCHANGED <<framecount, played>>

CanRequest == q.first_incorrect_frame = NullFrame

(* SynchronizeInputs and the IncrementFrame that follows it.                 *)
Request ==
    /\ CanRequest
    /\ framecount < MaxFrame
    /\ q' = GetInput(q, framecount)
    /\ played' = [f \in 0 .. framecount |->
                    IF f < framecount THEN played[f]
                    ELSE GetInputBits(q, framecount)]
    /\ framecount' = framecount + 1
    /\ UNCHANGED log

CanReset(to) ==
    /\ to \in Floor .. framecount - 1
    /\ q.first_incorrect_frame # NullFrame => to <= q.first_incorrect_frame

(* AdjustSimulation up to its replay.                                        *)
Rollback(to) ==
    /\ CanReset(to)
    /\ q' = ResetPrediction(q)
    /\ framecount' = to
    /\ played' = [f \in 0 .. to - 1 |-> played[f]]
    /\ UNCHANGED log

CanDiscard(f) ==
    /\ Settled /\ framecount > 0
    /\ q.first_incorrect_frame = NullFrame
    /\ f \in 0 .. q.last_added_frame - 1
    /\ f >= Floor - 1

Discard(f) ==
    /\ CanDiscard(f)
    /\ q' = DiscardConfirmedFrames(q, f)
    /\ UNCHANGED <<framecount, log, played>>

ChangeDelay(delay) ==
    /\ q' = SetFrameDelay(q, delay)
    /\ UNCHANGED <<framecount, log, played>>

Next ==
    \/ \E frame \in 0 .. MaxFrame, bits \in Bits : Add(frame, bits)
    \/ Request
    \/ \E to \in 0 .. framecount - 1 : Rollback(to)
    \/ \E f \in 0 .. q.last_added_frame : Discard(f)
    \/ \E delay \in FrameDelays : ChangeDelay(delay)

Spec == Init /\ [][Next]_vars
-----------------------------------------------------------------------------
(* input_queue.cpp:247 marks the first frame whose prediction was wrong:     *)
(* after any interleaving of arrivals, requests, rollbacks and delay changes *)
(* _first_incorrect_frame is the least frame played with an input other than *)
(* the one that arrived, and Null exactly when there is none.  A frame that  *)
(* slips through here desynchronizes the two peers for good.                 *)
MispredictionCaught == Timeline!IsFirstMispredicted(q.first_incorrect_frame)

(* input_queue.cpp:104: every frame that arrived and was not discarded is at *)
(* the slot GetConfirmedInput looks in, with the input that was added for it *)
(* -- although the writer uses the head cursor and the reader frame mod the  *)
(* ring's length.                                                            *)
ConfirmedAvailable ==
    \A f \in Floor .. Arrived - 1 :
        HasConfirmed(q, f) /\ ConfirmedBits(q, f) = log[f]

(* The ASSERTs of the member functions end the process: none fires in a call *)
(* that keeps the contract.  The contract itself says that there is room to  *)
(* add (CanAdd), that a rollback is not past a wrong frame (CanReset) and    *)
(* that no request is made while one is known (CanRequest): what Peer2Peer   *)
(* checks of its callers (OtherAssertsHold).  The slots and frames of the    *)
(* ring, and what is discarded or predicted, are for the queue to keep right.*)
AssertsHold ==
    /\ \A frame \in NextUserFrames : CanAdd(frame) => AddInputAsserts(q, frame)
    /\ CanRequest => GetInputAsserts(q, framecount)
    /\ \A to \in 0 .. framecount - 1 :
           CanReset(to) => ResetPredictionAsserts(q, to)
    /\ \A f \in 0 .. q.last_added_frame :
           CanDiscard(f) => DiscardConfirmedFramesAsserts(q, f)

(* The queue, with its ring of INPUT_QUEUE_LENGTH slots and the prediction   *)
(* it keeps, behaves as the unbounded log of InputTimeline.                  *)
ImplementsTimeline == Timeline!Spec
-----------------------------------------------------------------------------
(* The inductive invariant.                                                  *)

(* The frames of the ring stand at their number modulo its length.           *)
RingInv ==
    /\ q.head = Arrived % INPUT_QUEUE_LENGTH
    /\ q.tail = Floor % INPUT_QUEUE_LENGTH
    /\ q.length \in 0 .. INPUT_QUEUE_LENGTH
    /\ q.length <= Arrived
    /\ q.length = 0 <=> Arrived = 0
    /\ q.first_frame <=> Arrived = 0
    /\ Arrived = 0 => q.inputs = InitQueue.inputs
    /\ ConfirmedAvailable

(* Frames beyond the log were played with the input a prediction started now *)
(* would give, and the queue is in prediction mode for the next frame to     *)
(* arrive exactly when a frame beyond the log was requested last.            *)
PredictionInv ==
    /\ Floor <= framecount
    /\ q.last_frame_requested \in {NullFrame, framecount - 1}
    /\ q.first_incorrect_frame = NullFrame =>
         /\ \A f \in Arrived .. framecount - 1 : played[f] = Timeline!LastBits
         /\ IF q.last_frame_requested >= Arrived
            THEN q.prediction = [frame |-> Arrived, bits |-> Timeline!LastBits]
            ELSE ~Predicting(q)
    /\ q.first_incorrect_frame # NullFrame =>
         /\ q.prediction.frame = Arrived
         /\ q.last_frame_requested = framecount - 1
         /\ q.first_incorrect_frame >= Floor

IInv == TypeOK /\ RingInv /\ PredictionInv /\ MispredictionCaught
=============================================================================
