------------------------------ MODULE InputFlow ------------------------------
(***************************************************************************)
(* The frame numbers of the inputs of two players, and nothing of what is   *)
(* in them: how far each has sent, received and had acknowledged, when      *)
(* every Input packet carries all pending frames and the number of the last *)
(* frame received, and the prediction barrier holds back a player who has   *)
(* too few frames of the other.  Endpoints implements it; what it says of   *)
(* the pending output is proved in InputFlowProofs.                         *)
(***************************************************************************)
EXTENDS Session

VARIABLES
    count,      \* count[p]: inputs p has sent, which is also its frame counter
    got,        \* got[p]: the last frame p has received from its peer
    first,      \* first[p]: the first frame in p's pending output
    flight      \* flight[p]: the Input packets on the way to p

vars == <<count, got, first, flight>>

NullFrame == -1
Max2(a, b) == IF a > b THEN a ELSE b
Min2(a, b) == IF a < b THEN a ELSE b

(* One packet: its last frame, or NullFrame, and its ack_frame.              *)
Frames == Nat \cup {NullFrame}
Packets == [last : Frames, ack : Frames]

LastSent(p) == IF count[p] = 0 THEN NullFrame ELSE count[p] - 1 + FrameDelay[p]
Pending(p) == LastSent(p) - first[p] + 1

Init ==
    /\ count = [p \in Players |-> 0]
    /\ got = [p \in Players |-> NullFrame]
    /\ first = FrameDelay
    /\ flight = [p \in Players |-> {}]

(* Any packets may get lost, and those that have been read may come again.   *)
Transmit(p, packets) ==
    \E kept \in SUBSET (flight[PeerOf(p)] \cup packets) :
        flight' = [flight EXCEPT ![PeerOf(p)] = kept]

BehindBarrier(p) ==
    \/ count[p] < MAX_PREDICTION_FRAMES
    \/ count[p] - Min2(got[p], LastSent(p)) < MAX_PREDICTION_FRAMES

Send(p) ==
    /\ BehindBarrier(p)
    /\ count' = [count EXCEPT ![p] = @ + 1]
    /\ Transmit(p, {[last |-> count[p] + FrameDelay[p], ack |-> got[p]]})
    /\ UNCHANGED <<got, first>>

Resend(p) ==
    /\ Transmit(p, {[last |-> LastSent(p), ack |-> got[p]]})
    /\ UNCHANGED <<count, got, first>>

Receive(p) ==
    /\ \E m \in flight[p] :
          /\ got' = [got EXCEPT ![p] = Max2(@, m.last)]
          /\ first' = [first EXCEPT ![p] = Max2(@, m.ack)]
    /\ Transmit(p, {})
    /\ UNCHANGED count

Next == \E p \in Players : Send(p) \/ Resend(p) \/ Receive(p)

Spec == Init /\ [][Next]_vars
-----------------------------------------------------------------------------
TypeOK ==
    /\ count \in [Players -> Nat]
    /\ got \in [Players -> Frames]
    /\ first \in [Players -> Nat]
    /\ flight \in [Players -> SUBSET Packets]

(* A frame leaves the pending output only after the other player received it *)
(* and the frame after it (OnInput and OnInputAck drop what is older than    *)
(* the acknowledged frame).                                                  *)
NothingLost ==
    \A p \in Players : first[p] <= Max2(got[PeerOf(p)], FrameDelay[p])

(* The prediction barrier of both players bounds the pending output, so that *)
(* its ring of 64 is never full (SendInput, AddLocalInput): with the 8       *)
(* prediction frames of the code the delays would have to add up to 49.      *)
PendingBounded ==
    \A p \in Players :
        Pending(p) <= 2 * MAX_PREDICTION_FRAMES + FrameDelay[p] + FrameDelay[PeerOf(p)] - 1

-----------------------------------------------------------------------------
(* The inductive invariant.                                                  *)

FirstOK == \A p \in Players : first[p] >= FrameDelay[p]

Received == \A p \in Players : got[p] <= LastSent(PeerOf(p))

(* A player is at most the barrier ahead of what it has received.            *)
Ahead ==
    \A p \in Players :
        \/ count[p] <= MAX_PREDICTION_FRAMES
        \/ got[p] >= count[p] - MAX_PREDICTION_FRAMES

(* So a packet acknowledges the frames its sender needed for its last one,   *)
Acknowledges(q, last, ack) ==
    \/ last - FrameDelay[q] < MAX_PREDICTION_FRAMES
    \/ ack >= last - FrameDelay[q] - MAX_PREDICTION_FRAMES + 1

InFlight ==
    \A p \in Players : \A m \in flight[p] :
        /\ m.last <= LastSent(PeerOf(p))
        /\ m.ack <= got[PeerOf(p)]
        /\ Acknowledges(PeerOf(p), m.last, m.ack)

(* and who received the frame has heard the acknowledgement as well.         *)
Heard == \A p \in Players : Acknowledges(PeerOf(p), got[p], first[p])

IInv == TypeOK /\ NothingLost /\ FirstOK /\ Received /\ Ahead /\ InFlight /\ Heard
=============================================================================
