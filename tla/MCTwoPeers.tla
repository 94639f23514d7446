----------------------------- MODULE MCTwoPeers ------------------------------
(* Two players from the handshake on, who may be interrupted; b may leave.   *)
EXTENDS Endpoints

MCMagic == [p \in Players |-> IF p = "a" THEN 1 ELSE 2]
MCUnanswered == [p \in Players |-> 0]
MCFrameDelay == [p \in Players |-> IF p = "a" THEN 1 ELSE 0]
MCMaxFrames == [p \in Players |-> 1]
MCMaxPackets == [p \in Players |-> SEQUENCE_NUMBERS]
MCMaxInFlight == [p \in Players |-> 1]
MCTimers == [p \in Players |->
    IF p = "a" THEN {{"retry"}, {"interrupted"}, {"interrupted", "timeout"}}
    ELSE {{"retry"}, {"shutdown"}}]
=============================================================================
