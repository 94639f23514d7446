----------------------------- MODULE MCSpectator ------------------------------
(* A host with one spectator, from the handshake on.                         *)
EXTENDS Spectator

MCFeed == <<{1}, {}, {1}, {1}>>
MCMagic == [p \in Players |-> IF p = "host" THEN 1 ELSE 2]
MCUnanswered == [p \in Players |-> 0]
MCMaxPackets == [p \in Players |-> IF p = "host" THEN 6 ELSE 5]
MCMaxInFlight == [p \in Players |-> IF p = "host" THEN 1 ELSE 2]
MCTimers == [p \in Players |-> IF p = "host" THEN {{"retry"}, {"timeout"}} ELSE {{"retry"}}]
=============================================================================
