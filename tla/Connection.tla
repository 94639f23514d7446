----------------------------- MODULE Connection ------------------------------
(* The two ends of a connection: two players, or a host and its spectator.   *)
CONSTANT Players

ASSUME PlayersAssumption == \E a, b \in Players : a # b /\ Players = {a, b}

PeerOf(p) == CHOOSE q \in Players : q # p
=============================================================================
