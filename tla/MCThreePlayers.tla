---------------------------- MODULE MCThreePlayers ----------------------------
(* Three players, whose polls compare what every peer says of every player.   *)
(* Everybody makes one input, which differs from the first prediction.        *)
EXTENDS Peer2Peer

CONSTANTS n, a

Same == [i \in Players |-> {a}]

(* Bound: player 1 stays, and player 2 reports on player 1 all at once.       *)
OnlyPlayer2Leaves ==
    /\ \A m \in 1 .. Len(inbox'[1]) : inbox'[1][m].type # "disconnected"
    /\ ~claims'[2][1].disconnected
    /\ claims'[2][1].last_frame \in {NullFrame, MaxFrame - 1}
=============================================================================
