----------------------------- MODULE MCTwoPlayers -----------------------------
(* Two players.  The local player always makes the same input: the local      *)
(* queue is never in prediction, so only the remote inputs need to differ.    *)
EXTENDS Peer2Peer

CONSTANTS n, a

OneMoves == [i \in Players |-> IF i = LocalPlayer THEN {a} ELSE Bits]
=============================================================================
