------------------------------- MODULE Session -------------------------------
(* Two players and the parameters of their session.                          *)
EXTENDS Integers, Connection

CONSTANTS
    FrameDelay,             \* each player's frame delay
    MAX_PREDICTION_FRAMES   \* 8 in the code

ASSUME SessionAssumption ==
    /\ FrameDelay \in [Players -> Nat]
    /\ MAX_PREDICTION_FRAMES \in Nat \ {0}
=============================================================================
