------------------------------- MODULE MCGossip -------------------------------
(* Three players, of whom the third crashes.                                 *)
EXTENDS Gossip

MCMaxFrames == 0 :> 3 @@ 1 :> 2 @@ 2 :> 2
=============================================================================
