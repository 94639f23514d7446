----------------------------- MODULE MCEndpoints -----------------------------
(* Two players, one button; the constants that a .cfg cannot write.          *)
EXTENDS Endpoints, InputCodec, TimeSync

MCMagic == [p \in Players |-> IF p = "a" THEN 1 ELSE 2]
MCUnanswered == [p \in Players |-> IF p = "a" THEN 9 ELSE 10]
MCFrameDelay == [p \in Players |-> IF p = "a" THEN 1 ELSE 0]
MCMaxFrames == [p \in Players |-> IF p = "a" THEN 3 ELSE 2]
MCMaxPackets == [p \in Players |-> IF p = "a" THEN 5 ELSE 4]
MCMaxInFlight == [p \in Players |-> IF p = "a" THEN 1 ELSE 3]
MCAdvantages == {-4, -1, 0, 1, 2, 5}
MCRetries == [p \in Players |-> {{"retry"}}]
-----------------------------------------------------------------------------
(* What a packet on the way carries, and every packet of at most two frames,  *)
(* is read as it was written: no frame boundary is taken for a button or the  *)
(* other way round, also when nothing changes or everything does              *)
(* (SendPendingOutput, OnInput, bitvector.cpp).                              *)
PacketBitsRoundTrip ==
    /\ ShortPacketsRoundTrip
    /\ \A p \in Players : \A m \in InputPackets(p) : RoundTrips(m.body.frames)

(* The frames a player sends, the first of which its frame delay decides, say *)
(* when it waits: a recommended wait closes the rift of the last window and   *)
(* does not open one the other way, so two players who see the same rift are  *)
(* not both told to wait for each other (advance_frame,                       *)
(* recommend_frame_wait_duration).                                           *)
WaitClosesRift ==
    \A p \in Players : sent[p] # <<>> => WaitsFrom[sent[p][1].frame]
=============================================================================
