------------------------------ MODULE Spectator ------------------------------
(***************************************************************************)
(* A spectator's session (backends/spectator.cpp) and the host that feeds   *)
(* it the confirmed frames of a game (Peer2PeerBackend::DoPoll).            *)
(*                                                                         *)
(* A Pump reads any number of packets (Receive), polls the timers and then  *)
(* has the events handled (EndPump); the spectator acknowledges when it     *)
(* handles an input.  When the host's players confirm frames is not         *)
(* modelled here (Peer2Peer does): a frame may be confirmed at any time.    *)
(* The host stands for all players in the status it reports.                *)
(*                                                                         *)
(* A frame is its inputs.  The disconnect flags, which the host drops       *)
(* (p2p.cpp:136) and SyncInput returns as 0 (spectator.cpp:82), are left    *)
(* out.                                                                     *)
(***************************************************************************)
EXTENDS Link

CONSTANTS
    SPECTATOR_FRAME_BUFFER_SIZE,    \* 64 in the code
    DueTimers,              \* the sets of timers of an end that may run out together
    Feed                    \* the inputs of the frames the host confirms

ASSUME SpectatorAssumption ==
    /\ Players = {"host", "spectator"}
    /\ SPECTATOR_FRAME_BUFFER_SIZE \in Nat \ {0}
    /\ Feed \in Seq(Bits)

VARIABLES
    synchronizing,          \* the _synchronizing of each end
    fed,                    \* history: the frames the host has pushed to its spectators
    inputs,                 \* the spectator's _inputs
    played,                 \* history: the inputs SyncInput has returned, frame by frame
    exited,                 \* which processes have failed an ASSERT
    late                    \* history: an end read a handshake packet that was overtaken

vars == <<endpoint, network, synchronizing, fed, inputs, played, exited, late>>

next_input_to_send == Len(played)
Slot(frame) == frame % SPECTATOR_FRAME_BUFFER_SIZE

Init ==
    /\ \E random \in [Players -> Randoms] : InitLink(Started(random, {"host"}))
    /\ synchronizing = [p \in Players |-> TRUE]
    /\ fed = <<>>
    /\ inputs = [n \in 0 .. SPECTATOR_FRAME_BUFFER_SIZE - 1 |->
                    [frame |-> NullFrame, bits |-> {}]]
    /\ played = <<>>
    /\ exited = [p \in Players |-> FALSE]
    /\ late = [p \in Players |-> FALSE]

Exit(p) ==
    /\ exited' = [exited EXCEPT ![p] = TRUE]
    /\ UNCHANGED <<endpoint, network, synchronizing, fed, inputs, played, late>>
-----------------------------------------------------------------------------
(* What a packet of p reports: the spectator's endpoint has no connect       *)
(* status and sends zeros.                                                   *)
Status(p, frames) ==
    [i \in {"host"} |->
        [disconnected |-> FALSE,
         last_frame   |-> IF p = "host" THEN Len(frames) - 1 ELSE 0]]

(* DoPoll's loop pushes one confirmed frame to the spectator.                *)
PushFrame ==
    LET input == [frame |-> Len(fed), bits |-> Feed[Len(fed) + 1]]
        host  == endpoint["host"]
    IN  /\ ~exited["host"] /\ ~synchronizing["host"] /\ host.events = <<>>
        /\ Len(fed) < Len(Feed)
        /\ IF SendInputAsserts(host)
           THEN /\ fed' = Append(fed, input)
                /\ Becomes("host", SendInput(host, input, Status("host", fed')))
                /\ UNCHANGED <<synchronizing, inputs, played, exited, late>>
           ELSE Exit("host")

(* Pump reads a packet.                                                      *)
Receive(p) ==
    \E m \in network[p], random \in Randoms :
        /\ ~exited[p] /\ endpoint[p].open
        /\ IF OnMsgAsserts(endpoint[p], m, random)
           THEN /\ Becomes(p, OnMsg(endpoint[p], m, random))
                /\ late' = [late EXCEPT ![p] = @ \/ Overtaken(endpoint[p], m)]
                /\ UNCHANGED <<synchronizing, fed, inputs, played, exited>>
           ELSE Exit(p)

(* Mutant: an input goes to the slot of the frame played next.               *)
StoreAtNext(frames, input) == [frames EXCEPT ![Slot(next_input_to_send)] = input]

Store(frames, input) == [frames EXCEPT ![Slot(input.frame)] = input]

(* OnUdpProtocolEvent of the spectator; OnUdpProtocolSpectatorEvent of the   *)
(* host, whose CheckInitialSync lets the game start.                         *)
OnEvent(p, s, event) ==
    CASE event.type = "synchronized" -> [s EXCEPT !.synchronizing = FALSE]
      [] event.type = "input" /\ p = "spectator" ->
            [s EXCEPT !.u = SendInputAck(@), !.inputs = Store(@, event.input)]
      [] event.type = "disconnected" /\ p = "host" -> [s EXCEPT !.u = Disconnect(@)]
      [] OTHER -> s

(* Pump polls the timers, and DoPoll handles the events.                     *)
EndPump(p, due, random) ==
    LET u == OnLoopPoll(endpoint[p], due, Status(p, fed), random)
        done[n \in 0 .. Len(u.events)] ==
            IF n = 0 THEN [u |-> TakeEvents(u), inputs |-> inputs,
                           synchronizing |-> synchronizing[p]]
            ELSE OnEvent(p, done[n - 1], u.events[n])
        last == done[Len(u.events)]
    IN  /\ ~exited[p]
        /\ u # endpoint[p] \/ u.events # <<>>
        /\ IF Holds(u.events) /\ SendPendingOutputAsserts(endpoint[p])
           THEN /\ Becomes(p, last.u)
                /\ inputs' = last.inputs
                /\ synchronizing' = [synchronizing EXCEPT ![p] = last.synchronizing]
                /\ UNCHANGED <<fed, played, exited, late>>
           ELSE Exit(p)

(* Mutant: a frame that is gone is skipped.                                  *)
OutcomeSkips(input) ==
    IF input.frame < next_input_to_send THEN "prediction_threshold" ELSE "ok"

(* What SyncInput returns when this is in the slot of the next frame.        *)
Outcome(input) ==
    IF input.frame < next_input_to_send THEN "prediction_threshold"
    ELSE IF input.frame > next_input_to_send THEN "general_failure"
    ELSE "ok"

(* An input that is returned (without the flags of the players who left).    *)
SyncInput ==
    LET input == inputs[Slot(next_input_to_send)]
    IN  /\ ~exited["spectator"] /\ ~synchronizing["spectator"]
        /\ endpoint["spectator"].events = <<>>
        /\ Outcome(input) = "ok"
        /\ played' = Append(played, input)
        /\ UNCHANGED <<endpoint, network, synchronizing, fed, inputs, exited, late>>

Next ==
    \/ PushFrame
    \/ SyncInput
    \/ \E p \in Players :
        \/ Receive(p)
        \/ \E due \in DueTimers[p] \cup {{}}, random \in Randoms : EndPump(p, due, random)

Spec == Init /\ [][Next]_vars
-----------------------------------------------------------------------------
GameInputs == [frame : {NullFrame} \cup 0 .. Len(Feed) - 1, bits : Bits]

TypeOK ==
    /\ LinkTypeOK
    /\ Range(inputs) \subseteq GameInputs
    /\ ToSet(fed) \subseteq GameInputs
    /\ {synchronizing, exited, late} \subseteq [Players -> BOOLEAN]

(* The inputs the spectator plays are those the host pushed, frame by frame: *)
(* it skips no frame and repeats none, whatever packets are lost or late and *)
(* however far it is behind (SyncInput, OnUdpProtocolEvent,                  *)
(* SendPendingOutput, OnInput).  This is not all that the host's game        *)
(* depends on: which players have left the spectator is not told.            *)
PlaysTheFeed == IsPrefix(played, fed)

(* What SyncInput says is so: it waits for a frame if and only if it has not *)
(* come, and fails, from then on for ever, if and only if the spectator is a *)
(* whole buffer behind what it has handled.                                  *)
LastHandled ==
    LET viewer == endpoint["spectator"]
        queued == {n \in DOMAIN viewer.events : viewer.events[n].type = "input"}
    IN  viewer.last_received.frame - Cardinality(queued)
OutcomeIsRight ==
    LET outcome == Outcome(inputs[Slot(next_input_to_send)])
        ahead   == LastHandled - next_input_to_send
    IN  /\ outcome = "prediction_threshold" <=> ahead < 0
        /\ outcome = "general_failure" <=> ahead >= SPECTATOR_FRAME_BUFFER_SIZE

(* As long as the spectator is connected, the host keeps every frame it has  *)
(* not handled, and sends it again: an acknowledgement, which is for several *)
(* frames and may come late or twice, never drops too much (OnInputAck).     *)
FeedIsKept ==
    endpoint["host"].state = "running" =>
        \A n \in DOMAIN fed :
            fed[n].frame <= LastHandled \/ fed[n] \in ToSet(endpoint["host"].pending)

(* Once it has handled an input, the spectator's process is not ended by its *)
(* event queue, however many packets a Pump reads: the frames the host sends *)
(* before it is acknowledged fit in, together with a disconnect.  The first  *)
(* frames do not, when they come with the last events of the handshake or a  *)
(* disconnect; nor do old packets, taken after a handshake packet came late  *)
(* (QueueEvent, OnInput, SendInput, and udp_proto.cpp:321).                  *)
EndsOnlyAtTheStart ==
    exited["spectator"] => late["spectator"] \/ LastHandled = NullFrame

(* udp_proto.cpp:114: "This queue may fill up for spectators who do not ack  *)
(* input packets in a timely manner": the host is still connected to the     *)
(* spectator and has had to keep a whole ring of frames, all it pushed since *)
(* the one before the last that was acknowledged.  A spectator that was      *)
(* disconnected in time fills nothing up, and neither packets in any order   *)
(* nor timers end the host (SendInput, OnInputAck, QueueEvent).              *)
EndsOnlyUnacknowledged ==
    exited["host"] =>
        /\ endpoint["host"].state = "running"
        /\ Len(fed) - 1 - endpoint["host"].last_acked.frame = RING_SIZE - 1

(* The rings of an endpoint have no limit but the ASSERT that ends the       *)
(* process (ring_buffer.h:39): these are the only ways to get there.         *)
EndsOnlyOverrun == EndsOnlyAtTheStart /\ EndsOnlyUnacknowledged
=============================================================================
