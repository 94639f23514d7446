------------------------------ MODULE Endpoints ------------------------------
(***************************************************************************)
(* Two players connected by their endpoints (UdpProtocol) over UDP: packets *)
(* are lost, duplicated and reordered.  Around the endpoint there is what   *)
(* the peer-to-peer backend does with it: DoPoll reads packets (Receive),   *)
(* polls the timers (Poll) and handles the events, and AddLocalInput sends  *)
(* the local input when the prediction barrier lets it.  What VectorWar     *)
(* shows of the other player is the last part.                              *)
(***************************************************************************)
EXTENDS Link, Session

CONSTANTS
    DueTimers,              \* the sets of timers of a player that may run out together
    Leavers,                \* the players who may leave
    Outages,                \* whether packets can fail to come for the disconnect
                            \* timeout though the other player still sends them
    MaxFrames               \* bounds: the inputs each player sends

ASSUME EndpointsAssumption ==
    /\ Leavers \subseteq Players
    /\ MaxFrames \in [Players -> Nat]

VARIABLES
    backend,    \* backend[p]: what p's backend and application keep
    sent,       \* history: the inputs p has handed to its endpoint
    exited,     \* p's process has failed an ASSERT
    late        \* history: p took a handshake packet older than others it had taken

vars == <<endpoint, backend, network, sent, exited, late>>

InitWith(initial) ==
    /\ InitLink(initial)
    /\ sent = [p \in Players |-> <<>>]
    /\ exited = [p \in Players |-> FALSE]
    /\ late = [p \in Players |-> FALSE]

Init ==
    /\ \E random \in [Players -> Randoms] : InitWith(Started(random, Players))
    /\ backend = [p \in Players |->
                     [synchronizing |-> TRUE, delivered |-> <<>>, shown |-> "Connecting"]]

(* A state both players reach when one round trip is enough and no packet of *)
(* the handshake is lost; its packets are still on their way a second time.  *)
InitRunning ==
    \E random \in Randoms :
        LET start    == Started([p \in Players |-> random], Players)
            asked    == [p \in Players |-> OnMsg(start[p], start[PeerOf(p)].out[1], random)]
            answered == [p \in Players |-> OnMsg(asked[p], asked[PeerOf(p)].out[2], random)]
        IN  /\ InitWith(answered)
            /\ backend = [p \in Players |->
                  [synchronizing |-> FALSE, delivered |-> <<>>, shown |-> "Running"]]

Exit(p) ==
    /\ exited' = [exited EXCEPT ![p] = TRUE]
    /\ UNCHANGED <<endpoint, backend, network, sent, late>>

-----------------------------------------------------------------------------
(* The backend.                                                              *)

LastFrame(inputs) == IF inputs = <<>> THEN NullFrame ELSE Last(inputs).frame

(* _local_connect_status of p.                                               *)
LocalStatus(p) ==
    [q \in Players |->
        IF q = p
        THEN [disconnected |-> FALSE, last_frame |-> LastFrame(sent[p])]
        ELSE [disconnected |-> endpoint[p].state = "disconnected",
              last_frame   |-> LastFrame(backend[p].delivered)]]

(* VectorWar's vw_on_event_callback, for the events the backend passes on.   *)
ShownAfter(shown, code) ==
    CASE code = "connected"             -> "Synchronizing"
      [] code \in {"running", "resumed"} -> "Running"
      [] code = "interrupted"           -> "Disconnecting"
      [] code = "disconnected"          -> "Disconnected"
      [] OTHER                          -> shown

Notify(s, code) == [s EXCEPT !.backend.shown = ShownAfter(@, code)]

CheckInitialSync(s) ==
    IF s.backend.synchronizing /\ s.u.state # "syncing"
    THEN Notify([s EXCEPT !.backend.synchronizing = FALSE], "running")
    ELSE s

(* DisconnectPlayer and DisconnectPlayerQueue, without the rollback.         *)
DisconnectPlayer(s) ==
    IF s.u.state = "disconnected" THEN s
    ELSE CheckInitialSync(Notify([s EXCEPT !.u = Disconnect(@)], "disconnected"))

(* OnUdpProtocolPeerEvent.                                                   *)
OnEvent(s, event) ==
    CASE event.type = "synchronized" -> CheckInitialSync(s)
      [] event.type = "disconnected" -> DisconnectPlayer(s)
      [] event.type = "input" /\ s.u.state # "disconnected" ->
            [s EXCEPT !.backend.delivered = Append(@, event.input)]
      [] OTHER -> Notify(s, event.type)

(* p's frame counter, and the barrier of Sync::AddLocalInput against the     *)
(* last frame both players have inputs for.                                  *)
FrameCount(p) == Len(sent[p])
Confirmed(p) ==
    IF backend[p].delivered = <<>> \/ sent[p] = <<>> THEN NullFrame
    ELSE Min({LastFrame(backend[p].delivered), LastFrame(sent[p])})

(* Mutant: the barrier lets one frame more pass.                             *)
BarrierOneLate(p) == FrameCount(p) - Confirmed(p) <= MAX_PREDICTION_FRAMES

BehindBarrier(p) ==
    \/ FrameCount(p) < MAX_PREDICTION_FRAMES
    \/ FrameCount(p) - Confirmed(p) < MAX_PREDICTION_FRAMES

(* AddLocalInput.  A player who has disconnected the other goes on playing   *)
(* and tells it with every input; those inputs go nowhere.                   *)
SendLocalInput(p, bits) ==
    LET input  == [frame |-> FrameCount(p) + FrameDelay[p], bits |-> bits]
        status == [LocalStatus(p) EXCEPT ![p].last_frame = input.frame]
    IN  /\ ~exited[p] /\ ~backend[p].synchronizing
        /\ IF endpoint[p].state = "running"
           THEN BehindBarrier(p) /\ FrameCount(p) < MaxFrames[p]
           ELSE bits = {}
        /\ IF SendInputAsserts(endpoint[p])
           THEN /\ Becomes(p, SendInput(endpoint[p], input, status))
                /\ sent' = IF endpoint[p].state = "running"
                           THEN [sent EXCEPT ![p] = Append(@, input)] ELSE sent
                /\ UNCHANGED <<backend, exited, late>>
           ELSE Exit(p)

(* PollUdpProtocolEvents after p's endpoint has become u.                    *)
HandleEvents(p, u) ==
    LET done[n \in 0 .. Len(u.events)] ==
            IF n = 0 THEN [u |-> TakeEvents(u), backend |-> backend[p]]
            ELSE OnEvent(done[n - 1], u.events[n])
    IN  /\ Becomes(p, done[Len(u.events)].u)
        /\ backend' = [backend EXCEPT ![p] = done[Len(u.events)].backend]

(* DoPoll when a packet has come and no timer has run out: Pump reads one    *)
(* packet, which may come again.                                             *)
ReceiveOne(p, messages) ==
    \E m \in messages, random \in Randoms :
        /\ ~exited[p] /\ endpoint[p].open
        /\ IF OnMsgAsserts(endpoint[p], m, random)
           THEN /\ HandleEvents(p, OnMsg(endpoint[p], m, random))
                /\ late' = [late EXCEPT ![p] = @ \/ Overtaken(endpoint[p], m)]
                /\ UNCHANGED <<sent, exited>>
           ELSE Exit(p)

Receive(p) == ReceiveOne(p, network[p])

Silent(p) == exited[p] \/ ~endpoint[p].open

(* DoPoll when timers have run out and no packet has come.                   *)
Poll(p, due, random) ==
    LET u == OnLoopPoll(endpoint[p], due, LocalStatus(p), random)
    IN  /\ ~exited[p] /\ u # endpoint[p]
        /\ "timeout" \in due => Outages \/ Silent(PeerOf(p))
        /\ IF Holds(u.events) /\ SendPendingOutputAsserts(endpoint[p])
           THEN HandleEvents(p, u) /\ UNCHANGED <<sent, exited, late>>
           ELSE Exit(p)

(* ggpo_disconnect_player, of either player.                                 *)
Leave(p) ==
    LET done == DisconnectPlayer([u |-> endpoint[p], backend |-> backend[p]])
    IN  /\ p \in Leavers /\ ~exited[p] /\ endpoint[p].state # "disconnected"
        /\ Becomes(p, done.u)
        /\ backend' = [backend EXCEPT ![p] = done.backend]
        /\ UNCHANGED <<sent, exited, late>>

Next ==
    \E p \in Players :
        \/ \E bits \in Bits : SendLocalInput(p, bits)
        \/ Receive(p)
        \/ \E due \in DueTimers[p], random \in Randoms : Poll(p, due, random)
        \/ Leave(p)

Spec == Init /\ [][Next]_vars
RunningSpec == InitRunning /\ [][Next]_vars

(* Fairness: the application calls ggpo_idle and adds its input in every     *)
(* frame, so that timers run out and inputs are sent; and the network loses  *)
(* packets of a kind, but not all of those that are sent again and again.    *)
(* CanX is ENABLED <<X>>_vars, written out because TLC takes long to find it: *)
(* the formulas with it are WF_vars(Sends(p)), WF_vars(Retries(p)),          *)
(* WF_vars(TimesOut(p)) and SF_vars(Receives(p, type)).                      *)
Sends(p) == \E bits \in Bits : SendLocalInput(p, bits)
CanSend(p) ==
    /\ ~exited[p] /\ ~backend[p].synchronizing /\ endpoint[p].open
    /\ endpoint[p].state = "running" =>
          BehindBarrier(p) /\ FrameCount(p) < MaxFrames[p]

Polls(p, due) == \E random \in Randoms : Poll(p, due, random)
Retries(p) == Polls(p, {"retry"})
CanRetry(p) == ~exited[p] /\ endpoint[p].open /\ endpoint[p].state # "disconnected"
TimesOut(p) == Polls(p, {"interrupted", "timeout"})
CanTimeOut(p) == ~exited[p] /\ endpoint[p].state = "running" /\ Silent(PeerOf(p))
ShutsDown(p) == endpoint[p].state = "disconnected" /\ Polls(p, {"shutdown"})

Newest(q, type) == {m \in network[q] :
    m.body.type = type /\ (m.seq + 1) % SEQUENCE_NUMBERS = endpoint[PeerOf(q)].next_send_seq}

CanReceive(p, type) ==
    /\ ~exited[p] /\ endpoint[p].open
    /\ \E m \in Newest(p, type), random \in Randoms :
          \/ ~OnMsgAsserts(endpoint[p], m, random)
          \/ OnMsg(endpoint[p], m, random) # endpoint[p]

Receives(p, type) == ReceiveOne(p, Newest(p, type))

Fairness ==
    \A p \in Players :
        /\ <>[]CanSend(p) => []<><<Sends(p)>>_vars
        /\ <>[]CanRetry(p) => []<><<Retries(p)>>_vars
        /\ <>[]CanTimeOut(p) => []<><<TimesOut(p)>>_vars
        /\ WF_vars(ShutsDown(p))
        /\ \A type \in {"SyncRequest", "SyncReply", "Input"} :
              []<>CanReceive(p, type) => []<><<Receives(p, type)>>_vars

FairSpec == Spec /\ Fairness
-----------------------------------------------------------------------------
Delivered == [p \in Players |-> backend[p].delivered]

Inputs == [frame : 0 .. Max(Range(MaxFrames)) + Max(Range(FrameDelay)), bits : Bits]
Stream == INSTANCE InputStream WITH Peers <- Players, delivered <- Delivered

(* The records have the values the code gives them.                          *)
TypeOK ==
    /\ LinkTypeOK
    /\ \A p \in Players :
          backend[p].shown \in {"Connecting", "Synchronizing", "Running",
                                "Disconnecting", "Disconnected"}
    /\ exited \in [Players -> BOOLEAN] /\ late \in [Players -> BOOLEAN]
    /\ Stream!TypeOK

(* What the backend is given is what the other player sent: no frame is      *)
(* skipped, repeated or decoded against the wrong one, whatever the network  *)
(* does (SendPendingOutput, OnInput).                                        *)
ImplementsStream == Stream!Spec

(* What the frame numbers do is InputFlow, for which InputFlowProofs proves   *)
(* that the pending output is bounded by the barrier and keeps what the other *)
(* player has not received (AddLocalInput, SendPendingOutput, OnInput).      *)
InputPackets(p) == {m \in network[p] : m.body.type = "Input"}
Flow == INSTANCE InputFlow WITH
    count  <- [p \in Players |-> Len(sent[p])],
    got    <- [p \in Players |-> endpoint[p].last_received.frame],
    first  <- [p \in Players |-> Max2(endpoint[p].last_acked.frame + 1, FrameDelay[p])],
    flight <- [p \in Players |->
                 {[last |-> IF m.body.frames = <<>> THEN NullFrame
                            ELSE m.body.start + Len(m.body.frames) - 1,
                   ack  |-> m.body.ack] : m \in InputPackets(p)}]
ImplementsFlow == Flow!Spec

(* As long as both play, every input the other player has not received is    *)
(* still in the pending output, and so is sent again: an acknowledgement     *)
(* never drops too much, also when it is old (OnInput, OnInputAck).          *)
NothingLost ==
    \A p \in Players : endpoint[p].state = "running" =>
        \A n \in 1 .. Len(sent[p]) :
            \/ sent[p][n].frame <= endpoint[PeerOf(p)].last_received.frame
            \/ sent[p][n] \in ToSet(endpoint[p].pending)

(* No ASSERT of the protocol fires, except after a packet of the handshake   *)
(* came late: it moves _next_recv_seq back, and older packets, whose status  *)
(* is behind, are taken again (udp_proto.cpp:321 and :550).                  *)
AssertsOnlyAfterLateHandshake == \A p \in Players : exited[p] => late[p]

(* The application shows a running connection as about to be lost if and     *)
(* only if its endpoint has announced an interruption and not taken it back  *)
(* (NetworkInterrupted, NetworkResumed).                                     *)
InterruptionShown ==
    \A p \in Players :
        endpoint[p].state = "running" =>
            (backend[p].shown = "Disconnecting") = endpoint[p].notify_sent

(* Under FairSpec both players start and are given all inputs of the other,  *)
(* unless one of them leaves: whatever is lost is sent again until it comes  *)
(* (SYNC_RETRY_INTERVAL, RUNNING_RETRY_INTERVAL).                            *)
InputsArrive ==
    <>(\/ \A p \in Players : Len(backend[p].delivered) = MaxFrames[PeerOf(p)]
       \/ \E p \in Players : endpoint[p].state = "disconnected")

(* When a player leaves, the other one, if it runs, learns it: from an Input *)
(* packet or, when all of these are lost before the endpoint shuts down,     *)
(* from the disconnect timeout.                                              *)
LeaveIsHeard ==
    \A p \in Players :
        (endpoint[PeerOf(p)].state = "disconnected" /\ endpoint[p].state = "running")
            ~> (endpoint[p].state = "disconnected")

(* An interruption that was announced is taken back or ends in a disconnect. *)
InterruptionEnds ==
    \A p \in Players :
        endpoint[p].notify_sent ~> (~endpoint[p].notify_sent
                                    \/ endpoint[p].state = "disconnected")
=============================================================================
