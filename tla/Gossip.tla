-------------------------------- MODULE Gossip --------------------------------
(***************************************************************************)
(* More than two players who tell one another, in every Input packet, how   *)
(* far they have received each player and whom they have disconnected       *)
(* (Peer2PeerBackend::PollNPlayers), over UdpProtocol endpoints that run.   *)
(* Packets are lost, duplicated and reordered; a player may crash, and the  *)
(* others time it out.  The simulation and its rollbacks are left out       *)
(* (Peer2Peer has them), and MaxFrames is small enough for the prediction   *)
(* barrier not to be reached.  Retries and leaving are left out as well.    *)
(***************************************************************************)
EXTENDS UdpProtocol, FiniteSetsExt

CONSTANTS
    NumPlayers,             \* more than 2
    MayCrash,               \* the players, of 0 .. NumPlayers - 1, who may crash
    MaxFrames,              \* bounds: the inputs each of them makes
    MaxInFlight             \* bound: the packets on the way from one player to another

Players == 0 .. NumPlayers - 1
Others(p) == Players \ {p}
MAX_INT == 2147483647

VARIABLES
    peer,                   \* peer[p]: p's _endpoints and its _local_connect_status
    network,                \* network[p][q]: the packets on the way from p to q
    crashed,                \* the players whose process has ended
    exited                  \* those of them who failed an ASSERT

vars == <<peer, network, crashed, exited>>

(* Everybody runs and has received everybody's first input, which has not    *)
(* been acknowledged.                                                        *)
FirstInput == [frame |-> 0, bits |-> {}]
FirstStatus == [i \in Players |-> [disconnected |-> FALSE, last_frame |-> 0]]
Running(p, q) ==
    [InitEndpoint(p + 1, Players) EXCEPT
        !.state = "running", !.connected = TRUE, !.roundtrips = 0,
        !.remote_magic = q + 1, !.next_send_seq = 1, !.pending = <<FirstInput>>,
        !.last_received = FirstInput, !.peer_status = FirstStatus]

Init ==
    /\ peer = [p \in Players |->
                 [endpoint |-> [q \in Others(p) |-> Running(p, q)],
                  status   |-> FirstStatus]]
    /\ network = [p \in Players |-> [q \in Others(p) |-> {}]]
    /\ crashed = {}
    /\ exited = {}
-----------------------------------------------------------------------------
(* s.endpoint and s.status are one player's.                                 *)

DisconnectPlayerQueue(s, queue, syncto) ==
    [s EXCEPT !.status[queue] = [disconnected |-> TRUE, last_frame |-> syncto],
              !.endpoint = [q \in DOMAIN @ |-> IF q = queue THEN Disconnect(@[q]) ELSE @[q]]]

(* What the running endpoints, and p itself, say of a queue.                 *)
Claims(s, queue) ==
    {s.endpoint[q].peer_status[queue] :
        q \in {r \in DOMAIN s.endpoint : s.endpoint[r].state = "running"}}

MinConfirmed(s, queue) ==
    Min({claim.last_frame : claim \in Claims(s, queue)}
          \cup {IF s.status[queue].disconnected THEN MAX_INT ELSE s.status[queue].last_frame})

ConsiderQueue(s, queue) ==
    LET min == MinConfirmed(s, queue)
    IN  IF /\ \E claim \in Claims(s, queue) : claim.disconnected
           /\ ~s.status[queue].disconnected \/ s.status[queue].last_frame > min
        THEN DisconnectPlayerQueue(s, queue, min)
        ELSE s

PollNPlayers(s) ==
    FoldLeft(ConsiderQueue, s, [n \in 1 .. NumPlayers |-> n - 1])

(* OnUdpProtocolPeerEvent.                                                   *)
OnEvent(s, queue, event) ==
    CASE event.type = "input" /\ ~s.status[queue].disconnected ->
            [s EXCEPT !.status[queue].last_frame = event.input.frame]
      [] event.type = "disconnected" /\ ~s.status[queue].disconnected ->
            DisconnectPlayerQueue(s, queue, s.status[queue].last_frame)
      [] OTHER -> s

(* The rest of DoPoll, after the endpoint for queue has become u.            *)
DoPoll(s, queue, u) ==
    PollNPlayers(FoldLeft(LAMBDA t, event : OnEvent(t, queue, event),
                          [s EXCEPT !.endpoint[queue] = TakeEvents(u)], u.events))
-----------------------------------------------------------------------------
(* p becomes s, and of what it sent and had on the way, the network keeps    *)
(* as many as the bound allows.                                              *)
Becomes(p, s) ==
    /\ peer' = [peer EXCEPT ![p] =
                  [s EXCEPT !.endpoint = [q \in Others(p) |-> [@[q] EXCEPT !.out = <<>>]]]]
    /\ \E kept \in [Others(p) -> SUBSET (UNION Range(network[p])
                                          \cup UNION {ToSet(s.endpoint[q].out) : q \in Others(p)})] :
          /\ \A q \in Others(p) :
                LET all == network[p][q] \cup ToSet(s.endpoint[q].out)
                IN  /\ kept[q] \subseteq all
                    /\ Cardinality(kept[q]) = Min2(MaxInFlight, Cardinality(all))
          /\ network' = [network EXCEPT ![p] = kept]

Exit(p) ==
    /\ crashed' = crashed \cup {p}
    /\ exited' = exited \cup {p}
    /\ UNCHANGED <<peer, network>>

(* AddLocalInput: the input goes to every other player.                      *)
SendLocalInput(p) ==
    LET frame  == peer[p].status[p].last_frame + 1
        status == [peer[p].status EXCEPT ![p].last_frame = frame]
        input  == [frame |-> frame, bits |-> {}]
    IN  /\ p \notin crashed /\ frame < MaxFrames[p]
        /\ IF \A q \in Others(p) : SendInputAsserts(peer[p].endpoint[q])
           THEN /\ Becomes(p, [status   |-> status,
                               endpoint |-> [q \in Others(p) |->
                                               SendInput(peer[p].endpoint[q], input, status)]])
                /\ UNCHANGED <<crashed, exited>>
           ELSE Exit(p)

(* DoPoll when a packet of q has come.                                       *)
Receive(p, q) ==
    \E m \in network[q][p], random \in Randoms :
        /\ p \notin crashed
        /\ LET u == peer[p].endpoint[q]
           IN  IF OnMsgAsserts(u, m, random)
               THEN Becomes(p, DoPoll(peer[p], q, OnMsg(u, m, random)))
                    /\ UNCHANGED <<crashed, exited>>
               ELSE Exit(p)

(* DoPoll when nothing has come from q for the disconnect timeout.           *)
TimeOut(p, q) ==
    LET u == peer[p].endpoint[q]
    IN  /\ p \notin crashed /\ q \in crashed
        /\ \E random \in Randoms :
              LET next == OnLoopPoll(u, {"timeout"}, peer[p].status, random)
              IN  next # u /\ Becomes(p, DoPoll(peer[p], q, next))
        /\ UNCHANGED <<crashed, exited>>

Crash(p) ==
    /\ p \in MayCrash \ crashed
    /\ crashed' = crashed \cup {p}
    /\ UNCHANGED <<peer, network, exited>>

Next ==
    \E p \in Players :
        \/ SendLocalInput(p)
        \/ Crash(p)
        \/ \E q \in Others(p) : Receive(p, q) \/ TimeOut(p, q)

Spec == Init /\ [][Next]_vars
-----------------------------------------------------------------------------
(* The last frame a player reports of another never goes back, which is what *)
(* OnInput asserts of every packet (udp_proto.cpp:550): no player's process  *)
(* is ended by the reports of the others.                                    *)
ReportsNeverGoBack == exited = {}
=============================================================================
