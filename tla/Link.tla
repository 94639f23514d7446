--------------------------------- MODULE Link --------------------------------
(***************************************************************************)
(* Two endpoints (UdpProtocol) that reach each other over UDP: a packet may *)
(* be lost, come several times and be overtaken by others.                  *)
(***************************************************************************)
EXTENDS UdpProtocol, Connection

CONSTANTS
    Magic,                  \* the number each endpoint has picked
    Unanswered,             \* the number of SyncRequests each has sent before that
                            \* were all lost; large enough, sequence numbers wrap
    MaxPackets,             \* bounds: the packets each end sends after those;
                            \* none from SEQUENCE_NUMBERS on
    MaxInFlight,            \* bounds: the packets on the way to each end
    Lifetime                \* bound: how many packets may overtake a packet

ASSUME LinkAssumption ==
    /\ Magic \in [Players -> Nat \ {0}]
    /\ Unanswered \in [Players -> 0 .. SEQUENCE_NUMBERS - 1]
    /\ Lifetime \in 0 .. MAX_SEQ_DISTANCE - 1

VARIABLES
    endpoint,   \* endpoint[p] is p's endpoint for the other end
    network     \* network[p]: the packets on the way to p

(* Both ends have called Synchronize.                                        *)
Started(random, status) ==
    [p \in Players |->
        Synchronize([InitEndpoint(Magic[p], status) EXCEPT !.next_send_seq = Unanswered[p]],
                    random[p])]

InitLink(initial) ==
    /\ endpoint = [p \in Players |-> [initial[p] EXCEPT !.out = <<>>, !.events = <<>>]]
    /\ network = [p \in Players |-> ToSet(initial[PeerOf(p)].out)]

(* A packet that is not kept is lost; one that has been read may be read     *)
(* again.  The bounds keep the youngest packets only.                        *)
Age(u, p) == (u.next_send_seq - p.seq - 1) % SEQUENCE_NUMBERS

Transmit(p, u) ==
    LET all == {m \in network[PeerOf(p)] \cup ToSet(u.out) : Age(u, m) <= Lifetime}
    IN  \E kept \in SUBSET all :
          /\ Cardinality(kept) = Min2(MaxInFlight[PeerOf(p)], Cardinality(all))
          /\ network' = [network EXCEPT ![PeerOf(p)] = kept]

(* p's endpoint is u after a call of it, and what it sent is on its way.     *)
Becomes(p, u) ==
    /\ endpoint' = [endpoint EXCEPT ![p] = [u EXCEPT !.out = <<>>]]
    /\ MaxPackets[p] < SEQUENCE_NUMBERS =>
          ((endpoint[p].next_send_seq - Unanswered[p]) % SEQUENCE_NUMBERS) + Len(u.out)
              <= MaxPackets[p]
    /\ Transmit(p, u)

(* A packet of the handshake that is older than one read before.             *)
Overtaken(u, m) == IsSync(m) /\ ~InOrder(u, m)

(* The records have the values the code gives them.                          *)
LinkTypeOK ==
    \A p \in Players :
        /\ endpoint[p].state \in {"syncing", "running", "disconnected"}
        /\ {endpoint[p].next_send_seq, endpoint[p].next_recv_seq} \subseteq 0 .. SEQUENCE_NUMBERS - 1
        /\ endpoint[p].roundtrips \in 0 .. NUM_SYNC_PACKETS
        /\ endpoint[p].remote_magic \in {0, Magic[PeerOf(p)]}
        /\ \A m \in network[p] : m.magic = Magic[PeerOf(p)]
=============================================================================
