--------------------------- MODULE InputFlowProofs ---------------------------
(***************************************************************************)
(* For all frame delays, every number of prediction frames and any network, *)
(* the pending output of a player is bounded and holds what the other has   *)
(* not received.  InFlight and Heard strengthen the claim: what a player    *)
(* needs from the other to pass its barrier comes back as an               *)
(* acknowledgement in the very packets that let the other pass its own.     *)
(***************************************************************************)
EXTENDS InputFlow, TLAPS

(* There is one other player, and it sees the first one as the other.        *)
LEMMA PeerOfPeer ==
    \A p \in Players : PeerOf(p) \in Players /\ PeerOf(p) # p /\ PeerOf(PeerOf(p)) = p
  BY PlayersAssumption DEF PeerOf

(* The numbers a formula about one player speaks of are integers.            *)
LEMMA Numbers ==
    ASSUME TypeOK, NEW p \in Players
    PROVE  /\ count[p] \in Nat /\ got[p] \in Frames /\ first[p] \in Nat
           /\ FrameDelay[p] \in Nat /\ LastSent(p) \in Frames
           /\ flight[p] \subseteq Packets
  BY SessionAssumption DEF TypeOK, LastSent, Frames, NullFrame

(* A packet that is kept was on its way before or has just been sent.        *)
LEMMA Kept ==
    ASSUME TypeOK, NEW p \in Players, NEW packets, Transmit(p, packets)
    PROVE  /\ \A q \in Players : q # PeerOf(p) => flight'[q] = flight[q]
           /\ flight'[PeerOf(p)] \subseteq flight[PeerOf(p)] \cup packets
           /\ packets \subseteq Packets => flight' \in [Players -> SUBSET Packets]
  BY PeerOfPeer DEF Transmit, TypeOK

(* The bound follows from the invariant, without a step of the system.       *)
LEMMA IInvBoundsPending ==
    IInv => PendingBounded
<1>1. SUFFICES ASSUME IInv, NEW p \in Players
               PROVE  Pending(p) <= 2 * MAX_PREDICTION_FRAMES + FrameDelay[p]
                                     + FrameDelay[PeerOf(p)] - 1
  BY DEF PendingBounded
<1>2. PeerOf(p) \in Players
  BY PeerOfPeer
<1>3. /\ count[p] \in Nat /\ got[p] \in Frames /\ first[p] \in Nat
      /\ FrameDelay[p] \in Nat /\ FrameDelay[PeerOf(p)] \in Nat
  BY <1>1, <1>2, Numbers DEF IInv
<1>4. /\ first[p] >= FrameDelay[p]
      /\ \/ count[p] <= MAX_PREDICTION_FRAMES
         \/ got[p] >= count[p] - MAX_PREDICTION_FRAMES
      /\ Acknowledges(PeerOf(p), got[p], first[p])
  BY <1>1 DEF IInv, FirstOK, Ahead, Heard
<1>5. QED
  BY <1>3, <1>4, SessionAssumption
     DEF Pending, LastSent, Acknowledges, Frames, NullFrame

(* A player the barrier lets pass has room for one frame more.               *)
LEMMA BarrierLeavesRoom ==
    ASSUME IInv, NEW p \in Players, BehindBarrier(p)
    PROVE  count[p] + FrameDelay[p] - first[p] + 1
             <= 2 * MAX_PREDICTION_FRAMES + FrameDelay[p] + FrameDelay[PeerOf(p)] - 1
<1>1. PeerOf(p) \in Players
  BY PeerOfPeer
<1>2. /\ count[p] \in Nat /\ got[p] \in Frames /\ first[p] \in Nat
      /\ FrameDelay[p] \in Nat /\ FrameDelay[PeerOf(p)] \in Nat
  BY <1>1, Numbers DEF IInv
<1>3. first[p] >= FrameDelay[p] /\ Acknowledges(PeerOf(p), got[p], first[p])
  BY DEF IInv, FirstOK, Heard
<1>4. \/ count[p] < MAX_PREDICTION_FRAMES
      \/ got[p] >= count[p] - MAX_PREDICTION_FRAMES + 1
  BY <1>2, SessionAssumption DEF BehindBarrier, Min2, LastSent, Frames, NullFrame
<1>5. QED
  BY <1>2, <1>3, <1>4, SessionAssumption DEF Acknowledges, Frames, NullFrame

LEMMA InitEstablishesIInv ==
    Init => IInv
<1>1. SUFFICES ASSUME Init PROVE IInv
  OBVIOUS
<1>2. TypeOK
  BY <1>1, SessionAssumption DEF Init, TypeOK, Frames, NullFrame
<1>3. \A p \in Players : LastSent(p) = NullFrame /\ got[p] = NullFrame
                         /\ first[p] = FrameDelay[p] /\ flight[p] = {} /\ count[p] = 0
  BY <1>1 DEF Init, LastSent
<1>4. NothingLost /\ FirstOK /\ Received /\ Ahead /\ InFlight /\ Heard
  BY <1>3, PeerOfPeer, SessionAssumption
     DEF NothingLost, FirstOK, Received, Ahead, InFlight, Heard, Acknowledges,
         Max2, NullFrame
<1>5. QED
  BY <1>2, <1>4 DEF IInv

-----------------------------------------------------------------------------
(* What a step leaves of the packets in flight: everything that was true of  *)
(* them stays true when the players only move on.                            *)
LEMMA InFlightStays ==
    ASSUME TypeOK, TypeOK', InFlight, NEW p \in Players, NEW packets, Transmit(p, packets),
           \A q \in Players : LastSent(q)' >= LastSent(q) /\ got'[q] >= got[q],
           \A m \in packets : /\ m.last <= LastSent(p)'
                              /\ m.ack <= got'[p]
                              /\ Acknowledges(p, m.last, m.ack)
    PROVE  InFlight'
<1>1. SUFFICES ASSUME NEW q \in Players, NEW m \in flight'[q]
               PROVE  /\ m.last <= LastSent(PeerOf(q))'
                      /\ m.ack <= got'[PeerOf(q)]
                      /\ Acknowledges(PeerOf(q), m.last, m.ack)
  BY DEF InFlight, Acknowledges
<1>2. PeerOf(q) \in Players /\ PeerOf(PeerOf(p)) = p /\ PeerOf(p) \in Players
  BY PeerOfPeer
<1>3. m \in Packets /\ m.last \in Int /\ m.ack \in Int
  <2>1. m \in Packets
    BY DEF TypeOK
  <2>2. QED
    BY <2>1 DEF Packets, Frames, NullFrame
<1>4. /\ got[PeerOf(q)] \in Int /\ got'[PeerOf(q)] \in Int
      /\ LastSent(PeerOf(q)) \in Int /\ LastSent(PeerOf(q))' \in Int
  BY <1>2, SessionAssumption DEF TypeOK, LastSent, Frames, NullFrame
<1>5. CASE m \in flight[q]
  <2>1. /\ m.last <= LastSent(PeerOf(q)) /\ m.ack <= got[PeerOf(q)]
        /\ Acknowledges(PeerOf(q), m.last, m.ack)
    BY <1>5 DEF InFlight
  <2>2. LastSent(PeerOf(q))' >= LastSent(PeerOf(q)) /\ got'[PeerOf(q)] >= got[PeerOf(q)]
    BY <1>2
  <2>3. QED
    BY <2>1, <2>2, <1>3, <1>4
<1>6. CASE m \notin flight[q]
  <2>1. q = PeerOf(p) /\ m \in packets
    BY <1>6, Kept
  <2>2. PeerOf(q) = p
    BY <2>1, <1>2
  <2>3. QED
    BY <2>1, <2>2
<1>7. QED
  BY <1>5, <1>6

(* Sending a new input: the barrier is what makes the packet acknowledge     *)
(* enough.                                                                   *)
LEMMA SendPreservesIInv ==
    ASSUME IInv, NEW p \in Players, Send(p)
    PROVE  IInv'
<1> DEFINE packet == [last |-> count[p] + FrameDelay[p], ack |-> got[p]]
<1>1. TypeOK /\ Transmit(p, {packet})
  BY DEF IInv, Send
<1>2. /\ got' = got /\ first' = first
      /\ count' = [count EXCEPT ![p] = @ + 1] /\ BehindBarrier(p)
  BY DEF Send
<1>3. \A q \in Players :
         /\ count[q] \in Nat /\ got[q] \in Int /\ got[q] >= -1 /\ first[q] \in Nat
         /\ FrameDelay[q] \in Nat /\ LastSent(q) \in Int
  BY <1>1, Numbers DEF Frames, NullFrame
<1>4. /\ count'[p] = count[p] + 1
      /\ \A q \in Players : q # p => count'[q] = count[q]
      /\ LastSent(p)' = count[p] + FrameDelay[p] /\ LastSent(p)' > LastSent(p)
      /\ \A q \in Players : q # p => LastSent(q)' = LastSent(q)
  <2>1. count'[p] = count[p] + 1 /\ \A q \in Players : q # p => count'[q] = count[q]
    BY <1>1, <1>2 DEF TypeOK
  <2>2. LastSent(p)' = count[p] + FrameDelay[p] /\ LastSent(p)' > LastSent(p)
    BY <2>1, <1>3 DEF LastSent, NullFrame
  <2>3. QED
    BY <2>1, <2>2 DEF LastSent
<1>5. packet \in Packets
  <2>1. count[p] + FrameDelay[p] \in Frames /\ got[p] \in Frames
    BY <1>1, <1>3, Numbers DEF Frames
  <2>2. QED
    BY <2>1 DEF Packets
<1>6. TypeOK'
  <2>1. flight' \in [Players -> SUBSET Packets]
    BY <1>1, <1>5, Kept
  <2>2. count' \in [Players -> Nat]
    BY <1>1, <1>2 DEF TypeOK
  <2>3. got' \in [Players -> Frames] /\ first' \in [Players -> Nat]
    BY <1>1, <1>2 DEF TypeOK
  <2>4. QED
    BY <2>1, <2>2, <2>3 DEF TypeOK
<1>7. count[p] < MAX_PREDICTION_FRAMES \/ got[p] > count[p] - MAX_PREDICTION_FRAMES
  BY <1>2, <1>3, SessionAssumption DEF BehindBarrier, Min2
<1>8. \A q \in Players : LastSent(q)' >= LastSent(q) /\ got'[q] >= got[q]
  <2>1. SUFFICES ASSUME NEW q \in Players
                 PROVE  LastSent(q)' >= LastSent(q) /\ got'[q] >= got[q]
    OBVIOUS
  <2>2. got'[q] >= got[q]
    BY <1>2, <1>3
  <2>3. CASE q = p
    BY <2>2, <2>3, <1>3, <1>4
  <2>4. CASE q # p
    BY <2>2, <2>4, <1>3, <1>4
  <2>5. QED
    BY <2>3, <2>4
<1>9. InFlight'
  <2>1. Acknowledges(p, packet.last, packet.ack)
    BY <1>3, <1>7, SessionAssumption DEF Acknowledges
  <2>2. packet.last <= LastSent(p)' /\ packet.ack <= got'[p]
    BY <1>2, <1>3, <1>4
  <2>3. InFlight
    BY DEF IInv
  <2>4. QED
    BY <1>1, <1>6, <1>8, <2>1, <2>2, <2>3, InFlightStays
<1>10. NothingLost' /\ FirstOK' /\ Heard'
  BY <1>2 DEF IInv, NothingLost, FirstOK, Heard, Acknowledges
<1>11. Received'
  <2>1. SUFFICES ASSUME NEW q \in Players
                 PROVE  got'[q] <= LastSent(PeerOf(q))'
    BY DEF Received
  <2>2. PeerOf(q) \in Players /\ got[q] <= LastSent(PeerOf(q))
    BY PeerOfPeer DEF IInv, Received
  <2>3. LastSent(PeerOf(q))' >= LastSent(PeerOf(q)) /\ LastSent(PeerOf(q))' \in Int
    <3>1. LastSent(PeerOf(q))' \in Frames
      BY <1>6, <2>2, SessionAssumption DEF TypeOK, LastSent, Frames, NullFrame
    <3>2. QED
      BY <3>1, <1>8, <2>2 DEF Frames, NullFrame
  <2>4. QED
    BY <1>2, <1>3, <2>2, <2>3
<1>12. Ahead'
  <2>1. SUFFICES ASSUME NEW q \in Players
                 PROVE  \/ count'[q] <= MAX_PREDICTION_FRAMES
                        \/ got'[q] >= count'[q] - MAX_PREDICTION_FRAMES
    BY DEF Ahead
  <2>2. CASE q = p
    BY <2>2, <1>2, <1>3, <1>4, <1>7, SessionAssumption
  <2>3. CASE q # p
    BY <2>3, <1>2, <1>4 DEF IInv, Ahead
  <2>4. QED
    BY <2>2, <2>3
<1>13. QED
  BY <1>6, <1>9, <1>10, <1>11, <1>12 DEF IInv

(* Sending the pending output again.                                         *)
LEMMA ResendPreservesIInv ==
    ASSUME IInv, NEW p \in Players, Resend(p)
    PROVE  IInv'
<1> DEFINE packet == [last |-> LastSent(p), ack |-> got[p]]
<1>1. TypeOK /\ Transmit(p, {packet}) /\ UNCHANGED <<count, got, first>>
  BY DEF IInv, Resend
<1>2. \A q \in Players :
         /\ count[q] \in Nat /\ got[q] \in Frames /\ got[q] \in Int
         /\ FrameDelay[q] \in Nat /\ LastSent(q) \in Frames /\ LastSent(q) \in Int
  BY <1>1, Numbers DEF Frames, NullFrame
<1>3. \A q \in Players : LastSent(q)' = LastSent(q)
  BY <1>1 DEF LastSent
<1>4. TypeOK'
  <2>1. packet \in Packets
    BY <1>2 DEF Packets
  <2>2. flight' \in [Players -> SUBSET Packets]
    BY <1>1, <2>1, Kept
  <2>3. QED
    BY <1>1, <2>2 DEF TypeOK
<1>5. Acknowledges(p, packet.last, packet.ack)
  <2>1. \/ count[p] <= MAX_PREDICTION_FRAMES
        \/ got[p] >= count[p] - MAX_PREDICTION_FRAMES
    BY DEF IInv, Ahead
  <2>2. QED
    BY <2>1, <1>2, SessionAssumption DEF Acknowledges, LastSent, NullFrame
<1>6. InFlight'
  <2>1. InFlight
    BY DEF IInv
  <2>2. \A q \in Players : LastSent(q)' >= LastSent(q) /\ got'[q] >= got[q]
    BY <1>1, <1>2, <1>3
  <2>3. packet.last <= LastSent(p)' /\ packet.ack <= got'[p]
    BY <1>1, <1>2, <1>3
  <2>4. QED
    BY <1>1, <1>4, <1>5, <2>1, <2>2, <2>3, InFlightStays
<1>7. NothingLost' /\ FirstOK' /\ Received' /\ Ahead' /\ Heard'
  BY <1>1, <1>3, PeerOfPeer
     DEF IInv, NothingLost, FirstOK, Received, Ahead, Heard, Acknowledges
<1>8. QED
  BY <1>4, <1>6, <1>7 DEF IInv

(* A packet that comes, in whatever order: what it brings of the frames and  *)
(* what it acknowledges are both within the invariant.                       *)
LEMMA ReceivePreservesIInv ==
    ASSUME IInv, NEW p \in Players, Receive(p)
    PROVE  IInv'
<1>1. PICK m \in flight[p] : /\ got' = [got EXCEPT ![p] = Max2(@, m.last)]
                             /\ first' = [first EXCEPT ![p] = Max2(@, m.ack)]
  BY DEF Receive
<1>2. TypeOK /\ Transmit(p, {}) /\ count' = count
  BY DEF IInv, Receive
<1>3. \A q \in Players :
         /\ count[q] \in Nat /\ got[q] \in Frames /\ got[q] \in Int /\ first[q] \in Nat
         /\ FrameDelay[q] \in Nat /\ LastSent(q) \in Int
  BY <1>2, Numbers DEF Frames, NullFrame
<1>4. /\ m \in Packets /\ m.last \in Frames /\ m.ack \in Frames
      /\ m.last \in Int /\ m.ack \in Int
  <2>1. m \in Packets
    BY <1>2 DEF TypeOK
  <2>2. QED
    BY <2>1 DEF Packets, Frames, NullFrame
<1>5. /\ m.last <= LastSent(PeerOf(p)) /\ m.ack <= got[PeerOf(p)]
      /\ Acknowledges(PeerOf(p), m.last, m.ack)
  BY DEF IInv, InFlight
<1>6. /\ got'[p] = Max2(got[p], m.last) /\ first'[p] = Max2(first[p], m.ack)
      /\ \A q \in Players : q # p => got'[q] = got[q] /\ first'[q] = first[q]
  BY <1>1, <1>2 DEF TypeOK
<1>7. TypeOK'
  <2>1. flight' \in [Players -> SUBSET Packets]
    BY <1>2, Kept
  <2>2. Max2(got[p], m.last) \in Frames
    BY <1>3, <1>4 DEF Max2
  <2>3. Max2(first[p], m.ack) \in Nat
    BY <1>3, <1>4 DEF Max2
  <2>4. QED
    BY <1>1, <1>2, <2>1, <2>2, <2>3 DEF TypeOK
<1>8. \A q \in Players : got'[q] >= got[q] /\ LastSent(q)' = LastSent(q)
  <2>1. SUFFICES ASSUME NEW q \in Players
                 PROVE  got'[q] >= got[q] /\ LastSent(q)' = LastSent(q)
    OBVIOUS
  <2>2. LastSent(q)' = LastSent(q)
    BY <1>2 DEF LastSent
  <2>3. CASE q = p
    BY <2>2, <2>3, <1>3, <1>4, <1>6 DEF Max2
  <2>4. CASE q # p
    BY <2>2, <2>4, <1>3, <1>6
  <2>5. QED
    BY <2>3, <2>4
<1>9. InFlight'
  <2>1. InFlight
    BY DEF IInv
  <2>2. \A q \in Players : LastSent(q)' >= LastSent(q) /\ got'[q] >= got[q]
    BY <1>3, <1>8
  <2>3. QED
    BY <1>2, <1>7, <2>1, <2>2, InFlightStays
<1>10. NothingLost'
  <2>1. SUFFICES ASSUME NEW q \in Players
                 PROVE  first'[q] <= Max2(got'[PeerOf(q)], FrameDelay[q])
    BY DEF NothingLost
  <2>2. PeerOf(q) \in Players /\ PeerOf(q) # q
        /\ first[q] <= Max2(got[PeerOf(q)], FrameDelay[q])
    BY PeerOfPeer DEF IInv, NothingLost
  <2>3. got'[PeerOf(q)] >= got[PeerOf(q)] /\ got'[PeerOf(q)] \in Int
    <3>1. got'[PeerOf(q)] \in Frames
      BY <1>7, <2>2 DEF TypeOK
    <3>2. QED
      BY <3>1, <1>8, <2>2 DEF Frames, NullFrame
  <2>4. CASE q = p
    <3>1. first'[q] = Max2(first[q], m.ack) /\ m.ack <= got[PeerOf(q)]
      BY <2>4, <1>5, <1>6
    <3>2. QED
      BY <3>1, <2>2, <2>3, <1>3, <1>4 DEF Max2
  <2>5. CASE q # p
    BY <2>2, <2>3, <2>5, <1>3, <1>6 DEF Max2
  <2>6. QED
    BY <2>4, <2>5
<1>11. FirstOK' /\ Received' /\ Ahead' /\ Heard'
  <2>1. SUFFICES ASSUME NEW q \in Players
                 PROVE  /\ first'[q] >= FrameDelay[q]
                        /\ got'[q] <= LastSent(PeerOf(q))'
                        /\ \/ count'[q] <= MAX_PREDICTION_FRAMES
                           \/ got'[q] >= count'[q] - MAX_PREDICTION_FRAMES
                        /\ Acknowledges(PeerOf(q), got'[q], first'[q])
    BY DEF FirstOK, Received, Ahead, Heard, Acknowledges
  <2>2. /\ first[q] >= FrameDelay[q]
        /\ got[q] <= LastSent(PeerOf(q))
        /\ \/ count[q] <= MAX_PREDICTION_FRAMES
           \/ got[q] >= count[q] - MAX_PREDICTION_FRAMES
        /\ Acknowledges(PeerOf(q), got[q], first[q])
        /\ PeerOf(q) \in Players
    BY PeerOfPeer DEF IInv, FirstOK, Received, Ahead, Heard
  <2>3. LastSent(PeerOf(q))' = LastSent(PeerOf(q)) /\ count'[q] = count[q]
    BY <1>2, <1>8, <2>2
  <2>4. CASE q = p
    <3>1. /\ got'[q] = Max2(got[q], m.last) /\ first'[q] = Max2(first[q], m.ack)
          /\ m.last <= LastSent(PeerOf(q)) /\ Acknowledges(PeerOf(q), m.last, m.ack)
      BY <2>4, <1>5, <1>6
    <3>2. /\ first'[q] >= FrameDelay[q] /\ got'[q] <= LastSent(PeerOf(q))'
          /\ \/ count'[q] <= MAX_PREDICTION_FRAMES
             \/ got'[q] >= count'[q] - MAX_PREDICTION_FRAMES
      BY <3>1, <2>2, <2>3, <1>3, <1>4, SessionAssumption DEF Max2
    <3>3. Acknowledges(PeerOf(q), got'[q], first'[q])
      BY <3>1, <2>2, <1>3, <1>4, SessionAssumption DEF Max2, Acknowledges
    <3>4. QED
      BY <3>2, <3>3
  <2>5. CASE q # p
    BY <2>2, <2>3, <2>5, <1>6
  <2>6. QED
    BY <2>4, <2>5
<1>12. QED
  BY <1>7, <1>9, <1>10, <1>11 DEF IInv

LEMMA NextPreservesIInv ==
    IInv /\ [Next]_vars => IInv'
<1>1. SUFFICES ASSUME IInv, [Next]_vars PROVE IInv'
  OBVIOUS
<1>2. CASE Next
  BY <1>1, <1>2, SendPreservesIInv, ResendPreservesIInv, ReceivePreservesIInv DEF Next
<1>3. CASE UNCHANGED vars
  <2>1. \A q \in Players : LastSent(q)' = LastSent(q)
    BY <1>3 DEF vars, LastSent
  <2>2. QED
    BY <1>1, <1>3, <2>1, PeerOfPeer
       DEF vars, IInv, TypeOK, NothingLost, FirstOK, Received, Ahead, InFlight,
           Heard, Acknowledges
<1>4. QED
  BY <1>1, <1>2, <1>3

-----------------------------------------------------------------------------
(* The pending output of a player never holds more than twice the prediction *)
(* frames and both delays, less one: SendInput's push finds room in a ring   *)
(* of 64 as long as that is below 64.                                        *)
THEOREM PendingIsBounded == Spec => []PendingBounded
<1>1. Spec => []IInv
  BY InitEstablishesIInv, NextPreservesIInv, PTL DEF Spec
<1>2. QED
  BY <1>1, IInvBoundsPending, PTL

(* Only frames the other player has received leave the pending output.       *)
THEOREM NothingIsLost == Spec => []NothingLost
<1>1. Spec => []IInv
  BY InitEstablishesIInv, NextPreservesIInv, PTL DEF Spec
<1>2. IInv => NothingLost
  BY DEF IInv
<1>3. QED
  BY <1>1, <1>2, PTL
=============================================================================
