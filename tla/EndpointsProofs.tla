--------------------------- MODULE EndpointsProofs ---------------------------
(***************************************************************************)
(* For any network, any ring and any numbers of prediction frames, inputs   *)
(* and sequence numbers: the theorems about two endpoints and what the      *)
(* backends around them are given.                                          *)
(*                                                                          *)
(* All is said in terms of two histories: what a player has sent (S) and    *)
(* what the other one has (T).  An endpoint's pending output is an end of   *)
(* S, its last acknowledged input is the one before, its last received one  *)
(* is the h-th of T, and a packet has inputs of T from no later than that.  *)
(* First come the calls of one endpoint (OnMsg, OnLoopPoll, SendInput), on  *)
(* records and lists, then the events of the backend, then every step of    *)
(* the system as one of three kinds (SentOne, Quiet, Took), from which the  *)
(* invariant and both refinements follow.  The last part is about the       *)
(* ASSERTs on what is heard and queued: it counts the packets and events of *)
(* each call, and compares packets by their age, the number of packets      *)
(* their sender has sent since.                                             *)
(***************************************************************************)
EXTENDS Endpoints, SequenceTheorems, WellFoundedInduction, TLAPS
-----------------------------------------------------------------------------
(* A set of numbers has a least element.                                      *)
LEMMA LeastNatural ==
  ASSUME NEW S \in SUBSET Nat, S # {}
  PROVE  \E n \in S : \A m \in S : n <= m
<1> DEFINE R == {pair \in Nat \X Nat : pair[1] < pair[2]}
<1>1. IsWellFoundedOn(R, Nat)
  BY NatLessThanWellFounded, Zenon DEF OpToRel
<1>2. PICK n \in S : \A m \in S : <<m, n>> \notin R
  <2> HIDE DEF R
  <2> QED BY <1>1, WFMin
<1>3. \A m \in S : m < n => <<m, n>> \in R
  <2> SUFFICES ASSUME NEW m \in S, m < n PROVE <<m, n>> \in R
    OBVIOUS
  <2>1. <<m, n>> \in Nat \X Nat /\ <<m, n>>[1] < <<m, n>>[2]
    OBVIOUS
  <2> QED BY <2>1
<1>4. \A m \in S : ~ (m < n) => n <= m
  OBVIOUS
<1> QED BY <1>2, <1>3, <1>4

(* Induction up to k.                                                         *)
LEMMA Induction ==
  ASSUME NEW S, NEW k \in Int, 0 \in S, \A n \in Nat : n < k /\ n \in S => n + 1 \in S
  PROVE  \A n \in 0 .. k : n \in S
<1> SUFFICES ASSUME (0 .. k) \ S # {} PROVE FALSE
  OBVIOUS
<1>1. PICK n \in (0 .. k) \ S : \A m \in (0 .. k) \ S : n <= m
  <2>1. (0 .. k) \ S \in SUBSET Nat
    OBVIOUS
  <2> QED BY <2>1, LeastNatural
<1>2. n # 0 /\ n - 1 \in Nat
  BY <1>1
<1>3. n - 1 \in S
  BY <1>1, <1>2
<1> QED
  BY <1>1, <1>2, <1>3
-----------------------------------------------------------------------------
(* Sequences whose elements may be anything.                                  *)
IsList(s) == s \in Seq(ToSet(s))

(* What a list is made of.                                                    *)
LEMMA ListFacts ==
  ASSUME NEW s, IsList(s)
  PROVE  Len(s) \in Nat /\ DOMAIN s = 1 .. Len(s)
  BY DEF IsList

(* The empty list.                                                            *)
LEMMA NoList == IsList(<<>>) /\ ToSet(<<>>) = {} /\ Len(<<>>) = 0
  BY DEF IsList, ToSet

(* A sequence over any set is a list.                                         *)
LEMMA SeqIsList ==
  ASSUME NEW S, NEW s \in Seq(S)
  PROVE  IsList(s) /\ ToSet(s) \subseteq S
<1>1. \A i \in DOMAIN s : s[i] \in ToSet(s)
  BY DEF ToSet
<1>2. s \in [1 .. Len(s) -> ToSet(s)] /\ Len(s) \in Nat
  BY <1>1
<1> QED BY <1>2 DEF IsList, ToSet

(* A part of a list.                                                          *)
LEMMA PartOfList ==
  ASSUME NEW s, IsList(s), NEW m \in Nat \ {0}, NEW n \in 0 .. Len(s), m <= n + 1
  PROVE  LET part == SubSeq(s, m, n)
         IN  /\ IsList(part) /\ Len(part) = n - m + 1
             /\ \A k \in 1 .. n - m + 1 : part[k] = s[m + k - 1]
<1> DEFINE part == SubSeq(s, m, n)
           T == ToSet(s)
<1>1. s \in Seq(T) /\ Len(s) \in Nat /\ n \in Int /\ m \in Int
  BY DEF IsList
<1> HIDE DEF T
<1>2. \A k \in m .. n : k \in 1 .. Len(s)
  BY <1>1
<1>3. \A k \in m .. n : s[k] \in T
  BY <1>1, <1>2, ElementOfSeq
<1>4. /\ part \in Seq(T) /\ Len(part) = (IF m <= n THEN n - m + 1 ELSE 0)
      /\ \A k \in 1 .. n - m + 1 : part[k] = s[m + k - 1]
  BY <1>1, <1>3, SubSeqProperties
<1> HIDE DEF part
<1>5. Len(part) = n - m + 1
  BY <1>1, <1>4
<1>6. IsList(part)
  BY <1>4, SeqIsList
<1> QED BY <1>4, <1>5, <1>6 DEF part

(* A list with one element more.                                              *)
LEMMA AppendList ==
  ASSUME NEW s, IsList(s), NEW x
  PROVE  /\ IsList(Append(s, x)) /\ Len(Append(s, x)) = Len(s) + 1
         /\ ToSet(Append(s, x)) = ToSet(s) \cup {x}
         /\ Append(s, x)[Len(s) + 1] = x
         /\ \A n \in 1 .. Len(s) : Append(s, x)[n] = s[n]
<1> DEFINE S == ToSet(s) \cup {x}
<1>1. s \in Seq(S)
  BY SeqMonotonic DEF IsList
<1>2. /\ Append(s, x) \in Seq(S)
      /\ Len(Append(s, x)) = Len(s) + 1 /\ Len(s) \in Nat
      /\ Append(s, x)[Len(s) + 1] = x
      /\ \A n \in 1 .. Len(s) : Append(s, x)[n] = s[n]
      /\ DOMAIN Append(s, x) = 1 .. Len(s) + 1 /\ DOMAIN s = 1 .. Len(s)
  BY <1>1, AppendProperties
<1> HIDE DEF S
<1>3. ToSet(Append(s, x)) = {Append(s, x)[n] : n \in 1 .. Len(s) + 1}
  BY <1>2 DEF ToSet
<1>4. ToSet(Append(s, x)) = ToSet(s) \cup {x}
  <2>1. \A n \in 1 .. Len(s) + 1 : Append(s, x)[n] \in ToSet(s) \cup {x}
    BY <1>2 DEF ToSet
  <2>2. \A n \in 1 .. Len(s) : s[n] \in {Append(s, x)[m] : m \in 1 .. Len(s) + 1}
    BY <1>2
  <2>3. x \in {Append(s, x)[m] : m \in 1 .. Len(s) + 1}
    BY <1>2
  <2> QED BY <1>2, <1>3, <2>1, <2>2, <2>3 DEF ToSet
<1> QED BY <1>2, <1>4, SeqIsList
-----------------------------------------------------------------------------
(* Records of endpoints.                                                      *)
Fields == {"state", "open", "magic", "remote_magic", "roundtrips", "random",
           "connected", "next_send_seq", "next_recv_seq", "pending", "last_acked",
           "last_received", "peer_status", "notify_sent", "disconnect_event_sent",
           "events", "out"}
Changes(u, w, fs) == DOMAIN w = Fields /\ \A f \in Fields \ fs : w[f] = u[f]

IsEndpoint(u) == DOMAIN u = Fields /\ IsList(u.events) /\ IsList(u.out)

(* SendMsg puts one packet behind those the endpoint has sent.                *)
LEMMA SendMsgDoes ==
  ASSUME NEW u, IsEndpoint(u), NEW body
  PROVE  LET w == SendMsg(u, body)
             m == [magic |-> u.magic, seq |-> u.next_send_seq, body |-> body]
         IN  /\ IsEndpoint(w) /\ Changes(u, w, {"out", "next_send_seq"})
             /\ w.next_send_seq = (u.next_send_seq + 1) % SEQUENCE_NUMBERS
             /\ w.out = Append(u.out, m)
             /\ ToSet(w.out) = ToSet(u.out) \cup {m}
<1> DEFINE m == [magic |-> u.magic, seq |-> u.next_send_seq, body |-> body]
           w == SendMsg(u, body)
<1>1. /\ DOMAIN w = Fields /\ \A f \in Fields \ {"out", "next_send_seq"} : w[f] = u[f]
      /\ w.next_send_seq = (u.next_send_seq + 1) % SEQUENCE_NUMBERS
      /\ w.out = Append(u.out, m)
  BY DEF SendMsg, IsEndpoint, Fields
<1>2. w.events = u.events
  BY <1>1 DEF Fields
<1> HIDE DEF m
<1>3. IsList(Append(u.out, m)) /\ ToSet(Append(u.out, m)) = ToSet(u.out) \cup {m}
  BY AppendList DEF IsEndpoint
<1> HIDE DEF w
<1> QED BY <1>1, <1>2, <1>3 DEF IsEndpoint, Changes, w, m

(* QueueEvent puts one event behind those the backend has not taken.          *)
LEMMA QueueEventDoes ==
  ASSUME NEW u, IsEndpoint(u), NEW event
  PROVE  LET w == QueueEvent(u, event)
         IN  /\ IsEndpoint(w) /\ Changes(u, w, {"events"})
             /\ w.events = Append(u.events, event)
<1> DEFINE w == QueueEvent(u, event)
<1>1. /\ DOMAIN w = Fields /\ \A f \in Fields \ {"events"} : w[f] = u[f]
      /\ w.events = Append(u.events, event)
  BY DEF QueueEvent, IsEndpoint, Fields
<1>2. w.out = u.out
  BY <1>1 DEF Fields
<1>3. IsList(Append(u.events, event))
  BY AppendList DEF IsEndpoint
<1> HIDE DEF w
<1> QED BY <1>1, <1>2, <1>3 DEF IsEndpoint, Changes, w
-----------------------------------------------------------------------------
(* One direction: S holds what a player with the frame delay d has sent, of   *)
(* which the other one has received the first g.                              *)
AnyInput == [frame : Nat, bits : Bits]
Bit(S, n) == IF n = 0 THEN {} ELSE S[n].bits
At(d, S, n) == [frame |-> IF n = 0 THEN NullFrame ELSE d + n - 1, bits |-> Bit(S, n)]

SentOK(d, S) ==
    /\ d \in Nat /\ S \in Seq(AnyInput)
    /\ \A n \in 1 .. Len(S) : S[n].frame = d + n - 1

Gone(S, pending) == Len(S) - Len(pending)
PendingOK(d, S, pending, acked) ==
    /\ IsList(pending) /\ Len(pending) <= Len(S)
    /\ \A n \in 1 .. Len(pending) : pending[n] = S[Gone(S, pending) + n]
    /\ acked = At(d, S, Gone(S, pending))
    /\ Len(S) > 0 => Len(pending) > 0

Carries(d, S, g, body, i) ==
    /\ i = 0 \/ i < g
    /\ IsList(body.frames) /\ i + Len(body.frames) <= Len(S)
    /\ body.frames # <<>> => body.start = d + i
    /\ \A n \in 1 .. Len(body.frames) :
          body.frames[n] = Difference(Bit(S, i + n - 1), Bit(S, i + n))
FramesOK(d, S, g, body) == \E i \in 0 .. Len(S) : Carries(d, S, g, body, i)

(* A function on 1 .. n is a list of n elements.                              *)
LEMMA FunctionIsList ==
  ASSUME NEW n \in Nat, NEW f, f = [i \in 1 .. n |-> f[i]]
  PROVE  IsList(f) /\ Len(f) = n /\ (n = 0 <=> f = <<>>)
<1> DEFINE T == {f[i] : i \in 1 .. n}
<1>1. f \in [1 .. n -> T]
  OBVIOUS
<1>2. f \in Seq(T) /\ Len(f) = n
  BY <1>1
<1> QED BY <1>2, SeqIsList, EmptySeq

(* Only the empty list has no elements.                                       *)
LEMMA EmptyList ==
  ASSUME NEW s, IsList(s)
  PROVE  s = <<>> <=> Len(s) = 0
  BY EmptySeq DEF IsList

(* What is kept of the n-th input is the input.                               *)
LEMMA AtIsSent ==
  ASSUME NEW d, NEW S, SentOK(d, S), NEW n \in 1 .. Len(S)
  PROVE  At(d, S, n) = S[n]
<1>1. S[n] \in AnyInput /\ S[n].frame = d + n - 1
  BY ElementOfSeq DEF SentOK
<1>2. S[n] = [frame |-> S[n].frame, bits |-> S[n].bits]
  BY <1>1 DEF AnyInput
<1> QED BY <1>1, <1>2 DEF At, Bit

(* OnInput decodes a packet against the last input it took: what comes out    *)
(* are the inputs that were sent, if the packet starts no later.              *)
LEMMA DecodeIsSent ==
  ASSUME NEW d, NEW S, SentOK(d, S), NEW g \in 0 .. Len(S),
         NEW u, u.last_received = At(d, S, g),
         NEW body, NEW i \in 0 .. Len(S), Carries(d, S, g, body, i), body.frames # <<>>,
         NEW k \in Int, k = i + Len(body.frames) - g
  PROVE  /\ Skipped(u, body) = g - i
         /\ Decode(u, body) = [n \in 1 .. k |-> S[g + n]]
<1>1. d \in Nat /\ Len(S) \in Nat /\ Len(body.frames) \in Nat /\ body.start = d + i
  BY ListFacts DEF SentOK, Carries
<1>2. Base(u, body) = d + g - 1 /\ Skipped(u, body) = g - i
  BY <1>1 DEF Base, Skipped, At, NullFrame, Carries
<1> DEFINE fr == body.frames
           D == 0 .. Len(fr) - Skipped(u, body)
           step(r, n) == IF n = 0 THEN [frame |-> Base(u, body), bits |-> u.last_received.bits]
                         ELSE [frame |-> r[n - 1].frame + 1,
                               bits  |-> (r[n - 1].bits \cup fr[Skipped(u, body) + n].on)
                                            \ fr[Skipped(u, body) + n].off]
           f == CHOOSE r : r = [n \in D |-> step(r, n)]
           h == [n \in D |-> [frame |-> d + g + n - 1, bits |-> Bit(S, g + n)]]
<1>3. Decode(u, body) = [n \in 1 .. Len(fr) - Skipped(u, body) |-> f[n]]
  BY DEF Decode
<1>4. D = 0 .. k /\ 1 .. Len(fr) - Skipped(u, body) = 1 .. k
  BY <1>1, <1>2
<1>5. \A n \in 1 .. k : n + (g - i) \in 1 .. Len(fr)
  BY <1>1 DEF Carries
<1>6. \A r : \A n \in 1 .. k : r[n - 1] = h[n - 1] => step(r, n) = h[n]
  <2> SUFFICES ASSUME NEW r, NEW n \in 1 .. k, r[n - 1] = h[n - 1]
               PROVE  step(r, n) = h[n]
    OBVIOUS
  <2>1. n \in D /\ n - 1 \in D /\ n # 0
    <3> HIDE DEF D
    <3> QED BY <1>4
  <2>2. h[n - 1] = [frame |-> d + g + (n - 1) - 1, bits |-> Bit(S, g + (n - 1))]
    BY <2>1
  <2>3. fr[(g - i) + n] = Difference(Bit(S, g + n - 1), Bit(S, g + n))
    <3>1. (g - i) + n \in 1 .. Len(fr)
      BY SMTT(60), <1>5
    <3>2. i + ((g - i) + n) - 1 = g + n - 1 /\ i + ((g - i) + n) = g + n
      BY <1>1
    <3> QED BY <3>1, <3>2 DEF Carries
  <2>4. /\ r[n - 1].frame + 1 = d + g + n - 1
        /\ (r[n - 1].bits \cup fr[(g - i) + n].on) \ fr[(g - i) + n].off = Bit(S, g + n)
    <3>1. r[n - 1].bits = Bit(S, g + n - 1)
      BY <1>1, <2>2
    <3>2. fr[(g - i) + n].on = Bit(S, g + n) \ Bit(S, g + n - 1)
          /\ fr[(g - i) + n].off = Bit(S, g + n - 1) \ Bit(S, g + n)
      BY <2>3 DEF Difference
    <3>3. (r[n - 1].bits \cup fr[(g - i) + n].on) \ fr[(g - i) + n].off = Bit(S, g + n)
      BY <3>1, <3>2
    <3>4. r[n - 1].frame = d + g + (n - 1) - 1
      BY <2>2
    <3>5. d + g + (n - 1) - 1 + 1 = d + g + n - 1
      BY <1>1
    <3> HIDE DEF h, D, fr
    <3> QED BY <3>3, <3>4, <3>5
  <2>5. h[n] = [frame |-> d + g + n - 1, bits |-> Bit(S, g + n)]
    BY <2>1
  <2> HIDE DEF h, D
  <2> QED BY <1>2, <2>1, <2>4, <2>5
<1>7. \A r : step(r, 0) = h[0] \/ k < 0
  BY <1>1, <1>2, <1>4 DEF At
<1>8. h = [n \in D |-> step(h, n)]
  <2>1. \A n \in D : h[n] = step(h, n)
    <3> HIDE DEF h, step, D
    <3> QED BY <1>4, <1>6, <1>7
  <2> HIDE DEF step
  <2> QED BY <2>1
<1>9. f = [n \in D |-> step(f, n)]
  <2> HIDE DEF step, h, D
  <2> QED BY <1>8
<1>10. \A n \in 0 .. k : f[n] = h[n]
  <2> DEFINE T == {n \in Nat : n > k \/ f[n] = h[n]}
  <2> HIDE DEF step, h, f, D
  <2>1. \A n \in 0 .. k : f[n] = step(f, n)
    BY <1>4, <1>9
  <2>2. 0 \in T
    BY <1>7, <2>1
  <2>3. \A n \in Nat : n < k /\ n \in T => n + 1 \in T
    <3> SUFFICES ASSUME NEW n \in Nat, n < k, f[n] = h[n] PROVE f[n + 1] = h[n + 1]
      OBVIOUS
    <3>1. n + 1 \in 1 .. k /\ n + 1 \in 0 .. k /\ (n + 1) - 1 = n
      OBVIOUS
    <3> QED BY <1>6, <2>1, <3>1
  <2>4. \A n \in 0 .. k : n \in T
    <3> HIDE DEF T
    <3> QED BY <2>2, <2>3, Induction
  <2> QED BY <2>4
<1>11. \A n \in 1 .. k : f[n] = S[g + n]
  <2> SUFFICES ASSUME NEW n \in 1 .. k PROVE h[n] = S[g + n]
    <3> HIDE DEF f, h
    <3> QED BY <1>10
  <2>1. g + n \in 1 .. Len(S)
    BY <1>1 DEF Carries
  <2>2. n \in D /\ g + n # 0
    <3> HIDE DEF D
    <3> QED BY <1>4
  <2>3. h[n] = [frame |-> d + g + n - 1, bits |-> Bit(S, g + n)]
    BY <2>2
  <2>4. d + g + n - 1 = d + (g + n) - 1
    BY <1>1
  <2>5. h[n] = At(d, S, g + n)
    BY <2>2, <2>3, <2>4 DEF At
  <2> QED BY <2>1, <2>5, AtIsSent
<1> QED
  <2> HIDE DEF f, D
  <2> QED BY <1>2, <1>3, <1>4, <1>11

(* What a packet carries of the pending output.                               *)
LEMMA InputMsgCarries ==
  ASSUME NEW d, NEW S, SentOK(d, S), NEW g \in 0 .. Len(S), NEW u, NEW status,
         PendingOK(d, S, u.pending, u.last_acked),
         Gone(S, u.pending) = 0 \/ Gone(S, u.pending) < g
  PROVE  LET body == InputMsg(u, status)
         IN  /\ Carries(d, S, g, body, Gone(S, u.pending)) /\ FramesOK(d, S, g, body)
             /\ Len(body.frames) = Len(u.pending)
             /\ SendPendingOutputAsserts(u)
<1> DEFINE body == InputMsg(u, status)
           pending == u.pending
           i == Gone(S, pending)
<1>1. /\ d \in Nat /\ Len(S) \in Nat /\ Len(pending) \in Nat /\ i \in 0 .. Len(S)
      /\ DOMAIN pending = 1 .. Len(pending)
  BY ListFacts DEF SentOK, PendingOK, Gone
<1>2. body.frames = Encode(u) /\ body.start = (IF pending = <<>> THEN 0 ELSE pending[1].frame)
  BY DEF InputMsg
<1>3. IsList(Encode(u)) /\ Len(Encode(u)) = Len(pending) /\ (Encode(u) = <<>> <=> pending = <<>>)
  <2>1. Encode(u) = [n \in 1 .. Len(pending) |-> Encode(u)[n]]
    BY <1>1 DEF Encode
  <2>2. pending = <<>> <=> Len(pending) = 0
    BY EmptyList DEF PendingOK
  <2> QED BY <1>1, <2>1, <2>2, FunctionIsList
<1>4. \A n \in 1 .. Len(pending) : Encode(u)[n] = Difference(Bit(S, i + n - 1), Bit(S, i + n))
  <2> SUFFICES ASSUME NEW n \in 1 .. Len(pending)
               PROVE  Encode(u)[n] = Difference(Bit(S, i + n - 1), Bit(S, i + n))
    OBVIOUS
  <2>1. Encode(u)[n] = Difference(IF n = 1 THEN u.last_acked.bits ELSE pending[n - 1].bits,
                                  pending[n].bits)
    BY <1>1 DEF Encode
  <2>2. pending[n] = S[i + n] /\ i + n # 0
    BY <1>1 DEF PendingOK
  <2>3. CASE n = 1
    <3>1. u.last_acked.bits = Bit(S, i) /\ i + n - 1 = i
      BY <1>1, <2>3 DEF PendingOK, At
    <3> QED BY <2>1, <2>2, <2>3, <3>1 DEF Bit
  <2>4. CASE n # 1
    <3>1. n - 1 \in 1 .. Len(pending) /\ i + (n - 1) = i + n - 1 /\ i + n - 1 # 0
      BY <1>1, <2>4
    <3>2. pending[n - 1] = S[i + n - 1]
      BY <3>1 DEF PendingOK
    <3> HIDE DEF pending, i
    <3> QED BY <2>1, <2>2, <2>4, <3>1, <3>2 DEF Bit
  <2> QED BY <2>3, <2>4
<1>5. pending # <<>> => pending[1].frame = d + i
  <2> SUFFICES ASSUME pending # <<>> PROVE pending[1].frame = d + i
    OBVIOUS
  <2>1. 1 \in 1 .. Len(pending)
    BY <1>1, EmptyList DEF PendingOK
  <2>2. pending[1] = S[i + 1] /\ i + 1 \in 1 .. Len(S)
    <3>1. pending[1] = S[i + 1]
      BY <2>1 DEF PendingOK
    <3>2. i + Len(pending) = Len(S)
      BY <1>1 DEF Gone
    <3> HIDE DEF pending, i
    <3> QED BY <1>1, <2>1, <3>1, <3>2
  <2> QED BY <1>1, <2>2 DEF SentOK
<1>6. SendPendingOutputAsserts(u)
  BY <1>1, <1>5 DEF SendPendingOutputAsserts, PendingOK, At, NullFrame
<1>7. i + Len(pending) <= Len(S)
  BY <1>1 DEF Gone
<1> HIDE DEF body, pending, i
<1>8. Carries(d, S, g, body, i)
  BY <1>2, <1>3, <1>4, <1>5, <1>7 DEF Carries, i, pending
<1> QED BY <1>1, <1>2, <1>3, <1>6, <1>8 DEF FramesOK, body, i, pending

(* What an acknowledgement takes away from the pending output.                *)
LEMMA DropDoes ==
  ASSUME NEW d, NEW S, SentOK(d, S), NEW g \in 0 .. Len(S), NEW u, IsEndpoint(u),
         PendingOK(d, S, u.pending, u.last_acked),
         NEW ack \in Int, ack <= At(d, S, g).frame
  PROVE  LET w == DropAcknowledged(u, ack)
         IN  /\ IsEndpoint(w) /\ Changes(u, w, {"pending", "last_acked"})
             /\ PendingOK(d, S, w.pending, w.last_acked)
             /\ Gone(S, w.pending) = Max2(Gone(S, u.pending), ack - d)
<1> DEFINE pending == u.pending
           i == Gone(S, pending)
           c == IF ack > d + i THEN ack - d - i ELSE 0
           N == {n \in 0 .. Len(pending) : \A k \in 1 .. n : pending[k].frame < ack}
<1>1. /\ d \in Nat /\ Len(S) \in Nat /\ Len(pending) \in Nat /\ i \in 0 .. Len(S)
      /\ i + Len(pending) = Len(S)
  BY ListFacts DEF SentOK, PendingOK, Gone
<1>2. c \in 0 .. Len(pending) /\ (c # 0 => c < Len(pending))
  BY <1>1 DEF At, NullFrame
<1>3. \A k \in 1 .. Len(pending) : pending[k].frame = d + i + k - 1
  <2> SUFFICES ASSUME NEW k \in 1 .. Len(pending) PROVE pending[k].frame = d + i + k - 1
    OBVIOUS
  <2>1. pending[k] = S[i + k] /\ i + k \in 1 .. Len(S)
    BY <1>1 DEF PendingOK
  <2>2. S[i + k].frame = d + (i + k) - 1
    BY <2>1 DEF SentOK
  <2> QED BY <1>1, <2>1, <2>2
<1>4. \A k \in 1 .. Len(pending) : pending[k].frame < ack <=> k <= c
  <2> HIDE DEF pending, i
  <2> QED BY <1>1, <1>3
<1>5. N = 0 .. c
  <2> HIDE DEF pending, c
  <2> QED BY <1>1, <1>2, <1>4
<1>6. Max(N) = c
  <2>1. c \in 0 .. c /\ \A y \in 0 .. c : c >= y
    BY <1>2
  <2>2. \A x \in 0 .. c : (\A y \in 0 .. c : x >= y) => x = c
    BY <1>2
  <2> HIDE DEF N, c
  <2> QED BY <1>5, <2>1, <2>2 DEF Max
<1> DEFINE gone == SubSeq(pending, 1, c)
           w == DropAcknowledged(u, ack)
<1>7. Acknowledged(u, ack) = gone
  BY <1>6 DEF Acknowledged, OlderThan
<1>8. pending \in Seq(ToSet(pending))
  BY DEF PendingOK, IsList
<1>9. /\ Len(gone) = c /\ (gone = <<>> <=> c = 0)
      /\ \A n \in 1 .. c : gone[n] = pending[n]
  <2> HIDE DEF pending, c
  <2>1. /\ IsList(gone) /\ Len(gone) = c - 1 + 1
        /\ \A n \in 1 .. c - 1 + 1 : gone[n] = pending[1 + n - 1]
    <3>1. IsList(pending) /\ 1 \in Nat \ {0} /\ c \in 0 .. Len(pending) /\ 1 <= c + 1
      BY <1>1, <1>2, <1>8 DEF IsList
    <3> QED BY <3>1, PartOfList
  <2> HIDE DEF gone
  <2> QED BY <1>1, <1>2, <2>1, EmptyList
<1>10. CASE c = 0
  <2>1. w = u
    BY <1>7, <1>9, <1>10 DEF DropAcknowledged
  <2>2. Max2(i, ack - d) = i
    BY <1>1, <1>10 DEF Max2
  <2> QED BY <2>1, <2>2 DEF Changes, IsEndpoint
<1>11. CASE c # 0
  <2> DEFINE rest == SubSeq(pending, c + 1, Len(pending))
  <2>1. w = [u EXCEPT !.last_acked = gone[Len(gone)], !.pending = SubSeq(@, Len(gone) + 1, Len(@))]
    BY <1>7, <1>9, <1>11 DEF DropAcknowledged
  <2>2. /\ DOMAIN w = Fields /\ w.pending = rest /\ w.last_acked = pending[c]
        /\ \A f \in Fields \ {"pending", "last_acked"} : w[f] = u[f]
    <3>1. gone[Len(gone)] = pending[c]
      BY <1>2, <1>9, <1>11
    <3> HIDE DEF gone, w
    <3> QED BY <2>1, <3>1, <1>9 DEF IsEndpoint, Fields
  <2>3. IsList(rest) /\ Len(rest) = Len(pending) - c
        /\ \A n \in 1 .. Len(pending) - c : rest[n] = pending[c + n]
    <3> HIDE DEF pending, c
    <3>2. /\ IsList(rest) /\ Len(rest) = Len(pending) - (c + 1) + 1
          /\ \A n \in 1 .. Len(pending) - (c + 1) + 1 : rest[n] = pending[(c + 1) + n - 1]
      <4>1. /\ IsList(pending) /\ c + 1 \in Nat \ {0}
            /\ Len(pending) \in 0 .. Len(pending) /\ c + 1 <= Len(pending) + 1
        BY <1>1, <1>2, <1>8 DEF IsList
      <4> QED BY <4>1, PartOfList
    <3> HIDE DEF rest
    <3>3. Len(rest) = Len(pending) - c
      BY <1>1, <1>2, <3>2
    <3>4. \A n \in 1 .. Len(pending) - c : rest[n] = pending[c + n]
      <4> TAKE n \in 1 .. Len(pending) - c
      <4>1. n \in 1 .. Len(pending) - (c + 1) + 1 /\ (c + 1) + n - 1 = c + n
        BY <1>1, <1>2
      <4> QED BY <3>2, <4>1
    <3> QED BY <3>2, <3>3, <3>4
  <2>4. Gone(S, rest) = i + c /\ i + c = ack - d /\ Max2(i, ack - d) = ack - d
    <3>1. Gone(S, rest) = i + c
      <4> HIDE DEF rest, c
      <4> QED BY <1>1, <1>2, <2>3 DEF Gone
    <3> QED BY <3>1, <1>1, <1>11 DEF Max2
  <2>5. \A n \in 1 .. Len(rest) : rest[n] = S[Gone(S, rest) + n]
    <3> TAKE n \in 1 .. Len(rest)
    <3> HIDE DEF rest, c
    <3>1. c + n \in 1 .. Len(pending) /\ i + (c + n) = (i + c) + n /\ n \in 1 .. Len(pending) - c
      BY SMTT(60), <1>1, <1>2, <2>3
    <3>2. pending[c + n] = S[i + (c + n)]
      BY <3>1 DEF PendingOK
    <3> QED BY <2>3, <2>4, <3>1, <3>2
  <2>6. pending[c] = At(d, S, Gone(S, rest))
    <3> HIDE DEF rest, c
    <3>1. c \in 1 .. Len(pending) /\ i + c \in 1 .. Len(S)
      BY <1>1, <1>2, <1>11
    <3>2. pending[c] = S[i + c]
      BY <3>1 DEF PendingOK
    <3> QED BY <2>4, <3>1, <3>2, AtIsSent
  <2>7. Len(rest) <= Len(S) /\ Len(rest) > 0
    <3> HIDE DEF rest, c
    <3> QED BY <1>1, <1>2, <1>11, <2>3
  <2>8. PendingOK(d, S, w.pending, w.last_acked)
    <3> HIDE DEF rest, c, w
    <3> QED BY <2>2, <2>3, <2>5, <2>6, <2>7 DEF PendingOK
  <2>9. IsEndpoint(w)
    <3> HIDE DEF w
    <3> QED BY <2>2 DEF IsEndpoint, Fields
  <2> HIDE DEF rest, w, c
  <2> QED BY <2>2, <2>4, <2>8, <2>9 DEF Changes, w
<1> QED BY <1>10, <1>11

(* What a packet adds to the inputs that were received.                       *)
LEMMA HearInputsDoes ==
  ASSUME NEW d, NEW S, SentOK(d, S), NEW g \in 0 .. Len(S),
         NEW u, IsEndpoint(u), u.last_received = At(d, S, g),
         NEW body, NEW i \in 0 .. Len(S), Carries(d, S, g, body, i)
  PROVE  LET w == HearInputs(u, body)
             k == Max2(0, i + Len(body.frames) - g)
         IN  /\ HearInputsAsserts(u, body)
             /\ IsEndpoint(w) /\ Changes(u, w, {"last_received", "events"})
             /\ g + k \in 0 .. Len(S) /\ w.last_received = At(d, S, g + k)
             /\ Len(w.events) = Len(u.events) + k
             /\ \A n \in 1 .. Len(u.events) : w.events[n] = u.events[n]
             /\ \A n \in 1 .. k : w.events[Len(u.events) + n]
                                     = [type |-> "input", input |-> S[g + n]]
<1> DEFINE w == HearInputs(u, body)
           r == i + Len(body.frames) - g
           k == Max2(0, r)
           inputs == [n \in 1 .. r |-> S[g + n]]
           arrived == [n \in 1 .. r |-> [type |-> "input", input |-> S[g + n]]]
<1>1. /\ d \in Nat /\ Len(S) \in Nat /\ Len(body.frames) \in Nat
      /\ (body.frames = <<>> <=> Len(body.frames) = 0)
      /\ Len(u.events) \in Nat /\ i + Len(body.frames) <= Len(S) /\ (i = 0 \/ i < g)
  BY ListFacts, EmptyList DEF SentOK, Carries, IsEndpoint
<1>2. k \in Nat /\ g + k \in 0 .. Len(S) /\ (k = 0 <=> r <= 0) /\ (r > 0 => k = r)
  BY <1>1 DEF Max2
<1>3. body.frames # <<>> => /\ Skipped(u, body) = g - i
                            /\ Decode(u, body) = inputs
  <2>1. r \in Int
    BY <1>1
  <2> QED BY <2>1, DecodeIsSent
<1>4. HearInputsAsserts(u, body)
  BY <1>1, <1>3 DEF HearInputsAsserts, Skipped, Base, Carries, At, NullFrame
<1>5. r <= 0 => inputs = <<>>
  <2> SUFFICES ASSUME r <= 0 PROVE inputs = <<>>
    OBVIOUS
  <2>1. 1 .. r = 1 .. 0
    BY <1>1
  <2>2. inputs = [n \in 1 .. 0 |-> S[g + n]]
    BY <2>1
  <2>3. inputs = [n \in 1 .. 0 |-> inputs[n]]
    BY <2>2
  <2> HIDE DEF inputs
  <2> QED BY <2>3, FunctionIsList
<1>6. CASE k = 0
  <2>1. w = u
    BY <1>1, <1>2, <1>3, <1>5, <1>6 DEF HearInputs
  <2> HIDE DEF w, k
  <2>2. Changes(u, w, {"last_received", "events"}) /\ g + k = g
    BY <1>6, <2>1 DEF Changes, IsEndpoint
  <2>3. \A n \in 1 .. k : FALSE
    BY <1>6
  <2> QED BY <1>1, <1>2, <1>4, <1>6, <2>1, <2>2, <2>3 DEF w, k
<1>7. CASE k # 0
  <2>1. r = k /\ r \in Nat /\ r > 0 /\ body.frames # <<>>
    BY <1>1, <1>2, <1>7
  <2>2. IsList(inputs) /\ Len(inputs) = r /\ inputs # <<>>
    <3>1. inputs = [n \in 1 .. r |-> inputs[n]]
      OBVIOUS
    <3> HIDE DEF inputs, r
    <3> QED BY <2>1, <3>1, FunctionIsList
  <2>3. IsList(arrived) /\ Len(arrived) = r
    <3>1. arrived = [n \in 1 .. r |-> arrived[n]]
      OBVIOUS
    <3> HIDE DEF arrived, r
    <3> QED BY <2>1, <3>1, FunctionIsList
  <2>4. inputs[r] = S[g + r] /\ \A n \in 1 .. r : arrived[n] = [type |-> "input", input |-> S[g + n]]
    <3>1. r \in 1 .. r
      BY <2>1
    <3> HIDE DEF r
    <3> QED BY <3>1
  <2>5. [n \in DOMAIN inputs |-> [type |-> "input", input |-> inputs[n]]] = arrived
    <3> HIDE DEF r
    <3> QED OBVIOUS
  <2>6. w = [u EXCEPT !.last_received = inputs[Len(inputs)], !.events = @ \o arrived]
    <3> HIDE DEF inputs, arrived
    <3> QED BY <1>3, <2>1, <2>2, <2>5 DEF HearInputs
  <2>7. /\ IsList(u.events \o arrived)
        /\ Len(u.events \o arrived) = Len(u.events) + r
        /\ \A n \in 1 .. Len(u.events) : (u.events \o arrived)[n] = u.events[n]
        /\ \A n \in 1 .. r : (u.events \o arrived)[Len(u.events) + n] = arrived[n]
    <3> DEFINE T == ToSet(u.events) \cup ToSet(arrived)
    <3>1. u.events \in Seq(T) /\ arrived \in Seq(T)
      <4>1. u.events \in Seq(ToSet(u.events)) /\ arrived \in Seq(ToSet(arrived))
        BY <2>3 DEF IsEndpoint, IsList
      <4>2. ToSet(u.events) \subseteq T /\ ToSet(arrived) \subseteq T
        OBVIOUS
      <4> HIDE DEF T, arrived
      <4> QED BY <4>1, <4>2, SeqMonotonic
    <3> HIDE DEF T, arrived, r
    <3>2. /\ u.events \o arrived \in Seq(T)
          /\ Len(u.events \o arrived) = Len(u.events) + Len(arrived)
          /\ \A n \in 1 .. Len(u.events) + Len(arrived) : (u.events \o arrived)[n] =
                IF n <= Len(u.events) THEN u.events[n] ELSE arrived[n - Len(u.events)]
      BY <3>1, ConcatProperties
    <3>3. \A n \in 1 .. r : Len(u.events) + n \in 1 .. Len(u.events) + r
                            /\ (Len(u.events) + n) - Len(u.events) = n
                            /\ ~ (Len(u.events) + n <= Len(u.events))
      BY <1>1, <2>1
    <3>4. \A n \in 1 .. Len(u.events) : n \in 1 .. Len(u.events) + r /\ n <= Len(u.events)
      BY <1>1, <2>1
    <3> QED BY <2>3, <3>2, <3>3, <3>4, SeqIsList
  <2>8. /\ DOMAIN w = Fields /\ w.last_received = inputs[Len(inputs)]
        /\ w.events = u.events \o arrived
        /\ \A f \in Fields \ {"last_received", "events"} : w[f] = u[f]
    <3> HIDE DEF inputs, arrived, w
    <3> QED BY <2>6 DEF IsEndpoint, Fields
  <2>9. S[g + r] = At(d, S, g + r)
    <3>1. g + r \in 1 .. Len(S)
      BY <1>1, <1>2, <2>1
    <3> QED BY <3>1, AtIsSent
  <2>10. IsEndpoint(w)
    <3> HIDE DEF w, arrived
    <3> QED BY <2>7, <2>8 DEF IsEndpoint, Fields
  <2> HIDE DEF w, k, r, inputs, arrived
  <2>11. Changes(u, w, {"last_received", "events"})
    BY <2>8 DEF Changes
  <2>12. w.last_received = At(d, S, g + k)
    BY <2>1, <2>2, <2>4, <2>8, <2>9
  <2>13. /\ Len(w.events) = Len(u.events) + k
         /\ \A n \in 1 .. Len(u.events) : w.events[n] = u.events[n]
         /\ \A n \in 1 .. k : w.events[Len(u.events) + n] = [type |-> "input", input |-> S[g + n]]
    BY <2>1, <2>4, <2>7, <2>8
  <2> QED BY <1>2, <1>4, <2>10, <2>11, <2>12, <2>13 DEF w, k, r
<1> QED BY <1>6, <1>7
-----------------------------------------------------------------------------
(* An endpoint of p, which has sent S, of which the other player has g, and   *)
(* has received h of the inputs T of the other player.                        *)
BodyTypes == {"SyncRequest", "SyncReply", "Input", "QualityReport", "QualityReply",
              "KeepAlive"}
SequenceNumbers == 0 .. SEQUENCE_NUMBERS - 1

PacketOK(p, S, g, received, m) ==
    /\ m.magic = Magic[p] /\ m.seq \in SequenceNumbers /\ m.body.type \in BodyTypes
    /\ m.body.type = "Input" => /\ FramesOK(FrameDelay[p], S, g, m.body)
                                /\ m.body.ack \in Int /\ m.body.ack <= received.frame

Acked(p, S, g, u) ==
    /\ PendingOK(FrameDelay[p], S, u.pending, u.last_acked)
    /\ Gone(S, u.pending) = 0 \/ Gone(S, u.pending) < g

ControlOK(p, h, u) ==
    /\ IsEndpoint(u) /\ u.magic = Magic[p]
    /\ u.state \in {"syncing", "running", "disconnected"}
    /\ u.next_send_seq \in SequenceNumbers /\ u.next_recv_seq \in SequenceNumbers
    /\ u.roundtrips \in 0 .. NUM_SYNC_PACKETS
    /\ u.remote_magic \in {0, Magic[PeerOf(p)]}
    /\ u.notify_sent \in BOOLEAN
    /\ u.state = "syncing" => /\ u.open /\ u.remote_magic = 0 /\ u.roundtrips # 0
                              /\ u.notify_sent = FALSE /\ h = 0
    /\ u.state = "running" => u.open

EndpointOK(p, S, g, T, h, u) ==
    /\ ControlOK(p, h, u)
    /\ Acked(p, S, g, u)
    /\ u.last_received = At(FrameDelay[PeerOf(p)], T, h)
    /\ \A m \in ToSet(u.out) : PacketOK(p, S, g, u.last_received, m)

(* What is said of an endpoint and does not change while it is called.        *)
Known(p, S, g, T, h) ==
    /\ p \in Players
    /\ SentOK(FrameDelay[p], S) /\ g \in 0 .. Len(S)
    /\ SentOK(FrameDelay[PeerOf(p)], T) /\ h \in 0 .. Len(T)

(* There is one other player, and it sees the first one as the other.         *)
LEMMA PeerOfPeer ==
    \A p \in Players : PeerOf(p) \in Players /\ PeerOf(p) # p /\ PeerOf(PeerOf(p)) = p
  BY PlayersAssumption DEF PeerOf

(* _next_send_seq and _next_recv_seq are 16 bits wide.                        *)
LEMMA NextSequenceNumber ==
  ASSUME NEW n \in SequenceNumbers
  PROVE  (n + 1) % SEQUENCE_NUMBERS \in SequenceNumbers
  BY UdpProtocolAssumption DEF SequenceNumbers

(* Later inputs have later frames.                                            *)
LEMMA AtFrame ==
  ASSUME NEW d \in Nat, NEW T, NEW h \in Nat
  PROVE  /\ At(d, T, h).frame \in Int
         /\ \A k \in Nat : k >= h => At(d, T, h).frame <= At(d, T, k).frame
  BY DEF At, NullFrame

(* An endpoint may send anything that is no input,                            *)
LEMMA SendKeeps ==
  ASSUME NEW p, NEW S, NEW g, NEW T, NEW h, NEW u, EndpointOK(p, S, g, T, h, u),
         NEW body, body.type \in BodyTypes,
         body.type = "Input" => /\ FramesOK(FrameDelay[p], S, g, body)
                                /\ body.ack \in Int /\ body.ack <= u.last_received.frame
  PROVE  EndpointOK(p, S, g, T, h, SendMsg(u, body))
<1> DEFINE w == SendMsg(u, body)
           m == [magic |-> u.magic, seq |-> u.next_send_seq, body |-> body]
<1>1. /\ IsEndpoint(w) /\ Changes(u, w, {"out", "next_send_seq"})
      /\ w.next_send_seq = (u.next_send_seq + 1) % SEQUENCE_NUMBERS
      /\ ToSet(w.out) = ToSet(u.out) \cup {m}
  BY SendMsgDoes DEF EndpointOK, ControlOK
<1>2. PacketOK(p, S, g, u.last_received, m)
  BY DEF EndpointOK, ControlOK, PacketOK
<1> HIDE DEF w, m
<1>3. ControlOK(p, h, w)
  BY <1>1, NextSequenceNumber DEF EndpointOK, ControlOK, Changes, Fields
<1>4. Acked(p, S, g, w) /\ w.last_received = u.last_received
  BY <1>1 DEF EndpointOK, Acked, Changes, Fields
<1> QED BY <1>1, <1>2, <1>3, <1>4 DEF EndpointOK, w

(* queue any event,                                                           *)
LEMMA QueueKeeps ==
  ASSUME NEW p, NEW S, NEW g, NEW T, NEW h, NEW u, EndpointOK(p, S, g, T, h, u), NEW event
  PROVE  EndpointOK(p, S, g, T, h, QueueEvent(u, event))
<1> DEFINE w == QueueEvent(u, event)
<1>1. IsEndpoint(w) /\ Changes(u, w, {"events"})
  BY QueueEventDoes DEF EndpointOK, ControlOK
<1> HIDE DEF w
<1>2. ControlOK(p, h, w)
  BY <1>1 DEF EndpointOK, ControlOK, Changes, Fields
<1>3. Acked(p, S, g, w) /\ w.last_received = u.last_received /\ w.out = u.out
  BY <1>1 DEF EndpointOK, Acked, Changes, Fields
<1> QED BY <1>2, <1>3 DEF EndpointOK, w

(* and send its pending output at any time.                                   *)
LEMMA SendPendingKeeps ==
  ASSUME NEW p, NEW S, NEW g, NEW T, NEW h, Known(p, S, g, T, h),
         NEW u, EndpointOK(p, S, g, T, h, u), NEW status
  PROVE  /\ EndpointOK(p, S, g, T, h, SendPendingOutput(u, status))
         /\ SendPendingOutputAsserts(u)
<1> DEFINE body == InputMsg(u, status)
<1>1. FramesOK(FrameDelay[p], S, g, body) /\ SendPendingOutputAsserts(u)
  BY InputMsgCarries DEF Known, EndpointOK, Acked
<1>2. body.type = "Input" /\ body.ack = u.last_received.frame
  BY DEF InputMsg
<1>3. u.last_received.frame \in Int
  <2>1. FrameDelay[PeerOf(p)] \in Nat /\ h \in Nat
    BY PeerOfPeer, SessionAssumption DEF Known, SentOK
  <2> QED BY <2>1, AtFrame DEF EndpointOK
<1> HIDE DEF body
<1>4. EndpointOK(p, S, g, T, h, SendMsg(u, body))
  BY <1>1, <1>2, <1>3, SendKeeps DEF BodyTypes
<1> QED BY <1>1, <1>4 DEF SendPendingOutput, body

(* Most fields say nothing of the inputs.                                     *)
LEMMA OtherFieldsKeep ==
  ASSUME NEW p, NEW S, NEW g, NEW T, NEW h, NEW u, EndpointOK(p, S, g, T, h, u), NEW w,
         Changes(u, w, {"random", "connected", "next_recv_seq", "peer_status",
                        "disconnect_event_sent"}),
         w.next_recv_seq \in SequenceNumbers
  PROVE  /\ EndpointOK(p, S, g, T, h, w)
         /\ w.events = u.events /\ w.out = u.out
         /\ w.state = u.state /\ w.notify_sent = u.notify_sent
<1>1. w.events = u.events /\ w.out = u.out /\ w.last_received = u.last_received
      /\ w.state = u.state /\ w.notify_sent = u.notify_sent
  BY DEF Changes, Fields
<1>2. ControlOK(p, h, w)
  <2>1. DOMAIN w = Fields /\ IsEndpoint(w)
    BY <1>1 DEF EndpointOK, ControlOK, Changes, IsEndpoint
  <2>2. /\ w.magic = u.magic /\ w.next_send_seq = u.next_send_seq
        /\ w.roundtrips = u.roundtrips /\ w.remote_magic = u.remote_magic /\ w.open = u.open
    BY DEF Changes, Fields
  <2> QED BY <1>1, <2>1, <2>2 DEF EndpointOK, ControlOK
<1>3. Acked(p, S, g, w)
  BY DEF EndpointOK, Acked, Changes, Fields
<1> QED BY <1>1, <1>2, <1>3 DEF EndpointOK

HandshakeEvents == {[type |-> "connected"], [type |-> "synchronizing"], [type |-> "synchronized"]}

(* The handshake does not touch the inputs.                                   *)
LEMMA OnSyncReplyDoes ==
  ASSUME NEW p, NEW S, NEW g, NEW T, NEW h, Known(p, S, g, T, h),
         NEW u, EndpointOK(p, S, g, T, h, u),
         NEW m, m.magic = Magic[PeerOf(p)], NEW random
  PROVE  LET w == OnSyncReply(u, m, random)
         IN  /\ EndpointOK(p, S, g, T, h, w) /\ w.notify_sent = u.notify_sent
             /\ u.state # "syncing" => w = u
             /\ ToSet(w.events) \subseteq ToSet(u.events) \cup HandshakeEvents
             /\ \A x \in ToSet(w.out) : x \in ToSet(u.out) \/ x.body.type = "SyncRequest"
<1> DEFINE w == OnSyncReply(u, m, random)
           c == [u EXCEPT !.connected = TRUE]
           met == IF u.connected THEN u ELSE QueueEvent(c, [type |-> "connected"])
           one == [met EXCEPT !.roundtrips = @ - 1]
<1>1. CASE u.state # "syncing" \/ m.body.random # u.random
  BY <1>1 DEF OnSyncReply
<1>2. CASE ~ (u.state # "syncing" \/ m.body.random # u.random)
  <2>1. EndpointOK(p, S, g, T, h, c) /\ c.events = u.events /\ c.out = u.out
        /\ c.state = u.state /\ c.notify_sent = u.notify_sent
    <3>1. Changes(u, c, {"random", "connected", "next_recv_seq", "peer_status",
                         "disconnect_event_sent"})
          /\ c.next_recv_seq \in SequenceNumbers
      BY DEF EndpointOK, ControlOK, IsEndpoint, Changes, Fields
    <3> HIDE DEF c
    <3> QED BY <3>1, OtherFieldsKeep
  <2>2. /\ EndpointOK(p, S, g, T, h, met) /\ met.notify_sent = u.notify_sent
        /\ met.state = "syncing" /\ met.out = u.out
        /\ ToSet(met.events) \subseteq ToSet(u.events) \cup HandshakeEvents
    <3>1. CASE u.connected
      BY <1>2, <3>1
    <3>2. CASE ~u.connected
      <4> DEFINE q == QueueEvent(c, [type |-> "connected"])
      <4> HIDE DEF c
      <4>1. EndpointOK(p, S, g, T, h, q)
        BY <2>1, QueueKeeps
      <4>2. Changes(c, q, {"events"}) /\ q.events = Append(c.events, [type |-> "connected"])
            /\ IsList(c.events)
        BY <2>1, QueueEventDoes DEF EndpointOK, ControlOK, IsEndpoint
      <4>3. ToSet(q.events) = ToSet(c.events) \cup {[type |-> "connected"]}
        <5> HIDE DEF q
        <5> QED BY <4>2, AppendList
      <4>4. q.notify_sent = c.notify_sent /\ q.state = c.state /\ q.out = c.out
        BY <4>2 DEF Changes, Fields
      <4>5. met = q
        BY <3>2
      <4> HIDE DEF q, met
      <4> QED BY <1>2, <2>1, <4>1, <4>3, <4>4, <4>5 DEF HandshakeEvents
    <3> QED BY <3>1, <3>2
  <2> HIDE DEF met, c
  <2>3. /\ DOMAIN met = Fields /\ met.roundtrips \in 1 .. NUM_SYNC_PACKETS
        /\ IsList(met.events) /\ h = 0 /\ met.open /\ met.notify_sent = FALSE
    BY <2>2, UdpProtocolAssumption DEF EndpointOK, ControlOK, IsEndpoint
  <2>4. /\ DOMAIN one = Fields /\ one.roundtrips = met.roundtrips - 1
        /\ \A f \in Fields \ {"roundtrips"} : one[f] = met[f]
    BY <2>3 DEF Fields
  <2> HIDE DEF one
  <2>5. one.roundtrips \in 0 .. NUM_SYNC_PACKETS
    BY <2>3, <2>4, UdpProtocolAssumption
  <2>6. /\ one.state = met.state /\ one.open = met.open /\ one.magic = met.magic
        /\ one.remote_magic = met.remote_magic /\ one.next_send_seq = met.next_send_seq
        /\ one.next_recv_seq = met.next_recv_seq /\ one.notify_sent = met.notify_sent
        /\ one.events = met.events /\ one.out = met.out /\ one.pending = met.pending
        /\ one.last_acked = met.last_acked /\ one.last_received = met.last_received
    BY <2>4 DEF Fields
  <2>7. CASE one.roundtrips = 0
    <3> DEFINE r == [one EXCEPT !.state = "running", !.last_received.frame = NullFrame,
                                !.remote_magic = m.magic]
    <3>1. w = QueueEvent(r, [type |-> "synchronized"])
      BY <1>2, <2>7 DEF OnSyncReply, one, met, c
    <3>2. /\ DOMAIN r = Fields /\ r.state = "running" /\ r.remote_magic = m.magic
          /\ r.last_received = [one.last_received EXCEPT !.frame = NullFrame]
          /\ \A f \in Fields \ {"state", "last_received", "remote_magic"} : r[f] = one[f]
      BY <2>4 DEF Fields
    <3>3. r.last_received = one.last_received
      <4>1. one.last_received = At(FrameDelay[PeerOf(p)], T, 0)
        BY <2>2, <2>3, <2>6 DEF EndpointOK
      <4> QED BY <3>2, <4>1 DEF At
    <3> HIDE DEF r
    <3>4. /\ r.open = one.open /\ r.magic = one.magic /\ r.roundtrips = one.roundtrips
          /\ r.next_send_seq = one.next_send_seq
          /\ r.next_recv_seq = one.next_recv_seq /\ r.notify_sent = one.notify_sent
          /\ r.events = one.events /\ r.out = one.out /\ r.pending = one.pending
          /\ r.last_acked = one.last_acked
      BY <3>2 DEF Fields
    <3>5. ControlOK(p, h, r)
      <4>1. IsEndpoint(r)
        BY <2>2, <2>6, <3>2, <3>4 DEF EndpointOK, ControlOK, IsEndpoint
      <4> QED BY <2>2, <2>3, <2>5, <2>6, <3>2, <3>4, <4>1 DEF EndpointOK, ControlOK
    <3>6. EndpointOK(p, S, g, T, h, r)
      BY <2>2, <2>6, <3>3, <3>4, <3>5 DEF EndpointOK, Acked
    <3>7. EndpointOK(p, S, g, T, h, w)
      BY <3>1, <3>6, QueueKeeps
    <3>8. Changes(r, w, {"events"}) /\ w.events = Append(r.events, [type |-> "synchronized"])
      BY <3>1, <3>6, QueueEventDoes DEF EndpointOK, ControlOK
    <3>9. ToSet(w.events) = ToSet(r.events) \cup {[type |-> "synchronized"]}
      BY <3>8, <2>3, <2>6, <3>4, AppendList
    <3>10. w.notify_sent = r.notify_sent /\ w.out = r.out
      BY <3>8 DEF Changes, Fields
    <3> HIDE DEF w
    <3>11. ToSet(w.events) \subseteq ToSet(u.events) \cup HandshakeEvents
      BY <2>2, <2>6, <3>4, <3>9 DEF HandshakeEvents
    <3> QED BY <1>2, <2>2, <2>6, <3>4, <3>7, <3>10, <3>11 DEF w
  <2>8. CASE one.roundtrips # 0
    <3> DEFINE e == QueueEvent(one, [type |-> "synchronizing"])
               v == [e EXCEPT !.random = random]
               body == [type |-> "SyncRequest", random |-> random]
    <3>1. w = SendMsg(v, body)
      BY <1>2, <2>8 DEF OnSyncReply, SendSyncRequest, one, met, c
    <3>2. EndpointOK(p, S, g, T, h, one)
      <4>1. IsEndpoint(one)
        BY <2>2, <2>4, <2>6 DEF EndpointOK, ControlOK, IsEndpoint
      <4>2. ControlOK(p, h, one)
        BY <2>2, <2>3, <2>5, <2>6, <2>8, <4>1 DEF EndpointOK, ControlOK
      <4> QED BY <2>2, <2>6, <4>2 DEF EndpointOK, Acked
    <3>3. EndpointOK(p, S, g, T, h, e)
      BY <3>2, QueueKeeps
    <3>4. Changes(one, e, {"events"}) /\ e.events = Append(one.events, [type |-> "synchronizing"])
      BY <3>2, QueueEventDoes DEF EndpointOK, ControlOK
    <3>5. ToSet(e.events) = ToSet(one.events) \cup {[type |-> "synchronizing"]}
      <4> HIDE DEF e
      <4>1. IsList(one.events)
        BY <2>3, <2>6
      <4> QED BY <3>4, <4>1, AppendList
    <3>6. e.notify_sent = one.notify_sent /\ e.out = one.out
      BY <3>4 DEF Changes, Fields
    <3> HIDE DEF e
    <3>7. Changes(e, v, {"random", "connected", "next_recv_seq", "peer_status",
                         "disconnect_event_sent"})
          /\ v.next_recv_seq \in SequenceNumbers
      BY <3>3 DEF EndpointOK, ControlOK, IsEndpoint, Changes, Fields
    <3> HIDE DEF v
    <3>8. EndpointOK(p, S, g, T, h, v) /\ v.events = e.events /\ v.out = e.out
          /\ v.notify_sent = e.notify_sent
      BY <3>3, <3>7, OtherFieldsKeep
    <3>9. body.type \in BodyTypes /\ body.type # "Input" /\ body.type = "SyncRequest"
      BY DEF BodyTypes
    <3> HIDE DEF body
    <3>10. EndpointOK(p, S, g, T, h, w)
      BY <3>1, <3>8, <3>9, SendKeeps
    <3>11. Changes(v, w, {"out", "next_send_seq"})
           /\ ToSet(w.out) = ToSet(v.out) \cup
                {[magic |-> v.magic, seq |-> v.next_send_seq, body |-> body]}
      BY <3>1, <3>8, SendMsgDoes DEF EndpointOK, ControlOK
    <3>12. w.events = v.events /\ w.notify_sent = v.notify_sent
      BY <3>11 DEF Changes, Fields
    <3> HIDE DEF w
    <3>13. ToSet(w.events) \subseteq ToSet(u.events) \cup HandshakeEvents
      BY <2>2, <2>6, <3>5, <3>8, <3>12 DEF HandshakeEvents
    <3>14. \A x \in ToSet(w.out) : x \in ToSet(u.out) \/ x.body.type = "SyncRequest"
      BY <2>2, <2>6, <3>6, <3>8, <3>9, <3>11
    <3> QED BY <1>2, <2>2, <2>6, <3>6, <3>8, <3>10, <3>12, <3>13, <3>14 DEF w
  <2> QED BY <2>7, <2>8
<1> QED BY <1>1, <1>2

(* An event of an input that was received, by its place.                      *)
InputEvent(T, n) == [type |-> "input", input |-> T[n]]

(* The events E bring the inputs from h + 1 to h2, after pre others.          *)
Brings(T, h, h2, E, pre) ==
    /\ pre + (h2 - h) <= Len(E)
    /\ \A n \in 1 .. Len(E) : E[n].type = "input" => n \in pre + 1 .. pre + (h2 - h)
    /\ \A n \in 1 .. h2 - h : E[pre + n] = InputEvent(T, h + n)

(* Dropping acknowledged inputs leaves the endpoint a correct one.            *)
LEMMA DropKeeps ==
  ASSUME NEW p, NEW S, NEW g, NEW T, NEW h, Known(p, S, g, T, h),
         NEW u, EndpointOK(p, S, g, T, h, u),
         NEW ack \in Int, ack <= At(FrameDelay[p], S, g).frame
  PROVE  LET w == DropAcknowledged(u, ack)
         IN  /\ EndpointOK(p, S, g, T, h, w) /\ Changes(u, w, {"pending", "last_acked"})
             /\ Gone(S, w.pending) = Max2(Gone(S, u.pending), ack - FrameDelay[p])
<1> DEFINE w == DropAcknowledged(u, ack)
           d == FrameDelay[p]
<1>1. SentOK(d, S) /\ g \in 0 .. Len(S) /\ d \in Nat /\ Len(S) \in Nat
  BY ListFacts DEF Known, SentOK
<1>2. IsEndpoint(u) /\ PendingOK(d, S, u.pending, u.last_acked)
  BY DEF EndpointOK, ControlOK, Acked
<1>3. /\ IsEndpoint(w) /\ Changes(u, w, {"pending", "last_acked"})
      /\ PendingOK(d, S, w.pending, w.last_acked)
      /\ Gone(S, w.pending) = Max2(Gone(S, u.pending), ack - d)
  BY <1>1, <1>2, DropDoes
<1>4. Gone(S, w.pending) = 0 \/ Gone(S, w.pending) < g
  <2>1. Gone(S, u.pending) \in Int
    BY <1>1, <1>2, ListFacts DEF Gone, PendingOK
  <2>2. Gone(S, u.pending) = 0 \/ Gone(S, u.pending) < g
    BY DEF EndpointOK, Acked
  <2>3. Gone(S, u.pending) >= 0
    BY <1>1, <1>2, ListFacts DEF Gone, PendingOK
  <2>4. ack - d < g \/ ack - d < 0
    BY <1>1 DEF At, NullFrame
  <2> HIDE DEF w, d
  <2> QED BY <1>1, <1>3, <2>1, <2>2, <2>3, <2>4 DEF Max2
<1> HIDE DEF w
<1>5. ControlOK(p, h, w)
  BY <1>3 DEF EndpointOK, ControlOK, Changes, Fields
<1>6. w.last_received = u.last_received /\ w.out = u.out
  BY <1>3 DEF Changes, Fields
<1> QED BY <1>3, <1>4, <1>5, <1>6 DEF EndpointOK, Acked, w

(* The status in a packet says nothing about inputs.                          *)
LEMMA HearStatusDoes ==
  ASSUME NEW p, NEW S, NEW g, NEW T, NEW h,
         NEW u, EndpointOK(p, S, g, T, h, u), NEW body
  PROVE  LET w == HearStatus(u, body)
         IN  /\ EndpointOK(p, S, g, T, h, w)
             /\ w.state = u.state /\ w.notify_sent = u.notify_sent /\ w.out = u.out
             /\ \/ w.events = u.events
                \/ w.events = Append(u.events, [type |-> "disconnected"])
<1> DEFINE w == HearStatus(u, body)
           c == [u EXCEPT !.disconnect_event_sent = TRUE]
           d == [u EXCEPT !.peer_status = MergeStatus(@, body.status)]
           other == {"random", "connected", "next_recv_seq", "peer_status",
                     "disconnect_event_sent"}
<1>1. /\ Changes(u, c, other) /\ c.next_recv_seq \in SequenceNumbers
      /\ Changes(u, d, other) /\ d.next_recv_seq \in SequenceNumbers
  BY DEF EndpointOK, ControlOK, IsEndpoint, Changes, Fields
<1> HIDE DEF c, d
<1>2. /\ EndpointOK(p, S, g, T, h, c) /\ c.events = u.events /\ c.out = u.out
      /\ c.state = u.state /\ c.notify_sent = u.notify_sent
  BY <1>1, OtherFieldsKeep
<1>3. /\ EndpointOK(p, S, g, T, h, d) /\ d.events = u.events /\ d.out = u.out
      /\ d.state = u.state /\ d.notify_sent = u.notify_sent
  BY <1>1, OtherFieldsKeep
<1> DEFINE q == QueueEvent(c, [type |-> "disconnected"])
<1>4. EndpointOK(p, S, g, T, h, q)
  BY <1>2, QueueKeeps
<1>5. Changes(c, q, {"events"}) /\ q.events = Append(c.events, [type |-> "disconnected"])
  BY <1>2, QueueEventDoes DEF EndpointOK, ControlOK
<1>6. w = q \/ w = d \/ w = u
  BY DEF HearStatus, HearDisconnect, c, d
<1> HIDE DEF w, q
<1>7. q.state = c.state /\ q.notify_sent = c.notify_sent /\ q.out = c.out
  BY <1>5 DEF Changes, Fields
<1>8. CASE w = q
  BY <1>2, <1>4, <1>5, <1>7, <1>8 DEF w
<1>9. CASE w = d
  BY <1>3, <1>9 DEF w
<1>10. CASE w = u
  BY <1>10 DEF w
<1> QED BY <1>6, <1>8, <1>9, <1>10

(* An Input packet of the other player.                                       *)
LEMMA OnInputDoes ==
  ASSUME NEW p, NEW S, NEW g, NEW T, NEW h, Known(p, S, g, T, h),
         NEW u, EndpointOK(p, S, g, T, h, u), u.state # "syncing", u.events = <<>>,
         NEW body, NEW i \in 0 .. Len(T), Carries(FrameDelay[PeerOf(p)], T, h, body, i),
         body.ack \in Int, body.ack <= At(FrameDelay[p], S, g).frame
  PROVE  LET w == OnInput(u, body)
             h2 == Max2(h, i + Len(body.frames))
         IN  /\ Known(p, S, g, T, h2) /\ EndpointOK(p, S, g, T, h2, w)
             /\ HearInputsAsserts(HearStatus(u, body), body)
             /\ Gone(S, w.pending) = Max2(Gone(S, u.pending), body.ack - FrameDelay[p])
             /\ w.state = u.state /\ w.notify_sent = u.notify_sent /\ w.out = u.out
             /\ \E pre \in {0, 1} : Brings(T, h, h2, w.events, pre)
             /\ \A n \in 1 .. Len(w.events) : w.events[n].type \in {"input", "disconnected"}
<1> DEFINE d == FrameDelay[PeerOf(p)]
           a == HearStatus(u, body)
           b == HearInputs(a, body)
           w == OnInput(u, body)
           k == Max2(0, i + Len(body.frames) - h)
           h2 == Max2(h, i + Len(body.frames))
<1>1. w = DropAcknowledged(b, body.ack)
  BY DEF OnInput
<1>2. /\ EndpointOK(p, S, g, T, h, a)
      /\ a.state = u.state /\ a.notify_sent = u.notify_sent /\ a.out = u.out
      /\ \/ a.events = u.events
         \/ a.events = Append(u.events, [type |-> "disconnected"])
  BY HearStatusDoes
<1>3. PICK pre \in {0, 1} : /\ Len(a.events) = pre
                            /\ \A n \in 1 .. pre : a.events[n].type = "disconnected"
  <2>1. CASE a.events = u.events
    BY <2>1, NoList
  <2>2. CASE a.events = Append(u.events, [type |-> "disconnected"])
    <3>1. Len(a.events) = 0 + 1 /\ a.events[0 + 1] = [type |-> "disconnected"]
      BY <2>2, NoList, AppendList
    <3> QED BY <3>1
  <2> QED BY <1>2, <2>1, <2>2
<1>4. SentOK(d, T) /\ h \in 0 .. Len(T) /\ Len(T) \in Nat /\ d \in Nat /\ Len(body.frames) \in Nat
      /\ i + Len(body.frames) <= Len(T)
  BY SMTT(60), ListFacts DEF Known, SentOK, Carries
<1>5. k \in Nat /\ h2 = h + k /\ h2 \in 0 .. Len(T) /\ h2 - h = k
  BY <1>4 DEF Max2
<1>6. IsEndpoint(a) /\ a.last_received = At(d, T, h)
  BY <1>2 DEF EndpointOK, ControlOK
<1>7. /\ HearInputsAsserts(a, body)
      /\ IsEndpoint(b) /\ Changes(a, b, {"last_received", "events"})
      /\ h + k \in 0 .. Len(T) /\ b.last_received = At(d, T, h + k)
      /\ Len(b.events) = Len(a.events) + k
      /\ \A n \in 1 .. Len(a.events) : b.events[n] = a.events[n]
      /\ \A n \in 1 .. k : b.events[Len(a.events) + n] = [type |-> "input", input |-> T[h + n]]
  <2> HIDE DEF a
  <2> QED BY SMTT(60), <1>4, <1>6, HearInputsDoes
<1> HIDE DEF a, b, k, d
<1>8. /\ b.state = a.state /\ b.notify_sent = a.notify_sent /\ b.out = a.out
      /\ b.pending = a.pending /\ b.last_acked = a.last_acked
  BY <1>7 DEF Changes, Fields
<1>9. EndpointOK(p, S, g, T, h + k, b)
  <2>1. ControlOK(p, h + k, b)
    <3>1. /\ b.magic = a.magic /\ b.next_send_seq = a.next_send_seq
          /\ b.next_recv_seq = a.next_recv_seq /\ b.roundtrips = a.roundtrips
          /\ b.remote_magic = a.remote_magic /\ b.open = a.open
      BY <1>7 DEF Changes, Fields
    <3> QED BY <1>2, <1>7, <1>8, <3>1 DEF EndpointOK, ControlOK
  <2>2. Acked(p, S, g, b)
    BY <1>2, <1>8 DEF EndpointOK, Acked
  <2>3. a.last_received.frame \in Int /\ a.last_received.frame <= b.last_received.frame
    <3>1. h \in Nat /\ h + k \in Nat /\ h + k >= h
      BY <1>4, <1>5
    <3>2. At(d, T, h).frame <= At(d, T, h + k).frame /\ At(d, T, h).frame \in Int
      BY <1>4, <3>1, AtFrame
    <3> QED BY <1>6, <1>7, <3>2
  <2>4. b.last_received.frame \in Int
    BY <1>4, <1>5, <1>7, AtFrame
  <2>5. \A m \in ToSet(b.out) : PacketOK(p, S, g, b.last_received, m)
    BY <1>2, <1>8, <2>3, <2>4 DEF EndpointOK, PacketOK
  <2> QED BY <1>7, <2>1, <2>2, <2>5 DEF EndpointOK, d
<1>10. Known(p, S, g, T, h + k)
  BY <1>7 DEF Known
<1>11. /\ EndpointOK(p, S, g, T, h + k, w) /\ Changes(b, w, {"pending", "last_acked"})
       /\ Gone(S, w.pending) = Max2(Gone(S, b.pending), body.ack - FrameDelay[p])
  BY <1>1, <1>9, <1>10, DropKeeps
<1>12. /\ w.state = b.state /\ w.notify_sent = b.notify_sent /\ w.out = b.out
       /\ w.events = b.events
  BY <1>11 DEF Changes, Fields
<1>13. a.pending = u.pending
  BY DEF a, HearStatus, HearDisconnect, QueueEvent, EndpointOK, ControlOK, IsEndpoint, Fields
<1> HIDE DEF w, h2
<1>14. \A n \in 1 .. Len(w.events) : \/ n \in 1 .. pre
                                     \/ n - pre \in 1 .. k /\ pre + (n - pre) = n
  BY <1>3, <1>5, <1>7, <1>12
<1>15. Brings(T, h, h2, w.events, pre)
  <2>1. pre + k <= Len(w.events)
    BY <1>3, <1>5, <1>7, <1>12
  <2>2. \A n \in 1 .. Len(w.events) : w.events[n].type = "input" => n \in pre + 1 .. pre + k
    <3> SUFFICES ASSUME NEW n \in 1 .. Len(w.events), n \in 1 .. pre
                 PROVE  w.events[n].type # "input"
      BY <1>3, <1>5, <1>14
    <3> QED BY <1>3, <1>7, <1>12
  <2>3. \A n \in 1 .. k : w.events[pre + n] = InputEvent(T, h + n)
    BY <1>3, <1>7, <1>12 DEF InputEvent
  <2> QED BY <1>5, <2>1, <2>2, <2>3 DEF Brings
<1>16. \A n \in 1 .. Len(w.events) : w.events[n].type \in {"input", "disconnected"}
  <2> SUFFICES ASSUME NEW n \in 1 .. Len(w.events)
               PROVE  w.events[n].type \in {"input", "disconnected"}
    OBVIOUS
  <2>1. CASE n \in 1 .. pre
    BY <1>3, <1>7, <1>12, <2>1
  <2>2. CASE n - pre \in 1 .. k /\ pre + (n - pre) = n
    <3>1. b.events[Len(a.events) + (n - pre)] = [type |-> "input", input |-> T[h + (n - pre)]]
      BY <1>7, <2>2
    <3> QED BY <1>3, <1>12, <2>2, <3>1
  <2> QED BY <1>14, <2>1, <2>2
<1> QED BY <1>2, <1>5, <1>7, <1>8, <1>10, <1>11, <1>12, <1>13, <1>15, <1>16 DEF w, h2, a

-----------------------------------------------------------------------------
(* A packet is read.                                                          *)
EventTypes == {"connected", "synchronizing", "synchronized", "input", "disconnected",
               "interrupted", "resumed"}

TypesIn(E, types) == \A n \in 1 .. Len(E) : E[n].type \in types

(* What the events of w say of the interruption that w has and u had.         *)
Tells(u, w) ==
    LET E == w.events
    IN  /\ TypesIn(E, EventTypes)
        /\ \/ /\ w.state = u.state /\ w.notify_sent = u.notify_sent
              /\ TypesIn(E, {"input", "disconnected"})
           \/ /\ u.state = "syncing" /\ w.notify_sent = FALSE
              /\ TypesIn(E, {"connected", "synchronizing", "synchronized"})
           \/ /\ w.notify_sent = FALSE /\ Len(E) > 0 /\ E[Len(E)].type = "resumed"
           \/ /\ w.notify_sent = TRUE /\ Len(E) > 0 /\ E[Len(E)].type = "interrupted"
           \/ Len(E) > 0 /\ E[Len(E)].type = "disconnected"

(* A call that queues no event brings no inputs.                              *)
LEMMA NothingBrought ==
  ASSUME NEW T, NEW h \in Nat, NEW E, IsList(E), TypesIn(E, EventTypes \ {"input"})
  PROVE  Brings(T, h, h, E, 0)
  BY ListFacts DEF Brings, TypesIn

(* An empty event queue brings no inputs.                                     *)
LEMMA NoEvents ==
  ASSUME NEW T, NEW h \in Nat, NEW types, NEW E, E = <<>>
  PROVE  TypesIn(E, types) /\ Brings(T, h, h, E, 0)
<1>1. TypesIn(E, {}) /\ TypesIn(E, types)
  BY NoList DEF TypesIn
<1> QED BY <1>1, NoList, NothingBrought DEF TypesIn

(* One more event that is no input.                                           *)
LEMMA BringsBefore ==
  ASSUME NEW T, NEW h \in Nat, NEW h2 \in Nat, h <= h2, NEW E, IsList(E), NEW pre \in Nat,
         Brings(T, h, h2, E, pre), NEW event, event.type # "input"
  PROVE  Brings(T, h, h2, Append(E, event), pre)
<1> DEFINE F == Append(E, event)
<1>1. /\ Len(F) = Len(E) + 1 /\ Len(E) \in Nat /\ F[Len(E) + 1] = event
      /\ \A n \in 1 .. Len(E) : F[n] = E[n]
  BY AppendList, ListFacts
<1> HIDE DEF F
<1>2. \A n \in 1 .. Len(F) : n \in 1 .. Len(E) \/ n = Len(E) + 1
  BY <1>1
<1>3. \A n \in 1 .. Len(F) : F[n].type = "input" => n \in pre + 1 .. pre + (h2 - h)
  BY <1>1, <1>2 DEF Brings
<1>4. \A n \in 1 .. h2 - h : pre + n \in 1 .. Len(E)
  BY <1>1 DEF Brings
<1>5. \A n \in 1 .. h2 - h : F[pre + n] = InputEvent(T, h + n)
  BY <1>1, <1>4 DEF Brings
<1>6. pre + (h2 - h) <= Len(F)
  BY <1>1 DEF Brings
<1> QED BY <1>3, <1>5, <1>6 DEF Brings, F

(* The effect of a packet on the inputs.                                      *)
Takes(p, S, T, h, h2, u, w, body) ==
    \/ h2 = h /\ w.pending = u.pending
    \/ /\ body.type = "Input"
       /\ \E i \in 0 .. Len(T) : /\ Carries(FrameDelay[PeerOf(p)], T, h, body, i)
                                 /\ h2 = Max2(h, i + Len(body.frames))
       /\ Gone(S, w.pending) = Max2(Gone(S, u.pending), body.ack - FrameDelay[p])

HandleOK(p, S, g, T, h, h2, pre, u, w, m) ==
    /\ h <= h2 /\ Known(p, S, g, T, h2) /\ EndpointOK(p, S, g, T, h2, w)
    /\ Brings(T, h, h2, w.events, pre) /\ Tells(u, w)
    /\ u.state = "syncing" \/ w.state = u.state
    /\ Takes(p, S, T, h, h2, u, w, m.body)
    /\ \A x \in ToSet(w.out) : x \in ToSet(u.out) \/ x.body.type # "Input"

(* OnMsg after the filters: what each kind of packet does.                    *)
LEMMA HandleDoes ==
  ASSUME NEW p, NEW S, NEW g, NEW T, NEW h, Known(p, S, g, T, h),
         NEW u, EndpointOK(p, S, g, T, h, u), u.events = <<>>,
         NEW m, PacketOK(PeerOf(p), T, h, At(FrameDelay[p], S, g), m), NEW random,
         IsSync(m) \/ u.state # "syncing"
  PROVE  \E h2 \in 0 .. Len(T), pre \in {0, 1} :
            HandleOK(p, S, g, T, h, h2, pre, u, Handle(u, m, random), m)
<1> DEFINE w == Handle(u, m, random)
<1>1. h \in 0 .. Len(T) /\ Len(T) \in Nat /\ h \in Nat /\ h <= h
  BY ListFacts DEF Known, SentOK
<1>2. ASSUME EndpointOK(p, S, g, T, h, w), w.events = <<>>, w.state = u.state,
             w.notify_sent = u.notify_sent, w.pending = u.pending,
             \A x \in ToSet(w.out) : x \in ToSet(u.out) \/ x.body.type # "Input"
      PROVE  HandleOK(p, S, g, T, h, h, 0, u, w, m)
  <2> HIDE DEF w
  <2>1. Brings(T, h, h, w.events, 0) /\ TypesIn(w.events, {"input", "disconnected"})
        /\ TypesIn(w.events, EventTypes)
    BY <1>1, <1>2, NoEvents
  <2>2. Tells(u, w)
    BY <1>2, <2>1 DEF Tells
  <2> QED BY <1>1, <1>2, <2>1, <2>2 DEF HandleOK, Takes
<1>3. ASSUME NEW body, w = SendMsg(u, body), body.type \in BodyTypes, body.type # "Input"
      PROVE  HandleOK(p, S, g, T, h, h, 0, u, w, m)
  <2>1. EndpointOK(p, S, g, T, h, w)
    <3> HIDE DEF w
    <3> QED BY <1>3, SendKeeps
  <2>2. /\ Changes(u, w, {"out", "next_send_seq"})
        /\ ToSet(w.out) = ToSet(u.out) \cup
              {[magic |-> u.magic, seq |-> u.next_send_seq, body |-> body]}
    <3> HIDE DEF w
    <3> QED BY <1>3, SendMsgDoes DEF EndpointOK, ControlOK
  <2>3. /\ w.events = u.events /\ w.state = u.state /\ w.notify_sent = u.notify_sent
        /\ w.pending = u.pending
    <3> HIDE DEF w
    <3> QED BY <2>2 DEF Changes, Fields
  <2>4. \A x \in ToSet(w.out) : x \in ToSet(u.out) \/ x.body.type # "Input"
    <3> HIDE DEF w
    <3> QED BY <1>3, <2>2
  <2> HIDE DEF w
  <2> QED BY <1>2, <2>1, <2>3, <2>4
<1>4. CASE m.body.type = "SyncRequest"
  <2>1. w = OnSyncRequest(u, m)
    BY <1>4 DEF Handle
  <2>2. CASE OnSyncRequestHandled(u, m)
    <3> DEFINE body == [type |-> "SyncReply", random |-> m.body.random]
    <3>1. w = SendMsg(u, body) /\ body.type = "SyncReply" /\ body.type \in BodyTypes
          /\ body.type # "Input"
      BY <2>1, <2>2 DEF OnSyncRequest, BodyTypes
    <3> HIDE DEF w, body
    <3>2. HandleOK(p, S, g, T, h, h, 0, u, w, m)
      BY <1>3, <3>1
    <3> QED BY <1>1, <3>2 DEF w
  <2>3. CASE ~ OnSyncRequestHandled(u, m)
    <3>1. w = u
      BY <2>1, <2>3 DEF OnSyncRequest
    <3>2. HandleOK(p, S, g, T, h, h, 0, u, w, m)
      <4> HIDE DEF w
      <4> QED BY <1>2, <3>1
    <3> QED BY <1>1, <3>2
  <2> QED BY <2>2, <2>3
<1>5. CASE m.body.type = "SyncReply"
  <2>1. w = OnSyncReply(u, m, random)
    BY <1>5 DEF Handle
  <2>2. m.magic = Magic[PeerOf(p)]
    BY DEF PacketOK
  <2> HIDE DEF w
  <2>3. /\ EndpointOK(p, S, g, T, h, w) /\ w.notify_sent = u.notify_sent
        /\ u.state # "syncing" => w = u
        /\ ToSet(w.events) \subseteq ToSet(u.events) \cup HandshakeEvents
        /\ \A x \in ToSet(w.out) : x \in ToSet(u.out) \/ x.body.type = "SyncRequest"
    BY <2>1, <2>2, OnSyncReplyDoes
  <2>4. CASE u.state # "syncing"
    <3>1. HandleOK(p, S, g, T, h, h, 0, u, w, m)
      BY <1>2, <2>3, <2>4 DEF w
    <3> QED BY <1>1, <3>1 DEF w
  <2>5. CASE u.state = "syncing"
    <3>1. IsList(w.events) /\ DOMAIN w.events = 1 .. Len(w.events)
      BY <2>3, ListFacts DEF EndpointOK, ControlOK, IsEndpoint
    <3>2. \A n \in 1 .. Len(w.events) : w.events[n] \in HandshakeEvents
      BY <2>3, <3>1, NoList DEF ToSet
    <3>3. TypesIn(w.events, {"connected", "synchronizing", "synchronized"})
      BY <3>2 DEF TypesIn, HandshakeEvents
    <3>4. TypesIn(w.events, EventTypes) /\ TypesIn(w.events, EventTypes \ {"input"})
      BY <3>3 DEF TypesIn, EventTypes
    <3>5. Tells(u, w)
      BY <2>3, <2>5, <3>3, <3>4 DEF Tells, EndpointOK, ControlOK
    <3>6. Brings(T, h, h, w.events, 0)
      BY <1>1, <3>1, <3>4, NothingBrought
    <3>7. w.pending = u.pending \/ Takes(p, S, T, h, h, u, w, m.body)
      <4>1. w.pending = u.pending
        BY <2>1, <2>5 DEF OnSyncReply, SendSyncRequest, SendMsg, QueueEvent, EndpointOK,
              ControlOK, IsEndpoint, Fields
      <4> QED BY <4>1
    <3>8. \A x \in ToSet(w.out) : x \in ToSet(u.out) \/ x.body.type # "Input"
      BY <2>3
    <3>9. HandleOK(p, S, g, T, h, h, 0, u, w, m)
      BY <1>1, <2>3, <3>5, <3>6, <3>7, <3>8 DEF HandleOK, Takes
    <3> QED BY <1>1, <3>9 DEF w
  <2> QED BY <2>4, <2>5
<1>6. CASE m.body.type = "Input"
  <2>1. w = OnInput(u, m.body) /\ ~IsSync(m) /\ u.state # "syncing"
    BY <1>6 DEF Handle, IsSync
  <2>2. /\ FramesOK(FrameDelay[PeerOf(p)], T, h, m.body)
        /\ m.body.ack \in Int /\ m.body.ack <= At(FrameDelay[p], S, g).frame
    BY <1>6 DEF PacketOK
  <2>3. PICK i \in 0 .. Len(T) : Carries(FrameDelay[PeerOf(p)], T, h, m.body, i)
    BY <2>2 DEF FramesOK
  <2> DEFINE h2 == Max2(h, i + Len(m.body.frames))
  <2> HIDE DEF w
  <2>4. /\ Known(p, S, g, T, h2) /\ EndpointOK(p, S, g, T, h2, w)
        /\ HearInputsAsserts(HearStatus(u, m.body), m.body)
        /\ Gone(S, w.pending) = Max2(Gone(S, u.pending), m.body.ack - FrameDelay[p])
        /\ w.state = u.state /\ w.notify_sent = u.notify_sent /\ w.out = u.out
        /\ \E pre \in {0, 1} : Brings(T, h, h2, w.events, pre)
        /\ \A n \in 1 .. Len(w.events) : w.events[n].type \in {"input", "disconnected"}
    <3> DEFINE body == m.body
    <3>1. /\ Carries(FrameDelay[PeerOf(p)], T, h, body, i)
          /\ body.ack \in Int /\ body.ack <= At(FrameDelay[p], S, g).frame
          /\ w = OnInput(u, body)
      BY <2>1, <2>2, <2>3
    <3> HIDE DEF body
    <3>2. LET v == OnInput(u, body)
              k == Max2(h, i + Len(body.frames))
          IN  /\ Known(p, S, g, T, k) /\ EndpointOK(p, S, g, T, k, v)
              /\ HearInputsAsserts(HearStatus(u, body), body)
              /\ Gone(S, v.pending) = Max2(Gone(S, u.pending), body.ack - FrameDelay[p])
              /\ v.state = u.state /\ v.notify_sent = u.notify_sent /\ v.out = u.out
              /\ \E pre \in {0, 1} : Brings(T, h, k, v.events, pre)
              /\ \A n \in 1 .. Len(v.events) : v.events[n].type \in {"input", "disconnected"}
      BY <2>1, <3>1, OnInputDoes
    <3> QED BY <3>1, <3>2 DEF body
  <2>5. h <= h2 /\ h2 \in 0 .. Len(T)
    <3>1. i + Len(m.body.frames) <= Len(T) /\ Len(m.body.frames) \in Nat
      BY <2>3, ListFacts DEF Carries
    <3> QED BY <1>1, <3>1 DEF Max2
  <2>6. Takes(p, S, T, h, h2, u, w, m.body)
    BY <1>6, <2>3, <2>4 DEF Takes
  <2> HIDE DEF h2
  <2>7. Tells(u, w)
    BY <2>4 DEF Tells, TypesIn, EventTypes
  <2>8. PICK pre \in {0, 1} : Brings(T, h, h2, w.events, pre)
    BY <2>4
  <2>9. HandleOK(p, S, g, T, h, h2, pre, u, w, m)
    BY <2>1, <2>4, <2>5, <2>6, <2>7, <2>8 DEF HandleOK
  <2> QED BY <2>5, <2>9 DEF w
<1>7. CASE m.body.type = "QualityReport"
  <2> DEFINE body == [type |-> "QualityReply"]
  <2>1. w = SendMsg(u, body) /\ body.type \in BodyTypes /\ body.type # "Input"
    BY <1>7 DEF Handle, BodyTypes
  <2> HIDE DEF w, body
  <2>2. HandleOK(p, S, g, T, h, h, 0, u, w, m)
    BY <1>3, <2>1
  <2> QED BY <1>1, <2>2 DEF w
<1>8. CASE m.body.type \in {"QualityReply", "KeepAlive"}
  <2>1. w = u
    BY <1>8 DEF Handle
  <2>2. HandleOK(p, S, g, T, h, h, 0, u, w, m)
    <3> HIDE DEF w
    <3> QED BY <1>2, <2>1
  <2> QED BY <1>1, <2>2
<1> QED BY <1>4, <1>5, <1>6, <1>7, <1>8 DEF PacketOK, BodyTypes

(* A packet that comes during an interruption ends it, before or after its    *)
(* inputs are queued.                                                         *)
LEMMA ResumeDoes ==
  ASSUME NEW p, NEW S, NEW g, NEW T, NEW h \in Nat, NEW h2, NEW pre \in {0, 1}, NEW u, NEW w, NEW m,
         HandleOK(p, S, g, T, h, h2, pre, u, w, m), NEW handled
  PROVE  HandleOK(p, S, g, T, h, h2, pre, u, Resume(w, handled), m)
<1>1. CASE ~ (handled /\ w.notify_sent /\ w.state = "running")
  BY <1>1 DEF Resume
<1>2. CASE handled /\ w.notify_sent /\ w.state = "running"
  <2> DEFINE c == [w EXCEPT !.notify_sent = FALSE]
             r == QueueEvent(c, [type |-> "resumed"])
  <2>1. r = Resume(w, handled)
    BY <1>2 DEF Resume
  <2>2. EndpointOK(p, S, g, T, h2, w) /\ h2 \in Nat /\ h <= h2 /\ Known(p, S, g, T, h2)
    BY ListFacts DEF HandleOK, Known, SentOK
  <2>3. /\ DOMAIN c = Fields /\ c.notify_sent = FALSE
        /\ \A f \in Fields \ {"notify_sent"} : c[f] = w[f]
    BY <2>2 DEF EndpointOK, ControlOK, IsEndpoint, Fields
  <2> HIDE DEF c
  <2>4. /\ c.events = w.events /\ c.out = w.out /\ c.last_received = w.last_received
        /\ c.pending = w.pending /\ c.last_acked = w.last_acked /\ c.state = w.state
        /\ c.magic = w.magic /\ c.next_send_seq = w.next_send_seq
        /\ c.next_recv_seq = w.next_recv_seq /\ c.roundtrips = w.roundtrips
        /\ c.remote_magic = w.remote_magic /\ c.open = w.open
    BY <2>3 DEF Fields
  <2>5. EndpointOK(p, S, g, T, h2, c)
    <3>1. IsEndpoint(c)
      BY <2>2, <2>3, <2>4 DEF EndpointOK, ControlOK, IsEndpoint
    <3>2. ControlOK(p, h2, c)
      BY <1>2, <2>2, <2>3, <2>4, <3>1 DEF EndpointOK, ControlOK
    <3> QED BY <2>2, <2>4, <3>2 DEF EndpointOK, Acked
  <2>6. EndpointOK(p, S, g, T, h2, r)
    BY <2>5, QueueKeeps
  <2>7. Changes(c, r, {"events"}) /\ r.events = Append(w.events, [type |-> "resumed"])
    BY <2>4, <2>5, QueueEventDoes DEF EndpointOK, ControlOK
  <2>8. /\ r.notify_sent = FALSE /\ r.out = w.out /\ r.pending = w.pending
        /\ r.state = w.state
    BY <2>3, <2>4, <2>7 DEF Changes, Fields
  <2> HIDE DEF r
  <2>9. IsList(w.events)
    BY <2>2 DEF EndpointOK, ControlOK, IsEndpoint
  <2>10. Brings(T, h, h2, r.events, pre)
    <3>1. Brings(T, h, h2, w.events, pre) /\ [type |-> "resumed"].type # "input" /\ pre \in Nat
      BY DEF HandleOK
    <3> QED BY <2>2, <2>7, <2>9, <3>1, BringsBefore
  <2>11. Tells(u, r)
    <3>1. /\ Len(r.events) = Len(w.events) + 1 /\ Len(w.events) \in Nat
          /\ r.events[Len(w.events) + 1] = [type |-> "resumed"]
          /\ \A n \in 1 .. Len(w.events) : r.events[n] = w.events[n]
      BY <2>7, <2>9, AppendList, ListFacts
    <3>2. \A n \in 1 .. Len(r.events) : n \in 1 .. Len(w.events) \/ n = Len(w.events) + 1
      BY <3>1
    <3>3. TypesIn(w.events, EventTypes)
      BY DEF HandleOK, Tells
    <3>4. TypesIn(r.events, EventTypes)
      <4>1. ASSUME NEW n \in 1 .. Len(r.events)
            PROVE  r.events[n].type \in EventTypes
        <5>1. CASE n \in 1 .. Len(w.events)
          <6>1. r.events[n] = w.events[n]
            BY <3>1, <5>1
          <6> QED BY <3>3, <5>1, <6>1 DEF TypesIn
        <5>2. CASE n = Len(w.events) + 1
          <6>1. r.events[n] = [type |-> "resumed"]
            BY <3>1, <5>2
          <6> QED BY <6>1 DEF EventTypes
        <5> QED BY <3>2, <4>1, <5>1, <5>2
      <4> QED BY <4>1 DEF TypesIn
    <3>5. Len(r.events) > 0 /\ r.events[Len(r.events)].type = "resumed"
      BY <3>1
    <3> QED BY <2>8, <3>4, <3>5 DEF Tells
  <2>12. Takes(p, S, T, h, h2, u, r, m.body)
    BY <2>8 DEF HandleOK, Takes
  <2> QED BY <2>1, <2>2, <2>6, <2>8, <2>10, <2>11, <2>12 DEF HandleOK
<1> QED BY <1>1, <1>2

(* OnMsg, with the filters for the magic number and the sequence number.      *)
LEMMA OnMsgDoes ==
  ASSUME NEW p, NEW S, NEW g, NEW T, NEW h, Known(p, S, g, T, h),
         NEW u, EndpointOK(p, S, g, T, h, u), u.events = <<>>,
         NEW m, PacketOK(PeerOf(p), T, h, At(FrameDelay[p], S, g), m), NEW random
  PROVE  \E h2 \in 0 .. Len(T), pre \in {0, 1} :
            HandleOK(p, S, g, T, h, h2, pre, u, OnMsg(u, m, random), m)
<1>1. h \in 0 .. Len(T) /\ Len(T) \in Nat /\ h \in Nat /\ h <= h
  BY ListFacts DEF Known, SentOK
<1>2. CASE ~ Accepts(u, m)
  <2>1. Brings(T, h, h, u.events, 0) /\ TypesIn(u.events, {"input", "disconnected"})
        /\ TypesIn(u.events, EventTypes)
    BY <1>1, NoEvents
  <2>2. Tells(u, u)
    BY <2>1 DEF Tells
  <2>3. HandleOK(p, S, g, T, h, h, 0, u, u, m)
    BY <1>1, <2>1, <2>2 DEF HandleOK, Takes
  <2> QED BY <1>1, <1>2, <2>3 DEF OnMsg
<1>3. CASE Accepts(u, m)
  <2> DEFINE a == [u EXCEPT !.next_recv_seq = m.seq]
  <2>1. Changes(u, a, {"random", "connected", "next_recv_seq", "peer_status",
                       "disconnect_event_sent"})
        /\ a.next_recv_seq \in SequenceNumbers
    BY DEF EndpointOK, ControlOK, IsEndpoint, Changes, Fields, PacketOK
  <2>2. OnMsg(u, m, random) = Resume(Handle(a, m, random), Handled(u, m))
    BY <1>3 DEF OnMsg
  <2> HIDE DEF a
  <2>3. /\ EndpointOK(p, S, g, T, h, a) /\ a.events = <<>> /\ a.out = u.out
        /\ a.state = u.state /\ a.notify_sent = u.notify_sent
    BY <2>1, OtherFieldsKeep
  <2>4. a.pending = u.pending
    BY <2>1 DEF Changes, Fields
  <2>5. IsSync(m) \/ a.state # "syncing"
    <3>1. m.magic = Magic[PeerOf(p)] /\ Magic[PeerOf(p)] # 0
      BY PeerOfPeer, LinkAssumption DEF PacketOK, Known
    <3> QED BY <1>3, <2>3, <3>1 DEF Accepts, EndpointOK, ControlOK
  <2>6. PICK h2 \in 0 .. Len(T), pre \in {0, 1} :
            HandleOK(p, S, g, T, h, h2, pre, a, Handle(a, m, random), m)
    BY <2>3, <2>5, HandleDoes
  <2> DEFINE w == OnMsg(u, m, random)
  <2>7. HandleOK(p, S, g, T, h, h2, pre, a, w, m)
    <3> DEFINE v == Handle(a, m, random)
    <3>1. HandleOK(p, S, g, T, h, h2, pre, a, v, m)
      BY <2>6
    <3> HIDE DEF v
    <3>2. HandleOK(p, S, g, T, h, h2, pre, a, Resume(v, Handled(u, m)), m)
      BY <1>1, <3>1, ResumeDoes
    <3> QED BY <2>2, <3>2 DEF v
  <2> HIDE DEF w
  <2>8. Tells(u, w) /\ Takes(p, S, T, h, h2, u, w, m.body)
    BY <2>3, <2>4, <2>7 DEF HandleOK, Tells, Takes
  <2>9. HandleOK(p, S, g, T, h, h2, pre, u, w, m)
    BY <2>3, <2>7, <2>8 DEF HandleOK
  <2> QED BY <2>9 DEF w
<1> QED BY <1>2, <1>3

-----------------------------------------------------------------------------
(* The timers, and an input of the application.                               *)

(* Input packets carry the whole pending output.                              *)
CarriesAll(p, S, g, u, x) ==
    /\ Carries(FrameDelay[p], S, g, x.body, Gone(S, u.pending))
    /\ Len(x.body.frames) = Len(u.pending) /\ x.body.ack = u.last_received.frame
SendsAll(p, S, g, u, w) ==
    \A x \in ToSet(w.out) : x \in ToSet(u.out) \/ (x.body.type = "Input" => CarriesAll(p, S, g, u, x))

(* What a call leaves of an endpoint that does not receive.                   *)
SameInputs(u, w) ==
    /\ w.pending = u.pending /\ w.last_acked = u.last_acked
    /\ w.last_received = u.last_received /\ w.state = u.state
    /\ w.notify_sent = u.notify_sent /\ w.open = u.open

(* SendMsg of a packet that is no Input packet, or carries all that is        *)
(* pending.                                                                   *)
LEMMA SendDoes ==
  ASSUME NEW p, NEW S, NEW g, NEW T, NEW h, NEW u, EndpointOK(p, S, g, T, h, u),
         NEW body, body.type \in BodyTypes \ {"Input"}
  PROVE  LET w == SendMsg(u, body)
         IN  /\ EndpointOK(p, S, g, T, h, w) /\ SameInputs(u, w) /\ w.events = u.events
             /\ SendsAll(p, S, g, u, w)
<1> DEFINE w == SendMsg(u, body)
<1>1. EndpointOK(p, S, g, T, h, w)
  BY SendKeeps
<1>2. /\ Changes(u, w, {"out", "next_send_seq"})
      /\ ToSet(w.out) = ToSet(u.out) \cup
            {[magic |-> u.magic, seq |-> u.next_send_seq, body |-> body]}
  BY SendMsgDoes DEF EndpointOK, ControlOK
<1> HIDE DEF w
<1>3. SameInputs(u, w) /\ w.events = u.events
  BY <1>2 DEF Changes, Fields, SameInputs
<1>4. SendsAll(p, S, g, u, w)
  BY <1>2 DEF SendsAll
<1> QED BY <1>1, <1>3, <1>4 DEF w

(* SendPendingOutput puts the whole pending output into one packet.           *)
LEMMA SendPendingDoes ==
  ASSUME NEW p, NEW S, NEW g, NEW T, NEW h, Known(p, S, g, T, h),
         NEW u, EndpointOK(p, S, g, T, h, u), NEW status
  PROVE  LET w == SendPendingOutput(u, status)
         IN  /\ EndpointOK(p, S, g, T, h, w) /\ SameInputs(u, w) /\ w.events = u.events
             /\ SendsAll(p, S, g, u, w) /\ SendPendingOutputAsserts(u)
             /\ \E x \in ToSet(w.out) : CarriesAll(p, S, g, u, x) /\ x.body.type = "Input"
<1> DEFINE w == SendPendingOutput(u, status)
           body == InputMsg(u, status)
           m == [magic |-> u.magic, seq |-> u.next_send_seq, body |-> body]
<1>1. EndpointOK(p, S, g, T, h, w) /\ SendPendingOutputAsserts(u)
  BY SendPendingKeeps
<1>2. /\ Changes(u, w, {"out", "next_send_seq"})
      /\ ToSet(w.out) = ToSet(u.out) \cup {m}
  <2>1. w = SendMsg(u, body)
    BY DEF SendPendingOutput
  <2> HIDE DEF w, body
  <2> QED BY <2>1, SendMsgDoes DEF EndpointOK, ControlOK
<1>3. CarriesAll(p, S, g, u, m) /\ m.body.type = "Input"
  <2>1. /\ Carries(FrameDelay[p], S, g, body, Gone(S, u.pending))
        /\ Len(body.frames) = Len(u.pending)
    BY InputMsgCarries DEF Known, EndpointOK, Acked
  <2>2. body.ack = u.last_received.frame /\ body.type = "Input"
    BY DEF InputMsg
  <2> HIDE DEF body
  <2> QED BY <2>1, <2>2 DEF CarriesAll
<1> HIDE DEF w, m
<1>4. SameInputs(u, w) /\ w.events = u.events
  BY <1>2 DEF Changes, Fields, SameInputs
<1> QED BY <1>1, <1>2, <1>3, <1>4 DEF SendsAll, w

(* One call after the other.                                                  *)
LEMMA SendsMore ==
  ASSUME NEW p, NEW S, NEW g, NEW u, NEW v, NEW w, SameInputs(u, v),
         SendsAll(p, S, g, u, v), SendsAll(p, S, g, v, w)
  PROVE  SendsAll(p, S, g, u, w)
  BY DEF SendsAll, CarriesAll, SameInputs

PollOK(p, S, g, T, h, u, w) ==
    /\ EndpointOK(p, S, g, T, h, w) /\ Tells(u, w) /\ Brings(T, h, h, w.events, 0)
    /\ SendsAll(p, S, g, u, w)
    /\ w.pending = u.pending /\ w.last_received = u.last_received
    /\ w.state = u.state

(* OnLoopPoll of an endpoint that runs: retries, quality reports,             *)
(* keep-alives and the two disconnect timers.                                 *)
LEMMA PollRunningDoes ==
  ASSUME NEW p, NEW S, NEW g, NEW T, NEW h, Known(p, S, g, T, h),
         NEW u, EndpointOK(p, S, g, T, h, u), u.events = <<>>, u.state = "running",
         NEW due, NEW status
  PROVE  PollOK(p, S, g, T, h, u, PollRunning(u, due, status))
<1> DEFINE retried   == IF "retry" \in due THEN SendPendingOutput(u, status) ELSE u
           reported  == IF "quality" \in due
                        THEN SendMsg(retried, [type |-> "QualityReport"]) ELSE retried
           alive     == IF "keep_alive" \in due /\ reported.out = <<>>
                        THEN SendMsg(reported, [type |-> "KeepAlive"]) ELSE reported
           announced == IF "interrupted" \in due /\ ~alive.notify_sent
                        THEN Interrupted(alive) ELSE alive
           w == IF "timeout" \in due /\ ~announced.disconnect_event_sent
                THEN TimedOut(announced) ELSE announced
           Fine(v) == /\ EndpointOK(p, S, g, T, h, v) /\ SameInputs(u, v) /\ v.events = <<>>
                      /\ SendsAll(p, S, g, u, v)
<1>0. h \in Nat /\ Len(T) \in Nat
  BY ListFacts DEF Known, SentOK
<1>1. Fine(u)
  BY DEF SameInputs, SendsAll
<1>2. ASSUME NEW v, Fine(v), NEW body, body.type \in BodyTypes \ {"Input"}
      PROVE  Fine(SendMsg(v, body))
  <2> DEFINE x == SendMsg(v, body)
  <2>1. EndpointOK(p, S, g, T, h, x) /\ SameInputs(v, x) /\ x.events = v.events
        /\ SendsAll(p, S, g, v, x)
    BY <1>2, SendDoes
  <2> HIDE DEF x
  <2> QED BY <1>2, <2>1, SendsMore DEF SameInputs, x
<1>3. Fine(retried)
  <2> DEFINE x == SendPendingOutput(u, status)
  <2>1. EndpointOK(p, S, g, T, h, x) /\ SameInputs(u, x) /\ x.events = u.events
        /\ SendsAll(p, S, g, u, x)
    BY SendPendingDoes
  <2> HIDE DEF x
  <2> QED BY <1>1, <2>1 DEF x
<1> HIDE DEF retried, Fine
<1>4. Fine(reported)
  BY <1>2, <1>3 DEF BodyTypes
<1> HIDE DEF reported
<1>5. Fine(alive)
  BY <1>2, <1>4 DEF BodyTypes
<1>6. PollRunning(u, due, status) = w
  BY DEF PollRunning, retried, reported
<1> HIDE DEF alive
<1> DEFINE c == [alive EXCEPT !.notify_sent = TRUE]
           i == QueueEvent(c, [type |-> "interrupted"])
<1>7. /\ EndpointOK(p, S, g, T, h, c) /\ c.events = <<>> /\ c.out = alive.out
      /\ c.pending = u.pending /\ c.last_received = u.last_received /\ c.state = u.state
      /\ c.notify_sent = TRUE
  <2>1. /\ DOMAIN c = Fields /\ c.notify_sent = TRUE
        /\ \A f \in Fields \ {"notify_sent"} : c[f] = alive[f]
    BY <1>5 DEF Fine, EndpointOK, ControlOK, IsEndpoint, Fields
  <2> HIDE DEF c
  <2>2. /\ c.events = alive.events /\ c.out = alive.out /\ c.pending = alive.pending
        /\ c.last_acked = alive.last_acked /\ c.last_received = alive.last_received
        /\ c.state = alive.state /\ c.magic = alive.magic
        /\ c.next_send_seq = alive.next_send_seq /\ c.next_recv_seq = alive.next_recv_seq
        /\ c.roundtrips = alive.roundtrips /\ c.remote_magic = alive.remote_magic
        /\ c.open = alive.open
    BY <2>1 DEF Fields
  <2>3. IsEndpoint(c)
    BY <1>5, <2>1, <2>2 DEF Fine, EndpointOK, ControlOK, IsEndpoint
  <2>4. ControlOK(p, h, c)
    BY <1>5, <2>1, <2>2, <2>3 DEF Fine, EndpointOK, ControlOK, SameInputs
  <2> QED BY <1>5, <2>1, <2>2, <2>4 DEF Fine, EndpointOK, Acked, SameInputs
<1> HIDE DEF c
<1>8. EndpointOK(p, S, g, T, h, i)
  BY <1>7, QueueKeeps
<1>9. Changes(c, i, {"events"}) /\ i.events = Append(<<>>, [type |-> "interrupted"])
  BY <1>7, QueueEventDoes DEF EndpointOK, ControlOK
<1>10. Interrupted(alive) = i
  BY DEF Interrupted, c
<1> HIDE DEF i
<1>11. /\ i.out = alive.out /\ i.pending = u.pending /\ i.last_received = u.last_received
       /\ i.state = u.state /\ i.notify_sent = TRUE
  BY <1>7, <1>9 DEF Changes, Fields
<1>12. /\ IsList(i.events) /\ Len(i.events) = 1 /\ i.events[1] = [type |-> "interrupted"]
  <2> DEFINE event == [type |-> "interrupted"]
  <2>1. IsList(<<>>) /\ Len(<<>>) = 0 /\ i.events = Append(<<>>, event)
    BY <1>9, NoList
  <2> HIDE DEF event
  <2>2. /\ IsList(Append(<<>>, event)) /\ Len(Append(<<>>, event)) = Len(<<>>) + 1
        /\ Append(<<>>, event)[Len(<<>>) + 1] = event
    BY <2>1, AppendList
  <2> QED BY <2>1, <2>2 DEF event
<1> DEFINE Good(v) ==
      /\ EndpointOK(p, S, g, T, h, v) /\ Tells(u, v) /\ SendsAll(p, S, g, u, v)
      /\ v.pending = u.pending /\ v.last_received = u.last_received /\ v.state = u.state
      /\ IsList(v.events) /\ TypesIn(v.events, EventTypes \ {"input"})
<1>13. Good(announced)
  <2>1. Good(alive)
    <3>1. TypesIn(alive.events, {"input", "disconnected"}) /\ TypesIn(alive.events, EventTypes)
          /\ TypesIn(alive.events, EventTypes \ {"input"}) /\ IsList(alive.events)
      BY <1>0, <1>5, NoEvents, NoList DEF Fine
    <3> QED BY <1>5, <3>1 DEF Fine, SameInputs, Tells
  <2>2. Good(i)
    <3>1. TypesIn(i.events, EventTypes) /\ TypesIn(i.events, EventTypes \ {"input"})
      BY <1>12 DEF TypesIn, EventTypes
    <3>2. Tells(u, i)
      BY <1>11, <1>12, <3>1 DEF Tells
    <3>3. SendsAll(p, S, g, u, i)
      BY <1>5, <1>11 DEF Fine, SendsAll
    <3> QED BY <1>8, <1>11, <1>12, <3>1, <3>2, <3>3
  <2> HIDE DEF Good
  <2> QED BY <1>10, <2>1, <2>2
<1> HIDE DEF announced
<1>14. Good(TimedOut(announced))
  <2> DEFINE e == [announced EXCEPT !.disconnect_event_sent = TRUE]
             t == QueueEvent(e, [type |-> "disconnected"])
  <2>1. Changes(announced, e, {"random", "connected", "next_recv_seq", "peer_status",
                               "disconnect_event_sent"})
        /\ e.next_recv_seq \in SequenceNumbers
    BY <1>13 DEF EndpointOK, ControlOK, IsEndpoint, Changes, Fields
  <2>2. t = TimedOut(announced)
    BY DEF TimedOut
  <2> HIDE DEF e
  <2>3. /\ EndpointOK(p, S, g, T, h, e) /\ e.events = announced.events
        /\ e.out = announced.out /\ e.state = announced.state
    BY <1>13, <2>1, OtherFieldsKeep
  <2>4. e.pending = announced.pending /\ e.last_received = announced.last_received
    BY <2>1 DEF Changes, Fields
  <2>5. EndpointOK(p, S, g, T, h, t)
    BY <2>3, QueueKeeps
  <2>6. Changes(e, t, {"events"}) /\ t.events = Append(announced.events, [type |-> "disconnected"])
    BY <2>3, QueueEventDoes DEF EndpointOK, ControlOK
  <2> HIDE DEF t
  <2>7. /\ t.out = announced.out /\ t.pending = announced.pending
        /\ t.last_received = announced.last_received /\ t.state = announced.state
    BY <2>3, <2>4, <2>6 DEF Changes, Fields
  <2>8. /\ IsList(t.events) /\ Len(t.events) = Len(announced.events) + 1
        /\ Len(announced.events) \in Nat
        /\ t.events[Len(announced.events) + 1] = [type |-> "disconnected"]
        /\ \A n \in 1 .. Len(announced.events) : t.events[n] = announced.events[n]
    BY <1>13, <2>6, AppendList, ListFacts
  <2>9. \A n \in 1 .. Len(t.events) : n \in 1 .. Len(announced.events)
                                      \/ n = Len(announced.events) + 1
    BY <2>8
  <2>10. TypesIn(t.events, EventTypes \ {"input"})
    BY SMTT(60), <1>13, <2>8, <2>9 DEF TypesIn, EventTypes
  <2>11. TypesIn(t.events, EventTypes) /\ Len(t.events) > 0
         /\ t.events[Len(t.events)].type = "disconnected"
    BY <2>8, <2>10 DEF TypesIn
  <2>12. Tells(u, t)
    BY <2>11 DEF Tells
  <2>13. SendsAll(p, S, g, u, t)
    BY <1>13, <2>7 DEF SendsAll
  <2> QED BY <1>13, <2>2, <2>5, <2>7, <2>8, <2>10, <2>12, <2>13
<1>15. Good(w)
  <2> HIDE DEF Good
  <2> QED BY <1>13, <1>14
<1> HIDE DEF w
<1>16. Brings(T, h, h, w.events, 0)
  BY <1>0, <1>15, NothingBrought
<1> QED BY <1>6, <1>15, <1>16 DEF PollOK

(* OnLoopPoll in every state.                                                 *)
LEMMA OnLoopPollDoes ==
  ASSUME NEW p, NEW S, NEW g, NEW T, NEW h, Known(p, S, g, T, h),
         NEW u, EndpointOK(p, S, g, T, h, u), u.events = <<>>,
         NEW due, NEW status, NEW random
  PROVE  PollOK(p, S, g, T, h, u, OnLoopPoll(u, due, status, random))
<1> DEFINE w == OnLoopPoll(u, due, status, random)
<1>0. h \in Nat /\ Len(T) \in Nat
  BY ListFacts DEF Known, SentOK
<1>1. ASSUME NEW v, EndpointOK(p, S, g, T, h, v), v.events = <<>>, v.pending = u.pending,
             v.last_received = u.last_received, v.state = u.state,
             v.notify_sent = u.notify_sent, SendsAll(p, S, g, u, v)
      PROVE  PollOK(p, S, g, T, h, u, v)
  <2>1. /\ TypesIn(v.events, {"input", "disconnected"}) /\ TypesIn(v.events, EventTypes)
        /\ Brings(T, h, h, v.events, 0)
    BY <1>0, <1>1, NoEvents
  <2>2. Tells(u, v)
    BY <1>1, <2>1 DEF Tells
  <2> QED BY <1>1, <2>1, <2>2 DEF PollOK
<1>2. PollOK(p, S, g, T, h, u, u)
  BY <1>1 DEF SendsAll
<1>3. CASE u.open /\ u.state = "syncing" /\ "retry" \in due
  <2> DEFINE v == [u EXCEPT !.random = random]
             body == [type |-> "SyncRequest", random |-> random]
             x == SendMsg(v, body)
  <2>1. w = x
    BY <1>3 DEF OnLoopPoll, SendSyncRequest
  <2>2. Changes(u, v, {"random", "connected", "next_recv_seq", "peer_status",
                       "disconnect_event_sent"})
        /\ v.next_recv_seq \in SequenceNumbers
    BY DEF EndpointOK, ControlOK, IsEndpoint, Changes, Fields
  <2> HIDE DEF v, w
  <2>3. /\ EndpointOK(p, S, g, T, h, v) /\ v.events = u.events /\ v.out = u.out
        /\ v.state = u.state /\ v.notify_sent = u.notify_sent
    BY <2>2, OtherFieldsKeep
  <2>4. v.pending = u.pending /\ v.last_received = u.last_received
    BY <2>2 DEF Changes, Fields
  <2>5. body.type \in BodyTypes \ {"Input"}
    BY DEF BodyTypes
  <2> HIDE DEF body
  <2>6. /\ EndpointOK(p, S, g, T, h, x) /\ SameInputs(v, x) /\ x.events = v.events
        /\ SendsAll(p, S, g, v, x)
    BY <2>3, <2>5, SendDoes
  <2> HIDE DEF x
  <2>7. SendsAll(p, S, g, u, x)
    BY <2>3, <2>4, <2>6 DEF SendsAll, CarriesAll
  <2>8. PollOK(p, S, g, T, h, u, x)
    BY <1>1, <2>3, <2>4, <2>6, <2>7 DEF SameInputs
  <2> QED BY <2>1, <2>8 DEF w
<1>4. CASE u.open /\ u.state = "running"
  <2>1. w = PollRunning(u, due, status)
    BY <1>4 DEF OnLoopPoll
  <2> HIDE DEF w
  <2>2. PollOK(p, S, g, T, h, u, PollRunning(u, due, status))
    BY <1>4, PollRunningDoes
  <2> QED BY <2>1, <2>2 DEF w
<1>5. CASE u.open /\ u.state = "disconnected" /\ "shutdown" \in due
  <2>1. w = [u EXCEPT !.open = FALSE]
    BY <1>5 DEF OnLoopPoll
  <2>2. DOMAIN w = Fields /\ \A f \in Fields \ {"open"} : w[f] = u[f]
    BY <2>1 DEF EndpointOK, ControlOK, IsEndpoint, Fields
  <2> HIDE DEF w
  <2>3. /\ w.events = u.events /\ w.out = u.out /\ w.pending = u.pending
        /\ w.last_acked = u.last_acked /\ w.last_received = u.last_received
        /\ w.state = u.state /\ w.magic = u.magic
        /\ w.next_send_seq = u.next_send_seq /\ w.next_recv_seq = u.next_recv_seq
        /\ w.roundtrips = u.roundtrips /\ w.remote_magic = u.remote_magic
        /\ w.notify_sent = u.notify_sent
    BY <2>2 DEF Fields
  <2>4. ControlOK(p, h, w)
    BY <1>5, <2>2, <2>3 DEF EndpointOK, ControlOK, IsEndpoint
  <2>5. EndpointOK(p, S, g, T, h, w)
    BY <2>3, <2>4 DEF EndpointOK, Acked
  <2>6. SendsAll(p, S, g, u, w)
    BY <2>3 DEF SendsAll
  <2>7. PollOK(p, S, g, T, h, u, w)
    BY <1>1, <2>3, <2>5, <2>6
  <2> QED BY <2>7 DEF w
<1>6. CASE \/ ~ u.open
           \/ u.state = "syncing" /\ ~ ("retry" \in due)
           \/ u.state = "disconnected" /\ ~ ("shutdown" \in due)
  <2>1. w = u
    <3>1. CASE ~ u.open
      <4>1. u.state # "syncing" /\ u.state # "running"
        BY <3>1 DEF EndpointOK, ControlOK
      <4> QED BY <3>1, <4>1 DEF OnLoopPoll
    <3>2. CASE u.open /\ u.state = "syncing" /\ ~ ("retry" \in due)
      BY <3>2 DEF OnLoopPoll
    <3>3. CASE u.open /\ u.state = "disconnected" /\ ~ ("shutdown" \in due)
      BY <3>3 DEF OnLoopPoll
    <3> QED BY <1>6, <3>1, <3>2, <3>3
  <2> HIDE DEF w
  <2>2. PollOK(p, S, g, T, h, u, w)
    BY <1>2, <2>1
  <2> QED BY <2>2 DEF w
<1>7. u.state \in {"syncing", "running", "disconnected"}
  BY DEF EndpointOK, ControlOK
<1> HIDE DEF w
<1>8. PollOK(p, S, g, T, h, u, w)
  BY <1>3, <1>4, <1>5, <1>6, <1>7 DEF w
<1> QED BY <1>8 DEF w

(* S2 continues S.                                                            *)
Extends(S, S2) == Len(S) <= Len(S2) /\ \A n \in 1 .. Len(S) : S2[n] = S[n]

(* An input more continues the inputs of a player.                            *)
LEMMA AppendExtends ==
  ASSUME NEW d, NEW S, SentOK(d, S), NEW x \in AnyInput, x.frame = d + Len(S)
  PROVE  LET S2 == Append(S, x)
         IN  /\ SentOK(d, S2) /\ Extends(S, S2)
             /\ Len(S2) = Len(S) + 1 /\ S2[Len(S) + 1] = x
<1> DEFINE S2 == Append(S, x)
<1>1. /\ S2 \in Seq(AnyInput) /\ Len(S2) = Len(S) + 1 /\ Len(S) \in Nat
      /\ S2[Len(S) + 1] = x /\ \A n \in 1 .. Len(S) : S2[n] = S[n]
  BY AppendProperties DEF SentOK
<1> HIDE DEF S2
<1>2. \A n \in 1 .. Len(S2) : n \in 1 .. Len(S) \/ n = Len(S) + 1
  BY <1>1
<1>3. d + (Len(S) + 1) - 1 = d + Len(S)
  BY <1>1 DEF SentOK
<1>4. \A n \in 1 .. Len(S2) : S2[n].frame = d + n - 1
  BY <1>1, <1>2, <1>3 DEF SentOK
<1>5. Extends(S, S2)
  BY <1>1 DEF Extends
<1> QED BY <1>1, <1>4, <1>5 DEF SentOK, S2

(* The inputs sent before stay what they were.                                *)
LEMMA BitOfMore ==
  ASSUME NEW S, Len(S) \in Nat, NEW S2, Extends(S, S2), NEW n \in 0 .. Len(S)
  PROVE  Bit(S2, n) = Bit(S, n)
  BY DEF Bit, Extends

(* What was true of a packet stays true while both players go on.             *)
LEMMA PacketMore ==
  ASSUME NEW p, NEW S, Len(S) \in Nat, NEW S2, Len(S2) \in Nat, Extends(S, S2),
         NEW g \in Nat, NEW g2 \in Nat, g <= g2,
         NEW r, r.frame \in Int, NEW r2, r2.frame \in Int, r.frame <= r2.frame,
         NEW m, PacketOK(p, S, g, r, m)
  PROVE  PacketOK(p, S2, g2, r2, m)
<1>1. ASSUME FramesOK(FrameDelay[p], S, g, m.body)
      PROVE  FramesOK(FrameDelay[p], S2, g2, m.body)
  <2>1. PICK i \in 0 .. Len(S) : Carries(FrameDelay[p], S, g, m.body, i)
    BY <1>1 DEF FramesOK
  <2>2. Len(m.body.frames) \in Nat /\ i + Len(m.body.frames) <= Len(S)
    BY <2>1, ListFacts DEF Carries
  <2>3. \A n \in 1 .. Len(m.body.frames) :
           m.body.frames[n] = Difference(Bit(S2, i + n - 1), Bit(S2, i + n))
    <3> SUFFICES ASSUME NEW n \in 1 .. Len(m.body.frames)
                 PROVE  m.body.frames[n] = Difference(Bit(S2, i + n - 1), Bit(S2, i + n))
      OBVIOUS
    <3>1. i + n - 1 \in 0 .. Len(S) /\ i + n \in 0 .. Len(S)
      BY <2>2
    <3>2. Bit(S2, i + n - 1) = Bit(S, i + n - 1) /\ Bit(S2, i + n) = Bit(S, i + n)
      BY <3>1, BitOfMore
    <3> QED BY <2>1, <3>2 DEF Carries
  <2>4. i \in 0 .. Len(S2) /\ i + Len(m.body.frames) <= Len(S2) /\ (i = 0 \/ i < g2)
    BY <2>1, <2>2 DEF Extends, Carries
  <2> QED BY <2>1, <2>3, <2>4 DEF FramesOK, Carries
<1> QED BY <1>1 DEF PacketOK

(* The other player received or sent more.                                    *)
LEMMA EndpointMore ==
  ASSUME NEW p, NEW S, Len(S) \in Nat, NEW g \in Nat, NEW g2 \in Nat, g <= g2,
         NEW T, NEW T2, Extends(T, T2), NEW h \in 0 .. Len(T), Len(T) \in Nat,
         NEW u, EndpointOK(p, S, g, T, h, u), u.out = <<>>
  PROVE  EndpointOK(p, S, g2, T2, h, u)
<1>1. u.last_received = At(FrameDelay[PeerOf(p)], T2, h)
  BY BitOfMore DEF EndpointOK, At
<1>2. Acked(p, S, g2, u)
  <2>1. Len(u.pending) \in Nat
    BY ListFacts DEF EndpointOK, Acked, PendingOK
  <2> QED BY <2>1 DEF EndpointOK, Acked, Gone
<1>3. ToSet(u.out) = {}
  BY NoList
<1> QED BY <1>1, <1>2, <1>3 DEF EndpointOK

(* A player who runs sends an input more.                                     *)
SendOK(p, S, g, T, h, u, w) ==
    /\ EndpointOK(p, S, g, T, h, w) /\ w.events = <<>>
    /\ w.last_received = u.last_received /\ w.state = u.state
    /\ w.notify_sent = u.notify_sent /\ Gone(S, w.pending) >= 0
    /\ w.last_acked = u.last_acked
    /\ \A x \in ToSet(w.out) : x.body.type = "Input" => CarriesAll(p, S, g, w, x)

(* SendInput appends the input to the pending output and sends all of it.     *)
LEMMA SendInputDoes ==
  ASSUME NEW p, NEW S, NEW g, NEW T, NEW h, Known(p, S, g, T, h),
         NEW u, EndpointOK(p, S, g, T, h, u), u.events = <<>>, u.out = <<>>,
         NEW x \in AnyInput, x.frame = FrameDelay[p] + Len(S), NEW status
  PROVE  /\ LET S2 == Append(S, x)
                w == SendInput(u, x, status)
            IN  u.state = "running" =>
                  /\ SendOK(p, S2, g, T, h, u, w)
                  /\ Gone(S2, w.pending) = Gone(S, u.pending)
                  /\ \E y \in ToSet(w.out) : y.body.type = "Input"
         /\ LET w == SendInput(u, x, status)
            IN  u.state # "running" =>
                  SendOK(p, S, g, T, h, u, w) /\ w.pending = u.pending
<1> DEFINE S2 == Append(S, x)
           v == [u EXCEPT !.pending = Append(@, x)]
           w == SendInput(u, x, status)
           d == FrameDelay[p]
<1>1. /\ SentOK(d, S2) /\ Extends(S, S2) /\ Len(S2) = Len(S) + 1 /\ S2[Len(S) + 1] = x
      /\ Len(S) \in Nat /\ SentOK(d, S)
  <2>1. SentOK(d, S) /\ x.frame = d + Len(S)
    BY DEF Known
  <2>2. Len(S) \in Nat
    BY <2>1 DEF SentOK
  <2> HIDE DEF d
  <2> QED BY <2>1, <2>2, AppendExtends
<1>2. /\ IsList(u.pending) /\ Len(u.pending) \in Nat /\ Len(u.pending) <= Len(S)
      /\ \A n \in 1 .. Len(u.pending) : u.pending[n] = S[Gone(S, u.pending) + n]
      /\ u.last_acked = At(d, S, Gone(S, u.pending))
      /\ DOMAIN u = Fields /\ g \in 0 .. Len(S)
      /\ Gone(S, u.pending) = 0 \/ Gone(S, u.pending) < g
  BY ListFacts DEF EndpointOK, Acked, PendingOK, ControlOK, IsEndpoint, Known
<1>3. ASSUME u.state = "running"
      PROVE  /\ SendOK(p, S2, g, T, h, u, w)
             /\ Gone(S2, w.pending) = Gone(S, u.pending)
             /\ \E y \in ToSet(w.out) : y.body.type = "Input"
  <2>1. w = SendPendingOutput(v, status)
    BY <1>3 DEF SendInput, Saves, EndpointOK, ControlOK
  <2>2. /\ DOMAIN v = Fields /\ v.pending = Append(u.pending, x)
        /\ \A f \in Fields \ {"pending"} : v[f] = u[f]
    BY <1>2 DEF Fields
  <2> HIDE DEF v, S2, w
  <2>3. /\ v.events = u.events /\ v.out = u.out /\ v.last_acked = u.last_acked
        /\ v.last_received = u.last_received
        /\ v.state = u.state /\ v.magic = u.magic
        /\ v.next_send_seq = u.next_send_seq /\ v.next_recv_seq = u.next_recv_seq
        /\ v.roundtrips = u.roundtrips /\ v.remote_magic = u.remote_magic
        /\ v.notify_sent = u.notify_sent /\ v.open = u.open
    BY <2>2 DEF Fields
  <2>4. /\ IsList(v.pending) /\ Len(v.pending) = Len(u.pending) + 1
        /\ v.pending[Len(u.pending) + 1] = x
        /\ \A n \in 1 .. Len(u.pending) : v.pending[n] = u.pending[n]
    BY <1>2, <2>2, AppendList
  <2>5. Gone(S2, v.pending) = Gone(S, u.pending) /\ Gone(S, u.pending) \in 0 .. Len(S)
    BY <1>1, <1>2, <2>4 DEF Gone
  <2>6. \A n \in 1 .. Len(v.pending) : v.pending[n] = S2[Gone(S2, v.pending) + n]
    <3> SUFFICES ASSUME NEW n \in 1 .. Len(v.pending)
                 PROVE  v.pending[n] = S2[Gone(S, u.pending) + n]
      BY <2>5
    <3>1. CASE n = Len(u.pending) + 1
      <4>1. Gone(S, u.pending) + n = Len(S) + 1
        <5>1. Gone(S, u.pending) = Len(S) - Len(u.pending)
          BY DEF Gone
        <5>2. Len(S) \in Nat /\ Len(u.pending) \in Nat
          BY <1>1, <1>2
        <5>3. \A a, b \in Nat : (a - b) + (b + 1) = a + 1
          OBVIOUS
        <5>4. (Len(S) - Len(u.pending)) + (Len(u.pending) + 1) = Len(S) + 1
          BY <5>2, <5>3
        <5> QED BY <3>1, <5>1, <5>4
      <4> QED BY <1>1, <2>4, <3>1, <4>1
    <3>2. CASE n \in 1 .. Len(u.pending)
      <4>1. Gone(S, u.pending) + n \in 1 .. Len(S)
        BY <1>1, <1>2, <3>2 DEF Gone
      <4> QED BY <1>1, <1>2, <2>4, <3>2, <4>1 DEF Extends
    <3> QED BY <1>2, <2>4, <3>1, <3>2
  <2>7. v.last_acked = At(d, S2, Gone(S2, v.pending))
    <3>1. Bit(S2, Gone(S, u.pending)) = Bit(S, Gone(S, u.pending))
      BY <1>1, <2>5, BitOfMore
    <3> QED BY <1>2, <2>3, <2>5, <3>1 DEF At
  <2>8. PendingOK(d, S2, v.pending, v.last_acked)
    BY <1>1, <1>2, <2>4, <2>6, <2>7 DEF PendingOK
  <2>9. Acked(p, S2, g, v)
    BY <1>2, <2>5, <2>8 DEF Acked
  <2>10. ControlOK(p, h, v)
    BY <2>2, <2>3 DEF EndpointOK, ControlOK, IsEndpoint
  <2>11. ToSet(v.out) = {}
    BY <2>3, NoList
  <2>12. EndpointOK(p, S2, g, T, h, v)
    BY <2>3, <2>9, <2>10, <2>11 DEF EndpointOK
  <2>13. Known(p, S2, g, T, h)
    BY <1>1, <1>2 DEF Known
  <2>14. LET y == SendPendingOutput(v, status)
         IN  /\ EndpointOK(p, S2, g, T, h, y) /\ SameInputs(v, y) /\ y.events = v.events
             /\ SendsAll(p, S2, g, v, y) /\ SendPendingOutputAsserts(v)
             /\ \E z \in ToSet(y.out) : CarriesAll(p, S2, g, v, z) /\ z.body.type = "Input"
    BY <2>12, <2>13, SendPendingDoes
  <2>15. SendOK(p, S2, g, T, h, u, w)
    <3>1. \A y \in ToSet(w.out) : y.body.type = "Input" => CarriesAll(p, S2, g, w, y)
      BY <2>1, <2>11, <2>14 DEF SendsAll, CarriesAll, SameInputs
    <3>2. Gone(S2, w.pending) >= 0
      BY <1>1, <2>1, <2>5, <2>14 DEF SameInputs
    <3> QED BY <2>1, <2>3, <2>14, <3>1, <3>2 DEF SendOK, SameInputs
  <2> QED BY <2>1, <2>5, <2>14, <2>15 DEF SameInputs
<1>4. ASSUME u.state # "running"
      PROVE  SendOK(p, S, g, T, h, u, w) /\ w.pending = u.pending
  <2>0. Gone(S, u.pending) >= 0
    BY <1>1, <1>2 DEF Gone
  <2>1. ToSet(u.out) = {}
    BY NoList
  <2>2. CASE u.open
    <3>1. w = SendPendingOutput(u, status)
      BY <1>4, <2>2 DEF SendInput, Saves
    <3> HIDE DEF w
    <3>2. LET y == SendPendingOutput(u, status)
          IN  /\ EndpointOK(p, S, g, T, h, y) /\ SameInputs(u, y) /\ y.events = u.events
              /\ SendsAll(p, S, g, u, y) /\ SendPendingOutputAsserts(u)
              /\ \E z \in ToSet(y.out) : CarriesAll(p, S, g, u, z) /\ z.body.type = "Input"
      BY SendPendingDoes
    <3> QED BY <2>0, <2>1, <3>1, <3>2 DEF SendOK, SendsAll, CarriesAll, SameInputs
  <2>3. CASE ~ u.open
    <3>1. w = u
      BY <2>3 DEF SendInput, Saves
    <3> QED BY <2>0, <2>1, <3>1 DEF SendOK
  <2> QED BY <2>2, <2>3
<1> HIDE DEF w, S2
<1> QED BY <1>3, <1>4 DEF w, S2
-----------------------------------------------------------------------------
(* The backend is given the events.                                           *)
Shown == {"Connecting", "Synchronizing", "Running", "Disconnecting", "Disconnected"}

(* An endpoint and its backend, while the events are handled.                 *)
PairOK(s) ==
    /\ DOMAIN s = {"u", "backend"}
    /\ DOMAIN s.backend = {"synchronizing", "delivered", "shown"}
    /\ s.backend.shown \in Shown /\ s.backend.delivered \in Seq(AnyInput)
    /\ DOMAIN s.u = Fields

Given(s, event) ==
    IF event.type = "input" /\ s.u.state # "disconnected"
    THEN Append(s.backend.delivered, event.input) ELSE s.backend.delivered

(* What one event does to them.                                               *)
EventOK(s, event, r) ==
    /\ PairOK(r)
    /\ r.u = IF event.type = "disconnected" /\ s.u.state # "disconnected"
             THEN Disconnect(s.u) ELSE s.u
    /\ r.backend.delivered = Given(s, event)
    /\ event.type = "input" => r.backend.shown = s.backend.shown
    /\ event.type = "resumed" => r.backend.shown = "Running"
    /\ event.type = "interrupted" => r.backend.shown = "Disconnecting"
    /\ event.type # "interrupted" /\ s.backend.shown # "Disconnecting"
         => r.backend.shown # "Disconnecting"

(* What the application is told changes nothing but what it shows.            *)
LEMMA NotifyDoes ==
  ASSUME NEW s, PairOK(s), NEW code
  PROVE  LET r == Notify(s, code)
         IN  /\ PairOK(r) /\ r.u = s.u /\ r.backend.delivered = s.backend.delivered
             /\ r.backend.synchronizing = s.backend.synchronizing
             /\ r.backend.shown = ShownAfter(s.backend.shown, code)
<1> DEFINE r == Notify(s, code)
           b == [s.backend EXCEPT !.shown = ShownAfter(@, code)]
<1>1. r = [s EXCEPT !.backend = b]
  BY DEF Notify, PairOK
<1>2. /\ DOMAIN b = {"synchronizing", "delivered", "shown"}
      /\ b.delivered = s.backend.delivered /\ b.synchronizing = s.backend.synchronizing
      /\ b.shown = ShownAfter(s.backend.shown, code)
  BY DEF PairOK
<1>3. ShownAfter(s.backend.shown, code) \in Shown
  BY DEF ShownAfter, Shown, PairOK
<1> HIDE DEF b
<1>4. DOMAIN r = {"u", "backend"} /\ r.u = s.u /\ r.backend = b
  BY <1>1 DEF PairOK
<1> HIDE DEF r
<1> QED BY <1>2, <1>3, <1>4 DEF PairOK, r

(* CheckInitialSync takes no input.                                           *)
LEMMA CheckInitialSyncDoes ==
  ASSUME NEW s, PairOK(s)
  PROVE  LET r == CheckInitialSync(s)
         IN  /\ PairOK(r) /\ r.u = s.u /\ r.backend.delivered = s.backend.delivered
             /\ r.backend.shown = s.backend.shown \/ r.backend.shown = "Running"
<1> DEFINE b == [s.backend EXCEPT !.synchronizing = FALSE]
           v == [s EXCEPT !.backend.synchronizing = FALSE]
           r == CheckInitialSync(s)
<1>1. v = [s EXCEPT !.backend = b]
  BY DEF PairOK
<1>2. /\ DOMAIN b = {"synchronizing", "delivered", "shown"}
      /\ b.delivered = s.backend.delivered /\ b.shown = s.backend.shown
  BY DEF PairOK
<1> HIDE DEF b
<1>3. DOMAIN v = {"u", "backend"} /\ v.u = s.u /\ v.backend = b
  BY <1>1 DEF PairOK
<1>4. r = IF s.backend.synchronizing /\ s.u.state # "syncing" THEN Notify(v, "running") ELSE s
  BY DEF CheckInitialSync
<1> HIDE DEF v, r
<1>5. PairOK(v)
  BY <1>2, <1>3 DEF PairOK
<1>6. ShownAfter(v.backend.shown, "running") = "Running"
  BY DEF ShownAfter
<1>7. /\ PairOK(Notify(v, "running")) /\ Notify(v, "running").u = v.u
      /\ Notify(v, "running").backend.delivered = v.backend.delivered
      /\ Notify(v, "running").backend.shown = ShownAfter(v.backend.shown, "running")
  BY <1>5, NotifyDoes
<1> QED BY <1>2, <1>3, <1>4, <1>6, <1>7 DEF r

(* DisconnectPlayer stops the endpoint and takes no input.                    *)
LEMMA DisconnectPlayerDoes ==
  ASSUME NEW s, PairOK(s)
  PROVE  LET r == DisconnectPlayer(s)
         IN  /\ PairOK(r) /\ r.backend.delivered = s.backend.delivered
             /\ r.u = IF s.u.state # "disconnected" THEN Disconnect(s.u) ELSE s.u
             /\ s.backend.shown # "Disconnecting" => r.backend.shown # "Disconnecting"
             /\ r.backend.shown = s.backend.shown \/ r.u.state = "disconnected"
<1> DEFINE r == DisconnectPlayer(s)
           v == [s EXCEPT !.u = Disconnect(@)]
           n == Notify(v, "disconnected")
           c == CheckInitialSync(n)
<1>1. DOMAIN v = {"u", "backend"} /\ v.u = Disconnect(s.u) /\ v.backend = s.backend
  BY DEF PairOK
<1>2. DOMAIN v.u = Fields /\ v.u.state = "disconnected"
  BY <1>1 DEF PairOK, Disconnect, Fields
<1>3. r = IF s.u.state = "disconnected" THEN s ELSE c
  BY DEF DisconnectPlayer
<1> HIDE DEF v
<1>4. PairOK(v)
  BY <1>1, <1>2 DEF PairOK
<1>5. /\ PairOK(n) /\ n.u = v.u /\ n.backend.delivered = v.backend.delivered
      /\ n.backend.shown = ShownAfter(v.backend.shown, "disconnected")
  BY <1>4, NotifyDoes
<1> HIDE DEF n
<1>6. /\ PairOK(c) /\ c.u = n.u /\ c.backend.delivered = n.backend.delivered
      /\ c.backend.shown = n.backend.shown \/ c.backend.shown = "Running"
  BY <1>5, CheckInitialSyncDoes
<1>7. n.backend.shown = "Disconnected"
  BY <1>5 DEF ShownAfter
<1> HIDE DEF c, r
<1> QED BY <1>1, <1>2, <1>3, <1>5, <1>6, <1>7 DEF r

(* OnUdpProtocolPeerEvent, for every kind of event.                           *)
LEMMA OnEventDoes ==
  ASSUME NEW s, PairOK(s), NEW event, event.type \in EventTypes,
         event.type = "input" => event.input \in AnyInput
  PROVE  EventOK(s, event, OnEvent(s, event))
<1> DEFINE r == OnEvent(s, event)
<1>1. CASE event.type = "synchronized"
  <2>1. r = CheckInitialSync(s)
    BY <1>1 DEF OnEvent
  <2> HIDE DEF r
  <2>2. /\ PairOK(r) /\ r.u = s.u /\ r.backend.delivered = s.backend.delivered
        /\ r.backend.shown = s.backend.shown \/ r.backend.shown = "Running"
    BY <2>1, CheckInitialSyncDoes
  <2>3. EventOK(s, event, r)
    BY <1>1, <2>2 DEF EventOK, Given
  <2> QED BY <2>3 DEF r
<1>2. CASE event.type = "disconnected"
  <2>1. r = DisconnectPlayer(s)
    BY <1>2 DEF OnEvent
  <2> HIDE DEF r
  <2>2. /\ PairOK(r) /\ r.backend.delivered = s.backend.delivered
        /\ r.u = IF s.u.state # "disconnected" THEN Disconnect(s.u) ELSE s.u
        /\ s.backend.shown # "Disconnecting" => r.backend.shown # "Disconnecting"
    BY <2>1, DisconnectPlayerDoes
  <2>3. EventOK(s, event, r)
    BY <1>2, <2>2 DEF EventOK, Given
  <2> QED BY <2>3 DEF r
<1>3. CASE event.type = "input" /\ s.u.state # "disconnected"
  <2> DEFINE b == [s.backend EXCEPT !.delivered = Append(@, event.input)]
  <2>1. r = [s EXCEPT !.backend.delivered = Append(@, event.input)]
    BY <1>3 DEF OnEvent
  <2>2. r = [s EXCEPT !.backend = b]
    BY <2>1 DEF PairOK
  <2>3. /\ DOMAIN b = {"synchronizing", "delivered", "shown"}
        /\ b.delivered = Append(s.backend.delivered, event.input)
        /\ b.shown = s.backend.shown
    BY DEF PairOK
  <2>4. Append(s.backend.delivered, event.input) \in Seq(AnyInput)
    BY <1>3, AppendProperties DEF PairOK
  <2> HIDE DEF b, r
  <2>5. DOMAIN r = {"u", "backend"} /\ r.u = s.u /\ r.backend = b
    BY <2>2 DEF PairOK
  <2>6. EventOK(s, event, r)
    BY <1>3, <2>3, <2>4, <2>5 DEF EventOK, Given, PairOK
  <2> QED BY <2>6 DEF r
<1>4. CASE /\ event.type \notin {"synchronized", "disconnected"}
           /\ ~ (event.type = "input" /\ s.u.state # "disconnected")
  <2>1. r = Notify(s, event.type)
    BY <1>4 DEF OnEvent
  <2> HIDE DEF r
  <2>2. /\ PairOK(r) /\ r.u = s.u /\ r.backend.delivered = s.backend.delivered
        /\ r.backend.shown = ShownAfter(s.backend.shown, event.type)
    BY <2>1, NotifyDoes
  <2>3. EventOK(s, event, r)
    BY <1>4, <2>2 DEF EventOK, Given, ShownAfter, EventTypes
  <2> QED BY <2>3 DEF r
<1> QED BY <1>1, <1>2, <1>3, <1>4

(* The steps of HandleEvents.                                                 *)
Done(b, u) ==
    LET done[n \in 0 .. Len(u.events)] ==
            IF n = 0 THEN [u |-> TakeEvents(u), backend |-> b]
            ELSE OnEvent(done[n - 1], u.events[n])
    IN  done

(* HandleEvents applies the events one after the other.                       *)
LEMMA HandleEventsIs ==
  ASSUME NEW p, NEW u, HandleEvents(p, u)
  PROVE  LET r == Done(backend[p], u)[Len(u.events)]
         IN  Becomes(p, r.u) /\ backend' = [backend EXCEPT ![p] = r.backend]
  BY DEF HandleEvents, Done

(* There is such a function: one step can be added to the others.             *)
LEMMA DoneDoes ==
  ASSUME NEW b, NEW u, IsList(u.events)
  PROVE  LET f == Done(b, u)
         IN  /\ f[0] = [u |-> TakeEvents(u), backend |-> b]
             /\ \A n \in 1 .. Len(u.events) : f[n] = OnEvent(f[n - 1], u.events[n])
<1> DEFINE start == [u |-> TakeEvents(u), backend |-> b]
           E == u.events
           step(f, n) == IF n = 0 THEN start ELSE OnEvent(f[n - 1], E[n])
           P == {k \in Nat : \E f : f = [n \in 0 .. k |-> step(f, n)]}
           f == CHOOSE f : f = [n \in 0 .. Len(E) |-> step(f, n)]
<1>1. Len(E) \in Nat
  BY ListFacts
<1>2. 0 \in P
  <2> DEFINE a == [n \in 0 .. 0 |-> start]
  <2>1. a = [n \in 0 .. 0 |-> step(a, n)]
    <3>1. \A n \in 0 .. 0 : step(a, n) = start
      OBVIOUS
    <3> HIDE DEF step
    <3> QED BY <3>1
  <2> HIDE DEF step
  <2> QED BY <2>1
<1>3. ASSUME NEW k \in Nat, k \in P
      PROVE  k + 1 \in P
  <2>1. PICK a : a = [n \in 0 .. k |-> step(a, n)]
    BY <1>3
  <2> DEFINE x == OnEvent(a[k], E[k + 1])
             c == [n \in 0 .. k + 1 |-> IF n = k + 1 THEN x ELSE a[n]]
  <2>2. \A n \in 0 .. k + 1 : c[n] = IF n = k + 1 THEN x ELSE a[n]
    OBVIOUS
  <2>3. \A n \in 0 .. k : a[n] = step(a, n)
    <3> HIDE DEF step
    <3> QED BY <2>1
  <2>4. \A n \in 0 .. k : c[n] = a[n]
    <3> HIDE DEF c
    <3> QED BY <2>2
  <2>5. \A n \in 0 .. k + 1 : c[n] = step(c, n)
    <3> SUFFICES ASSUME NEW n \in 0 .. k + 1 PROVE c[n] = step(c, n)
      OBVIOUS
    <3> HIDE DEF c
    <3>1. CASE n = k + 1
      <4>1. n # 0 /\ n - 1 = k /\ k \in 0 .. k
        BY <3>1
      <4>2. step(c, n) = OnEvent(c[k], E[k + 1])
        BY <3>1, <4>1
      <4> QED BY <2>2, <2>4, <3>1, <4>1, <4>2
    <3>2. CASE n = 0
      BY <2>3, <2>4, <3>2
    <3>3. CASE n # 0 /\ n # k + 1
      <4>1. n \in 0 .. k /\ n - 1 \in 0 .. k
        BY <3>3
      <4>2. c[n] = a[n] /\ c[n - 1] = a[n - 1] /\ a[n] = step(a, n)
        BY <2>3, <2>4, <4>1
      <4> QED BY <3>3, <4>2
    <3> QED BY <3>1, <3>2, <3>3
  <2>6. c = [n \in 0 .. k + 1 |-> step(c, n)]
    <3> HIDE DEF step, x
    <3> QED BY <2>5
  <2> HIDE DEF c, step
  <2> QED BY <2>6
<1>4. Len(E) \in P
  <2> DEFINE N == Len(E)
  <2> HIDE DEF P
  <2>1. N \in Int /\ N \in 0 .. N /\ \A n \in Nat : n < N /\ n \in P => n + 1 \in P
    BY <1>1, <1>3
  <2> HIDE DEF N
  <2>2. \A n \in 0 .. N : n \in P
    BY <1>2, <2>1, Induction
  <2> QED BY <2>1, <2>2 DEF N
<1>5. f = [n \in 0 .. Len(E) |-> step(f, n)]
  <2> HIDE DEF step
  <2> QED BY <1>4
<1>6. Done(b, u) = f
  BY DEF Done
<1>7. \A n \in 0 .. Len(E) : f[n] = step(f, n)
  <2> HIDE DEF f, step
  <2> QED BY <1>5
<1>8. f[0] = start /\ \A n \in 1 .. Len(E) : f[n] = OnEvent(f[n - 1], E[n])
  <2> HIDE DEF f, start, E
  <2> QED BY <1>1, <1>7
<1> HIDE DEF f, start
<1> QED BY <1>6, <1>8 DEF start

(* What a player's backend has when its endpoint has received h of the inputs *)
(* T: all of them until it disconnects the other player, none after that.     *)
BackendOK(b, u, T, h) ==
    /\ DOMAIN b = {"synchronizing", "delivered", "shown"}
    /\ b.shown \in Shown /\ b.delivered \in Seq(AnyInput)
    /\ Extends(b.delivered, T) /\ Len(b.delivered) <= h
    /\ u.state # "disconnected" => Len(b.delivered) = h
    /\ u.state = "syncing" => b.shown # "Disconnecting"
    /\ u.state = "running" => (b.shown = "Disconnecting") = u.notify_sent

(* How many of the inputs from h + 1 to h2 the first n events bring.          *)
Arrived(h, h2, pre, n) == Max2(0, Min2(n - pre, h2 - h))

(* At the end of the queue all new inputs have come.                          *)
LEMMA ArrivedAll ==
  ASSUME NEW h \in Nat, NEW h2 \in Nat, h <= h2, NEW pre \in {0, 1}, NEW n \in Nat,
         n >= pre + (h2 - h)
  PROVE  Arrived(h, h2, pre, n) = h2 - h /\ Arrived(h, h2, pre, 0) = 0
  BY DEF Arrived, Max2, Min2

(* While the events E are handled, from the backend b and the endpoint v.     *)
Handling(b, v, E, T, h, h2, pre, n, s) ==
    /\ PairOK(s) /\ s.u \in {v, Disconnect(v)}
    /\ Len(b.delivered) <= Len(s.backend.delivered)
    /\ Extends(s.backend.delivered, T)
    /\ Len(s.backend.delivered) <= h + Arrived(h, h2, pre, n)
    /\ s.u.state # "disconnected" => Len(s.backend.delivered) = h + Arrived(h, h2, pre, n)
    /\ TypesIn(E, EventTypes \ {"interrupted"}) /\ b.shown # "Disconnecting"
          => s.backend.shown # "Disconnecting"
    /\ TypesIn(E, {"input", "disconnected"})
          => s.u.state = "disconnected" \/ s.backend.shown = b.shown

(* One more event is handled.                                                 *)
LEMMA HandlingStep ==
  ASSUME NEW b, NEW v, DOMAIN v = Fields, NEW E, TypesIn(E, EventTypes), Len(E) \in Nat,
         NEW d, NEW T, SentOK(d, T), NEW h \in Nat, NEW h2 \in 0 .. Len(T), h <= h2,
         NEW pre \in {0, 1}, Brings(T, h, h2, E, pre), b.delivered \in Seq(AnyInput),
         NEW n \in 1 .. Len(E), NEW s, Handling(b, v, E, T, h, h2, pre, n - 1, s)
  PROVE  /\ Handling(b, v, E, T, h, h2, pre, n, OnEvent(s, E[n]))
         /\ EventOK(s, E[n], OnEvent(s, E[n]))
<1> DEFINE event == E[n]
           r == OnEvent(s, event)
           before == s.backend.delivered
           after == r.backend.delivered
           a == Arrived(h, h2, pre, n - 1)
           c == Arrived(h, h2, pre, n)
<1>1. Len(T) \in Nat /\ T \in Seq(AnyInput) /\ h2 \in Nat /\ n \in Nat /\ n # 0
  BY DEF SentOK
<1>2. /\ n \in pre + 1 .. pre + (h2 - h) => c = n - pre /\ a = n - pre - 1
      /\ n \notin pre + 1 .. pre + (h2 - h) => c = a
      /\ c \in Nat /\ a \in Nat
  <2>0. n \in Nat /\ n # 0 /\ h2 \in Nat
    BY <1>1
  <2>1. /\ n \in pre + 1 .. pre + (h2 - h) =>
              /\ Arrived(h, h2, pre, n) = n - pre
              /\ Arrived(h, h2, pre, n - 1) = n - pre - 1
        /\ n \notin pre + 1 .. pre + (h2 - h) =>
              Arrived(h, h2, pre, n) = Arrived(h, h2, pre, n - 1)
        /\ Arrived(h, h2, pre, n) \in Nat
        /\ Arrived(h, h2, pre, n - 1) \in Nat
    BY <2>0 DEF Arrived, Max2, Min2
  <2> QED BY <2>1
<1>3. event.type \in EventTypes
  BY DEF TypesIn
<1>4. event.type = "input" <=> n \in pre + 1 .. pre + (h2 - h)
  <2>1. event.type = "input" => n \in pre + 1 .. pre + (h2 - h)
    BY DEF Brings
  <2>2. ASSUME n \in pre + 1 .. pre + (h2 - h)
        PROVE  event.type = "input"
    <3>1. n - pre \in 1 .. h2 - h /\ pre + (n - pre) = n
      BY <1>1, <2>2
    <3>2. event = InputEvent(T, h + (n - pre))
      BY <3>1 DEF Brings
    <3> QED BY <3>2 DEF InputEvent
  <2> QED BY <2>1, <2>2
<1>5. event.type = "input" => /\ event.input = T[h + c] /\ h + c \in 1 .. Len(T)
                              /\ event.input \in AnyInput /\ c = a + 1
  <2> SUFFICES ASSUME event.type = "input"
               PROVE  /\ event.input = T[h + c] /\ h + c \in 1 .. Len(T)
                      /\ event.input \in AnyInput /\ c = a + 1
    OBVIOUS
  <2>1. n - pre \in 1 .. h2 - h /\ pre + (n - pre) = n /\ c = n - pre /\ c = a + 1
    BY <1>1, <1>2, <1>4
  <2>2. event = InputEvent(T, h + c)
    BY <2>1 DEF Brings
  <2>3. h + c \in 1 .. Len(T)
    BY <1>1, <2>1
  <2>4. T[h + c] \in AnyInput
    BY <1>1, <2>3, ElementOfSeq
  <2> HIDE DEF c, event
  <2> QED BY <2>1, <2>2, <2>3, <2>4 DEF InputEvent
<1>6. PairOK(s)
  BY DEF Handling
<1> HIDE DEF event
<1>7. EventOK(s, event, r)
  BY <1>3, <1>5, <1>6, OnEventDoes
<1> HIDE DEF r, a, c
<1>8. after = Given(s, event) /\ PairOK(r)
  BY <1>7 DEF EventOK
<1>9. /\ before \in Seq(AnyInput) /\ Len(before) \in Nat /\ Len(before) <= h + a
      /\ Extends(before, T) /\ Len(b.delivered) <= Len(before) /\ Len(b.delivered) \in Nat
      /\ s.u.state # "disconnected" => Len(before) = h + a
      /\ s.u \in {v, Disconnect(v)}
  BY DEF Handling, PairOK, a
<1>10. r.u \in {v, Disconnect(v)} /\ (s.u.state = "disconnected" => r.u.state = "disconnected")
  <2>1. Disconnect(v).state = "disconnected"
    BY DEF Disconnect, Fields
  <2> QED BY <1>7, <1>9, <2>1 DEF EventOK
<1>11. CASE event.type = "input" /\ s.u.state # "disconnected"
  <2>1. after = Append(before, T[h + c]) /\ Len(before) = h + a /\ h + c = Len(before) + 1
    <3>1. after = Append(before, T[h + c])
      BY <1>5, <1>8, <1>11 DEF Given
    <3>2. Len(before) = h + a /\ c = a + 1
      BY <1>5, <1>9, <1>11
    <3>3. h + c = Len(before) + 1
      BY <1>2, <3>2
    <3> QED BY <3>1, <3>2, <3>3
  <2> HIDE DEF before, after
  <2>2. /\ Len(after) = Len(before) + 1
        /\ after[Len(before) + 1] = T[h + c]
        /\ \A m \in 1 .. Len(before) : after[m] = before[m]
    <3>1. T[h + c] \in AnyInput
      BY <1>5, <1>11
    <3> QED BY <1>9, <2>1, <3>1, AppendProperties
  <2>3. \A m \in 1 .. Len(after) : m \in 1 .. Len(before) \/ m = h + c
    BY <1>9, <2>1, <2>2
  <2>4. \A m \in 1 .. Len(after) : T[m] = after[m]
    BY <1>9, <2>2, <2>3 DEF Extends
  <2>5. Len(after) = h + c /\ Len(after) <= Len(T) /\ Len(b.delivered) <= Len(after)
    BY <1>1, <1>5, <1>9, <1>11, <2>1, <2>2
  <2>6. Extends(after, T)
    BY <2>4, <2>5 DEF Extends
  <2>7. r.backend.shown = s.backend.shown /\ r.u = s.u
    BY <1>7, <1>11 DEF EventOK
  <2>8. h + c <= h + c
    BY <1>2
  <2> QED BY <1>7, <1>8, <1>10, <2>5, <2>6, <2>7, <2>8 DEF Handling, r, c, event, after
<1>12. CASE ~ (event.type = "input" /\ s.u.state # "disconnected")
  <2>1. after = before
    BY <1>8, <1>12 DEF Given
  <2>2. a <= c
    BY <1>1, <1>2
  <2>3. Len(before) <= h + c
    <3>1. Len(before) \in Nat /\ Len(before) <= h + a /\ a \in Nat /\ c \in Nat
      BY <1>2, <1>9
    <3> HIDE DEF before
    <3> QED BY <2>2, <3>1
  <2>4. r.u.state # "disconnected" => Len(before) = h + c
    BY <1>2, <1>4, <1>9, <1>10, <1>12
  <2>5. TypesIn(E, EventTypes \ {"interrupted"}) => event.type # "interrupted"
    BY DEF TypesIn, event
  <2>6. TypesIn(E, {"input", "disconnected"}) => event.type \in {"input", "disconnected"}
    BY DEF TypesIn, event
  <2>7. event.type = "disconnected" => r.u.state = "disconnected"
    <3>1. Disconnect(s.u).state = "disconnected"
      BY <1>6 DEF Disconnect, PairOK, Fields
    <3> QED BY <1>7, <3>1 DEF EventOK
  <2>8. TypesIn(E, EventTypes \ {"interrupted"}) /\ b.shown # "Disconnecting"
          => r.backend.shown # "Disconnecting"
    BY <1>7, <2>5 DEF Handling, EventOK
  <2>9. TypesIn(E, {"input", "disconnected"})
          => r.u.state = "disconnected" \/ r.backend.shown = b.shown
    BY <1>7, <1>10, <2>6, <2>7 DEF Handling, EventOK
  <2>10. Handling(b, v, E, T, h, h2, pre, n, r)
    BY <1>8, <1>9, <1>10, <2>1, <2>3, <2>4, <2>8, <2>9 DEF Handling, c
  <2> QED BY <1>7, <2>10 DEF r, event
<1> QED BY <1>11, <1>12

(* All events of a call.                                                      *)
LEMMA EventsDo ==
  ASSUME NEW p, NEW S, NEW g, NEW T, NEW h \in Nat, NEW h2, Known(p, S, g, T, h2), h <= h2,
         NEW u0, NEW u, EndpointOK(p, S, g, T, h2, u), Tells(u0, u),
         u0.state \in {"syncing", "running", "disconnected"},
         u0.state = "syncing" \/ u.state = u0.state,
         NEW pre \in {0, 1}, Brings(T, h, h2, u.events, pre),
         NEW b, BackendOK(b, u0, T, h)
  PROVE  LET r == Done(b, u)[Len(u.events)]
         IN  /\ EndpointOK(p, S, g, T, h2, r.u) /\ BackendOK(r.backend, r.u, T, h2)
             /\ r.u.events = <<>> /\ r.u.out = u.out /\ r.u.pending = u.pending
             /\ r.u.last_received = u.last_received
             /\ Len(b.delivered) <= Len(r.backend.delivered)
<1> DEFINE E == u.events
           N == Len(E)
           v == TakeEvents(u)
           f == Done(b, u)
           I(n) == Handling(b, v, E, T, h, h2, pre, n, f[n])
           d == FrameDelay[PeerOf(p)]
<1>1. /\ Len(T) \in Nat /\ T \in Seq(AnyInput) /\ h2 \in 0 .. Len(T) /\ h2 \in Nat /\ SentOK(d, T)
  BY DEF Known, SentOK
<1>2. IsList(E) /\ N \in Nat /\ DOMAIN u = Fields /\ TypesIn(E, EventTypes)
  BY ListFacts DEF EndpointOK, ControlOK, IsEndpoint, Tells
<1>3. /\ DOMAIN v = Fields /\ v.events = <<>>
      /\ \A x \in Fields \ {"events"} : v[x] = u[x]
  BY <1>2 DEF TakeEvents, Fields
<1>4. /\ v.state = u.state /\ v.out = u.out /\ v.pending = u.pending
      /\ v.last_received = u.last_received /\ v.last_acked = u.last_acked
      /\ v.notify_sent = u.notify_sent /\ v.magic = u.magic
      /\ v.next_send_seq = u.next_send_seq /\ v.next_recv_seq = u.next_recv_seq
      /\ v.roundtrips = u.roundtrips /\ v.remote_magic = u.remote_magic /\ v.open = u.open
  BY <1>3 DEF Fields
<1>5. f[0] = [u |-> v, backend |-> b] /\ \A n \in 1 .. N : f[n] = OnEvent(f[n - 1], E[n])
  BY <1>2, DoneDoes
<1> HIDE DEF f, v
<1>6. b.delivered \in Seq(AnyInput) /\ Len(b.delivered) \in Nat /\ Extends(b.delivered, T)
  BY DEF BackendOK
<1>7. I(0)
  <2> DEFINE s == f[0]
  <2>1. s.u = v /\ s.backend = b /\ DOMAIN s = {"u", "backend"}
    BY <1>5
  <2> HIDE DEF s
  <2>2. PairOK(s)
    BY <1>3, <2>1 DEF PairOK, BackendOK
  <2>3. Arrived(h, h2, pre, 0) = 0
    BY <1>1 DEF Arrived, Max2, Min2
  <2>4. u0.state = "disconnected" => v.state = "disconnected"
    BY <1>4
  <2>5. Len(b.delivered) <= h + 0 /\ (v.state # "disconnected" => Len(b.delivered) = h + 0)
    BY <1>6, <2>4 DEF BackendOK
  <2>6. Len(b.delivered) <= Len(b.delivered)
    BY <1>6
  <2>7. Handling(b, v, E, T, h, h2, pre, 0, s)
    BY <1>6, <2>1, <2>2, <2>3, <2>5, <2>6 DEF Handling
  <2> QED BY <2>7 DEF s
<1>8. ASSUME NEW n \in 1 .. N, I(n - 1)
      PROVE  I(n) /\ EventOK(f[n - 1], E[n], f[n])
  <2> DEFINE s == f[n - 1]
  <2>1. f[n] = OnEvent(s, E[n])
    BY <1>5
  <2>2. Handling(b, v, E, T, h, h2, pre, n - 1, s)
    BY <1>8
  <2>0. Brings(T, h, h2, E, pre) /\ Len(E) \in Nat /\ n \in 1 .. Len(E)
    BY <1>2
  <2> HIDE DEF s, E, d
  <2>3. /\ Handling(b, v, E, T, h, h2, pre, n, OnEvent(s, E[n]))
        /\ EventOK(s, E[n], OnEvent(s, E[n]))
    BY <1>1, <1>2, <1>3, <1>6, <2>0, <2>2, HandlingStep
  <2> QED BY <2>1, <2>3 DEF s
<1>9. \A n \in 0 .. N : I(n)
  <2> DEFINE P == {n \in Nat : n > N \/ I(n)}
  <2> HIDE DEF N, I
  <2>1. 0 \in P
    BY <1>7
  <2>2. \A n \in Nat : n < N /\ n \in P => n + 1 \in P
    <3> SUFFICES ASSUME NEW n \in Nat, n < N, I(n) PROVE I(n + 1)
      BY <1>2
    <3>1. n + 1 \in 1 .. N /\ (n + 1) - 1 = n
      BY <1>2
    <3> QED BY <1>8, <3>1
  <2>3. N \in Int
    BY <1>2
  <2>4. \A n \in 0 .. N : n \in P
    <3> HIDE DEF P
    <3> QED BY <2>1, <2>2, <2>3, Induction
  <2> QED BY <1>2, <2>4
<1> DEFINE r == f[N]
<1>10. I(N)
  <2> HIDE DEF I, N
  <2> QED BY <1>2, <1>9
<1>11. Arrived(h, h2, pre, N) = h2 - h
  <2>1. N >= pre + (h2 - h)
    BY <1>1, <1>2 DEF Brings
  <2> HIDE DEF N
  <2> QED BY <1>1, <1>2, <2>1, ArrivedAll
<1>12. h + (h2 - h) = h2
  BY <1>1
<1>13. N > 0 => EventOK(f[N - 1], E[N], r)
  <2>1. ASSUME N > 0 PROVE EventOK(f[N - 1], E[N], f[N])
    <3>1. N \in 1 .. N /\ N - 1 \in 0 .. N
      BY <1>2, <2>1
    <3> HIDE DEF N, I
    <3> QED BY <1>8, <1>9, <3>1
  <2> QED BY <2>1
<1> HIDE DEF E, N, r, I
<1>14. Handling(b, v, E, T, h, h2, pre, N, r)
  BY <1>10 DEF I, r
<1> DEFINE w == r.u
           del == r.backend.delivered
<1>15. /\ PairOK(r) /\ w \in {v, Disconnect(v)} /\ del \in Seq(AnyInput)
       /\ Len(b.delivered) <= Len(del) /\ Extends(del, T) /\ Len(del) <= h2
       /\ w.state # "disconnected" => Len(del) = h2
       /\ TypesIn(E, EventTypes \ {"interrupted"}) /\ b.shown # "Disconnecting"
             => r.backend.shown # "Disconnecting"
       /\ TypesIn(E, {"input", "disconnected"})
             => w.state = "disconnected" \/ r.backend.shown = b.shown
  BY <1>11, <1>12, <1>14 DEF Handling, PairOK
<1>16. /\ w.state = "disconnected" \/ w = v
       /\ DOMAIN w = Fields /\ \A x \in Fields \ {"state"} : w[x] = v[x]
       /\ w.state \in {u.state, "disconnected"}
  <2>1. /\ Disconnect(v).state = "disconnected" /\ DOMAIN Disconnect(v) = Fields
        /\ \A x \in Fields \ {"state"} : Disconnect(v)[x] = v[x]
    BY <1>3 DEF Disconnect, Fields
  <2> HIDE DEF w
  <2> QED BY <1>3, <1>4, <1>15, <2>1
<1> HIDE DEF w, del
<1>17. /\ w.out = u.out /\ w.pending = u.pending /\ w.events = <<>>
       /\ w.last_received = u.last_received /\ w.last_acked = u.last_acked
       /\ w.notify_sent = u.notify_sent /\ w.magic = u.magic
       /\ w.next_send_seq = u.next_send_seq /\ w.next_recv_seq = u.next_recv_seq
       /\ w.roundtrips = u.roundtrips /\ w.remote_magic = u.remote_magic /\ w.open = u.open
  BY <1>3, <1>4, <1>16 DEF Fields
<1>18. EndpointOK(p, S, g, T, h2, w)
  <2>1. IsEndpoint(w)
    BY <1>16, <1>17, NoList DEF IsEndpoint, EndpointOK, ControlOK
  <2>2. ControlOK(p, h2, w)
    <3>1. w.state \in {"syncing", "running", "disconnected"} /\ (w.state # "disconnected" => w.state = u.state)
      BY <1>16 DEF EndpointOK, ControlOK
    <3> QED BY <1>17, <2>1, <3>1 DEF EndpointOK, ControlOK
  <2> QED BY <1>17, <2>2 DEF EndpointOK, Acked
<1>19. /\ w.state = "syncing" => r.backend.shown # "Disconnecting"
       /\ w.state = "running" => (r.backend.shown = "Disconnecting") = w.notify_sent
  <2>0. /\ w.state # "disconnected" => w.state = u.state
        /\ w.notify_sent = u.notify_sent /\ u.notify_sent \in BOOLEAN
        /\ u.state = "syncing" => u.notify_sent = FALSE
    BY <1>16, <1>17 DEF EndpointOK, ControlOK
  <2>1. CASE /\ u.state = u0.state /\ u.notify_sent = u0.notify_sent
             /\ TypesIn(E, {"input", "disconnected"})
    BY <1>15, <2>0, <2>1 DEF BackendOK
  <2>2. CASE /\ u0.state = "syncing" /\ u.notify_sent = FALSE
             /\ TypesIn(E, {"connected", "synchronizing", "synchronized"})
    <3>1. TypesIn(E, EventTypes \ {"interrupted"}) /\ b.shown # "Disconnecting"
      BY <2>2 DEF TypesIn, EventTypes, BackendOK
    <3> QED BY <1>15, <2>0, <2>2, <3>1
  <2>3. CASE u.notify_sent = FALSE /\ N > 0 /\ E[N].type = "resumed"
    <3>1. r.backend.shown = "Running"
      BY <1>13, <2>3 DEF EventOK
    <3> QED BY <2>0, <2>3, <3>1
  <2>4. CASE u.notify_sent = TRUE /\ N > 0 /\ E[N].type = "interrupted"
    <3>1. r.backend.shown = "Disconnecting"
      BY <1>13, <2>4 DEF EventOK
    <3> QED BY <2>0, <2>4, <3>1
  <2>5. CASE N > 0 /\ E[N].type = "disconnected"
    <3> DEFINE s == f[N - 1]
    <3>1. /\ w = IF s.u.state # "disconnected" THEN Disconnect(s.u) ELSE s.u
      BY <1>13, <2>5 DEF EventOK, w
    <3>2. DOMAIN s.u = Fields
      <4>1. N - 1 \in 0 .. N
        BY <1>2, <2>5 DEF N
      <4>2. I(N - 1)
        BY <1>9, <4>1
      <4> QED BY <4>2 DEF I, Handling, PairOK
    <3> HIDE DEF s
    <3>3. w.state = "disconnected"
      BY <3>1, <3>2 DEF Disconnect, Fields
    <3> QED BY <3>3
  <2> QED BY <2>1, <2>2, <2>3, <2>4, <2>5 DEF Tells, E, N
<1>20. BackendOK(r.backend, w, T, h2)
  BY <1>15, <1>19 DEF BackendOK, PairOK, del
<1>21. Len(b.delivered) <= Len(r.backend.delivered)
  BY <1>15 DEF del
<1> QED BY <1>17, <1>18, <1>20, <1>21 DEF w, r, f, N, E
-----------------------------------------------------------------------------
(* The inductive invariant.  A side of the connection: player p with what it  *)
(* has sent (S) and received (h of T), the packets it has on the way, and     *)
(* what the other player has of its inputs (g).                               *)
Side(p, S, g, T, h, u, b, packets) ==
    /\ Known(p, S, g, T, h) /\ Len(S) <= MaxFrames[p]
    /\ EndpointOK(p, S, g, T, h, u) /\ u.events = <<>> /\ u.out = <<>>
    /\ \A m \in packets : PacketOK(p, S, g, u.last_received, m)
    /\ BackendOK(b, u, T, h)

(* The number of inputs p has received, by the frame of the last one.         *)
GotBy(p, u) == Max2(u.last_received.frame + 1 - FrameDelay[PeerOf(p)], 0)
Got(p) == GotBy(p, endpoint[p])

SideInv(p) ==
    LET q == PeerOf(p)
    IN  Side(p, sent[p], Got(q), sent[q], Got(p), endpoint[p], backend[p], network[q])

Shape ==
    /\ DOMAIN endpoint = Players /\ DOMAIN network = Players
    /\ backend = [p \in Players |-> backend[p]] /\ sent = [p \in Players |-> sent[p]]
    /\ exited \in [Players -> BOOLEAN] /\ late \in [Players -> BOOLEAN]

IInv == Shape /\ \A p \in Players : SideInv(p)

(* Continuing is reflexive and transitive.                                    *)
LEMMA ExtendsFacts ==
  ASSUME NEW A, Len(A) \in Nat, NEW B, Len(B) \in Nat, NEW C, Len(C) \in Nat
  PROVE  Extends(A, A) /\ (Extends(A, B) /\ Extends(B, C) => Extends(A, C))
<1>1. Extends(A, A)
  BY DEF Extends
<1>2. ASSUME Extends(A, B), Extends(B, C) PROVE Extends(A, C)
  <2>1. \A n \in 1 .. Len(A) : n \in 1 .. Len(B)
    BY <1>2 DEF Extends
  <2> QED BY <1>2, <2>1 DEF Extends
<1> QED BY <1>1, <1>2

(* The number of inputs received can be read off the frame of the last one.   *)
LEMMA GotIs ==
  ASSUME NEW p, NEW S, NEW g, NEW T, NEW h, Known(p, S, g, T, h),
         NEW u, EndpointOK(p, S, g, T, h, u)
  PROVE  /\ GotBy(p, u) = h /\ h \in Nat /\ g \in Nat
         /\ Len(S) \in Nat /\ Len(T) \in Nat /\ u.last_received.frame \in Int
<1> DEFINE d == FrameDelay[PeerOf(p)]
<1>1. d \in Nat /\ h \in Nat /\ g \in Nat /\ Len(S) \in Nat /\ Len(T) \in Nat
  BY DEF Known, SentOK
<1>2. u.last_received.frame = IF h = 0 THEN -1 ELSE d + h - 1
  BY DEF EndpointOK, At, NullFrame
<1> QED BY <1>1, <1>2 DEF GotBy, Max2

(* One side after a step of its player.                                       *)
LEMMA SideSteps ==
  ASSUME NEW p, NEW S, NEW g, NEW T, NEW h, NEW u, NEW b, NEW packets,
         Side(p, S, g, T, h, u, b, packets),
         NEW S2, SentOK(FrameDelay[p], S2), Extends(S, S2), Len(S2) <= MaxFrames[p],
         NEW h2 \in 0 .. Len(T), h <= h2,
         NEW w, EndpointOK(p, S2, g, T, h2, w), w.events = <<>>,
         NEW c, BackendOK(c, w, T, h2),
         NEW packets2, \A m \in packets2 : m \in packets \/ m \in ToSet(w.out)
  PROVE  LET x == [w EXCEPT !.out = <<>>]
         IN  /\ Side(p, S2, g, T, h2, x, c, packets2)
             /\ GotBy(p, x) = h2 /\ x.last_received = w.last_received
             /\ x.pending = w.pending /\ x.last_acked = w.last_acked
             /\ x.state = w.state
<1> DEFINE x == [w EXCEPT !.out = <<>>]
<1>1. DOMAIN x = Fields /\ x.out = <<>> /\ \A f \in Fields \ {"out"} : x[f] = w[f]
  BY DEF EndpointOK, ControlOK, IsEndpoint, Fields
<1> HIDE DEF x
<1>2. /\ x.events = w.events /\ x.pending = w.pending
      /\ x.last_acked = w.last_acked /\ x.last_received = w.last_received
      /\ x.state = w.state /\ x.magic = w.magic
      /\ x.next_send_seq = w.next_send_seq /\ x.next_recv_seq = w.next_recv_seq
      /\ x.roundtrips = w.roundtrips /\ x.remote_magic = w.remote_magic
      /\ x.notify_sent = w.notify_sent /\ x.open = w.open
  BY <1>1 DEF Fields
<1>3. ControlOK(p, h2, x)
  BY <1>1, <1>2, NoList DEF EndpointOK, ControlOK, IsEndpoint
<1>4. EndpointOK(p, S2, g, T, h2, x)
  BY <1>1, <1>2, <1>3, NoList DEF EndpointOK, Acked
<1>5. /\ Known(p, S, g, T, h) /\ EndpointOK(p, S, g, T, h, u)
      /\ \A m \in packets : PacketOK(p, S, g, u.last_received, m)
  BY DEF Side
<1>6. /\ h \in Nat /\ g \in Nat /\ Len(S) \in Nat /\ Len(T) \in Nat /\ h2 \in Nat
      /\ u.last_received.frame \in Int
  BY <1>5, GotIs
<1>7. Known(p, S2, g, T, h2) /\ Len(S2) \in Nat
  <2>1. Len(S2) \in Nat /\ Len(S) <= Len(S2)
    BY DEF SentOK, Extends
  <2> QED BY <1>5, <1>6, <2>1 DEF Known
<1>8. GotBy(p, x) = h2 /\ x.last_received.frame \in Int
  BY <1>4, <1>7, GotIs
<1>9. u.last_received.frame <= x.last_received.frame
  <2>1. /\ u.last_received = At(FrameDelay[PeerOf(p)], T, h)
        /\ x.last_received = At(FrameDelay[PeerOf(p)], T, h2)
        /\ FrameDelay[PeerOf(p)] \in Nat
    BY <1>4, <1>5 DEF EndpointOK, Known, SentOK
  <2> QED BY <1>6, <2>1, AtFrame
<1>10. \A m \in packets2 : PacketOK(p, S2, g, x.last_received, m)
  <2> SUFFICES ASSUME NEW m \in packets2 PROVE PacketOK(p, S2, g, x.last_received, m)
    OBVIOUS
  <2>1. CASE m \in packets
    <3>1. PacketOK(p, S, g, u.last_received, m) /\ g <= g
      BY <1>5, <1>6, <2>1
    <3> QED BY <1>6, <1>7, <1>8, <1>9, <3>1, PacketMore
  <2>2. CASE m \in ToSet(w.out)
    BY <1>2, <2>2 DEF EndpointOK
  <2> QED BY <2>1, <2>2
<1>11. BackendOK(c, x, T, h2)
  BY <1>2 DEF BackendOK
<1> QED BY <1>1, <1>2, <1>4, <1>7, <1>8, <1>10, <1>11 DEF Side, x

(* One side after a step of the other player.                                 *)
LEMMA SideMore ==
  ASSUME NEW p, NEW S, NEW g, NEW T, NEW h, NEW u, NEW b, NEW packets,
         Side(p, S, g, T, h, u, b, packets),
         NEW g2 \in 0 .. Len(S), g <= g2,
         NEW T2, SentOK(FrameDelay[PeerOf(p)], T2), Extends(T, T2)
  PROVE  Side(p, S, g2, T2, h, u, b, packets)
<1>1. /\ Known(p, S, g, T, h) /\ EndpointOK(p, S, g, T, h, u) /\ BackendOK(b, u, T, h)
      /\ u.out = <<>>
  BY DEF Side
<1>2. /\ h \in Nat /\ g \in Nat /\ g2 \in Nat /\ Len(S) \in Nat /\ Len(T) \in Nat
      /\ Len(T2) \in Nat /\ h \in 0 .. Len(T) /\ u.last_received.frame \in Int
  <2>1. /\ h \in Nat /\ g \in Nat /\ Len(S) \in Nat /\ Len(T) \in Nat
        /\ u.last_received.frame \in Int
    BY <1>1, GotIs
  <2>2. Len(T2) \in Nat /\ h \in 0 .. Len(T)
    BY <1>1 DEF Known, SentOK
  <2> QED BY <2>1, <2>2
<1>3. EndpointOK(p, S, g2, T2, h, u)
  BY <1>1, <1>2, EndpointMore
<1>4. \A m \in packets : PacketOK(p, S, g2, u.last_received, m)
  <2>1. Extends(S, S) /\ u.last_received.frame <= u.last_received.frame
    BY <1>2 DEF Extends
  <2>2. \A m \in packets : PacketOK(p, S, g, u.last_received, m)
    BY DEF Side
  <2> QED BY <1>2, <2>1, <2>2, PacketMore
<1>5. Known(p, S, g2, T2, h)
  BY <1>1, <1>2 DEF Known, Extends
<1>6. Extends(b.delivered, T2)
  <2>1. Extends(b.delivered, T) /\ Len(b.delivered) \in Nat
    BY <1>1 DEF BackendOK
  <2> QED BY <1>2, <2>1, ExtendsFacts
<1>7. BackendOK(b, u, T2, h)
  BY <1>1, <1>6 DEF BackendOK
<1> QED BY <1>3, <1>4, <1>5, <1>7 DEF Side

-----------------------------------------------------------------------------
(* Every step of the system.                                                  *)

(* Player p's endpoint becomes w and its backend b: it has then sent S2 and   *)
(* received h2 inputs.                                                        *)
StepOK(p, S2, h2, w, b) ==
    LET q == PeerOf(p)
    IN  /\ SentOK(FrameDelay[p], S2) /\ Extends(sent[p], S2) /\ Len(S2) <= MaxFrames[p]
        /\ h2 \in 0 .. Len(sent[q]) /\ Got(p) <= h2
        /\ EndpointOK(p, S2, Got(q), sent[q], h2, w) /\ w.events = <<>>
        /\ BackendOK(b, w, sent[q], h2)
        /\ Len(backend[p].delivered) <= Len(b.delivered)
        /\ Becomes(p, w)
        /\ backend' = [backend EXCEPT ![p] = b] /\ sent' = [sent EXCEPT ![p] = S2]

(* What a step of one player leaves of both endpoints and of the network.     *)
LEMMA BecomesDoes ==
  ASSUME Shape, NEW p \in Players, NEW w, Becomes(p, w)
  PROVE  LET q == PeerOf(p)
         IN  /\ DOMAIN endpoint' = Players /\ DOMAIN network' = Players
             /\ endpoint'[p] = [w EXCEPT !.out = <<>>] /\ endpoint'[q] = endpoint[q]
             /\ network'[p] = network[p]
             /\ \A m \in network'[q] : m \in network[q] \/ m \in ToSet(w.out)
<1> DEFINE x == [w EXCEPT !.out = <<>>]
           q == PeerOf(p)
<1>1. q \in Players /\ q # p
  BY PeerOfPeer
<1>2. endpoint' = [endpoint EXCEPT ![p] = x]
  BY DEF Becomes
<1>3. PICK kept : /\ kept \subseteq network[q] \cup ToSet(w.out)
                  /\ network' = [network EXCEPT ![q] = kept]
  BY DEF Becomes, Transmit
<1> HIDE DEF x, q
<1>4. /\ DOMAIN endpoint' = Players /\ endpoint'[p] = x /\ endpoint'[q] = endpoint[q]
  BY <1>1, <1>2 DEF Shape
<1>5. DOMAIN network' = Players /\ network'[p] = network[p] /\ network'[q] = kept
  BY <1>1, <1>3 DEF Shape
<1> QED BY <1>3, <1>4, <1>5 DEF x, q

(* A step of one player keeps what is said of both sides.                     *)
LEMMA StepKeeps ==
  ASSUME IInv, NEW p \in Players, NEW S2, NEW h2, NEW w, NEW b, StepOK(p, S2, h2, w, b),
         exited' \in [Players -> BOOLEAN], late' \in [Players -> BOOLEAN]
  PROVE  IInv'
<1> DEFINE q == PeerOf(p)
           x == [w EXCEPT !.out = <<>>]
<1>1. q \in Players /\ q # p /\ PeerOf(q) = p /\ \A r \in Players : r = p \/ r = q
  BY PeerOfPeer, PlayersAssumption
<1>2. /\ Side(p, sent[p], Got(q), sent[q], Got(p), endpoint[p], backend[p], network[q])
      /\ Side(q, sent[q], Got(p), sent[p], Got(q), endpoint[q], backend[q], network[p])
  BY <1>1 DEF IInv, SideInv
<1>3. /\ SentOK(FrameDelay[p], S2) /\ Extends(sent[p], S2) /\ Len(S2) <= MaxFrames[p]
      /\ h2 \in 0 .. Len(sent[q]) /\ Got(p) <= h2
      /\ EndpointOK(p, S2, Got(q), sent[q], h2, w) /\ w.events = <<>>
      /\ BackendOK(b, w, sent[q], h2) /\ Becomes(p, w)
      /\ backend' = [backend EXCEPT ![p] = b] /\ sent' = [sent EXCEPT ![p] = S2]
  BY DEF StepOK
<1>4. /\ DOMAIN endpoint' = Players /\ DOMAIN network' = Players
      /\ endpoint'[p] = x /\ endpoint'[q] = endpoint[q] /\ network'[p] = network[p]
      /\ \A m \in network'[q] : m \in network[q] \/ m \in ToSet(w.out)
  BY <1>3, BecomesDoes DEF IInv
<1>5. /\ backend'[p] = b /\ backend'[q] = backend[q]
      /\ sent'[p] = S2 /\ sent'[q] = sent[q]
      /\ backend' = [r \in Players |-> backend'[r]] /\ sent' = [r \in Players |-> sent'[r]]
  BY <1>1, <1>3 DEF IInv, Shape
<1>6. Shape'
  BY <1>4, <1>5 DEF Shape
<1>7. Side(p, S2, Got(q), sent[q], h2, x, b, network'[q]) /\ GotBy(p, x) = h2
  <2> DEFINE packets2 == network'[q]
             u == endpoint[p]
             packets == network[q]
             g == Got(q)
             h == Got(p)
             S == sent[p]
             T == sent[q]
             c == backend[p]
  <2>1. /\ Side(p, S, g, T, h, u, c, packets) /\ SentOK(FrameDelay[p], S2) /\ Extends(S, S2)
        /\ Len(S2) <= MaxFrames[p] /\ h2 \in 0 .. Len(T) /\ h <= h2
        /\ EndpointOK(p, S2, g, T, h2, w) /\ w.events = <<>> /\ BackendOK(b, w, T, h2)
        /\ \A m \in packets2 : m \in packets \/ m \in ToSet(w.out)
    BY <1>2, <1>3, <1>4
  <2> HIDE DEF packets2, u, packets, g, h, S, T, c
  <2>2. LET y == [w EXCEPT !.out = <<>>]
        IN  /\ Side(p, S2, g, T, h2, y, b, packets2)
            /\ GotBy(p, y) = h2 /\ y.last_received = w.last_received
            /\ y.pending = w.pending /\ y.last_acked = w.last_acked
            /\ y.state = w.state
    BY SMTT(60), <2>1, SideSteps
  <2> QED BY <2>2 DEF packets2, g, T
<1> HIDE DEF x
<1>8. Got(p)' = h2 /\ Got(q)' = Got(q)
  BY <1>4, <1>7 DEF Got, GotBy
<1>9. SideInv(p)'
  BY <1>1, <1>4, <1>5, <1>7, <1>8 DEF SideInv
<1>10. Side(q, sent[q], h2, S2, Got(q), endpoint[q], backend[q], network[p])
  BY <1>1, <1>2, <1>3, SideMore
<1>11. SideInv(q)'
  BY <1>1, <1>4, <1>5, <1>8, <1>10 DEF SideInv
<1> QED BY <1>1, <1>6, <1>9, <1>11 DEF IInv

(* The process stops, and nothing else changes.                               *)
Stops == /\ UNCHANGED <<endpoint, backend, network, sent, late>>
         /\ exited' \in [Players -> BOOLEAN]
Histories == exited' \in [Players -> BOOLEAN] /\ late' \in [Players -> BOOLEAN]

(* p takes no input, and sends nothing but what is pending.                   *)
Quiet(p) ==
    \E w, b : /\ StepOK(p, sent[p], Got(p), w, b) /\ Histories
              /\ w.pending = endpoint[p].pending
              /\ \A x \in ToSet(w.out) : x.body.type = "Input" =>
                    CarriesAll(p, sent[p], Got(PeerOf(p)), endpoint[p], x)

(* p takes the packet m.                                                      *)
Took(p) ==
    \E m \in network[p] : \E w, b, h2 :
        /\ StepOK(p, sent[p], h2, w, b) /\ Histories
        /\ Takes(p, sent[p], sent[PeerOf(p)], Got(p), h2, endpoint[p], w, m.body)
        /\ \A x \in ToSet(w.out) : x.body.type # "Input"

(* p, who runs and is not held back, sends an input.                          *)
SentOne(p) ==
    \E w : \E input \in AnyInput :
        LET S2 == Append(sent[p], input)
        IN  /\ endpoint[p].state = "running" /\ BehindBarrier(p)
            /\ Len(sent[p]) < MaxFrames[p] /\ input.frame = FrameDelay[p] + Len(sent[p])
            /\ StepOK(p, S2, Got(p), w, backend[p]) /\ Histories
            /\ SendOK(p, S2, Got(PeerOf(p)), sent[PeerOf(p)], Got(p), endpoint[p], w)
            /\ Gone(S2, w.pending) = Gone(sent[p], endpoint[p].pending)

(* The parts of the invariant, for one player.                                *)
LEMMA SideFacts ==
  ASSUME IInv, NEW p \in Players
  PROVE  LET q == PeerOf(p)
         IN  /\ Side(p, sent[p], Got(q), sent[q], Got(p), endpoint[p], backend[p], network[q])
             /\ Known(p, sent[p], Got(q), sent[q], Got(p))
             /\ EndpointOK(p, sent[p], Got(q), sent[q], Got(p), endpoint[p])
             /\ endpoint[p].events = <<>> /\ endpoint[p].out = <<>>
             /\ BackendOK(backend[p], endpoint[p], sent[q], Got(p))
             /\ Got(p) \in Nat /\ Got(q) \in Nat /\ Len(sent[p]) \in Nat
             /\ Got(p) \in 0 .. Len(sent[q]) /\ Got(p) <= Got(p)
             /\ SentOK(FrameDelay[p], sent[p]) /\ Extends(sent[p], sent[p])
             /\ Len(sent[p]) <= MaxFrames[p] /\ MaxFrames[p] \in Nat
             /\ backend = [backend EXCEPT ![p] = backend[p]]
             /\ sent = [sent EXCEPT ![p] = sent[p]]
<1> DEFINE q == PeerOf(p)
<1>1. Side(p, sent[p], Got(q), sent[q], Got(p), endpoint[p], backend[p], network[q])
  BY DEF IInv, SideInv
<1>2. /\ Known(p, sent[p], Got(q), sent[q], Got(p))
      /\ EndpointOK(p, sent[p], Got(q), sent[q], Got(p), endpoint[p])
      /\ endpoint[p].events = <<>> /\ endpoint[p].out = <<>>
      /\ BackendOK(backend[p], endpoint[p], sent[q], Got(p))
      /\ Len(sent[p]) <= MaxFrames[p]
  BY <1>1 DEF Side
<1>3. Got(p) \in Nat /\ Got(q) \in Nat /\ Len(sent[p]) \in Nat
  BY <1>2, GotIs
<1>4. SentOK(FrameDelay[p], sent[p]) /\ Got(p) \in 0 .. Len(sent[q])
  BY <1>2 DEF Known
<1>5. Extends(sent[p], sent[p]) /\ Got(p) <= Got(p) /\ MaxFrames[p] \in Nat
  BY <1>3, EndpointsAssumption DEF Extends
<1>6. backend = [backend EXCEPT ![p] = backend[p]] /\ sent = [sent EXCEPT ![p] = sent[p]]
  BY DEF IInv, Shape
<1> QED BY <1>1, <1>2, <1>3, <1>4, <1>5, <1>6

(* A failed ASSERT changes nothing else.                                      *)
LEMMA ExitDoes ==
  ASSUME IInv, NEW p \in Players, Exit(p)
  PROVE  Stops
  BY DEF Exit, Stops, IInv, Shape

(* What the events do is part of the step.                                    *)
LEMMA HandleEventsDoes ==
  ASSUME IInv, NEW p \in Players, NEW h2, NEW pre \in {0, 1}, NEW u, HandleEvents(p, u),
         Known(p, sent[p], Got(PeerOf(p)), sent[PeerOf(p)], h2), Got(p) <= h2,
         EndpointOK(p, sent[p], Got(PeerOf(p)), sent[PeerOf(p)], h2, u),
         Tells(endpoint[p], u), Brings(sent[PeerOf(p)], Got(p), h2, u.events, pre),
         endpoint[p].state = "syncing" \/ u.state = endpoint[p].state,
         sent' = sent
  PROVE  \E w, b : /\ StepOK(p, sent[p], h2, w, b)
                   /\ w.pending = u.pending /\ w.out = u.out
<1> DEFINE q == PeerOf(p)
           r == Done(backend[p], u)[Len(u.events)]
           S == sent[p]
           T == sent[q]
           g == Got(q)
           h == Got(p)
           u0 == endpoint[p]
           b == backend[p]
<1>1. /\ Known(p, S, g, T, h) /\ EndpointOK(p, S, g, T, h, u0) /\ BackendOK(b, u0, T, h)
      /\ h \in Nat /\ SentOK(FrameDelay[p], S) /\ Extends(S, S) /\ Len(S) <= MaxFrames[p]
      /\ sent = [sent EXCEPT ![p] = S]
  BY SideFacts
<1>2. u0.state \in {"syncing", "running", "disconnected"} /\ h2 \in 0 .. Len(T)
  BY <1>1 DEF EndpointOK, ControlOK, Known
<1>3. /\ EndpointOK(p, S, g, T, h2, r.u) /\ BackendOK(r.backend, r.u, T, h2)
      /\ r.u.events = <<>> /\ r.u.out = u.out /\ r.u.pending = u.pending
      /\ Len(b.delivered) <= Len(r.backend.delivered)
  <2>1. /\ Known(p, S, g, T, h2) /\ h <= h2 /\ EndpointOK(p, S, g, T, h2, u)
        /\ Tells(u0, u) /\ Brings(T, h, h2, u.events, pre)
        /\ u0.state = "syncing" \/ u.state = u0.state
    OBVIOUS
  <2> HIDE DEF S, T, g, h, u0, b
  <2>2. LET x == Done(b, u)[Len(u.events)]
        IN  /\ EndpointOK(p, S, g, T, h2, x.u) /\ BackendOK(x.backend, x.u, T, h2)
            /\ x.u.events = <<>> /\ x.u.out = u.out /\ x.u.pending = u.pending
            /\ x.u.last_received = u.last_received
            /\ Len(b.delivered) <= Len(x.backend.delivered)
    BY <1>1, <1>2, <2>1, EventsDo
  <2> QED BY <2>2 DEF b
<1>4. Becomes(p, r.u) /\ backend' = [backend EXCEPT ![p] = r.backend]
  BY HandleEventsIs
<1> HIDE DEF r
<1>5. StepOK(p, S, h2, r.u, r.backend)
  BY <1>1, <1>2, <1>3, <1>4 DEF StepOK
<1> QED BY <1>3, <1>5

(* Receive takes a packet, takes nothing, or stops the process.               *)
LEMMA ReceiveDoes ==
  ASSUME IInv, NEW p \in Players, Receive(p)
  PROVE  Took(p) \/ Stops
<1> DEFINE q == PeerOf(p)
           S == sent[p]
           T == sent[q]
           g == Got(q)
           h == Got(p)
           u0 == endpoint[p]
<1>1. PICK m \in network[p], random \in Randoms :
        IF OnMsgAsserts(u0, m, random)
        THEN /\ HandleEvents(p, OnMsg(u0, m, random))
             /\ late' = [late EXCEPT ![p] = @ \/ Overtaken(u0, m)]
             /\ UNCHANGED <<sent, exited>>
        ELSE Exit(p)
  BY DEF Receive, ReceiveOne
<1>2. CASE ~ OnMsgAsserts(u0, m, random)
  BY <1>1, <1>2, ExitDoes
<1>3. CASE OnMsgAsserts(u0, m, random)
  <2> DEFINE v == OnMsg(u0, m, random)
  <2>1. HandleEvents(p, v) /\ sent' = sent
    BY <1>1, <1>3
  <2>2. Histories
    <3>1. late' \in [Players -> BOOLEAN]
      <4>1. late' = [late EXCEPT ![p] = late[p] \/ Overtaken(u0, m)]
        BY <1>1, <1>3
      <4>2. (late[p] \/ Overtaken(u0, m)) \in BOOLEAN
        BY DEF IInv, Shape
      <4> DEFINE o == late[p] \/ Overtaken(u0, m)
      <4> HIDE DEF o
      <4> QED BY <4>1, <4>2 DEF o, IInv, Shape
    <3>2. exited' = exited
      BY <1>1, <1>3
    <3> QED BY <3>1, <3>2 DEF Histories, IInv, Shape
  <2>3. /\ Known(p, S, g, T, h) /\ EndpointOK(p, S, g, T, h, u0) /\ u0.events = <<>>
        /\ u0.out = <<>> /\ h \in Nat
    BY SideFacts
  <2>4. PacketOK(q, T, h, At(FrameDelay[p], S, g), m)
    <3>1. q \in Players /\ PeerOf(q) = p
      BY PeerOfPeer
    <3>2. /\ Side(q, T, h, S, g, endpoint[q], backend[q], network[p])
          /\ EndpointOK(q, T, h, S, g, endpoint[q])
      BY <3>1, SideFacts
    <3>3. endpoint[q].last_received = At(FrameDelay[p], S, g)
      BY <3>1, <3>2 DEF EndpointOK
    <3> QED BY <3>2, <3>3 DEF Side
  <2>5. PICK h2 \in 0 .. Len(T), pre \in {0, 1} : HandleOK(p, S, g, T, h, h2, pre, u0, v, m)
    <3> HIDE DEF S, T, g, h, u0, q
    <3> QED BY <2>3, <2>4, OnMsgDoes DEF q
  <2> HIDE DEF v
  <2>6. /\ h <= h2 /\ Known(p, S, g, T, h2) /\ EndpointOK(p, S, g, T, h2, v)
        /\ Brings(T, h, h2, v.events, pre) /\ Tells(u0, v)
        /\ u0.state = "syncing" \/ v.state = u0.state
        /\ Takes(p, S, T, h, h2, u0, v, m.body)
        /\ \A x \in ToSet(v.out) : x \in ToSet(u0.out) \/ x.body.type # "Input"
    BY <2>5 DEF HandleOK
  <2>7. PICK w, b : /\ StepOK(p, S, h2, w, b)
                    /\ w.pending = v.pending /\ w.out = v.out
    BY <2>1, <2>6, HandleEventsDoes
  <2>8. Takes(p, S, T, h, h2, u0, w, m.body)
    BY <2>6, <2>7 DEF Takes
  <2>9. \A x \in ToSet(w.out) : x.body.type # "Input"
    BY <2>3, <2>6, <2>7, NoList
  <2> QED BY <2>2, <2>7, <2>8, <2>9 DEF Took
<1> QED BY <1>2, <1>3

(* Poll takes nothing, or stops the process.                                  *)
LEMMA PollDoes ==
  ASSUME IInv, NEW p \in Players, NEW due, NEW random, Poll(p, due, random)
  PROVE  Quiet(p) \/ Stops
<1> DEFINE q == PeerOf(p)
           S == sent[p]
           T == sent[q]
           g == Got(q)
           h == Got(p)
           u0 == endpoint[p]
           v == OnLoopPoll(u0, due, LocalStatus(p), random)
<1>1. (HandleEvents(p, v) /\ UNCHANGED <<sent, exited, late>>) \/ Exit(p)
  BY DEF Poll
<1>2. CASE Exit(p)
  BY <1>2, ExitDoes
<1>3. CASE HandleEvents(p, v) /\ UNCHANGED <<sent, exited, late>>
  <2>1. Histories
    BY <1>3 DEF Histories, IInv, Shape
  <2>2. /\ Known(p, S, g, T, h) /\ EndpointOK(p, S, g, T, h, u0) /\ u0.events = <<>>
        /\ u0.out = <<>> /\ h \in Nat /\ h <= h
    BY SideFacts
  <2>3. PollOK(p, S, g, T, h, u0, v)
    <3> DEFINE status == LocalStatus(p)
    <3> HIDE DEF S, T, g, h, u0, q, status
    <3> QED BY <2>2, OnLoopPollDoes
  <2> HIDE DEF v
  <2>4. /\ EndpointOK(p, S, g, T, h, v) /\ Tells(u0, v) /\ Brings(T, h, h, v.events, 0)
        /\ SendsAll(p, S, g, u0, v) /\ v.pending = u0.pending /\ v.state = u0.state
    BY <2>3 DEF PollOK
  <2>5. PICK w, b : /\ StepOK(p, S, h, w, b)
                    /\ w.pending = v.pending /\ w.out = v.out
    BY <1>3, <2>2, <2>4, HandleEventsDoes
  <2>6. \A x \in ToSet(w.out) : x.body.type = "Input" => CarriesAll(p, S, g, u0, x)
    BY <2>2, <2>4, <2>5, NoList DEF SendsAll
  <2> QED BY <2>1, <2>4, <2>5, <2>6 DEF Quiet
<1> QED BY <1>1, <1>2, <1>3

(* ggpo_disconnect_player takes nothing.                                      *)
LEMMA LeaveDoes ==
  ASSUME IInv, NEW p \in Players, Leave(p)
  PROVE  Quiet(p)
<1> DEFINE q == PeerOf(p)
           S == sent[p]
           T == sent[q]
           g == Got(q)
           h == Got(p)
           u == endpoint[p]
           b == backend[p]
           s == [u |-> u, backend |-> b]
           r == DisconnectPlayer(s)
           w == r.u
           c == r.backend
<1>1. /\ u.state # "disconnected" /\ Becomes(p, w) /\ UNCHANGED <<sent, exited, late>>
      /\ backend' = [backend EXCEPT ![p] = c]
  BY DEF Leave
<1>2. /\ Known(p, S, g, T, h) /\ EndpointOK(p, S, g, T, h, u) /\ u.events = <<>>
      /\ u.out = <<>> /\ h \in 0 .. Len(T) /\ h <= h /\ BackendOK(b, u, T, h)
      /\ SentOK(FrameDelay[p], S) /\ Extends(S, S) /\ Len(S) <= MaxFrames[p]
      /\ sent = [sent EXCEPT ![p] = S]
  BY SideFacts
<1>3. /\ PairOK(r) /\ c.delivered = b.delivered /\ w = Disconnect(u)
  <2>1. s.u = u /\ s.backend = b /\ DOMAIN s = {"u", "backend"}
    OBVIOUS
  <2> HIDE DEF s, u, b, T
  <2>2. PairOK(s)
    BY <1>2, <2>1 DEF PairOK, BackendOK, EndpointOK, ControlOK, IsEndpoint
  <2>3. LET x == DisconnectPlayer(s)
        IN  /\ PairOK(x) /\ x.backend.delivered = s.backend.delivered
            /\ x.u = IF s.u.state # "disconnected" THEN Disconnect(s.u) ELSE s.u
            /\ s.backend.shown # "Disconnecting" => x.backend.shown # "Disconnecting"
            /\ x.backend.shown = s.backend.shown \/ x.u.state = "disconnected"
    BY <2>2, DisconnectPlayerDoes
  <2> QED BY <1>1, <2>1, <2>3
<1> HIDE DEF r, w, c
<1>4. /\ DOMAIN w = Fields /\ w.state = "disconnected"
      /\ \A f \in Fields \ {"state"} : w[f] = u[f]
  <2>1. DOMAIN u = Fields
    BY <1>2 DEF EndpointOK, ControlOK, IsEndpoint
  <2> HIDE DEF u
  <2> QED BY <1>3, <2>1 DEF Disconnect, Fields
<1>5. /\ w.events = u.events /\ w.out = u.out /\ w.pending = u.pending
      /\ w.last_acked = u.last_acked /\ w.last_received = u.last_received
      /\ w.magic = u.magic /\ w.notify_sent = u.notify_sent
      /\ w.next_send_seq = u.next_send_seq /\ w.next_recv_seq = u.next_recv_seq
      /\ w.roundtrips = u.roundtrips /\ w.remote_magic = u.remote_magic
  BY <1>4 DEF Fields
<1> HIDE DEF u
<1>6. ControlOK(p, h, w)
  BY <1>2, <1>4, <1>5 DEF EndpointOK, ControlOK, IsEndpoint
<1>7. EndpointOK(p, S, g, T, h, w)
  BY <1>2, <1>5, <1>6 DEF EndpointOK, Acked
<1>8. BackendOK(c, w, T, h) /\ Len(b.delivered) <= Len(c.delivered)
  <2>1. PairOK(r) /\ c = r.backend
    BY <1>3 DEF c
  <2>2. Len(b.delivered) \in Nat
    BY <1>2 DEF BackendOK
  <2> QED BY <1>2, <1>3, <1>4, <2>1, <2>2 DEF BackendOK, PairOK
<1>9. StepOK(p, S, h, w, c)
  BY <1>1, <1>2, <1>5, <1>7, <1>8 DEF StepOK
<1>10. Histories
  BY <1>1 DEF Histories, IInv, Shape
<1>11. \A x \in ToSet(w.out) : x.body.type = "Input" => CarriesAll(p, S, g, u, x)
  BY <1>2, <1>5, NoList
<1> QED BY <1>5, <1>9, <1>10, <1>11 DEF Quiet, u

(* AddLocalInput sends one input, nothing, or stops the process.              *)
LEMMA SendLocalInputDoes ==
  ASSUME IInv, NEW p \in Players, NEW bits \in Bits, SendLocalInput(p, bits)
  PROVE  SentOne(p) \/ Quiet(p) \/ Stops
<1> DEFINE q == PeerOf(p)
           S == sent[p]
           T == sent[q]
           g == Got(q)
           h == Got(p)
           u == endpoint[p]
           b == backend[p]
           input  == [frame |-> FrameCount(p) + FrameDelay[p], bits |-> bits]
           status == [LocalStatus(p) EXCEPT ![p].last_frame = input.frame]
           S2 == Append(S, input)
           w == SendInput(u, input, status)
<1>1. /\ u.state = "running" => BehindBarrier(p) /\ FrameCount(p) < MaxFrames[p]
      /\ \/ /\ Becomes(p, w)
            /\ sent' = IF u.state = "running" THEN [sent EXCEPT ![p] = S2] ELSE sent
            /\ UNCHANGED <<backend, exited, late>>
         \/ Exit(p)
  BY DEF SendLocalInput
<1>2. CASE Exit(p)
  BY <1>2, ExitDoes
<1>3. /\ Known(p, S, g, T, h) /\ EndpointOK(p, S, g, T, h, u) /\ u.events = <<>>
      /\ u.out = <<>> /\ h \in 0 .. Len(T) /\ h <= h /\ BackendOK(b, u, T, h)
      /\ SentOK(FrameDelay[p], S) /\ Extends(S, S) /\ Len(S) <= MaxFrames[p]
      /\ sent = [sent EXCEPT ![p] = S] /\ Len(S) \in Nat /\ MaxFrames[p] \in Nat
      /\ backend = [backend EXCEPT ![p] = b]
  BY SideFacts
<1>4. input \in AnyInput /\ input.frame = FrameDelay[p] + Len(S)
  BY <1>3 DEF FrameCount, AnyInput, SentOK
<1>5. Len(b.delivered) <= Len(b.delivered)
  BY <1>3 DEF BackendOK
<1> HIDE DEF input, status
<1>6. /\ u.state = "running" => /\ SendOK(p, S2, g, T, h, u, w)
                                /\ Gone(S2, w.pending) = Gone(S, u.pending)
      /\ u.state # "running" => SendOK(p, S, g, T, h, u, w) /\ w.pending = u.pending
  <2> HIDE DEF S, T, g, h, u
  <2>1. /\ LET X == Append(S, input)
               x == SendInput(u, input, status)
           IN  u.state = "running" =>
                 /\ SendOK(p, X, g, T, h, u, x)
                 /\ Gone(X, x.pending) = Gone(S, u.pending)
                 /\ \E y \in ToSet(x.out) : y.body.type = "Input"
        /\ LET x == SendInput(u, input, status)
           IN  u.state # "running" =>
                 SendOK(p, S, g, T, h, u, x) /\ x.pending = u.pending
    BY <1>3, <1>4, SendInputDoes
  <2> QED BY <2>1
<1>7. CASE /\ Becomes(p, w) /\ u.state = "running" /\ sent' = [sent EXCEPT ![p] = S2]
           /\ UNCHANGED <<backend, exited, late>>
  <2>1. SendOK(p, S2, g, T, h, u, w) /\ Gone(S2, w.pending) = Gone(S, u.pending)
    BY <1>6, <1>7
  <2>2. SentOK(FrameDelay[p], S2) /\ Extends(S, S2) /\ Len(S2) = Len(S) + 1
    <3> DEFINE d == FrameDelay[p]
    <3>1. SentOK(d, S) /\ input.frame = d + Len(S)
      BY <1>3, <1>4
    <3> HIDE DEF d, S
    <3>2. SentOK(d, S2) /\ Extends(S, S2) /\ Len(S2) = Len(S) + 1
      BY <1>4, <3>1, AppendExtends
    <3> QED BY <3>2 DEF d
  <2>3. Len(S) < MaxFrames[p] /\ Len(S2) <= MaxFrames[p] /\ BehindBarrier(p)
    BY <1>1, <1>3, <1>7, <2>2 DEF FrameCount
  <2> HIDE DEF w, S2
  <2>4. BackendOK(b, w, T, h)
    BY <1>3, <2>1 DEF BackendOK, SendOK
  <2>5. StepOK(p, S2, h, w, b)
    BY <1>3, <1>5, <1>7, <2>1, <2>2, <2>3, <2>4 DEF StepOK, SendOK
  <2>6. Histories
    BY <1>7 DEF Histories, IInv, Shape
  <2>7. SentOne(p)
    BY <1>4, <1>7, <2>1, <2>3, <2>5, <2>6 DEF SentOne, S2
  <2> QED BY <2>7
<1>8. CASE Becomes(p, w) /\ u.state # "running" /\ UNCHANGED <<sent, backend, exited, late>>
  <2>1. SendOK(p, S, g, T, h, u, w) /\ w.pending = u.pending
    BY <1>6, <1>8
  <2> HIDE DEF w
  <2>2. BackendOK(b, w, T, h)
    BY <1>3, <2>1 DEF BackendOK, SendOK
  <2>3. StepOK(p, S, h, w, b)
    BY <1>3, <1>5, <1>8, <2>1, <2>2 DEF StepOK, SendOK
  <2>4. Histories
    BY <1>8 DEF Histories, IInv, Shape
  <2>5. \A x \in ToSet(w.out) : x.body.type = "Input" => CarriesAll(p, S, g, u, x)
    BY <2>1 DEF SendOK, CarriesAll
  <2>6. Quiet(p)
    BY <2>1, <2>3, <2>4, <2>5 DEF Quiet
  <2> QED BY <2>6
<1> QED BY <1>1, <1>2, <1>7, <1>8

(* So every step is one of these.                                             *)
LEMMA NextDoes ==
  ASSUME IInv, [Next]_vars
  PROVE  \/ \E p \in Players : SentOne(p) \/ Quiet(p) \/ Took(p)
         \/ Stops
         \/ UNCHANGED vars
<1>1. CASE Next
  <2>1. PICK p \in Players : \/ \E bits \in Bits : SendLocalInput(p, bits)
                             \/ Receive(p)
                             \/ \E due \in DueTimers[p], random \in Randoms :
                                   Poll(p, due, random)
                             \/ Leave(p)
    BY <1>1 DEF Next
  <2> QED BY <2>1, SendLocalInputDoes, ReceiveDoes, PollDoes, LeaveDoes
<1> QED BY <1>1

(* The invariant is inductive.                                                *)
LEMMA StepInv ==
  ASSUME IInv, [Next]_vars
  PROVE  IInv'
<1>1. CASE Stops
  BY <1>1 DEF Stops, IInv, Shape, SideInv, Got
<1>2. CASE UNCHANGED vars
  BY <1>2 DEF vars, IInv, Shape, SideInv, Got
<1>3. ASSUME NEW p \in Players, SentOne(p) \/ Quiet(p) \/ Took(p)
      PROVE  IInv'
  <2>1. PICK S2, h2, w, b : StepOK(p, S2, h2, w, b) /\ Histories
    BY <1>3 DEF SentOne, Quiet, Took
  <2> QED BY <2>1, StepKeeps DEF Histories
<1> QED BY <1>1, <1>2, <1>3, NextDoes
-----------------------------------------------------------------------------
(* Both ways to start.                                                        *)
StartOK(p, u) ==
    /\ EndpointOK(p, <<>>, 0, <<>>, 0, u) /\ u.notify_sent = FALSE
    /\ \A x \in ToSet(u.out) : x.body.type # "Input"

(* A packet without inputs is correct before anything was sent.               *)
LEMMA NothingSent ==
  ASSUME NEW p \in Players
  PROVE  Known(p, <<>>, 0, <<>>, 0)
<1>1. <<>> \in Seq(AnyInput) /\ Len(<<>>) = 0
  OBVIOUS
<1>2. FrameDelay[p] \in Nat /\ FrameDelay[PeerOf(p)] \in Nat
  BY PeerOfPeer, SessionAssumption
<1> QED BY <1>1, <1>2 DEF Known, SentOK

(* An endpoint that has not sent an input sends a packet of the handshake.    *)
LEMMA StartSends ==
  ASSUME NEW p \in Players, NEW u, StartOK(p, u), NEW body, body.type \in BodyTypes \ {"Input"}
  PROVE  /\ StartOK(p, SendMsg(u, body))
         /\ SendMsg(u, body).out = Append(u.out,
               [magic |-> u.magic, seq |-> u.next_send_seq, body |-> body])
         /\ SendMsg(u, body).state = u.state
<1> DEFINE w == SendMsg(u, body)
           m == [magic |-> u.magic, seq |-> u.next_send_seq, body |-> body]
<1>1. EndpointOK(p, <<>>, 0, <<>>, 0, w)
  BY SendKeeps DEF StartOK
<1>2. /\ Changes(u, w, {"out", "next_send_seq"})
      /\ w.out = Append(u.out, m) /\ ToSet(w.out) = ToSet(u.out) \cup {m}
  BY SendMsgDoes DEF StartOK, EndpointOK, ControlOK
<1>3. m.body.type # "Input"
  OBVIOUS
<1> HIDE DEF w, m
<1>4. w.notify_sent = u.notify_sent /\ w.state = u.state
  BY <1>2 DEF Changes, Fields
<1>5. StartOK(p, w)
  BY <1>1, <1>2, <1>3, <1>4 DEF StartOK
<1> QED BY <1>2, <1>4, <1>5 DEF w, m

(* The fields of the handshake say nothing about inputs.                      *)
LEMMA StartOther ==
  ASSUME NEW p \in Players, NEW u, StartOK(p, u), NEW w,
         Changes(u, w, {"random", "connected", "next_recv_seq", "peer_status",
                        "disconnect_event_sent"}),
         w.next_recv_seq \in SequenceNumbers
  PROVE  StartOK(p, w) /\ w.out = u.out /\ w.state = u.state
<1>1. /\ EndpointOK(p, <<>>, 0, <<>>, 0, w) /\ w.out = u.out /\ w.state = u.state
      /\ w.notify_sent = u.notify_sent
  BY OtherFieldsKeep DEF StartOK
<1> QED BY <1>1 DEF StartOK

SyncRequestOf(p, random) ==
    [magic |-> Magic[p], seq |-> Unanswered[p],
     body |-> [type |-> "SyncRequest", random |-> random]]

(* Synchronize has sent one request,                                          *)
LEMMA StartedDoes ==
  ASSUME NEW p \in Players, NEW random, NEW players
  PROVE  LET u == Synchronize([InitEndpoint(Magic[p], players)
                                 EXCEPT !.next_send_seq = Unanswered[p]], random)
         IN  /\ StartOK(p, u) /\ u.state = "syncing"
             /\ u.out = Append(<<>>, SyncRequestOf(p, random))
<1> DEFINE e == [InitEndpoint(Magic[p], players) EXCEPT !.next_send_seq = Unanswered[p]]
           c == [e EXCEPT !.random = random]
           body == [type |-> "SyncRequest", random |-> random]
           u == Synchronize(e, random)
<1>1. DOMAIN e = Fields
  BY DEF InitEndpoint, Fields
<1>2. /\ e.state = "syncing" /\ e.open = TRUE /\ e.magic = Magic[p] /\ e.remote_magic = 0
      /\ e.roundtrips = NUM_SYNC_PACKETS /\ e.next_send_seq = Unanswered[p]
      /\ e.next_recv_seq = 0 /\ e.pending = <<>> /\ e.notify_sent = FALSE
      /\ e.last_acked = [frame |-> NullFrame, bits |-> {}]
      /\ e.last_received = [frame |-> NullFrame, bits |-> {}]
      /\ e.events = <<>> /\ e.out = <<>>
  BY DEF InitEndpoint
<1>3. u = SendMsg(c, body)
  BY DEF Synchronize, SendSyncRequest
<1> HIDE DEF e
<1>4. /\ 0 \in SequenceNumbers /\ Unanswered[p] \in SequenceNumbers
      /\ NUM_SYNC_PACKETS \in 0 .. NUM_SYNC_PACKETS /\ NUM_SYNC_PACKETS # 0
  BY UdpProtocolAssumption, LinkAssumption DEF SequenceNumbers
<1>5. ControlOK(p, 0, e)
  BY <1>1, <1>2, <1>4, NoList DEF ControlOK, IsEndpoint
<1>6. e.last_received = At(FrameDelay[PeerOf(p)], <<>>, 0)
  BY <1>2 DEF At, Bit
<1>7. Acked(p, <<>>, 0, e)
  <2>1. Gone(<<>>, <<>>) = 0
    BY NoList DEF Gone
  <2>2. e.last_acked = At(FrameDelay[p], <<>>, 0)
    BY <1>2 DEF At, Bit
  <2> QED BY <1>2, <2>1, <2>2, NoList DEF Acked, PendingOK
<1>8. StartOK(p, e)
  BY <1>2, <1>5, <1>6, <1>7, NoList DEF StartOK, EndpointOK
<1>9. Changes(e, c, {"random", "connected", "next_recv_seq", "peer_status",
                     "disconnect_event_sent"})
      /\ c.next_recv_seq \in SequenceNumbers
  BY <1>1, <1>2, <1>4 DEF Changes, Fields
<1> HIDE DEF c
<1>10. StartOK(p, c) /\ c.out = e.out /\ c.state = e.state
  BY <1>8, <1>9, StartOther
<1>11. c.magic = Magic[p] /\ c.next_send_seq = Unanswered[p]
  BY <1>2, <1>9 DEF Changes, Fields
<1>12. body.type \in BodyTypes \ {"Input"}
  BY DEF BodyTypes
<1> DEFINE m == [magic |-> c.magic, seq |-> c.next_send_seq, body |-> body]
<1>13. m = SyncRequestOf(p, random)
  BY <1>11 DEF SyncRequestOf
<1> HIDE DEF u, body
<1>14. /\ StartOK(p, SendMsg(c, body))
       /\ SendMsg(c, body).out = Append(c.out,
             [magic |-> c.magic, seq |-> c.next_send_seq, body |-> body])
       /\ SendMsg(c, body).state = c.state
  BY <1>10, <1>12, StartSends
<1> QED BY <1>2, <1>3, <1>10, <1>13, <1>14 DEF u, e

SyncReplyOf(p, u, m) ==
    [magic |-> Magic[p], seq |-> u.next_send_seq,
     body |-> [type |-> "SyncReply", random |-> m.body.random]]

(* answers the request of the other player,                                   *)
LEMMA AskedDoes ==
  ASSUME NEW p \in Players, NEW u, StartOK(p, u), u.state = "syncing",
         NEW m, m.seq \in SequenceNumbers, m.body.type = "SyncRequest", NEW random
  PROVE  LET w == OnMsg(u, m, random)
         IN  StartOK(p, w) /\ w.out = Append(u.out, SyncReplyOf(p, u, m))
<1> DEFINE a == [u EXCEPT !.next_recv_seq = m.seq]
           body == [type |-> "SyncReply", random |-> m.body.random]
           w == OnMsg(u, m, random)
           v == SendMsg(a, body)
<1>1. Changes(u, a, {"random", "connected", "next_recv_seq", "peer_status",
                     "disconnect_event_sent"})
      /\ a.next_recv_seq \in SequenceNumbers
  BY DEF StartOK, EndpointOK, ControlOK, IsEndpoint, Changes, Fields
<1>2. w = Resume(Handle(a, m, random), Handled(u, m))
  BY DEF OnMsg, Accepts, IsSync
<1>3. Handle(a, m, random) = OnSyncRequest(a, m)
  BY DEF Handle
<1>4. OnSyncRequestHandled(a, m) => OnSyncRequest(a, m) = v
  BY DEF OnSyncRequest
<1> HIDE DEF a, w
<1>5. StartOK(p, a) /\ a.out = u.out /\ a.state = "syncing"
  BY <1>1, StartOther
<1>6. OnSyncRequestHandled(a, m) /\ a.magic = Magic[p] /\ a.next_send_seq = u.next_send_seq
  BY <1>1, <1>5 DEF Changes, Fields, OnSyncRequestHandled, StartOK, EndpointOK, ControlOK
<1>7. body.type \in BodyTypes \ {"Input"}
  BY DEF BodyTypes
<1> DEFINE x == [magic |-> a.magic, seq |-> a.next_send_seq, body |-> body]
<1>8. StartOK(p, v) /\ v.out = Append(u.out, x) /\ v.state = "syncing"
  <2> HIDE DEF body
  <2>1. /\ StartOK(p, SendMsg(a, body))
        /\ SendMsg(a, body).out = Append(a.out,
              [magic |-> a.magic, seq |-> a.next_send_seq, body |-> body])
        /\ SendMsg(a, body).state = a.state
    BY <1>5, <1>7, StartSends
  <2> QED BY <1>5, <2>1
<1> HIDE DEF v
<1>9. w = v
  BY <1>2, <1>3, <1>4, <1>6, <1>8 DEF Resume, StartOK
<1>10. v.out = Append(u.out, SyncReplyOf(p, u, m))
  BY <1>6, <1>8 DEF SyncReplyOf
<1> QED BY <1>8, <1>9, <1>10 DEF w

(* and hears the answer to its own.                                           *)
LEMMA AnsweredDoes ==
  ASSUME NEW p \in Players, NEW u, StartOK(p, u),
         NEW m, m.magic = Magic[PeerOf(p)], m.seq \in SequenceNumbers,
         m.body.type = "SyncReply", NEW random
  PROVE  StartOK(p, OnMsg(u, m, random))
<1> DEFINE a == [u EXCEPT !.next_recv_seq = m.seq]
           w == OnMsg(u, m, random)
           v == OnSyncReply(a, m, random)
<1>1. Changes(u, a, {"random", "connected", "next_recv_seq", "peer_status",
                     "disconnect_event_sent"})
      /\ a.next_recv_seq \in SequenceNumbers
  BY DEF StartOK, EndpointOK, ControlOK, IsEndpoint, Changes, Fields
<1>2. w = Resume(Handle(a, m, random), Handled(u, m))
  BY DEF OnMsg, Accepts, IsSync
<1>3. Handle(a, m, random) = v
  BY DEF Handle
<1> HIDE DEF a, w
<1>4. StartOK(p, a)
  BY <1>1, StartOther
<1>5. /\ EndpointOK(p, <<>>, 0, <<>>, 0, v) /\ v.notify_sent = a.notify_sent
      /\ \A x \in ToSet(v.out) : x \in ToSet(a.out) \/ x.body.type = "SyncRequest"
  BY <1>4, NothingSent, OnSyncReplyDoes DEF StartOK
<1> HIDE DEF v
<1>6. StartOK(p, v)
  BY <1>4, <1>5 DEF StartOK
<1>7. w = v
  BY <1>2, <1>3, <1>6 DEF Resume, StartOK
<1> QED BY <1>6, <1>7 DEF w

Starts ==
    /\ sent = [p \in Players |-> <<>>]
    /\ \A p \in Players : backend[p].delivered = <<>> /\ InputPackets(p) = {}

(* Correct endpoints are a correct start.                                     *)
LEMMA InitWithDoes ==
  ASSUME NEW initial, InitWith(initial), \A p \in Players : StartOK(p, initial[p]),
         NEW synchronizing, NEW shown \in {"Connecting", "Running"},
         backend = [p \in Players |->
            [synchronizing |-> synchronizing, delivered |-> <<>>, shown |-> shown]]
  PROVE  IInv /\ Starts
<1>1. /\ sent = [p \in Players |-> <<>>] /\ DOMAIN endpoint = Players /\ DOMAIN network = Players
      /\ \A p \in Players :
            /\ endpoint[p] = [initial[p] EXCEPT !.out = <<>>, !.events = <<>>]
            /\ network[p] = ToSet(initial[PeerOf(p)].out)
      /\ exited \in [Players -> BOOLEAN] /\ late \in [Players -> BOOLEAN]
  BY DEF InitWith, InitLink
<1>2. Shape
  BY <1>1 DEF Shape
<1>3. ASSUME NEW p \in Players
      PROVE  /\ Side(p, <<>>, 0, <<>>, 0, endpoint[p], backend[p], network[PeerOf(p)])
             /\ Got(p) = 0 /\ \A m \in network[PeerOf(p)] : m.body.type # "Input"
  <2> DEFINE u == initial[p]
             x == [u EXCEPT !.out = <<>>, !.events = <<>>]
             b == [synchronizing |-> synchronizing, delivered |-> <<>>, shown |-> shown]
  <2>1. StartOK(p, u) /\ Known(p, <<>>, 0, <<>>, 0)
    BY NothingSent
  <2>2. network[PeerOf(p)] = ToSet(u.out) /\ endpoint[p] = x /\ backend[p] = b
    BY <1>1, PeerOfPeer
  <2> HIDE DEF u
  <2>3. /\ DOMAIN x = Fields /\ x.out = <<>> /\ x.events = <<>>
        /\ \A f \in Fields \ {"out", "events"} : x[f] = u[f]
    BY <2>1 DEF StartOK, EndpointOK, ControlOK, IsEndpoint, Fields
  <2> HIDE DEF x
  <2>4. /\ x.pending = u.pending /\ x.last_acked = u.last_acked
        /\ x.last_received = u.last_received
        /\ x.state = u.state /\ x.magic = u.magic
        /\ x.next_send_seq = u.next_send_seq /\ x.next_recv_seq = u.next_recv_seq
        /\ x.roundtrips = u.roundtrips /\ x.remote_magic = u.remote_magic
        /\ x.notify_sent = u.notify_sent /\ x.open = u.open
    BY <2>3 DEF Fields
  <2>5. ControlOK(p, 0, x)
    BY <2>1, <2>3, <2>4, NoList DEF StartOK, EndpointOK, ControlOK, IsEndpoint
  <2>6. EndpointOK(p, <<>>, 0, <<>>, 0, x)
    BY <2>1, <2>3, <2>4, <2>5, NoList DEF StartOK, EndpointOK, Acked
  <2>7. GotBy(p, x) = 0
    BY <2>1, <2>6, GotIs
  <2>8. BackendOK(b, x, <<>>, 0)
    <3>1. /\ b.delivered = <<>> /\ b.shown = shown
          /\ DOMAIN b = {"synchronizing", "delivered", "shown"}
      OBVIOUS
    <3>2. <<>> \in Seq(AnyInput) /\ Extends(<<>>, <<>>) /\ Len(<<>>) = 0
      BY DEF Extends
    <3>3. shown \in Shown /\ shown # "Disconnecting" /\ x.notify_sent = FALSE
      BY <2>1, <2>4 DEF Shown, StartOK
    <3> HIDE DEF b
    <3>4. (b.shown = "Disconnecting") = x.notify_sent
      BY <3>1, <3>3
    <3>5. /\ b.shown \in Shown /\ b.shown # "Disconnecting" /\ b.delivered \in Seq(AnyInput)
          /\ Extends(b.delivered, <<>>) /\ Len(b.delivered) <= 0 /\ Len(b.delivered) = 0
      BY <3>1, <3>2, <3>3
    <3> QED BY <3>1, <3>4, <3>5 DEF BackendOK
  <2>9. \A m \in ToSet(u.out) : /\ PacketOK(p, <<>>, 0, x.last_received, m)
                                /\ m.body.type # "Input"
    BY <2>1, <2>4 DEF StartOK, EndpointOK
  <2>10. Len(<<>>) <= MaxFrames[p]
    BY EndpointsAssumption
  <2> QED BY <2>1, <2>2, <2>3, <2>6, <2>7, <2>8, <2>9, <2>10 DEF Side, Got
<1>4. \A p \in Players : SideInv(p)
  BY <1>1, <1>3, PeerOfPeer DEF SideInv
<1>5. \A p \in Players : InputPackets(p) = {}
  BY <1>3, PeerOfPeer DEF InputPackets
<1> QED BY <1>1, <1>2, <1>4, <1>5 DEF IInv, Starts

(* Before the handshake.                                                      *)
LEMMA InitDoes ==
  ASSUME Init
  PROVE  IInv /\ Starts
<1>1. PICK random \in [Players -> Randoms] : InitWith(Started(random, Players))
  BY DEF Init
<1> DEFINE initial == Started(random, Players)
<1>2. ASSUME NEW p \in Players PROVE StartOK(p, initial[p])
  BY StartedDoes DEF Started
<1>3. backend = [p \in Players |->
         [synchronizing |-> TRUE, delivered |-> <<>>, shown |-> "Connecting"]]
  BY DEF Init
<1> HIDE DEF initial
<1> QED BY <1>1, <1>2, <1>3, InitWithDoes DEF initial

(* After the handshake.                                                       *)
LEMMA InitRunningDoes ==
  ASSUME InitRunning
  PROVE  IInv /\ Starts
<1>1. PICK random \in Randoms :
        LET start    == Started([p \in Players |-> random], Players)
            asked    == [p \in Players |-> OnMsg(start[p], start[PeerOf(p)].out[1], random)]
            answered == [p \in Players |-> OnMsg(asked[p], asked[PeerOf(p)].out[2], random)]
        IN  InitWith(answered)
  BY DEF InitRunning
<1> DEFINE start    == Started([p \in Players |-> random], Players)
           asked    == [p \in Players |-> OnMsg(start[p], start[PeerOf(p)].out[1], random)]
           answered == [p \in Players |-> OnMsg(asked[p], asked[PeerOf(p)].out[2], random)]
           request(p) == SyncRequestOf(p, random)
<1>2. ASSUME NEW p \in Players
      PROVE  /\ StartOK(p, start[p]) /\ start[p].state = "syncing"
             /\ start[p].out = Append(<<>>, request(p))
  BY StartedDoes DEF Started
<1>3. \A p \in Players : asked[p] = OnMsg(start[p], start[PeerOf(p)].out[1], random)
  OBVIOUS
<1>4. \A p \in Players : answered[p] = OnMsg(asked[p], asked[PeerOf(p)].out[2], random)
  OBVIOUS
<1>5. InitWith(answered)
  BY <1>1
<1>6. \A p \in Players : /\ request(p).seq \in SequenceNumbers
                         /\ request(p).body.type = "SyncRequest"
                         /\ request(p).magic = Magic[p]
  BY LinkAssumption DEF SequenceNumbers, SyncRequestOf
<1> HIDE DEF start, asked, answered, request
<1>7. \A p \in Players : start[p].out[1] = request(p) /\ Len(start[p].out) = 1
                         /\ IsList(start[p].out)
  <2> SUFFICES ASSUME NEW p \in Players
               PROVE  start[p].out[1] = request(p) /\ Len(start[p].out) = 1
                      /\ IsList(start[p].out)
    OBVIOUS
  <2>1. start[p].out = Append(<<>>, request(p)) /\ IsList(<<>>) /\ Len(<<>>) = 0
    BY <1>2, NoList
  <2>2. /\ IsList(Append(<<>>, request(p)))
        /\ Len(Append(<<>>, request(p))) = Len(<<>>) + 1
        /\ Append(<<>>, request(p))[Len(<<>>) + 1] = request(p)
    BY <2>1, AppendList
  <2> QED BY <2>1, <2>2
<1>8. ASSUME NEW p \in Players
      PROVE  /\ StartOK(p, asked[p])
             /\ asked[p].out[2].magic = Magic[p]
             /\ asked[p].out[2].body.type = "SyncReply"
             /\ asked[p].out[2].seq \in SequenceNumbers
  <2> DEFINE m == request(PeerOf(p))
             u == start[p]
             w == asked[p]
             r == SyncReplyOf(p, u, m)
  <2>1. /\ w = OnMsg(u, m, random) /\ StartOK(p, u) /\ u.state = "syncing"
        /\ m.seq \in SequenceNumbers /\ m.body.type = "SyncRequest"
        /\ Len(u.out) = 1 /\ IsList(u.out)
    BY <1>2, <1>3, <1>6, <1>7, PeerOfPeer
  <2> HIDE DEF m, u, w
  <2>2. StartOK(p, OnMsg(u, m, random)) /\ OnMsg(u, m, random).out = Append(u.out, r)
    BY <2>1, AskedDoes
  <2>3. StartOK(p, w) /\ w.out = Append(u.out, r)
    BY <2>1, <2>2
  <2>4. r.magic = Magic[p] /\ r.body.type = "SyncReply"
    BY DEF SyncReplyOf
  <2>5. w.out = Append(u.out, r)
    BY <2>3
  <2> HIDE DEF r
  <2>6. w.out[2] = r /\ r \in ToSet(w.out)
    <3>1. /\ ToSet(Append(u.out, r)) = ToSet(u.out) \cup {r}
          /\ Append(u.out, r)[Len(u.out) + 1] = r
      BY <2>1, AppendList
    <3>2. Len(u.out) + 1 = 2
      BY <2>1
    <3>3. w.out[2] = r
      BY <2>5, <3>1, <3>2
    <3>4. ToSet(w.out) = ToSet(u.out) \cup {r}
      BY <2>5, <3>1
    <3> QED BY <3>3, <3>4
  <2>7. r.seq \in SequenceNumbers
    BY <2>3, <2>6 DEF StartOK, EndpointOK, PacketOK
  <2> QED BY <2>3, <2>4, <2>6, <2>7 DEF w
<1>9. ASSUME NEW p \in Players PROVE StartOK(p, answered[p])
  <2> DEFINE q == PeerOf(p)
             m == asked[q].out[2]
  <2>1. q \in Players
    BY PeerOfPeer
  <2>2. m.magic = Magic[q] /\ m.body.type = "SyncReply" /\ m.seq \in SequenceNumbers
    BY <1>8, <2>1
  <2>3. answered[p] = OnMsg(asked[p], m, random) /\ StartOK(p, asked[p])
    BY <1>4, <1>8
  <2> HIDE DEF m
  <2> QED BY <2>2, <2>3, AnsweredDoes
<1>10. backend = [p \in Players |->
         [synchronizing |-> FALSE, delivered |-> <<>>, shown |-> "Running"]]
  BY DEF InitRunning
<1> QED BY <1>5, <1>9, <1>10, InitWithDoes

(* The inductive invariant, from both ways to start: pending output, last     *)
(* acknowledged and last received input, packets and what the backends were   *)
(* given all agree with what was sent (UdpProtocol, OnUdpProtocolPeerEvent).  *)
THEOREM EndpointsInvariant == Spec \/ RunningSpec => []IInv
<1>1. Init => IInv
  BY InitDoes
<1>2. InitRunning => IInv
  BY InitRunningDoes
<1>3. IInv /\ [Next]_vars => IInv'
  BY StepInv
<1> QED BY <1>1, <1>2, <1>3, PTL DEF Spec, RunningSpec

(* VectorWar shows a running connection as about to be lost exactly as long   *)
(* as its endpoint has announced an interruption and not taken it back, in    *)
(* whatever order interruptions, inputs and disconnects come (OnLoopPoll,     *)
(* OnMsg, vw_on_event_callback).                                              *)
THEOREM InterruptionIsShown == Spec \/ RunningSpec => []InterruptionShown
<1>1. IInv => InterruptionShown
  BY SideFacts DEF InterruptionShown, BackendOK
<1> QED BY <1>1, EndpointsInvariant, PTL

(* Every input is at the other player or still in the pending output of its   *)
(* sender, whatever the network loses, repeats or reorders                    *)
(* (SendPendingOutput, OnInput, OnInputAck).                                  *)
THEOREM NoInputLost == Spec \/ RunningSpec => []NothingLost
<1>1. ASSUME IInv, NEW p \in Players, NEW n \in 1 .. Len(sent[p])
      PROVE  \/ sent[p][n].frame <= endpoint[PeerOf(p)].last_received.frame
             \/ sent[p][n] \in ToSet(endpoint[p].pending)
  <2> DEFINE q == PeerOf(p)
             S == sent[p]
             pending == endpoint[p].pending
             g == Got(q)
             gone == Gone(S, pending)
             d == FrameDelay[p]
  <2>1. /\ EndpointOK(p, S, g, sent[q], Got(p), endpoint[p]) /\ SentOK(d, S)
        /\ Len(S) \in Nat /\ g \in Nat
    BY <1>1, SideFacts
  <2>2. /\ IsList(pending) /\ Len(pending) <= Len(S)
        /\ \A m \in 1 .. Len(pending) : pending[m] = S[gone + m]
        /\ gone = 0 \/ gone < g
    BY <2>1 DEF EndpointOK, Acked, PendingOK
  <2>3. Len(pending) \in Nat /\ DOMAIN pending = 1 .. Len(pending)
    BY <2>2, ListFacts
  <2>4. gone = Len(S) - Len(pending)
    BY DEF Gone
  <2>0. n \in 1 .. Len(S)
    BY <1>1
  <2> HIDE DEF gone, S, pending
  <2>5. CASE n > gone
    <3>1. n - gone \in 1 .. Len(pending) /\ gone + (n - gone) = n
      BY <2>0, <2>1, <2>3, <2>4, <2>5
    <3>2. pending[n - gone] = S[n]
      BY <2>2, <3>1
    <3>3. S[n] \in ToSet(pending)
      BY <2>3, <3>1, <3>2 DEF ToSet
    <3> QED BY <3>3 DEF S, pending
  <2>6. CASE n <= gone
    <3>1. gone < g /\ n <= g /\ n \in Nat
      <4>1. gone \in Int /\ n \in Nat /\ n > 0 /\ g \in Nat
        BY <2>0, <2>1, <2>3, <2>4
      <4>2. gone = 0 \/ gone < g
        BY <2>2
      <4> QED BY SMTT(60), <2>6, <4>1, <4>2
    <3>2. S[n].frame = d + n - 1 /\ d \in Nat
      BY <2>0, <2>1 DEF SentOK
    <3>3. endpoint[q].last_received.frame = d + g - 1
      <4>1. q \in Players /\ PeerOf(q) = p
        BY PeerOfPeer
      <4>2. EndpointOK(q, sent[q], Got(p), S, g, endpoint[q])
        BY <1>1, <4>1, SideFacts DEF S
      <4>3. g # 0
        BY <2>1, <3>1
      <4> QED BY <4>1, <4>2, <4>3 DEF EndpointOK, At
    <3>4. d + n - 1 <= d + g - 1
      BY <2>0, <2>1, <3>1, <3>2
    <3> QED BY <3>2, <3>3, <3>4 DEF S
  <2>7. n > gone \/ n <= gone
    BY <2>0, <2>1, <2>3, <2>4
  <2> QED BY <2>5, <2>6, <2>7
<1>2. IInv => NothingLost
  BY <1>1 DEF NothingLost
<1> QED BY <1>2, EndpointsInvariant, PTL

(* The greatest of two numbers.                                               *)
LEMMA GreatestOf ==
  ASSUME NEW f \in [Players -> Nat]
  PROVE  /\ Max(Range(f)) \in Nat
         /\ \A p \in Players : f[p] <= Max(Range(f))
<1>1. PICK a, b \in Players : Players = {a, b}
  BY PlayersAssumption
<1>2. Range(f) = {f[a], f[b]} /\ f[a] \in Nat /\ f[b] \in Nat
  BY <1>1 DEF Range
<1>3. \E x \in Range(f) : \A y \in Range(f) : x >= y
  <2>1. CASE f[a] >= f[b]
    BY <1>2, <2>1
  <2>2. CASE f[b] >= f[a]
    BY <1>2, <2>2
  <2>3. f[a] >= f[b] \/ f[b] >= f[a]
    BY <1>2
  <2> QED BY <2>1, <2>2, <2>3
<1>4. Max(Range(f)) \in Range(f) /\ \A y \in Range(f) : Max(Range(f)) >= y
  BY <1>3 DEF Max
<1>5. \A p \in Players : f[p] \in Range(f) /\ f[p] \in Nat
  BY DEF Range
<1> HIDE DEF Range
<1>6. Max(Range(f)) \in Nat
  BY <1>2, <1>4
<1> QED BY <1>4, <1>5, <1>6

(* The inputs a player sends within the bound are those the stream is         *)
(* about.                                                                     *)
LEMMA InputsBounded ==
  ASSUME IInv, NEW p \in Players, NEW n \in 1 .. MaxFrames[p],
         NEW x \in AnyInput, x.frame = FrameDelay[p] + n - 1
  PROVE  x \in Inputs
<1> DEFINE a == Max(Range(MaxFrames))
           b == Max(Range(FrameDelay))
<1>1. /\ a \in Nat /\ MaxFrames[p] <= a /\ MaxFrames[p] \in Nat
      /\ b \in Nat /\ FrameDelay[p] <= b /\ FrameDelay[p] \in Nat
  BY GreatestOf, EndpointsAssumption, SessionAssumption
<1>2. Inputs = [frame : 0 .. a + b, bits : Bits]
  BY DEF Inputs
<1> HIDE DEF a, b
<1>3. x.frame \in 0 .. a + b
  BY <1>1
<1> QED BY <1>2, <1>3 DEF AnyInput

(* So is every list of them.                                                  *)
LEMMA AllInputsBounded ==
  ASSUME IInv, NEW p \in Players, NEW D \in Seq(AnyInput), Extends(D, sent[p])
  PROVE  D \in Seq(Inputs)
<1>1. SentOK(FrameDelay[p], sent[p]) /\ Len(sent[p]) <= MaxFrames[p] /\ MaxFrames[p] \in Nat
      /\ Len(sent[p]) \in Nat
  BY SideFacts
<1>2. \A n \in 1 .. Len(D) : D[n] \in Inputs
  <2> SUFFICES ASSUME NEW n \in 1 .. Len(D) PROVE D[n] \in Inputs
    OBVIOUS
  <2>1. n \in 1 .. Len(sent[p]) /\ n \in 1 .. MaxFrames[p] /\ D[n] = sent[p][n]
    BY <1>1 DEF Extends
  <2>2. D[n] \in AnyInput /\ D[n].frame = FrameDelay[p] + n - 1
    BY <1>1, <2>1, ElementOfSeq DEF SentOK
  <2> QED BY <2>1, <2>2, InputsBounded
<1> QED BY <1>2

(* The records of endpoints and packets have the values the code gives        *)
(* them, and what is handed to the backends are inputs.                       *)
THEOREM EndpointsTypeCorrect == Spec \/ RunningSpec => []TypeOK
<1>1. ASSUME IInv PROVE TypeOK
  <2>1. ASSUME NEW p \in Players
        PROVE  /\ endpoint[p].state \in {"syncing", "running", "disconnected"}
               /\ endpoint[p].next_send_seq \in 0 .. SEQUENCE_NUMBERS - 1
               /\ endpoint[p].next_recv_seq \in 0 .. SEQUENCE_NUMBERS - 1
               /\ endpoint[p].roundtrips \in 0 .. NUM_SYNC_PACKETS
               /\ endpoint[p].remote_magic \in {0, Magic[PeerOf(p)]}
               /\ \A m \in network[p] : m.magic = Magic[PeerOf(p)]
    <3>1. EndpointOK(p, sent[p], Got(PeerOf(p)), sent[PeerOf(p)], Got(p), endpoint[p])
      BY <1>1, SideFacts
    <3>2. \A m \in network[p] : m.magic = Magic[PeerOf(p)]
      <4>1. PeerOf(p) \in Players /\ PeerOf(PeerOf(p)) = p
        BY PeerOfPeer
      <4> QED BY <1>1, <4>1, SideFacts DEF Side, PacketOK
    <3> QED BY <3>1, <3>2 DEF EndpointOK, ControlOK, SequenceNumbers
  <2>2. LinkTypeOK
    BY <2>1 DEF LinkTypeOK
  <2>3. \A p \in Players : backend[p].shown \in {"Connecting", "Synchronizing", "Running",
                                                 "Disconnecting", "Disconnected"}
    BY <1>1, SideFacts DEF BackendOK, Shown
  <2>4. ASSUME NEW p \in Players
        PROVE  sent[p] \in Seq(Inputs) /\ Delivered[p] \in Seq(Inputs)
    <3> DEFINE q == PeerOf(p)
    <3>1. q \in Players
      BY PeerOfPeer
    <3>2. /\ Extends(sent[p], sent[p]) /\ sent[p] \in Seq(AnyInput)
          /\ Extends(backend[p].delivered, sent[q]) /\ backend[p].delivered \in Seq(AnyInput)
      BY <1>1, SideFacts DEF SentOK, BackendOK
    <3>3. sent[p] \in Seq(Inputs)
      BY <1>1, <3>2, AllInputsBounded
    <3>4. backend[p].delivered \in Seq(Inputs)
      BY <1>1, <3>1, <3>2, AllInputsBounded
    <3> QED BY <3>3, <3>4 DEF Delivered
  <2>5. sent \in [Players -> Seq(Inputs)]
    BY <1>1, <2>4 DEF IInv, Shape
  <2>6. Delivered \in [Players -> Seq(Inputs)]
    BY <2>4 DEF Delivered
  <2>7. Stream!TypeOK
    BY <2>5, <2>6 DEF Stream!TypeOK
  <2> QED BY <1>1, <2>2, <2>3, <2>7 DEF TypeOK, IInv, Shape
<1> QED BY <1>1, EndpointsInvariant, PTL
-----------------------------------------------------------------------------
(* A step of the stream.                                                      *)

(* A list that another one continues is its beginning.                        *)
LEMMA PrefixIs ==
  ASSUME NEW D \in Seq(AnyInput), NEW T \in Seq(AnyInput), Extends(D, T)
  PROVE  D = SubSeq(T, 1, Len(D))
<1> DEFINE P == SubSeq(T, 1, Len(D))
<1>1. Len(D) \in Nat /\ Len(T) \in Nat /\ Len(D) <= Len(T)
  BY DEF Extends
<1>2. P \in Seq(AnyInput) /\ Len(P) = Len(D) /\ \A n \in 1 .. Len(D) : P[n] = T[n]
  BY <1>1
<1>3. \A n \in 1 .. Len(D) : D[n] = P[n]
  BY <1>2 DEF Extends
<1> HIDE DEF P
<1>4. D = P
  BY <1>2, <1>3, SeqEqual
<1> QED BY <1>4 DEF P

(* When p's backend has been given more, the stream delivers; when it has     *)
(* been given nothing, the stream does not move.                              *)
LEMMA DeliveredDoes ==
  ASSUME IInv, NEW p \in Players, NEW h2, NEW w, NEW b, StepOK(p, sent[p], h2, w, b)
  PROVE  Stream!Deliver(p) \/ UNCHANGED <<sent, Delivered>>
<1> DEFINE q == PeerOf(p)
           D == backend[p].delivered
           D2 == b.delivered
           T == sent[q]
<1>1. /\ D \in Seq(AnyInput) /\ Extends(D, T) /\ T \in Seq(AnyInput)
      /\ D2 \in Seq(AnyInput) /\ Extends(D2, T) /\ Len(D) <= Len(D2)
  <2>1. D \in Seq(AnyInput) /\ Extends(D, T)
    BY SideFacts DEF BackendOK
  <2>2. q \in Players
    BY PeerOfPeer
  <2>3. T \in Seq(AnyInput)
    BY <2>2, SideFacts DEF SentOK
  <2> QED BY <2>1, <2>3 DEF StepOK, BackendOK
<1>2. /\ sent' = sent /\ backend' = [backend EXCEPT ![p] = b]
      /\ backend = [r \in Players |-> backend[r]]
  BY SideFacts DEF StepOK, IInv, Shape
<1>3. Delivered' = [Delivered EXCEPT ![p] = D2]
  <2>1. backend'[p] = b /\ \A r \in Players : r # p => backend'[r] = backend[r]
    BY <1>2
  <2> QED BY <2>1 DEF Delivered
<1>4. Delivered[p] = D
  BY DEF Delivered
<1> HIDE DEF q, D, D2, T
<1>5. D = SubSeq(T, 1, Len(D)) /\ D2 = SubSeq(T, 1, Len(D2))
  BY <1>1, PrefixIs
<1>6. Len(D) \in Nat /\ Len(D2) \in Nat /\ Len(T) \in Nat /\ Len(D2) <= Len(T)
  BY <1>1 DEF Extends
<1>7. CASE Len(D) = Len(D2)
  <2>1. D2 = D
    BY <1>5, <1>7
  <2>2. Delivered' = Delivered
    BY <1>3, <1>4, <2>1 DEF Delivered
  <2> QED BY <1>2, <2>2
<1>8. CASE Len(D) # Len(D2)
  <2>1. Len(D2) \in Len(Delivered[p]) + 1 .. Len(sent[PeerOf(p)])
    BY <1>1, <1>4, <1>6, <1>8 DEF q, T
  <2>2. Delivered' = [Delivered EXCEPT ![p] = SubSeq(sent[PeerOf(p)], 1, Len(D2))]
    BY <1>3, <1>5 DEF q, T
  <2> QED BY <1>2, <2>1, <2>2 DEF Stream!Deliver
<1> QED BY <1>7, <1>8

(* Sending an input is a step of the stream.                                  *)
LEMMA SentOneStreams ==
  ASSUME IInv, NEW p \in Players, SentOne(p)
  PROVE  Stream!Send(p)
<1>0. PICK w : \E input \in AnyInput :
        /\ Len(sent[p]) < MaxFrames[p] /\ input.frame = FrameDelay[p] + Len(sent[p])
        /\ StepOK(p, Append(sent[p], input), Got(p), w, backend[p])
  BY Zenon DEF SentOne
<1>1. PICK input \in AnyInput :
        /\ Len(sent[p]) < MaxFrames[p] /\ input.frame = FrameDelay[p] + Len(sent[p])
        /\ StepOK(p, Append(sent[p], input), Got(p), w, backend[p])
  BY <1>0
<1>2. sent' = [sent EXCEPT ![p] = Append(sent[p], input)] /\ backend' = backend
  BY <1>1, SideFacts DEF StepOK
<1>3. input \in Inputs
  <2> DEFINE n == Len(sent[p]) + 1
  <2>1. n \in 1 .. MaxFrames[p] /\ FrameDelay[p] \in Nat /\ Len(sent[p]) \in Nat
    BY <1>1, SideFacts, SessionAssumption
  <2>2. input.frame = FrameDelay[p] + n - 1
    BY <1>1, <2>1
  <2> HIDE DEF n
  <2> QED BY <2>1, <2>2, InputsBounded
<1>4. sent' = [sent EXCEPT ![p] = Append(@, input)]
  BY <1>2
<1>5. Delivered' = Delivered
  BY <1>2 DEF Delivered
<1> QED BY <1>3, <1>4, <1>5 DEF Stream!Send

(* For every network: what the backend at one end is given is a beginning     *)
(* of what the other end was handed, in order, once, with the same bits       *)
(* (SendPendingOutput, OnInput).                                              *)
THEOREM StreamIsImplemented == Spec \/ RunningSpec => ImplementsStream
<1>1. IInv /\ Starts => Stream!Init
  <2> SUFFICES ASSUME IInv, Starts PROVE Stream!Init
    OBVIOUS
  <2>1. Delivered = [p \in Players |-> <<>>]
    BY DEF Delivered, Starts
  <2> QED BY <2>1 DEF Stream!Init, Starts
<1>2. IInv /\ [Next]_vars => [Stream!Next]_<<sent, Delivered>>
  <2> SUFFICES ASSUME IInv, [Next]_vars PROVE Stream!Next \/ UNCHANGED <<sent, Delivered>>
    OBVIOUS
  <2>1. CASE Stops \/ UNCHANGED vars
    <3>1. sent' = sent /\ backend' = backend
      BY <2>1 DEF Stops, vars
    <3> QED BY <3>1 DEF Delivered
  <2>2. ASSUME NEW p \in Players, SentOne(p)
        PROVE  Stream!Next
    BY <2>2, SentOneStreams DEF Stream!Next
  <2>3. ASSUME NEW p \in Players, Quiet(p) \/ Took(p)
        PROVE  Stream!Next \/ UNCHANGED <<sent, Delivered>>
    <3>1. PICK h2, w, b : StepOK(p, sent[p], h2, w, b)
      BY <2>3 DEF Quiet, Took
    <3>2. Stream!Deliver(p) \/ UNCHANGED <<sent, Delivered>>
      BY <3>1, DeliveredDoes
    <3> QED BY <3>2 DEF Stream!Next
  <2> QED BY <2>1, <2>2, <2>3, NextDoes
<1>3. Init => IInv /\ Starts
  BY InitDoes
<1>4. InitRunning => IInv /\ Starts
  BY InitRunningDoes
<1> QED BY <1>1, <1>2, <1>3, <1>4, EndpointsInvariant, PTL DEF Spec, RunningSpec, ImplementsStream, Stream!Spec
-----------------------------------------------------------------------------
(* The frame numbers of a state, as InputFlow sees them.                      *)
Count == [p \in Players |-> Len(sent[p])]
GotFrame == [p \in Players |-> endpoint[p].last_received.frame]
First == [p \in Players |-> Max2(endpoint[p].last_acked.frame + 1, FrameDelay[p])]
Numbers(m) == [last |-> IF m.body.frames = <<>> THEN NullFrame
                        ELSE m.body.start + Len(m.body.frames) - 1,
               ack  |-> m.body.ack]
Flight == [p \in Players |-> {Numbers(m) : m \in InputPackets(p)}]

LastOf(d, S) == IF Len(S) = 0 THEN NullFrame ELSE Len(S) - 1 + d

(* The frame numbers of an endpoint, in terms of the inputs.                  *)
LEMMA FramesOf ==
  ASSUME NEW p, NEW S, NEW g, NEW T, NEW h, Known(p, S, g, T, h),
         NEW u, EndpointOK(p, S, g, T, h, u)
  PROVE  LET gone == Gone(S, u.pending)
             d == FrameDelay[p]
         IN  /\ gone \in Nat /\ Len(u.pending) \in Nat /\ gone + Len(u.pending) = Len(S)
             /\ Len(S) \in Nat /\ (Len(S) > 0 => Len(u.pending) > 0)
             /\ d \in Nat /\ Max2(u.last_acked.frame + 1, d) = d + gone
             /\ u.last_received.frame = IF h = 0 THEN -1 ELSE FrameDelay[PeerOf(p)] + h - 1
<1> DEFINE gone == Gone(S, u.pending)
           d == FrameDelay[p]
           pending == u.pending
<1>1. /\ IsList(pending) /\ Len(pending) <= Len(S) /\ (Len(S) > 0 => Len(pending) > 0)
      /\ u.last_acked = At(d, S, gone)
  BY DEF EndpointOK, Acked, PendingOK
<1>2. d \in Nat /\ Len(S) \in Nat /\ Len(pending) \in Nat
  BY <1>1, ListFacts DEF Known, SentOK
<1>3. gone = Len(S) - Len(pending)
  BY DEF Gone
<1>4. u.last_acked.frame = IF gone = 0 THEN -1 ELSE d + gone - 1
  BY <1>1 DEF At, NullFrame
<1>5. u.last_received.frame = IF h = 0 THEN -1 ELSE FrameDelay[PeerOf(p)] + h - 1
  BY DEF EndpointOK, At, NullFrame
<1> HIDE DEF gone, pending, d
<1>6. gone \in Nat /\ gone + Len(pending) = Len(S)
  BY <1>1, <1>2, <1>3
<1>7. Max2(u.last_acked.frame + 1, d) = d + gone
  BY <1>2, <1>4, <1>6 DEF Max2
<1> QED BY <1>1, <1>2, <1>5, <1>6, <1>7 DEF gone, pending, d

(* A packet with the whole pending output goes up to the last input sent.     *)
LEMMA NumbersSent ==
  ASSUME NEW p, NEW S, NEW g, NEW T, NEW h, Known(p, S, g, T, h),
         NEW u, EndpointOK(p, S, g, T, h, u), NEW x, CarriesAll(p, S, g, u, x)
  PROVE  Numbers(x) = [last |-> LastOf(FrameDelay[p], S), ack |-> u.last_received.frame]
<1> DEFINE gone == Gone(S, u.pending)
           d == FrameDelay[p]
           frames == x.body.frames
           n == Len(u.pending)
<1>1. /\ gone \in Nat /\ n \in Nat /\ gone + n = Len(S) /\ d \in Nat
      /\ Len(S) \in Nat /\ (Len(S) > 0 => n > 0)
  BY FramesOf
<1>2. /\ IsList(frames) /\ (frames # <<>> => x.body.start = d + gone)
      /\ Len(frames) = n /\ x.body.ack = u.last_received.frame
  BY DEF CarriesAll, Carries
<1> HIDE DEF gone, d, frames, n
<1>3. frames = <<>> <=> n = 0
  <2>1. IsList(<<>>) /\ Len(<<>>) = 0
    BY NoList
  <2>2. n = 0 => frames = <<>>
    BY <1>2, EmptyList DEF IsList
  <2> QED BY <1>2, <2>1, <2>2
<1>4. (IF frames = <<>> THEN NullFrame ELSE x.body.start + n - 1) = LastOf(d, S)
  BY <1>1, <1>2, <1>3 DEF LastOf
<1> QED BY <1>2, <1>4 DEF Numbers, frames, d

(* The frame numbers after a step.                                            *)
LEMMA NumbersMove ==
  ASSUME IInv, NEW p \in Players, NEW S2, NEW h2, NEW w, NEW b, StepOK(p, S2, h2, w, b)
  PROVE  LET q == PeerOf(p)
             kept == Flight'[q]
         IN  /\ Count' = [Count EXCEPT ![p] = Len(S2)]
             /\ GotFrame' = [GotFrame EXCEPT ![p] = w.last_received.frame]
             /\ First' = [First EXCEPT ![p] = Max2(w.last_acked.frame + 1, FrameDelay[p])]
             /\ Flight' = [Flight EXCEPT ![q] = kept]
             /\ \A f \in kept : \/ f \in Flight[q]
                                \/ \E x \in ToSet(w.out) : x.body.type = "Input" /\ f = Numbers(x)
<1> DEFINE q == PeerOf(p)
<1>1. q \in Players /\ q # p /\ \A r \in Players : r = p \/ r = q
  BY PeerOfPeer, PlayersAssumption
<1>2. /\ endpoint'[p] = [w EXCEPT !.out = <<>>] /\ endpoint'[q] = endpoint[q]
      /\ network'[p] = network[p]
      /\ \A m \in network'[q] : m \in network[q] \/ m \in ToSet(w.out)
  BY BecomesDoes DEF IInv, StepOK
<1>3. /\ endpoint'[p].last_received = w.last_received
      /\ endpoint'[p].last_acked = w.last_acked
  <2>1. DOMAIN w = Fields
    BY DEF StepOK, EndpointOK, ControlOK, IsEndpoint
  <2> QED BY <1>2, <2>1 DEF Fields
<1>4. sent'[p] = S2 /\ sent'[q] = sent[q]
  BY <1>1 DEF StepOK, IInv, Shape
<1>5. Count' = [Count EXCEPT ![p] = Len(S2)]
  BY <1>1, <1>4 DEF Count
<1>6. GotFrame' = [GotFrame EXCEPT ![p] = w.last_received.frame]
  BY <1>1, <1>2, <1>3 DEF GotFrame
<1>7. First' = [First EXCEPT ![p] = Max2(w.last_acked.frame + 1, FrameDelay[p])]
  BY <1>1, <1>2, <1>3 DEF First
<1>8. InputPackets(p)' = InputPackets(p)
  BY <1>2 DEF InputPackets
<1>9. Flight' = [Flight EXCEPT ![q] = Flight'[q]]
  BY <1>1, <1>8 DEF Flight
<1>10. ASSUME NEW f \in Flight'[q]
       PROVE  \/ f \in Flight[q]
              \/ \E x \in ToSet(w.out) : x.body.type = "Input" /\ f = Numbers(x)
  <2>1. PICK m \in network'[q] : m.body.type = "Input" /\ f = Numbers(m)
    BY <1>1, <1>10 DEF Flight, InputPackets
  <2>2. CASE m \in network[q]
    BY <1>1, <2>1, <2>2 DEF Flight, InputPackets
  <2> QED BY <1>2, <2>1, <2>2
<1> QED BY <1>5, <1>6, <1>7, <1>9, <1>10

(* The barrier counts the frames of the other player that have come.          *)
LEMMA BarrierIs ==
  ASSUME IInv, NEW p \in Players, endpoint[p].state = "running", BehindBarrier(p)
  PROVE  \/ Len(sent[p]) < MAX_PREDICTION_FRAMES
         \/ Len(sent[p]) - Min2(endpoint[p].last_received.frame, LastOf(FrameDelay[p], sent[p]))
              < MAX_PREDICTION_FRAMES
<1> DEFINE q == PeerOf(p)
           S == sent[p]
           T == sent[q]
           D == backend[p].delivered
           h == Got(p)
           d == FrameDelay[p]
           e == FrameDelay[q]
           r == endpoint[p].last_received.frame
<1>1. /\ h \in Nat /\ Len(S) \in Nat /\ h \in 0 .. Len(T) /\ Len(T) \in Nat
      /\ d \in Nat /\ e \in Nat
      /\ SentOK(d, S) /\ SentOK(e, T)
  <2>1. q \in Players
    BY PeerOfPeer
  <2> QED BY <2>1, SideFacts DEF SentOK
<1>2. D \in Seq(AnyInput) /\ Extends(D, T) /\ Len(D) = h
  BY SideFacts DEF BackendOK
<1>3. r = IF h = 0 THEN -1 ELSE e + h - 1
  BY SideFacts, FramesOf
<1>4. D # <<>> => LastFrame(D) = r /\ h > 0
  <2>1. D # <<>> => Len(D) > 0 /\ Last(D) = D[Len(D)] /\ Len(D) \in 1 .. Len(D)
    BY <1>2 DEF Last
  <2>2. h > 0 => T[h].frame = e + h - 1
    BY <1>1 DEF SentOK
  <2>3. Len(D) \in 1 .. Len(D) => D[Len(D)] = T[Len(D)]
    BY <1>2 DEF Extends
  <2> QED BY <1>2, <1>3, <2>1, <2>2, <2>3 DEF LastFrame
<1>5. S # <<>> => LastFrame(S) = LastOf(d, S) /\ Len(S) > 0
  <2>1. S \in Seq(AnyInput)
    BY <1>1 DEF SentOK
  <2>2. S # <<>> => Len(S) > 0 /\ Last(S) = S[Len(S)] /\ Len(S) \in 1 .. Len(S)
    BY <2>1 DEF Last
  <2>3. S # <<>> => S[Len(S)].frame = d + Len(S) - 1
    BY <1>1, <2>2 DEF SentOK
  <2> QED BY <1>1, <2>2, <2>3 DEF LastFrame, LastOf
<1>6. D = <<>> => h = 0
  BY <1>2
<1>7. S = <<>> => Len(S) = 0
  OBVIOUS
<1>8. /\ FrameCount(p) = Len(S)
      /\ Confirmed(p) = IF D = <<>> \/ S = <<>> THEN NullFrame
                        ELSE Min({LastFrame(D), LastFrame(S)})
  BY DEF FrameCount, Confirmed
<1>9. \A a, c \in Int : Min({a, c}) = Min2(a, c)
  <2> SUFFICES ASSUME NEW a \in Int, NEW c \in Int PROVE Min({a, c}) = Min2(a, c)
    OBVIOUS
  <2>1. Min2(a, c) \in {a, c} /\ \A y \in {a, c} : Min2(a, c) <= y
    BY DEF Min2
  <2>2. Min({a, c}) \in {a, c} /\ \A y \in {a, c} : Min({a, c}) <= y
    BY <2>1 DEF Min
  <2>3. Min2(a, c) \in Int /\ Min({a, c}) \in Int
    BY <2>1, <2>2
  <2>4. Min({a, c}) <= Min2(a, c) /\ Min2(a, c) <= Min({a, c})
    BY <2>1, <2>2
  <2> HIDE DEF Min2, Min
  <2> QED BY <2>3, <2>4
<1>10. MAX_PREDICTION_FRAMES \in Nat \ {0}
  BY SessionAssumption
<1>11. \/ Len(S) < MAX_PREDICTION_FRAMES
       \/ Len(S) - Confirmed(p) < MAX_PREDICTION_FRAMES
  BY <1>8 DEF BehindBarrier
<1> HIDE DEF S, D, T, r, h, d, e
<1>12. Confirmed(p) = Min2(r, LastOf(d, S))
  <2>1. r \in Int /\ r >= -1 /\ LastOf(d, S) \in Int /\ LastOf(d, S) >= -1
    BY <1>1, <1>3 DEF LastOf, NullFrame
  <2>2. CASE D = <<>>
    <3>1. r = -1
      BY <1>3, <1>6, <2>2
    <3> QED BY <1>8, <2>1, <2>2, <3>1 DEF Min2, NullFrame
  <2>3. CASE S = <<>>
    <3>1. LastOf(d, S) = -1
      BY <1>7, <2>3 DEF LastOf, NullFrame
    <3> QED BY <1>8, <2>1, <2>3, <3>1 DEF Min2, NullFrame
  <2>4. CASE D # <<>> /\ S # <<>>
    BY <1>4, <1>5, <1>8, <1>9, <2>1, <2>4
  <2> QED BY <2>2, <2>3, <2>4
<1> QED BY <1>11, <1>12 DEF S, r, d

(* What InputFlow says of the state, in terms of the inputs.                  *)
LEMMA FlowIs ==
  ASSUME IInv, NEW p \in Players
  PROVE  LET q == PeerOf(p)
             S == sent[p]
             d == FrameDelay[p]
         IN  /\ Count[p] = Len(S) /\ Len(S) \in Nat /\ d \in Nat
             /\ GotFrame[p] = endpoint[p].last_received.frame
             /\ GotFrame[p] = IF Got(p) = 0 THEN -1 ELSE FrameDelay[q] + Got(p) - 1
             /\ First[p] = d + Gone(S, endpoint[p].pending)
             /\ Gone(S, endpoint[p].pending) \in Nat
             /\ First[p] = Max2(endpoint[p].last_acked.frame + 1, d)
             /\ Count = [Count EXCEPT ![p] = Count[p]]
             /\ GotFrame = [GotFrame EXCEPT ![p] = GotFrame[p]]
             /\ First = [First EXCEPT ![p] = First[p]]
<1>1. /\ Known(p, sent[p], Got(PeerOf(p)), sent[PeerOf(p)], Got(p))
      /\ EndpointOK(p, sent[p], Got(PeerOf(p)), sent[PeerOf(p)], Got(p), endpoint[p])
  BY SideFacts
<1>2. LET gone == Gone(sent[p], endpoint[p].pending)
          d == FrameDelay[p]
      IN  /\ gone \in Nat /\ Len(sent[p]) \in Nat /\ d \in Nat
          /\ Max2(endpoint[p].last_acked.frame + 1, d) = d + gone
          /\ endpoint[p].last_received.frame =
               IF Got(p) = 0 THEN -1 ELSE FrameDelay[PeerOf(p)] + Got(p) - 1
  BY <1>1, FramesOf
<1>3. /\ Count[p] = Len(sent[p]) /\ GotFrame[p] = endpoint[p].last_received.frame
      /\ First[p] = Max2(endpoint[p].last_acked.frame + 1, FrameDelay[p])
  BY DEF Count, GotFrame, First
<1>4. /\ Count = [Count EXCEPT ![p] = Count[p]]
      /\ GotFrame = [GotFrame EXCEPT ![p] = GotFrame[p]]
      /\ First = [First EXCEPT ![p] = First[p]]
  BY DEF Count, GotFrame, First
<1> QED BY <1>2, <1>3, <1>4

(* The actions of InputFlow in these terms.                                   *)
LEMMA FlowActions ==
  ASSUME NEW p \in Players
  PROVE  LET q == PeerOf(p)
             Keeps(packets) == \E kept \in SUBSET (Flight[q] \cup packets) :
                                  Flight' = [Flight EXCEPT ![q] = kept]
         IN  /\ \/ Count[p] < MAX_PREDICTION_FRAMES
                \/ Count[p] - Min2(GotFrame[p], LastOf(FrameDelay[p], sent[p]))
                     < MAX_PREDICTION_FRAMES
                => Flow!BehindBarrier(p)
             /\ /\ Flow!BehindBarrier(p) /\ Count' = [Count EXCEPT ![p] = @ + 1]
                /\ Keeps({[last |-> Count[p] + FrameDelay[p], ack |-> GotFrame[p]]})
                /\ UNCHANGED <<GotFrame, First>>
                => Flow!Send(p)
             /\ /\ Keeps({[last |-> LastOf(FrameDelay[p], sent[p]), ack |-> GotFrame[p]]})
                /\ UNCHANGED <<Count, GotFrame, First>>
                => Flow!Resend(p)
             /\ /\ \E m \in Flight[p] :
                      /\ GotFrame' = [GotFrame EXCEPT ![p] = Max2(@, m.last)]
                      /\ First' = [First EXCEPT ![p] = Max2(@, m.ack)]
                /\ Keeps({}) /\ UNCHANGED Count
                => Flow!Receive(p)
<1> DEFINE q == PeerOf(p)
           Keeps(packets) == \E kept \in SUBSET (Flight[q] \cup packets) :
                                Flight' = [Flight EXCEPT ![q] = kept]
<1>1. Flow!PeerOf(p) = q
  BY DEF Flow!PeerOf, PeerOf
<1>2. Flow!LastSent(p) = LastOf(FrameDelay[p], sent[p])
  BY DEF Flow!LastSent, Flow!NullFrame, LastOf, NullFrame
<1>3. Flow!BehindBarrier(p) <=>
        \/ Count[p] < MAX_PREDICTION_FRAMES
        \/ Count[p] - Min2(GotFrame[p], LastOf(FrameDelay[p], sent[p]))
             < MAX_PREDICTION_FRAMES
  BY <1>2 DEF Flow!BehindBarrier, Flow!Min2, Count, GotFrame, Min2
<1>4. /\ Flow!BehindBarrier(p) /\ Count' = [Count EXCEPT ![p] = @ + 1]
      /\ Keeps({[last |-> Count[p] + FrameDelay[p], ack |-> GotFrame[p]]})
      /\ UNCHANGED <<GotFrame, First>>
      => Flow!Send(p)
  BY <1>1 DEF Flow!Send, Flow!Transmit, Count, GotFrame, First, Flight, Numbers
<1>5. /\ Keeps({[last |-> LastOf(FrameDelay[p], sent[p]), ack |-> GotFrame[p]]})
      /\ UNCHANGED <<Count, GotFrame, First>>
      => Flow!Resend(p)
  BY <1>1, <1>2 DEF Flow!Resend, Flow!Transmit, Count, GotFrame, First, Flight, Numbers
<1>6. /\ \E m \in Flight[p] :
            /\ GotFrame' = [GotFrame EXCEPT ![p] = Max2(@, m.last)]
            /\ First' = [First EXCEPT ![p] = Max2(@, m.ack)]
      /\ Keeps({}) /\ UNCHANGED Count
      => Flow!Receive(p)
  BY <1>1 DEF Flow!Receive, Flow!Transmit, Flow!Max2, Max2, Count, GotFrame, First, Flight,
              Numbers
<1> QED BY <1>3, <1>4, <1>5, <1>6

(* Sending an input is a Send of InputFlow: the barrier of Sync counts the    *)
(* frames that have come.                                                     *)
LEMMA SentOneFlows ==
  ASSUME IInv, NEW p \in Players, SentOne(p)
  PROVE  Flow!Send(p)
<1> DEFINE q == PeerOf(p)
           S == sent[p]
           d == FrameDelay[p]
           r == endpoint[p].last_received.frame
           new == [last |-> Len(S) + d, ack |-> r]
           kept == Flight'[q]
<1>1. PICK w : \E input \in AnyInput :
        LET S2 == Append(S, input)
        IN  /\ endpoint[p].state = "running" /\ BehindBarrier(p)
            /\ Len(S) < MaxFrames[p] /\ input.frame = d + Len(S)
            /\ StepOK(p, S2, Got(p), w, backend[p]) /\ Histories
            /\ SendOK(p, S2, Got(q), sent[q], Got(p), endpoint[p], w)
            /\ Gone(S2, w.pending) = Gone(S, endpoint[p].pending)
  BY Zenon DEF SentOne
<1>2. PICK input \in AnyInput :
        LET S2 == Append(S, input)
        IN  /\ endpoint[p].state = "running" /\ BehindBarrier(p)
            /\ Len(S) < MaxFrames[p] /\ input.frame = d + Len(S)
            /\ StepOK(p, S2, Got(p), w, backend[p]) /\ Histories
            /\ SendOK(p, S2, Got(q), sent[q], Got(p), endpoint[p], w)
            /\ Gone(S2, w.pending) = Gone(S, endpoint[p].pending)
  BY <1>1
<1> DEFINE S2 == Append(S, input)
<1>3. /\ Len(S) \in Nat /\ d \in Nat /\ Len(S2) = Len(S) + 1
      /\ SentOK(d, S2) /\ Known(p, S2, Got(q), sent[q], Got(p))
  <2>1. Len(S) \in Nat /\ d \in Nat /\ S \in Seq(AnyInput)
    BY SideFacts DEF SentOK
  <2>2. Len(S2) = Len(S) + 1
    BY <2>1
  <2>3. SentOK(d, S2)
    BY <1>2 DEF StepOK
  <2>4. Known(p, S, Got(q), sent[q], Got(p))
    BY SideFacts
  <2> HIDE DEF S2, S
  <2>5. Known(p, S2, Got(q), sent[q], Got(p))
    BY <2>1, <2>2, <2>3, <2>4 DEF Known
  <2> QED BY <2>1, <2>2, <2>3, <2>5
<1>4. /\ Count' = [Count EXCEPT ![p] = Len(S2)]
      /\ GotFrame' = [GotFrame EXCEPT ![p] = w.last_received.frame]
      /\ First' = [First EXCEPT ![p] = Max2(w.last_acked.frame + 1, d)]
      /\ Flight' = [Flight EXCEPT ![q] = kept]
      /\ \A f \in kept : \/ f \in Flight[q]
                         \/ \E x \in ToSet(w.out) : x.body.type = "Input" /\ f = Numbers(x)
  <2>1. StepOK(p, S2, Got(p), w, backend[p])
    BY <1>2
  <2> HIDE DEF S2
  <2> QED BY <2>1, NumbersMove
<1>5. /\ w.last_received = endpoint[p].last_received /\ w.last_acked = endpoint[p].last_acked
      /\ \A x \in ToSet(w.out) : x.body.type = "Input" => CarriesAll(p, S2, Got(q), w, x)
      /\ EndpointOK(p, S2, Got(q), sent[q], Got(p), w)
  BY <1>2 DEF SendOK
<1>6. Count[p] = Len(S) /\ GotFrame[p] = r /\ GotFrame' = GotFrame /\ First' = First
  BY <1>4, <1>5, FlowIs
<1>7. \A f \in kept : f \in Flight[q] \cup {new}
  <2> SUFFICES ASSUME NEW f \in kept, f \notin Flight[q] PROVE f = new
    OBVIOUS
  <2>1. PICK x \in ToSet(w.out) : x.body.type = "Input" /\ f = Numbers(x)
    BY <1>4
  <2> HIDE DEF S2
  <2>2. f = [last |-> LastOf(d, S2), ack |-> w.last_received.frame]
    BY <1>3, <1>5, <2>1, NumbersSent
  <2>3. LastOf(d, S2) = Len(S) + d
    BY <1>3 DEF LastOf
  <2> QED BY <1>5, <2>2, <2>3
<1>8. /\ Count' = [Count EXCEPT ![p] = @ + 1]
      /\ kept \in SUBSET (Flight[q] \cup {[last |-> Count[p] + d, ack |-> GotFrame[p]]})
  BY <1>3, <1>4, <1>6, <1>7
<1>9. \/ Count[p] < MAX_PREDICTION_FRAMES
      \/ Count[p] - Min2(GotFrame[p], LastOf(d, S)) < MAX_PREDICTION_FRAMES
  BY <1>2, <1>6, BarrierIs
<1>10. \E k \in SUBSET (Flight[q] \cup {[last |-> Count[p] + d, ack |-> GotFrame[p]]}) :
          Flight' = [Flight EXCEPT ![q] = k]
  BY <1>4, <1>8
<1> HIDE DEF kept, S2
<1> QED BY <1>6, <1>8, <1>9, <1>10, FlowActions

(* Whatever else is sent repeats what is pending.                             *)
LEMMA QuietFlows ==
  ASSUME IInv, NEW p \in Players, Quiet(p)
  PROVE  Flow!Resend(p)
<1> DEFINE q == PeerOf(p)
           S == sent[p]
           d == FrameDelay[p]
           u == endpoint[p]
           kept == Flight'[q]
<1>1. PICK w, b : /\ StepOK(p, S, Got(p), w, b) /\ w.pending = u.pending
                  /\ \A x \in ToSet(w.out) : x.body.type = "Input" =>
                        CarriesAll(p, S, Got(q), u, x)
  BY DEF Quiet
<1>2. /\ Known(p, S, Got(q), sent[q], Got(p))
      /\ EndpointOK(p, S, Got(q), sent[q], Got(p), u)
      /\ EndpointOK(p, S, Got(q), sent[q], Got(p), w)
  BY <1>1, SideFacts DEF StepOK
<1>3. /\ Max2(w.last_acked.frame + 1, d) = First[p]
      /\ w.last_received.frame = GotFrame[p] /\ u.last_received.frame = GotFrame[p]
  <2>1. /\ Max2(w.last_acked.frame + 1, d) = d + Gone(S, w.pending)
        /\ w.last_received.frame = IF Got(p) = 0 THEN -1 ELSE FrameDelay[q] + Got(p) - 1
    BY <1>2, FramesOf
  <2>2. /\ First[p] = d + Gone(S, u.pending) /\ GotFrame[p] = u.last_received.frame
        /\ GotFrame[p] = IF Got(p) = 0 THEN -1 ELSE FrameDelay[q] + Got(p) - 1
    BY FlowIs
  <2> QED BY <1>1, <2>1, <2>2
<1>4. /\ Count' = [Count EXCEPT ![p] = Len(S)]
      /\ GotFrame' = [GotFrame EXCEPT ![p] = w.last_received.frame]
      /\ First' = [First EXCEPT ![p] = Max2(w.last_acked.frame + 1, d)]
      /\ Flight' = [Flight EXCEPT ![q] = kept]
      /\ \A f \in kept : \/ f \in Flight[q]
                         \/ \E x \in ToSet(w.out) : x.body.type = "Input" /\ f = Numbers(x)
  BY <1>1, NumbersMove
<1>5. UNCHANGED <<Count, GotFrame, First>>
  BY <1>3, <1>4, FlowIs
<1>6. kept \in SUBSET (Flight[q] \cup {[last |-> LastOf(d, S), ack |-> GotFrame[p]]})
  <2> SUFFICES ASSUME NEW f \in kept, f \notin Flight[q]
               PROVE  f = [last |-> LastOf(d, S), ack |-> GotFrame[p]]
    OBVIOUS
  <2>1. PICK x \in ToSet(w.out) : x.body.type = "Input" /\ f = Numbers(x)
    BY <1>4
  <2> QED BY <1>1, <1>2, <1>3, <2>1, NumbersSent
<1> HIDE DEF kept
<1> QED BY <1>4, <1>5, <1>6, FlowActions

(* Taking a packet moves the frame received and the first frame pending as    *)
(* InputFlow says.                                                            *)
LEMMA TookFlows ==
  ASSUME IInv, NEW p \in Players, Took(p)
  PROVE  Flow!Resend(p) \/ Flow!Receive(p)
<1> DEFINE q == PeerOf(p)
           S == sent[p]
           T == sent[q]
           d == FrameDelay[p]
           e == FrameDelay[q]
           u == endpoint[p]
           h == Got(p)
           kept == Flight'[q]
<1>1. PICK m \in network[p] : \E w, b, h2 :
        /\ StepOK(p, S, h2, w, b) /\ Takes(p, S, T, h, h2, u, w, m.body)
        /\ \A x \in ToSet(w.out) : x.body.type # "Input"
  BY DEF Took
<1>2. PICK w, b, h2 :
        /\ StepOK(p, S, h2, w, b) /\ Takes(p, S, T, h, h2, u, w, m.body)
        /\ \A x \in ToSet(w.out) : x.body.type # "Input"
  BY <1>1
<1> DEFINE gone == Gone(S, u.pending)
           gone2 == Gone(S, w.pending)
<1>3. /\ h \in Nat /\ h2 \in Nat /\ d \in Nat /\ e \in Nat
      /\ Known(p, S, Got(q), T, h2) /\ EndpointOK(p, S, Got(q), T, h2, w)
  <2>1. Known(p, S, Got(q), T, h) /\ Len(T) \in Nat
    BY SideFacts, PeerOfPeer
  <2>2. h2 \in 0 .. Len(T) /\ EndpointOK(p, S, Got(q), T, h2, w)
    BY <1>2 DEF StepOK
  <2>3. h2 \in Nat
    BY <2>1, <2>2
  <2>4. h \in Nat /\ d \in Nat /\ e \in Nat
    BY SideFacts, PeerOfPeer, SessionAssumption
  <2> QED BY <2>1, <2>2, <2>3, <2>4 DEF Known
<1>4. /\ Max2(w.last_acked.frame + 1, d) = d + gone2 /\ gone2 \in Nat
      /\ w.last_received.frame = IF h2 = 0 THEN -1 ELSE e + h2 - 1
  BY <1>3, FramesOf
<1>5. /\ First[p] = d + gone /\ gone \in Nat
      /\ GotFrame[p] = IF h = 0 THEN -1 ELSE e + h - 1
  BY FlowIs
<1>6. /\ Count' = [Count EXCEPT ![p] = Len(S)]
      /\ GotFrame' = [GotFrame EXCEPT ![p] = w.last_received.frame]
      /\ First' = [First EXCEPT ![p] = Max2(w.last_acked.frame + 1, d)]
      /\ Flight' = [Flight EXCEPT ![q] = kept]
      /\ \A f \in kept : \/ f \in Flight[q]
                         \/ \E x \in ToSet(w.out) : x.body.type = "Input" /\ f = Numbers(x)
  BY <1>2, NumbersMove
<1>7. UNCHANGED Count
  BY <1>6, FlowIs
<1>8. kept \in SUBSET Flight[q]
  BY <1>2, <1>6
<1>9. CASE h2 = h /\ w.pending = u.pending
  <2>1. gone2 = gone
    BY <1>9
  <2> HIDE DEF kept, gone, gone2, h
  <2>2. UNCHANGED <<GotFrame, First>>
    BY <1>4, <1>5, <1>6, <1>9, <2>1, FlowIs
  <2> QED BY <1>6, <1>7, <1>8, <2>2, FlowActions
<1>10. CASE /\ m.body.type = "Input"
            /\ \E i \in 0 .. Len(T) : /\ Carries(e, T, h, m.body, i)
                                      /\ h2 = Max2(h, i + Len(m.body.frames))
            /\ gone2 = Max2(gone, m.body.ack - d)
  <2>1. PICK i \in 0 .. Len(T) : /\ Carries(e, T, h, m.body, i)
                                 /\ h2 = Max2(h, i + Len(m.body.frames))
    BY <1>10
  <2> DEFINE n == Len(m.body.frames)
             last == IF m.body.frames = <<>> THEN NullFrame ELSE m.body.start + n - 1
             ack == m.body.ack
  <2>2. /\ i = 0 \/ i < h
        /\ IsList(m.body.frames) /\ (m.body.frames # <<>> => m.body.start = e + i)
    BY <2>1 DEF Carries
  <2>3. n \in Nat /\ i \in Nat /\ (m.body.frames = <<>> <=> n = 0)
    <3>1. n \in Nat /\ i \in Nat
      BY <2>2, ListFacts
    <3>2. n = 0 => m.body.frames = <<>>
      BY <2>2, EmptyList DEF IsList
    <3>3. m.body.frames = <<>> => n = 0
      BY NoList
    <3> QED BY <3>1, <3>2, <3>3
  <2>4. ack \in Int
    BY <1>1, SideFacts, PeerOfPeer, <1>10 DEF IInv, SideInv, Side, PacketOK
  <2>5. Numbers(m) = [last |-> last, ack |-> ack] /\ Numbers(m) \in Flight[p]
    BY <1>1, <1>10 DEF Numbers, Flight, InputPackets
  <2> HIDE DEF gone, gone2, h, d, e, n, ack
  <2>6. w.last_received.frame = Max2(GotFrame[p], last)
    <3>1. h2 = Max2(h, i + n)
      BY <2>1 DEF n
    <3>2. last = IF n = 0 THEN -1 ELSE e + i + n - 1
      BY <1>3, <2>2, <2>3 DEF NullFrame
    <3> HIDE DEF last
    <3> QED BY <1>3, <1>4, <1>5, <2>2, <2>3, <3>1, <3>2 DEF Max2
  <2>7. Max2(w.last_acked.frame + 1, d) = Max2(First[p], ack)
    <3>1. gone2 = Max2(gone, ack - d)
      BY <1>10 DEF ack
    <3>2. d + gone2 = Max2(d + gone, ack)
      BY <1>3, <1>5, <2>4, <3>1 DEF Max2
    <3> QED BY <1>4, <1>5, <3>2
  <2> HIDE DEF last
  <2>8. /\ GotFrame' = [GotFrame EXCEPT ![p] = Max2(@, Numbers(m).last)]
        /\ First' = [First EXCEPT ![p] = Max2(@, Numbers(m).ack)]
    <3>1. Numbers(m).last = last /\ Numbers(m).ack = ack
      BY <2>5
    <3>2. /\ w.last_received.frame = Max2(GotFrame[p], Numbers(m).last)
          /\ Max2(w.last_acked.frame + 1, d) = Max2(First[p], Numbers(m).ack)
      BY <2>6, <2>7, <3>1
    <3> QED BY <1>6, <3>2
  <2> HIDE DEF kept
  <2>9. \E k \in SUBSET (Flight[q] \cup {}) : Flight' = [Flight EXCEPT ![q] = k]
    BY <1>6, <1>8
  <2> QED BY <1>7, <2>5, <2>8, <2>9, FlowActions
<1> QED BY <1>2, <1>9, <1>10 DEF Takes

(* At the start nothing is sent, received or in flight.                       *)
LEMMA StartFlows ==
  ASSUME IInv, Starts
  PROVE  Flow!Init
<1>1. Count = [p \in Players |-> 0]
  BY DEF Starts, Count
<1>2. ASSUME NEW p \in Players PROVE GotFrame[p] = -1 /\ First[p] = FrameDelay[p]
  <2>1. sent[p] = <<>> /\ sent[PeerOf(p)] = <<>>
    BY PeerOfPeer DEF Starts
  <2>2. Got(p) = 0
    BY <2>1, SideFacts
  <2>3. Gone(sent[p], endpoint[p].pending) = 0
    <3>1. EndpointOK(p, sent[p], Got(PeerOf(p)), sent[PeerOf(p)], Got(p), endpoint[p])
      BY SideFacts
    <3>2. Known(p, sent[p], Got(PeerOf(p)), sent[PeerOf(p)], Got(p))
      BY SideFacts
    <3>3. /\ Len(endpoint[p].pending) \in Nat /\ Len(sent[p]) = 0
          /\ Gone(sent[p], endpoint[p].pending) \in Nat
      BY <2>1, <3>1, <3>2, FramesOf
    <3> QED BY <3>3 DEF Gone
  <2> QED BY <2>2, <2>3, FlowIs
<1>3. GotFrame = [p \in Players |-> -1]
  BY <1>2 DEF GotFrame
<1>4. First = FrameDelay
  BY <1>2, SessionAssumption DEF First
<1>5. Flight = [p \in Players |-> {}]
  BY DEF Starts, Flight
<1> QED BY <1>1, <1>3, <1>4, <1>5
        DEF Flow!Init, Flow!NullFrame, Count, GotFrame, First, Flight, Numbers

(* What the endpoints do with frame numbers is what InputFlow allows:         *)
(* packets carry all that is pending and acknowledge the last frame           *)
(* received, and the barrier holds the sender back (AddLocalInput,            *)
(* SendPendingOutput, OnInput).                                               *)
THEOREM FlowIsImplemented == Spec \/ RunningSpec => ImplementsFlow
<1>1. IInv /\ Starts => Flow!Init
  BY StartFlows
<1>2. IInv /\ [Next]_vars => [Flow!Next]_(Flow!vars)
  <2> SUFFICES ASSUME IInv, [Next]_vars PROVE Flow!Next \/ UNCHANGED Flow!vars
    OBVIOUS
  <2>1. CASE Stops \/ UNCHANGED vars
    <3>1. sent' = sent /\ endpoint' = endpoint /\ network' = network
      BY <2>1 DEF Stops, vars
    <3> QED BY <3>1 DEF Flow!vars, InputPackets
  <2>2. ASSUME NEW p \in Players, SentOne(p) \/ Quiet(p) \/ Took(p)
        PROVE  Flow!Next
    BY <2>2, SentOneFlows, QuietFlows, TookFlows DEF Flow!Next
  <2> QED BY <2>1, <2>2, NextDoes
<1>3. Init => IInv /\ Starts
  BY InitDoes
<1>4. InitRunning => IInv /\ Starts
  BY InitRunningDoes
<1> QED BY <1>1, <1>2, <1>3, <1>4, EndpointsInvariant, PTL DEF Spec, RunningSpec, ImplementsFlow, Flow!Spec
-----------------------------------------------------------------------------
(* What InputFlowProofs proves of the frame numbers holds of the endpoints.   *)
Numbered == INSTANCE InputFlowProofs
            WITH count <- Count, got <- GotFrame, first <- First, flight <- Flight

(* The steps are those the theorems of InputFlowProofs are about.             *)
LEMMA FlowSteps ==
  ASSUME IInv, [Next]_vars
  PROVE  [Numbered!Next]_(Numbered!vars)
<1>1. CASE Stops \/ UNCHANGED vars
  <2>1. sent' = sent /\ endpoint' = endpoint /\ network' = network
    BY <1>1 DEF Stops, vars
  <2> QED BY <2>1 DEF Numbered!vars, Count, GotFrame, First, Flight, InputPackets
<1>2. ASSUME NEW p \in Players, SentOne(p) \/ Quiet(p) \/ Took(p)
      PROVE  Numbered!Next
  <2>1. Flow!Send(p) => Numbered!Send(p)
    BY DEF Flow!Send, Numbered!Send, Flow!Transmit, Numbered!Transmit, Flow!BehindBarrier,
           Numbered!BehindBarrier, Flow!LastSent, Numbered!LastSent, Flow!Min2, Numbered!Min2,
           Flow!NullFrame, Numbered!NullFrame, Flow!PeerOf, Numbered!PeerOf,
           Count, GotFrame, First, Flight, Numbers
  <2>2. Flow!Resend(p) => Numbered!Resend(p)
    BY DEF Flow!Resend, Numbered!Resend, Flow!Transmit, Numbered!Transmit, Flow!LastSent,
           Numbered!LastSent, Flow!NullFrame, Numbered!NullFrame, Flow!PeerOf, Numbered!PeerOf,
           Count, GotFrame, First, Flight, Numbers
  <2>3. Flow!Receive(p) => Numbered!Receive(p)
    BY DEF Flow!Receive, Numbered!Receive, Flow!Transmit, Numbered!Transmit, Flow!Max2,
           Numbered!Max2, Flow!PeerOf, Numbered!PeerOf, Count, GotFrame, First, Flight, Numbers
  <2> QED BY <1>2, <2>1, <2>2, <2>3, SentOneFlows, QuietFlows, TookFlows DEF Numbered!Next
<1> QED BY <1>1, <1>2, NextDoes

(* So the invariant of InputFlow holds of the endpoints.                      *)
LEMMA FlowInvariant == Spec \/ RunningSpec => []Numbered!IInv
<1>1. IInv /\ Starts => Numbered!IInv
  <2>1. IInv /\ Starts => Numbered!Init
    BY StartFlows DEF Flow!Init, Numbered!Init, Flow!NullFrame, Numbered!NullFrame,
                      Count, GotFrame, First, Flight, Numbers
  <2> QED BY <2>1, Numbered!InitEstablishesIInv, PlayersAssumption, SessionAssumption
          DEF Numbered!PlayersAssumption, Numbered!SessionAssumption
<1>2. IInv /\ Numbered!IInv /\ [Next]_vars => Numbered!IInv'
  <2>1. Numbered!IInv /\ [Numbered!Next]_(Numbered!vars) => Numbered!IInv'
    BY Numbered!NextPreservesIInv, PlayersAssumption, SessionAssumption
       DEF Numbered!PlayersAssumption, Numbered!SessionAssumption
  <2> QED BY <2>1, FlowSteps
<1>3. Init => IInv /\ Starts
  BY InitDoes
<1>4. InitRunning => IInv /\ Starts
  BY InitRunningDoes
<1> QED BY <1>1, <1>2, <1>3, <1>4, EndpointsInvariant, PTL DEF Spec, RunningSpec

(* SendInput finds room in its ring and its frames in order, as long as twice *)
(* the prediction frames and both delays do not exceed the ring.              *)
Room == \A p \in Players :
           2 * MAX_PREDICTION_FRAMES + FrameDelay[p] + FrameDelay[PeerOf(p)] <= RING_SIZE
SendsSafely ==
    \A p \in Players :
        (endpoint[p].state = "running" => BehindBarrier(p)) => SendInputAsserts(endpoint[p])

(* A player whom the barrier lets pass has room in its pending output.        *)
LEMMA RoomToSend ==
  ASSUME Room, IInv, Numbered!IInv, NEW p \in Players,
         endpoint[p].state = "running", BehindBarrier(p)
  PROVE  PushAsserts(endpoint[p].pending)
<1> DEFINE d == FrameDelay[p]
           e == FrameDelay[PeerOf(p)]
           n == Len(endpoint[p].pending)
           gone == Gone(sent[p], endpoint[p].pending)
<1>1. /\ Count[p] = Len(sent[p]) /\ Len(sent[p]) \in Nat /\ d \in Nat
      /\ GotFrame[p] = endpoint[p].last_received.frame
      /\ First[p] = d + gone /\ gone \in Nat
  BY FlowIs
<1>2. Numbered!BehindBarrier(p)
  BY <1>1, BarrierIs DEF Numbered!BehindBarrier, Numbered!Min2, Numbered!LastSent,
     Numbered!NullFrame, Min2, LastOf, NullFrame
<1>3. Count[p] + d - First[p] + 1 <= 2 * MAX_PREDICTION_FRAMES + d + e - 1
  <2>1. Numbered!PeerOf(p) = PeerOf(p)
    BY DEF Numbered!PeerOf, PeerOf
  <2>2. Count[p] + d - First[p] + 1
          <= 2 * MAX_PREDICTION_FRAMES + d + FrameDelay[Numbered!PeerOf(p)] - 1
    BY <1>2, Numbered!BarrierLeavesRoom, PlayersAssumption, SessionAssumption
       DEF Numbered!PlayersAssumption, Numbered!SessionAssumption
  <2> QED BY <2>1, <2>2
<1>4. gone + n = Len(sent[p]) /\ n \in Nat
  BY SideFacts, FramesOf
<1>5. /\ 2 * MAX_PREDICTION_FRAMES + d + e <= RING_SIZE
      /\ MAX_PREDICTION_FRAMES \in Nat /\ e \in Nat /\ RING_SIZE \in Nat
  BY PeerOfPeer, SessionAssumption, UdpProtocolAssumption DEF Room
<1>6. \A len, dd, ee, m, g, max, ring \in Nat :
        /\ len + dd - (dd + g) + 1 <= 2 * max + dd + ee - 1 /\ g + m = len
        /\ 2 * max + dd + ee <= ring
        => m # ring - 1
  OBVIOUS
<1>7. Len(sent[p]) + d - (d + gone) + 1 <= 2 * MAX_PREDICTION_FRAMES + d + e - 1
  BY <1>1, <1>3
<1> HIDE DEF d, e, n, gone
<1>8. n # RING_SIZE - 1
  <2>1. gone + n = Len(sent[p]) /\ Len(sent[p]) \in Nat
    BY <1>1, <1>4
  <2>2. /\ d \in Nat /\ e \in Nat /\ n \in Nat /\ gone \in Nat
        /\ MAX_PREDICTION_FRAMES \in Nat /\ RING_SIZE \in Nat
    BY <1>1, <1>4, <1>5
  <2>3. 2 * MAX_PREDICTION_FRAMES + d + e <= RING_SIZE
    BY <1>5
  <2> QED BY ZenonT(60), <1>6, <1>7, <2>1, <2>2, <2>3
<1> QED BY <1>8 DEF PushAsserts, n

(* The first frame pending follows the last one acknowledged.                 *)
LEMMA PendingFollows ==
  ASSUME IInv, NEW p \in Players
  PROVE  SendPendingOutputAsserts(endpoint[p])
<1> DEFINE S == sent[p]
           pending == endpoint[p].pending
           gone == Gone(S, pending)
           d == FrameDelay[p]
<1>1. /\ SentOK(d, S) /\ IsList(pending)
      /\ \A n \in 1 .. Len(pending) : pending[n] = S[gone + n]
      /\ endpoint[p].last_acked = At(d, S, gone)
  BY SideFacts DEF EndpointOK, Acked, PendingOK
<1>2. /\ gone \in Nat /\ Len(pending) \in Nat /\ gone + Len(pending) = Len(S)
      /\ Len(S) \in Nat /\ d \in Nat
  BY SideFacts, FramesOf
<1>3. ASSUME pending # <<>>
      PROVE  \/ endpoint[p].last_acked.frame = NullFrame
             \/ endpoint[p].last_acked.frame + 1 = pending[1].frame
  <2>1. Len(pending) > 0
    BY <1>1, <1>2, <1>3, EmptyList DEF IsList
  <2> HIDE DEF S, pending, gone, d
  <2>2. 1 \in 1 .. Len(pending) /\ gone + 1 \in 1 .. Len(S)
    BY <1>2, <2>1
  <2>3. pending[1].frame = d + gone
    <3>1. S[gone + 1].frame = d + (gone + 1) - 1
      BY <1>1, <2>2 DEF SentOK
    <3> QED BY <1>1, <1>2, <2>2, <3>1
  <2>4. endpoint[p].last_acked.frame = IF gone = 0 THEN NullFrame ELSE d + gone - 1
    BY <1>1 DEF At
  <2> QED BY <1>2, <2>3, <2>4
<1> QED BY <1>3 DEF SendPendingOutputAsserts

(* SendInput finds room in its ring (ring_buffer.h:39) and SendPendingOutput *)
(* its frames in order (udp_proto.cpp:139), also after a late packet of the   *)
(* handshake, as long as twice the prediction frames and both frame delays   *)
(* do not exceed the ring of 64: only the barrier limits what is pending.    *)
THEOREM SendingNeverAsserts == Room => (Spec \/ RunningSpec => []SendsSafely)
<1>1. Room /\ IInv /\ Numbered!IInv => SendsSafely
  BY RoomToSend, PendingFollows DEF SendsSafely, SendInputAsserts, Saves
<1>2. Spec \/ RunningSpec => [](IInv /\ Numbered!IInv)
  BY EndpointsInvariant, FlowInvariant, PTL
<1>3. SUFFICES ASSUME Room PROVE Spec \/ RunningSpec => []SendsSafely
  OBVIOUS
<1>4. IInv /\ Numbered!IInv => SendsSafely
  BY <1>1, <1>3
<1> QED BY <1>2, <1>4, PTL
-----------------------------------------------------------------------------
(* Sequence numbers and ages.                                                 *)

(* How many packets u has sent after that with the sequence number seq.       *)
AgeOf(u, seq) == (u.next_send_seq - seq - 1) % SEQUENCE_NUMBERS

(* A difference of sequence numbers wraps at most once.                       *)
LEMMA WrapsOnce ==
  ASSUME NEW x \in -SEQUENCE_NUMBERS .. SEQUENCE_NUMBERS - 1
  PROVE  x % SEQUENCE_NUMBERS = IF x >= 0 THEN x ELSE x + SEQUENCE_NUMBERS
<1>1. ASSUME NEW L \in Nat \ {0}, NEW a \in -L .. L - 1
      PROVE  a % L = IF a >= 0 THEN a ELSE a + L
  <2>1. ASSUME NEW k \in Int, NEW r \in 0 .. L - 1, a = L * k + r
        PROVE  a % L = r
    BY <2>1
  <2>2. CASE a >= 0
    <3>1. a \in 0 .. L - 1 /\ a = L * 0 + a
      BY <2>2
    <3> QED BY <2>1, <2>2, <3>1
  <2>3. CASE a < 0
    <3>1. a + L \in 0 .. L - 1 /\ a = L * (-1) + (a + L)
      BY <2>3
    <3> QED BY <2>1, <2>3, <3>1
  <2> QED BY <2>2, <2>3
<1> QED BY <1>1, UdpProtocolAssumption

(* An age is a number of packets.                                             *)
LEMMA AgeIs ==
  ASSUME NEW n \in SequenceNumbers, NEW seq \in SequenceNumbers
  PROVE  /\ (n - seq - 1) % SEQUENCE_NUMBERS
               = IF n > seq THEN n - seq - 1 ELSE n - seq - 1 + SEQUENCE_NUMBERS
         /\ (n - seq - 1) % SEQUENCE_NUMBERS \in SequenceNumbers
<1>1. /\ n - seq - 1 \in -SEQUENCE_NUMBERS .. SEQUENCE_NUMBERS - 1
      /\ SEQUENCE_NUMBERS \in Nat \ {0, 1}
  BY UdpProtocolAssumption DEF SequenceNumbers
<1>2. (n - seq - 1) % SEQUENCE_NUMBERS
        = IF n - seq - 1 >= 0 THEN n - seq - 1 ELSE n - seq - 1 + SEQUENCE_NUMBERS
  BY <1>1, WrapsOnce
<1> QED BY <1>1, <1>2 DEF SequenceNumbers

(* Sending a packet makes those sent before older by one; the new one is the  *)
(* youngest.                                                                  *)
LEMMA AgeGrows ==
  ASSUME NEW n \in SequenceNumbers, NEW seq \in SequenceNumbers
  PROVE  LET age == (n - seq - 1) % SEQUENCE_NUMBERS
             next == (n + 1) % SEQUENCE_NUMBERS
         IN  /\ age + 1 < SEQUENCE_NUMBERS
                  => (next - seq - 1) % SEQUENCE_NUMBERS = age + 1
             /\ (next - n - 1) % SEQUENCE_NUMBERS = 0
<1> DEFINE next == (n + 1) % SEQUENCE_NUMBERS
<1>1. /\ n \in Int /\ seq \in Int /\ SEQUENCE_NUMBERS \in Nat \ {0, 1}
      /\ 0 <= n /\ n < SEQUENCE_NUMBERS /\ 0 <= seq /\ seq < SEQUENCE_NUMBERS
  BY UdpProtocolAssumption DEF SequenceNumbers
<1>2. next \in SequenceNumbers
  BY NextSequenceNumber
<1>3. next = IF n + 1 < SEQUENCE_NUMBERS THEN n + 1 ELSE 0
  <2>1. CASE n + 1 < SEQUENCE_NUMBERS
    <3>1. n + 1 \in -SEQUENCE_NUMBERS .. SEQUENCE_NUMBERS - 1 /\ n + 1 >= 0
      BY <1>1, <2>1
    <3> QED BY <2>1, <3>1, WrapsOnce
  <2>2. CASE n + 1 = SEQUENCE_NUMBERS
    <3>1. SEQUENCE_NUMBERS % SEQUENCE_NUMBERS = 0
      BY <1>1
    <3> QED BY <1>1, <2>2, <3>1
  <2> QED BY <1>1, <2>1, <2>2
<1> HIDE DEF next
<1>4. /\ (n - seq - 1) % SEQUENCE_NUMBERS
            = IF n > seq THEN n - seq - 1 ELSE n - seq - 1 + SEQUENCE_NUMBERS
      /\ (next - seq - 1) % SEQUENCE_NUMBERS
            = IF next > seq THEN next - seq - 1 ELSE next - seq - 1 + SEQUENCE_NUMBERS
      /\ (next - n - 1) % SEQUENCE_NUMBERS
            = IF next > n THEN next - n - 1 ELSE next - n - 1 + SEQUENCE_NUMBERS
  BY <1>2, AgeIs
<1>5. ((n - seq - 1) % SEQUENCE_NUMBERS) + 1 < SEQUENCE_NUMBERS
        => (next - seq - 1) % SEQUENCE_NUMBERS = ((n - seq - 1) % SEQUENCE_NUMBERS) + 1
  BY <1>1, <1>3, <1>4
<1>6. (next - n - 1) % SEQUENCE_NUMBERS = 0
  BY <1>1, <1>3, <1>4
<1> QED BY <1>5, <1>6 DEF next

(* A packet of limited age that passes the order filter is no older than the  *)
(* last one taken.                                                            *)
LEMMA InOrderIs ==
  ASSUME NEW n \in SequenceNumbers, NEW seq \in SequenceNumbers, NEW last \in SequenceNumbers,
         (n - seq - 1) % SEQUENCE_NUMBERS < MAX_SEQ_DISTANCE,
         (seq - last) % SEQUENCE_NUMBERS <= MAX_SEQ_DISTANCE
  PROVE  (n - seq - 1) % SEQUENCE_NUMBERS <= (n - last - 1) % SEQUENCE_NUMBERS
<1> DEFINE a == (n - seq - 1) % SEQUENCE_NUMBERS
           b == (n - last - 1) % SEQUENCE_NUMBERS
<1>1. /\ n \in Int /\ seq \in Int /\ last \in Int /\ SEQUENCE_NUMBERS \in Nat \ {0, 1}
      /\ 0 <= n /\ n < SEQUENCE_NUMBERS /\ 0 <= seq /\ seq < SEQUENCE_NUMBERS
      /\ 0 <= last /\ last < SEQUENCE_NUMBERS
  BY UdpProtocolAssumption DEF SequenceNumbers
<1>2. MAX_SEQ_DISTANCE \in Int /\ 2 * MAX_SEQ_DISTANCE <= SEQUENCE_NUMBERS
  BY <1>1 DEF MAX_SEQ_DISTANCE
<1>3. /\ a = IF n > seq THEN n - seq - 1 ELSE n - seq - 1 + SEQUENCE_NUMBERS
      /\ b = IF n > last THEN n - last - 1 ELSE n - last - 1 + SEQUENCE_NUMBERS
  BY AgeIs
<1>4. (seq - last) % SEQUENCE_NUMBERS
        = IF seq >= last THEN seq - last ELSE seq - last + SEQUENCE_NUMBERS
  <2>1. seq - last \in -SEQUENCE_NUMBERS .. SEQUENCE_NUMBERS - 1
    BY <1>1
  <2>2. seq - last >= 0 <=> seq >= last
    BY <1>1
  <2> QED BY <2>1, <2>2, WrapsOnce
<1>5. a < MAX_SEQ_DISTANCE /\ (seq - last) % SEQUENCE_NUMBERS <= MAX_SEQ_DISTANCE
  OBVIOUS
<1> HIDE DEF a, b
<1>6. a <= b
  BY SMTT(60), <1>1, <1>2, <1>3, <1>4, <1>5
<1> QED BY <1>6 DEF a, b
-----------------------------------------------------------------------------
(* What the calls send, queue and hear.                                       *)

(* An Input packet whose status the other endpoint takes over.                *)
IsReport(m) == m.body.type = "Input" /\ ~m.body.disconnect_requested

(* The sequence number and the status that were heard last.                   *)
Heard(u) == <<u.next_recv_seq, u.peer_status>>

(* Of u has become w, which has sent k packets more; the reports among them   *)
(* have the given status.                                                     *)
Emits(u, w, k, status) ==
    /\ w.next_send_seq \in SequenceNumbers
    /\ \A seq \in SequenceNumbers :
          AgeOf(u, seq) + k < SEQUENCE_NUMBERS => AgeOf(w, seq) = AgeOf(u, seq) + k
    /\ \A x \in ToSet(w.out) :
          /\ x.seq \in SequenceNumbers /\ AgeOf(w, x.seq) < k
          /\ IsReport(x) => x.body.status = status

(* A call has done so, there are at most n events now, and what was heard is  *)
(* as given.                                                                  *)
Does(u, w, k, n, status, heard) ==
    /\ IsEndpoint(w) /\ Heard(w) = heard /\ Len(w.events) <= n
    /\ Emits(u, w, k, status)

(* Nothing.                                                                   *)
LEMMA DoesNothing ==
  ASSUME NEW u, IsEndpoint(u), u.next_send_seq \in SequenceNumbers, u.events = <<>>,
         u.out = <<>>, NEW status, NEW heard, Heard(u) = heard
  PROVE  Does(u, u, 0, 0, status, heard)
<1>1. ToSet(u.out) = {} /\ Len(u.events) = 0
  BY NoList
<1>2. ASSUME NEW seq \in SequenceNumbers PROVE AgeOf(u, seq) + 0 = AgeOf(u, seq)
  <2>1. AgeOf(u, seq) \in SequenceNumbers
    BY AgeIs DEF AgeOf
  <2> QED BY <2>1, UdpProtocolAssumption DEF SequenceNumbers
<1> QED BY <1>1, <1>2 DEF Does, Emits

(* At most n events are at most one more.                                     *)
LEMMA DoesLess ==
  ASSUME NEW u, NEW w, NEW k, NEW n \in Int, NEW n2 \in Int, n <= n2, NEW status, NEW heard,
         Does(u, w, k, n, status, heard)
  PROVE  Does(u, w, k, n2, status, heard)
<1>1. Len(w.events) \in Nat
  BY ListFacts DEF Does, Emits, IsEndpoint
<1> QED BY <1>1 DEF Does, Emits

(* One packet more.                                                           *)
LEMMA DoesSend ==
  ASSUME NEW u, u.next_send_seq \in SequenceNumbers, NEW v, NEW k \in {0, 1}, NEW n,
         NEW status, NEW heard, Does(u, v, k, n, status, heard), NEW body,
         body.type = "Input" /\ ~body.disconnect_requested => body.status = status
  PROVE  Does(u, SendMsg(v, body), k + 1, n, status, heard)
<1> DEFINE w == SendMsg(v, body)
           m == [magic |-> v.magic, seq |-> v.next_send_seq, body |-> body]
<1>1. /\ IsEndpoint(w) /\ Changes(v, w, {"out", "next_send_seq"})
      /\ w.next_send_seq = (v.next_send_seq + 1) % SEQUENCE_NUMBERS
      /\ ToSet(w.out) = ToSet(v.out) \cup {m}
  BY SendMsgDoes DEF Does, Emits
<1>2. m.seq = v.next_send_seq /\ (IsReport(m) => m.body.status = status)
  BY DEF IsReport
<1>3. v.next_send_seq \in SequenceNumbers /\ w.next_send_seq \in SequenceNumbers
  BY <1>1, NextSequenceNumber DEF Does, Emits
<1> HIDE DEF w, m
<1>4. /\ w.events = v.events /\ Heard(w) = heard
  BY <1>1 DEF Changes, Fields, Does, Emits, Heard
<1>5. ASSUME NEW seq \in SequenceNumbers
      PROVE  /\ AgeOf(v, seq) + 1 < SEQUENCE_NUMBERS => AgeOf(w, seq) = AgeOf(v, seq) + 1
             /\ AgeOf(v, seq) \in SequenceNumbers /\ AgeOf(u, seq) \in SequenceNumbers
  <2>1. AgeOf(v, seq) + 1 < SEQUENCE_NUMBERS => AgeOf(w, seq) = AgeOf(v, seq) + 1
    BY <1>1, <1>3, AgeGrows DEF AgeOf
  <2>2. AgeOf(v, seq) \in SequenceNumbers /\ AgeOf(u, seq) \in SequenceNumbers
    BY <1>3, AgeIs DEF AgeOf
  <2> QED BY <2>1, <2>2
<1>6. AgeOf(w, m.seq) = 0
  BY <1>1, <1>2, <1>3, AgeGrows DEF AgeOf
<1>7. ASSUME NEW seq \in SequenceNumbers, AgeOf(u, seq) + (k + 1) < SEQUENCE_NUMBERS
      PROVE  AgeOf(w, seq) = AgeOf(u, seq) + (k + 1)
  <2>1. AgeOf(u, seq) + k < SEQUENCE_NUMBERS /\ AgeOf(u, seq) \in Int
    BY <1>5, <1>7, UdpProtocolAssumption DEF SequenceNumbers
  <2>2. AgeOf(v, seq) = AgeOf(u, seq) + k
    BY <2>1 DEF Does, Emits
  <2> QED BY <1>5, <1>7, <2>1, <2>2, UdpProtocolAssumption
<1>8. ASSUME NEW x \in ToSet(w.out)
      PROVE  /\ x.seq \in SequenceNumbers /\ AgeOf(w, x.seq) < k + 1
             /\ IsReport(x) => x.body.status = status
  <2>1. CASE x = m
    BY <1>2, <1>3, <1>6, <2>1
  <2>2. CASE x \in ToSet(v.out)
    <3>1. /\ x.seq \in SequenceNumbers /\ AgeOf(v, x.seq) < k
          /\ IsReport(x) => x.body.status = status
      BY <2>2 DEF Does, Emits
    <3>2. AgeOf(v, x.seq) \in Nat
      BY <1>5, <3>1 DEF SequenceNumbers
    <3>3. AgeOf(v, x.seq) + 1 < SEQUENCE_NUMBERS
      BY <3>1, <3>2, UdpProtocolAssumption
    <3>4. AgeOf(w, x.seq) = AgeOf(v, x.seq) + 1
      BY <1>5, <3>1, <3>3
    <3> QED BY <3>1, <3>2, <3>4
  <2> QED BY <1>1, <2>1, <2>2
<1>9. Len(w.events) <= n
  BY <1>4 DEF Does, Emits
<1> QED BY <1>1, <1>3, <1>4, <1>7, <1>8, <1>9 DEF Does, Emits, w

(* One event more.                                                            *)
LEMMA DoesQueue ==
  ASSUME NEW u, NEW v, NEW k, NEW n \in Int, NEW status, NEW heard,
         Does(u, v, k, n, status, heard), NEW event
  PROVE  Does(u, QueueEvent(v, event), k, n + 1, status, heard)
<1> DEFINE w == QueueEvent(v, event)
<1>1. IsEndpoint(w) /\ Changes(v, w, {"events"}) /\ w.events = Append(v.events, event)
  BY QueueEventDoes DEF Does, Emits
<1>2. IsList(v.events) /\ Len(v.events) \in Nat
  BY ListFacts DEF Does, Emits, IsEndpoint
<1>3. Len(Append(v.events, event)) = Len(v.events) + 1
  BY <1>2, AppendList
<1> HIDE DEF w
<1>4. w.out = v.out /\ w.next_send_seq = v.next_send_seq /\ Heard(w) = Heard(v)
  BY <1>1 DEF Changes, Fields, Heard
<1>5. Len(w.events) <= n + 1
  BY <1>1, <1>2, <1>3 DEF Does, Emits
<1> QED BY <1>1, <1>4, <1>5 DEF Does, Emits, AgeOf, w

(* Fields that neither the network nor the backend sees.                      *)
Inner == {"state", "open", "magic", "remote_magic", "roundtrips", "random", "connected",
          "pending", "last_acked", "last_received", "notify_sent", "disconnect_event_sent"}

(* A change of other fields than those of sending and hearing does no more.   *)
LEMMA DoesInside ==
  ASSUME NEW u, NEW v, NEW k, NEW n, NEW status, NEW heard,
         Does(u, v, k, n, status, heard), NEW w, Changes(v, w, Inner)
  PROVE  Does(u, w, k, n, status, heard)
<1>1. /\ w.out = v.out /\ w.next_send_seq = v.next_send_seq /\ w.events = v.events
      /\ w.next_recv_seq = v.next_recv_seq /\ w.peer_status = v.peer_status
  BY DEF Changes, Fields, Inner
<1>2. IsEndpoint(w)
  BY <1>1 DEF Changes, IsEndpoint, Does, Emits
<1> QED BY <1>1, <1>2 DEF Does, Emits, AgeOf, Heard
-----------------------------------------------------------------------------
(* The handlers.                                                              *)

(* What has been heard after the packet m.                                    *)
HeardAfter(u, m) ==
    <<m.seq, IF IsReport(m) THEN MergeStatus(u.peer_status, m.body.status) ELSE u.peer_status>>

(* A packet of the handshake is answered once and queues two events.          *)
LEMMA SyncRequestCounts ==
  ASSUME NEW u, u.next_send_seq \in SequenceNumbers, NEW v, NEW n, NEW status, NEW heard,
         Does(u, v, 0, n, status, heard), NEW m
  PROVE  \E k \in {0, 1} : Does(u, OnSyncRequest(v, m), k, n, status, heard)
<1> DEFINE body == [type |-> "SyncReply", random |-> m.body.random]
<1>1. body.type = "SyncReply"
  OBVIOUS
<1>2. OnSyncRequest(v, m) = v \/ OnSyncRequest(v, m) = SendMsg(v, body)
  BY DEF OnSyncRequest
<1> HIDE DEF body
<1>3. Does(u, SendMsg(v, body), 0 + 1, n, status, heard)
  BY <1>1, DoesSend
<1> QED BY <1>2, <1>3

(* A SyncReply sends at most one packet and makes at most two events.         *)
LEMMA SyncReplyCounts ==
  ASSUME NEW u, u.next_send_seq \in SequenceNumbers, NEW v, NEW status, NEW heard,
         Does(u, v, 0, 0, status, heard), NEW m, NEW random
  PROVE  \E k \in {0, 1} : Does(u, OnSyncReply(v, m, random), k, 2, status, heard)
<1> DEFINE w == OnSyncReply(v, m, random)
           c == [v EXCEPT !.connected = TRUE]
           a == QueueEvent(c, [type |-> "connected"])
           met == IF v.connected THEN v ELSE a
           one == [met EXCEPT !.roundtrips = @ - 1]
           r == [one EXCEPT !.state = "running", !.last_received.frame = NullFrame,
                            !.remote_magic = m.magic]
           e == QueueEvent(one, [type |-> "synchronizing"])
           x == [e EXCEPT !.random = random]
           body == [type |-> "SyncRequest", random |-> random]
<1>1. \/ w = v
      \/ w = QueueEvent(r, [type |-> "synchronized"])
      \/ w = SendMsg(x, body)
  BY DEF OnSyncReply, SendSyncRequest
<1>2. Does(u, v, 0, 1, status, heard) /\ Does(u, v, 0, 2, status, heard)
  BY DoesLess
<1>3. Does(u, met, 0, 1, status, heard)
  <2>1. Changes(v, c, Inner)
    BY DEF Changes, Inner, Fields, Does, Emits, IsEndpoint
  <2> HIDE DEF c
  <2>2. Does(u, c, 0, 0, status, heard)
    BY <2>1, DoesInside
  <2>3. Does(u, a, 0, 0 + 1, status, heard)
    BY <2>2, DoesQueue
  <2> HIDE DEF a
  <2> QED BY <1>2, <2>3
<1> HIDE DEF met
<1>4. Does(u, one, 0, 1, status, heard)
  <2>1. Changes(met, one, Inner)
    BY <1>3 DEF Changes, Inner, Fields, Does, Emits, IsEndpoint
  <2> HIDE DEF one
  <2> QED BY <1>3, <2>1, DoesInside
<1> HIDE DEF one
<1>5. Does(u, QueueEvent(r, [type |-> "synchronized"]), 0, 1 + 1, status, heard)
  <2>1. Changes(one, r, Inner)
    BY <1>4 DEF Changes, Inner, Fields, Does, Emits, IsEndpoint
  <2> HIDE DEF r
  <2>2. Does(u, r, 0, 1, status, heard)
    BY <1>4, <2>1, DoesInside
  <2> QED BY <2>2, DoesQueue
<1>6. Does(u, SendMsg(x, body), 0 + 1, 2, status, heard)
  <2>1. Does(u, e, 0, 1 + 1, status, heard)
    BY <1>4, DoesQueue
  <2> HIDE DEF e
  <2>2. Changes(e, x, Inner)
    BY <2>1 DEF Changes, Inner, Fields, Does, Emits, IsEndpoint
  <2> HIDE DEF x
  <2>3. Does(u, x, 0, 2, status, heard)
    BY <2>1, <2>2, DoesInside
  <2>4. body.type # "Input"
    OBVIOUS
  <2> HIDE DEF body
  <2> QED BY <2>3, <2>4, DoesSend
<1> HIDE DEF w, r, x
<1>7. \E k \in {0, 1} : Does(u, w, k, 2, status, heard)
  BY <1>1, <1>2, <1>5, <1>6
<1> QED BY <1>7 DEF w

(* An Input packet queues at most one event and the inputs that are new.      *)
LEMMA InputCounts ==
  ASSUME NEW p, NEW S, NEW g, NEW T, NEW h, Known(p, S, g, T, h),
         NEW u, u.next_send_seq \in SequenceNumbers,
         NEW v, EndpointOK(p, S, g, T, h, v),
         NEW status, NEW recv, Does(u, v, 0, 0, status, <<recv, v.peer_status>>),
         NEW m, m.body.type = "Input", FramesOK(FrameDelay[PeerOf(p)], T, h, m.body)
  PROVE  /\ Does(u, OnInput(v, m.body), 0, Len(T) - h + 1, status,
                 <<recv, IF IsReport(m) THEN MergeStatus(v.peer_status, m.body.status)
                         ELSE v.peer_status>>)
         /\ HearInputsAsserts(v, m.body)
<1> DEFINE d == FrameDelay[PeerOf(p)]
           body == m.body
           heard == <<recv, IF IsReport(m) THEN MergeStatus(v.peer_status, m.body.status)
                            ELSE v.peer_status>>
           c == [v EXCEPT !.disconnect_event_sent = TRUE]
           q == QueueEvent(c, [type |-> "disconnected"])
           e == [v EXCEPT !.peer_status = MergeStatus(@, body.status)]
           a == HearStatus(v, body)
           b == HearInputs(a, body)
           w == OnInput(v, body)
<1>1. Does(u, a, 0, 1, status, heard) /\ EndpointOK(p, S, g, T, h, a)
  <2>1. Does(u, v, 0, 0, status, heard) => Does(u, q, 0, 1, status, heard)
    <3>1. Changes(v, c, Inner)
      BY DEF Changes, Inner, Fields, EndpointOK, ControlOK, IsEndpoint
    <3> HIDE DEF c, heard
    <3> SUFFICES ASSUME Does(u, v, 0, 0, status, heard) PROVE Does(u, q, 0, 1, status, heard)
      OBVIOUS
    <3>2. Does(u, c, 0, 0, status, heard)
      BY <3>1, DoesInside
    <3>3. Does(u, q, 0, 0 + 1, status, heard)
      BY <3>2, DoesQueue
    <3> QED BY <3>3
  <2>2. CASE IsReport(m)
    <3>1. a = e
      BY <2>2 DEF IsReport, HearStatus
    <3>2. /\ DOMAIN e = Fields /\ e.peer_status = MergeStatus(v.peer_status, body.status)
          /\ \A f \in Fields \ {"peer_status"} : e[f] = v[f]
      BY DEF EndpointOK, ControlOK, IsEndpoint, Fields
    <3> HIDE DEF e
    <3>3. /\ e.out = v.out /\ e.next_send_seq = v.next_send_seq /\ e.events = v.events
          /\ e.next_recv_seq = v.next_recv_seq
      BY <3>2 DEF Fields
    <3>4. v.next_recv_seq = recv
      BY DEF Does, Emits, Heard
    <3>5. Heard(e) = heard
      BY <2>2, <3>2, <3>3, <3>4 DEF Heard
    <3>6. IsEndpoint(e) /\ Len(v.events) <= 0 /\ Len(v.events) \in Nat
      BY <3>2, <3>3, ListFacts DEF Does, Emits, IsEndpoint
    <3> HIDE DEF heard, a
    <3>7. Does(u, e, 0, 1, status, heard)
      BY <3>3, <3>5, <3>6 DEF Does, Emits, AgeOf
    <3> QED BY <3>1, <3>7, HearStatusDoes DEF a
  <2>3. CASE ~IsReport(m)
    <3>1. Does(u, v, 0, 0, status, heard)
      BY <2>3
    <3>2. a = q \/ a = v
      BY <2>3 DEF IsReport, HearStatus, HearDisconnect
    <3> HIDE DEF heard, a, q
    <3>3. Does(u, v, 0, 1, status, heard)
      BY <3>1, DoesLess
    <3> QED BY <2>1, <3>1, <3>2, <3>3, HearStatusDoes DEF a
  <2> QED BY <2>2, <2>3
<1>2. /\ SentOK(d, T) /\ h \in 0 .. Len(T) /\ Len(T) \in Nat
  BY DEF Known, SentOK
<1>3. PICK i \in 0 .. Len(T) : Carries(d, T, h, body, i)
  BY DEF FramesOK
<1>4. Len(body.frames) \in Nat /\ i + Len(body.frames) <= Len(T)
  BY <1>3, ListFacts DEF Carries
<1> DEFINE k == Max2(0, i + Len(body.frames) - h)
<1>5. k \in Nat /\ k <= Len(T) - h
  BY <1>2, <1>4 DEF Max2
<1>6. /\ IsEndpoint(b) /\ Changes(a, b, {"last_received", "events"})
      /\ Len(b.events) = Len(a.events) + k
  <2> HIDE DEF a
  <2>1. IsEndpoint(a) /\ a.last_received = At(d, T, h)
    BY <1>1 DEF EndpointOK, ControlOK
  <2> HIDE DEF d, body
  <2> QED BY SMTT(60), <1>2, <1>3, <2>1, HearInputsDoes
<1>7. HearInputsAsserts(v, body)
  <2>1. IsEndpoint(v) /\ v.last_received = At(d, T, h)
    BY DEF EndpointOK, ControlOK
  <2> HIDE DEF d, body
  <2> QED BY SMTT(60), <1>2, <1>3, <2>1, HearInputsDoes
<1>8. Does(u, b, 0, Len(T) - h + 1, status, heard)
  <2> HIDE DEF a, b, k, heard
  <2>1. /\ b.out = a.out /\ b.next_send_seq = a.next_send_seq /\ Heard(b) = Heard(a)
    BY <1>6 DEF Changes, Fields, Heard
  <2>2. Len(a.events) \in Nat /\ Len(a.events) <= 1
    BY <1>1, ListFacts DEF Does, Emits, IsEndpoint
  <2>3. Len(b.events) <= Len(T) - h + 1
    BY <1>2, <1>5, <1>6, <2>2
  <2> QED BY <1>1, <1>6, <2>1, <2>3 DEF Does, Emits, AgeOf
<1>9. Changes(b, w, Inner)
  <2>1. w = DropAcknowledged(b, body.ack)
    BY DEF OnInput
  <2> HIDE DEF b, w
  <2> QED BY <1>6, <2>1 DEF DropAcknowledged, Changes, Inner, Fields, IsEndpoint
<1>10. Does(u, w, 0, Len(T) - h + 1, status, heard)
  <2> HIDE DEF b, w, heard
  <2> QED BY <1>8, <1>9, DoesInside
<1> QED BY <1>7, <1>10

(* OnMsg: a packet that is accepted is heard; it is answered at most once,    *)
(* and queues at most the new inputs, a disconnect and the end of an          *)
(* interruption, or two events of the handshake.                              *)
LEMMA OnMsgCounts ==
  ASSUME NEW p, NEW S, NEW g, NEW T, NEW h, Known(p, S, g, T, h),
         NEW u, EndpointOK(p, S, g, T, h, u), u.events = <<>>, u.out = <<>>,
         NEW m, PacketOK(PeerOf(p), T, h, At(FrameDelay[p], S, g), m), NEW random, NEW status
  PROVE  /\ \E k \in {0, 1} :
               Does(u, OnMsg(u, m, random), k, Len(T) - h + 2, status,
                    IF Accepts(u, m) THEN HeardAfter(u, m) ELSE Heard(u))
         /\ m.body.type = "Input" /\ Accepts(u, m) => HearInputsAsserts(u, m.body)
<1> DEFINE n == Len(T) - h
           a == [u EXCEPT !.next_recv_seq = m.seq]
           v == Handle(a, m, random)
           heard == HeardAfter(u, m)
<1>1. n \in Nat /\ h \in Nat
  BY DEF Known, SentOK
<1>2. u.next_send_seq \in SequenceNumbers /\ IsEndpoint(u) /\ u.notify_sent \in BOOLEAN
  BY DEF EndpointOK, ControlOK
<1>3. CASE ~Accepts(u, m)
  <2>1. OnMsg(u, m, random) = u
    BY <1>3 DEF OnMsg
  <2>2. Does(u, u, 0, 0, status, Heard(u))
    BY <1>2, DoesNothing
  <2> HIDE DEF n
  <2>3. Does(u, u, 0, n + 2, status, Heard(u))
    BY <1>1, <2>2, DoesLess
  <2> QED BY <1>3, <2>1, <2>3 DEF n
<1>4. CASE Accepts(u, m)
  <2>1. /\ DOMAIN a = Fields /\ a.next_recv_seq = m.seq
        /\ \A f \in Fields \ {"next_recv_seq"} : a[f] = u[f]
    BY <1>2 DEF IsEndpoint, Fields
  <2>2. OnMsg(u, m, random) = Resume(v, Handled(u, m))
    BY <1>4 DEF OnMsg
  <2> HIDE DEF a
  <2>3. /\ a.events = u.events /\ a.out = u.out /\ a.peer_status = u.peer_status
        /\ a.next_send_seq = u.next_send_seq /\ a.state = u.state
        /\ a.notify_sent = u.notify_sent
    BY <2>1 DEF Fields
  <2>4. EndpointOK(p, S, g, T, h, a)
    <3>1. Changes(u, a, {"random", "connected", "next_recv_seq", "peer_status",
                         "disconnect_event_sent"})
          /\ a.next_recv_seq \in SequenceNumbers
      BY <2>1 DEF Changes, PacketOK
    <3> QED BY <3>1, OtherFieldsKeep
  <2>5. Does(u, a, 0, 0, status, <<m.seq, u.peer_status>>)
    <3>1. IsEndpoint(a)
      BY <1>2, <2>1, <2>3 DEF IsEndpoint
    <3>2. Does(a, a, 0, 0, status, <<m.seq, u.peer_status>>)
      BY <1>2, <2>1, <2>3, <3>1, DoesNothing DEF Heard
    <3> QED BY <2>3, <3>2 DEF Does, Emits, AgeOf
  <2>6. ~IsReport(m) => heard = <<m.seq, u.peer_status>>
    BY DEF HeardAfter
  <2> HIDE DEF n, heard
  <2>7. /\ \E k \in {0, 1} : /\ Does(u, v, k, n + 2, status, heard)
                             /\ v.notify_sent => Does(u, v, k, n + 1, status, heard)
        /\ m.body.type = "Input" => HearInputsAsserts(a, m.body)
    <3>1. ASSUME NEW w, NEW k \in {0, 1}, Does(u, w, k, 0, status, heard)
          PROVE  Does(u, w, k, n + 2, status, heard) /\ Does(u, w, k, n + 1, status, heard)
      BY <1>1, <3>1, DoesLess
    <3>2. CASE m.body.type = "SyncRequest"
      <4>1. v = OnSyncRequest(a, m) /\ heard = <<m.seq, u.peer_status>>
        BY <2>6, <3>2 DEF Handle, IsReport
      <4> HIDE DEF v
      <4>2. \E k \in {0, 1} : Does(u, v, k, 0, status, heard)
        BY <1>2, <2>5, <4>1, SyncRequestCounts
      <4> QED BY <3>1, <3>2, <4>2
    <3>3. CASE m.body.type = "SyncReply"
      <4>1. v = OnSyncReply(a, m, random) /\ heard = <<m.seq, u.peer_status>>
        BY <2>6, <3>3 DEF Handle, IsReport
      <4>2. v.notify_sent = a.notify_sent /\ (a.state # "syncing" => v = a)
        <5> HIDE DEF v
        <5>1. m.magic = Magic[PeerOf(p)]
          BY DEF PacketOK
        <5> QED BY <2>4, <4>1, <5>1, OnSyncReplyDoes
      <4> HIDE DEF v
      <4>3. CASE a.state # "syncing"
        BY <2>5, <3>1, <3>3, <4>1, <4>2, <4>3
      <4>4. CASE a.state = "syncing"
        <5>1. PICK k \in {0, 1} : Does(u, v, k, 2, status, heard)
          BY <1>2, <2>5, <4>1, SyncReplyCounts
        <5>2. Does(u, v, k, n + 2, status, heard)
          BY <1>1, <5>1, DoesLess
        <5>3. v.notify_sent = FALSE
          BY <2>4, <4>2, <4>4 DEF EndpointOK, ControlOK
        <5> QED BY <3>3, <5>2, <5>3
      <4> QED BY <4>3, <4>4
    <3>4. CASE m.body.type = "Input"
      <4>1. v = OnInput(a, m.body) /\ FramesOK(FrameDelay[PeerOf(p)], T, h, m.body)
        BY <3>4 DEF Handle, PacketOK
      <4> DEFINE after == <<m.seq, IF IsReport(m) THEN MergeStatus(a.peer_status, m.body.status)
                                   ELSE a.peer_status>>
      <4>2. heard = after
        BY <2>3 DEF heard, HeardAfter
      <4> HIDE DEF v, after
      <4>3. Does(u, a, 0, 0, status, <<m.seq, a.peer_status>>)
        BY <2>3, <2>5
      <4>4. Does(u, v, 0, n + 1, status, heard) /\ HearInputsAsserts(a, m.body)
        BY <1>2, <2>4, <3>4, <4>1, <4>2, <4>3, InputCounts DEF n, after
      <4>5. Does(u, v, 0, n + 2, status, heard)
        BY <1>1, <4>4, DoesLess
      <4> QED BY <4>4, <4>5
    <3>5. CASE m.body.type = "QualityReport"
      <4> DEFINE body == [type |-> "QualityReply"]
      <4>1. v = SendMsg(a, body) /\ heard = <<m.seq, u.peer_status>> /\ body.type # "Input"
        BY <2>6, <3>5 DEF Handle, IsReport
      <4> HIDE DEF v, body
      <4>2. Does(u, v, 0 + 1, 0, status, heard)
        BY <1>2, <2>5, <4>1, DoesSend
      <4> QED BY <3>1, <3>5, <4>2
    <3>6. CASE m.body.type \in {"QualityReply", "KeepAlive"}
      <4>1. v = a /\ heard = <<m.seq, u.peer_status>>
        BY <2>6, <3>6 DEF Handle, IsReport
      <4> HIDE DEF v
      <4> QED BY <2>5, <3>1, <3>6, <4>1
    <3> QED BY <3>2, <3>3, <3>4, <3>5, <3>6 DEF PacketOK, BodyTypes
  <2> HIDE DEF v
  <2>8. PICK k \in {0, 1} : /\ Does(u, v, k, n + 2, status, heard)
                            /\ v.notify_sent => Does(u, v, k, n + 1, status, heard)
    BY <2>7
  <2> DEFINE w == Resume(v, Handled(u, m))
  <2>9. Does(u, w, k, n + 2, status, heard)
    <3> DEFINE c == [v EXCEPT !.notify_sent = FALSE]
               r == QueueEvent(c, [type |-> "resumed"])
    <3>1. w = v \/ (w = r /\ v.notify_sent)
      BY DEF Resume
    <3>2. Changes(v, c, Inner)
      BY <2>8 DEF Changes, Inner, Fields, Does, Emits, IsEndpoint
    <3> HIDE DEF c, w
    <3>3. ASSUME v.notify_sent PROVE Does(u, r, k, n + 2, status, heard)
      <4>1. Does(u, c, k, n + 1, status, heard)
        BY <2>8, <3>2, <3>3, DoesInside
      <4>2. Does(u, r, k, (n + 1) + 1, status, heard)
        BY <1>1, <4>1, DoesQueue
      <4>3. (n + 1) + 1 = n + 2
        BY <1>1
      <4> HIDE DEF r
      <4> QED BY <4>2, <4>3
    <3> QED BY <2>8, <3>1, <3>3
  <2>10. HearInputsAsserts(a, m.body) <=> HearInputsAsserts(u, m.body)
    <3>1. a.last_received = u.last_received
      BY <2>1 DEF Fields
    <3> QED BY <3>1 DEF HearInputsAsserts, Base
  <2> HIDE DEF w
  <2> QED BY <1>4, <2>2, <2>7, <2>9, <2>10 DEF w, n, heard
<1> QED BY <1>3, <1>4

(* OnLoopPoll sends at most two packets and queues at most two events.        *)
LEMMA OnLoopPollCounts ==
  ASSUME NEW u, IsEndpoint(u), u.next_send_seq \in SequenceNumbers, u.events = <<>>,
         u.out = <<>>, u.state \in {"syncing", "running"} => u.open,
         NEW due, NEW status, NEW random
  PROVE  \E k \in 0 .. 2 : Does(u, OnLoopPoll(u, due, status, random), k, 2, status, Heard(u))
<1> DEFINE heard == Heard(u)
           body == InputMsg(u, status)
           D(v, k, n) == Does(u, v, k, n, status, heard)
<1>1. D(u, 0, 0)
  BY DoesNothing
<1>2. body.status = status
  BY DEF InputMsg
<1> HIDE DEF heard, body
<1>3. CASE u.state # "syncing" /\ u.state # "running"
  <2> DEFINE c == [u EXCEPT !.open = FALSE]
  <2>1. OnLoopPoll(u, due, status, random) = u \/ OnLoopPoll(u, due, status, random) = c
    BY <1>3 DEF OnLoopPoll
  <2>2. Changes(u, c, Inner)
    BY DEF Changes, Inner, Fields, IsEndpoint
  <2> HIDE DEF c
  <2>3. D(c, 0, 0)
    BY <1>1, <2>2, DoesInside
  <2>4. D(u, 0, 2) /\ D(c, 0, 2)
    BY <1>1, <2>3, DoesLess
  <2> QED BY <2>1, <2>4 DEF heard
<1>4. CASE u.open /\ u.state = "syncing"
  <2> DEFINE c == [u EXCEPT !.random = random]
             request == [type |-> "SyncRequest", random |-> random]
  <2>1. \/ OnLoopPoll(u, due, status, random) = u
        \/ OnLoopPoll(u, due, status, random) = SendMsg(c, request)
    BY <1>4 DEF OnLoopPoll, SendSyncRequest
  <2>2. Changes(u, c, Inner)
    BY DEF Changes, Inner, Fields, IsEndpoint
  <2>3. request.type # "Input"
    OBVIOUS
  <2> HIDE DEF c, request
  <2>4. D(c, 0, 0)
    BY <1>1, <2>2, DoesInside
  <2>5. D(SendMsg(c, request), 0 + 1, 0)
    BY <2>3, <2>4, DoesSend
  <2>6. D(u, 0, 2) /\ D(SendMsg(c, request), 1, 2)
    BY <1>1, <2>5, DoesLess
  <2> QED BY <2>1, <2>6 DEF heard
<1>5. CASE u.open /\ u.state = "running"
  <2> DEFINE retried   == IF "retry" \in due THEN SendPendingOutput(u, status) ELSE u
             quality   == [type |-> "QualityReport"]
             keep      == [type |-> "KeepAlive"]
             reported  == IF "quality" \in due THEN SendMsg(retried, quality) ELSE retried
             alive     == IF "keep_alive" \in due /\ reported.out = <<>>
                          THEN SendMsg(reported, keep) ELSE reported
             announced == IF "interrupted" \in due /\ ~alive.notify_sent
                          THEN Interrupted(alive) ELSE alive
             w == IF "timeout" \in due /\ ~announced.disconnect_event_sent
                  THEN TimedOut(announced) ELSE announced
  <2>1. OnLoopPoll(u, due, status, random) = w
    BY <1>5 DEF OnLoopPoll, PollRunning
  <2>2. quality.type # "Input" /\ keep.type # "Input"
    OBVIOUS
  <2>3. D(retried, 0, 0) \/ D(retried, 1, 0)
    <3>1. SendPendingOutput(u, status) = SendMsg(u, body)
      BY DEF SendPendingOutput, body
    <3>2. D(SendMsg(u, body), 0 + 1, 0)
      BY <1>1, <1>2, DoesSend
    <3> QED BY <1>1, <3>1, <3>2
  <2> HIDE DEF retried, quality, keep
  <2>4. D(reported, 0, 0) \/ D(reported, 1, 0) \/ D(reported, 2, 0)
    <3>1. CASE D(retried, 0, 0)
      <4>1. D(SendMsg(retried, quality), 0 + 1, 0)
        BY <2>2, <3>1, DoesSend
      <4> QED BY <3>1, <4>1
    <3>2. CASE D(retried, 1, 0)
      <4>1. D(SendMsg(retried, quality), 1 + 1, 0)
        BY <2>2, <3>2, DoesSend
      <4> QED BY <3>2, <4>1
    <3> QED BY <2>3, <3>1, <3>2
  <2>5. (D(reported, 0, 0) \/ reported.out # <<>>) \/ D(reported, 1, 0)
    <3>1. retried = u => D(retried, 0, 0)
      BY <1>1
    <3>2. ASSUME NEW v, NEW x PROVE SendMsg(v, x).out # <<>> \/ ~IsEndpoint(v)
      <4>1. CASE IsEndpoint(v)
        <5> DEFINE y == [magic |-> v.magic, seq |-> v.next_send_seq, body |-> x]
        <5>1. y \in ToSet(SendMsg(v, x).out)
          BY <4>1, SendMsgDoes
        <5> HIDE DEF y
        <5> QED BY <5>1, NoList
      <4> QED BY <4>1
    <3>3. CASE reported = retried
      <4>1. CASE "retry" \in due
        <5>1. retried = SendMsg(u, body)
          BY <4>1 DEF retried, SendPendingOutput, body
        <5> QED BY <3>2, <3>3, <5>1
      <4>2. CASE "retry" \notin due
        <5>1. retried = u
          BY <4>2 DEF retried
        <5> QED BY <3>1, <3>3, <5>1
      <4> QED BY <4>1, <4>2
    <3>4. CASE reported = SendMsg(retried, quality)
      <4>1. IsEndpoint(retried)
        BY <2>3 DEF Does, Emits
      <4> QED BY <3>2, <3>4, <4>1
    <3> QED BY <3>3, <3>4
  <2> HIDE DEF reported
  <2>6. \E k \in 0 .. 2 : D(alive, k, 0)
    <3>1. CASE alive = reported
      BY <2>4, <3>1
    <3>2. CASE reported.out = <<>> /\ alive = SendMsg(reported, keep)
      <4>1. D(reported, 0, 0) \/ D(reported, 1, 0)
        BY <2>5, <3>2
      <4>2. CASE D(reported, 0, 0)
        <5>1. D(SendMsg(reported, keep), 0 + 1, 0)
          BY <2>2, <4>2, DoesSend
        <5> QED BY <3>2, <5>1
      <4>3. CASE D(reported, 1, 0)
        <5>1. D(SendMsg(reported, keep), 1 + 1, 0)
          BY <2>2, <4>3, DoesSend
        <5> QED BY <3>2, <5>1
      <4> QED BY <4>1, <4>2, <4>3
    <3> QED BY <3>1, <3>2
  <2> HIDE DEF alive
  <2>7. PICK k \in 0 .. 2 : D(alive, k, 0)
    BY <2>6
  <2>8. D(announced, k, 1)
    <3> DEFINE c == [alive EXCEPT !.notify_sent = TRUE]
               event == [type |-> "interrupted"]
    <3>1. announced = alive \/ announced = QueueEvent(c, event)
      BY DEF Interrupted
    <3>2. Changes(alive, c, Inner)
      BY <2>7 DEF Changes, Inner, Fields, Does, Emits, IsEndpoint
    <3> HIDE DEF c, event
    <3>3. D(c, k, 0)
      BY <2>7, <3>2, DoesInside
    <3>4. D(QueueEvent(c, event), k, 0 + 1)
      BY <3>3, DoesQueue
    <3>5. D(alive, k, 1)
      BY <2>7, DoesLess
    <3> QED BY <3>1, <3>4, <3>5
  <2> HIDE DEF announced
  <2>9. D(w, k, 2)
    <3> DEFINE c == [announced EXCEPT !.disconnect_event_sent = TRUE]
               event == [type |-> "disconnected"]
    <3>1. w = announced \/ w = QueueEvent(c, event)
      BY DEF TimedOut
    <3>2. Changes(announced, c, Inner)
      BY <2>8 DEF Changes, Inner, Fields, Does, Emits, IsEndpoint
    <3> HIDE DEF c, event
    <3>3. D(c, k, 1)
      BY <2>8, <3>2, DoesInside
    <3>4. D(QueueEvent(c, event), k, 1 + 1)
      BY <3>3, DoesQueue
    <3>5. D(announced, k, 2)
      BY <2>8, DoesLess
    <3> QED BY <3>1, <3>4, <3>5
  <2> QED BY <2>1, <2>9 DEF heard
<1> QED BY <1>3, <1>4, <1>5
-----------------------------------------------------------------------------
(* What the reports on their way say.                                         *)

(* No last frame of s is after that of t.                                     *)
AtMost(s, t) ==
    \A i \in Players : /\ s[i].last_frame \in Int /\ t[i].last_frame \in Int
                       /\ s[i].last_frame <= t[i].last_frame

(* The endpoint u and the packets on their way to it, which v has sent whose  *)
(* own status has come to be what is given.  Younger reports say no less than *)
(* older ones, packets are not old, and a report that says less than was      *)
(* heard is older than the last packet taken, unless that is excused.         *)
ReportsOK(u, v, packets, status, excused) ==
    LET reports == {m \in packets : IsReport(m)}
    IN  /\ DOMAIN u.peer_status = Players /\ AtMost(u.peer_status, status)
        /\ \A m \in reports : AtMost(m.body.status, status)
        /\ \A m, n \in reports : AgeOf(v, m.seq) <= AgeOf(v, n.seq)
                                    => AtMost(n.body.status, m.body.status)
        /\ reports = {} \/ \A m \in packets : AgeOf(v, m.seq) <= Lifetime
        /\ excused \/ \A m \in reports :
              \/ AtMost(u.peer_status, m.body.status)
              \/ AgeOf(v, u.next_recv_seq) < AgeOf(v, m.seq)

(* Nothing is said after what was said last.                                  *)
LEMMA AtMostMore ==
  ASSUME NEW s, NEW t, NEW r, AtMost(s, t), AtMost(t, r)
  PROVE  AtMost(s, r) /\ AtMost(t, t)
  BY DEF AtMost

(* A report that passes the filter does not say less than was heard: the      *)
(* ASSERT on the merge of the status holds (udp_proto.cpp:550).               *)
LEMMA MergeHolds ==
  ASSUME NEW u, u.next_recv_seq \in SequenceNumbers,
         NEW v, v.next_send_seq \in SequenceNumbers, NEW packets, NEW status,
         ReportsOK(u, v, packets, status, FALSE),
         NEW m \in packets, m.seq \in SequenceNumbers, IsReport(m), InOrder(u, m)
  PROVE  /\ AtMost(u.peer_status, m.body.status)
         /\ MergeStatusAsserts(u.peer_status, m.body.status)
<1>1. /\ DOMAIN u.peer_status = Players
      /\ AgeOf(v, m.seq) <= Lifetime
      /\ \/ AtMost(u.peer_status, m.body.status)
         \/ AgeOf(v, u.next_recv_seq) < AgeOf(v, m.seq)
  BY DEF ReportsOK
<1>2. /\ AgeOf(v, m.seq) \in Int /\ AgeOf(v, u.next_recv_seq) \in Int
      /\ SEQUENCE_NUMBERS \in Int /\ MAX_SEQ_DISTANCE \in Int /\ Lifetime \in Int
  BY AgeIs, UdpProtocolAssumption, LinkAssumption DEF AgeOf, SequenceNumbers, MAX_SEQ_DISTANCE
<1>3. AgeOf(v, m.seq) < MAX_SEQ_DISTANCE
  BY <1>1, <1>2, LinkAssumption
<1>4. AgeOf(v, m.seq) <= AgeOf(v, u.next_recv_seq)
  BY <1>3, InOrderIs DEF AgeOf, InOrder
<1>5. AtMost(u.peer_status, m.body.status)
  BY <1>1, <1>2, <1>4
<1> QED BY <1>1, <1>5 DEF AtMost, MergeStatusAsserts

(* The merge of two statuses is the later one if it says no less.             *)
LEMMA MergeIs ==
  ASSUME NEW s, NEW t, DOMAIN s = Players
  PROVE  LET r == MergeStatus(s, t)
         IN  /\ DOMAIN r = Players
             /\ \A x : AtMost(s, x) /\ AtMost(t, x) => AtMost(r, x)
             /\ AtMost(s, t) => \A i \in Players : r[i].last_frame = t[i].last_frame
<1> DEFINE r == MergeStatus(s, t)
<1>1. DOMAIN r = Players
      /\ \A i \in Players : r[i].last_frame = Max2(s[i].last_frame, t[i].last_frame)
  BY DEF MergeStatus
<1> HIDE DEF r
<1>2. \A x : AtMost(s, x) /\ AtMost(t, x) => AtMost(r, x)
  BY <1>1 DEF AtMost, Max2
<1>3. AtMost(s, t) => \A i \in Players : r[i].last_frame = t[i].last_frame
  BY <1>1 DEF AtMost, Max2
<1> QED BY <1>1, <1>2, <1>3 DEF r

(* A packet is taken.                                                         *)
LEMMA HearingKeeps ==
  ASSUME NEW u, u.next_recv_seq \in SequenceNumbers,
         NEW v, v.next_send_seq \in SequenceNumbers,
         NEW packets, \A m \in packets : m.seq \in SequenceNumbers,
         NEW status, NEW excused \in BOOLEAN, ReportsOK(u, v, packets, status, excused),
         NEW m \in packets, Accepts(u, m), NEW w, Heard(w) = HeardAfter(u, m),
         NEW excused2 \in BOOLEAN, excused => excused2, excused2 \/ ~Overtaken(u, m)
  PROVE  ReportsOK(w, v, packets, status, excused2)
<1> DEFINE reports == {n \in packets : IsReport(n)}
<1>1. /\ DOMAIN u.peer_status = Players /\ AtMost(u.peer_status, status)
      /\ \A n \in reports : AtMost(n.body.status, status)
      /\ \A n, x \in reports : AgeOf(v, n.seq) <= AgeOf(v, x.seq)
                                  => AtMost(x.body.status, n.body.status)
      /\ reports = {} \/ \A n \in packets : AgeOf(v, n.seq) <= Lifetime
      /\ excused \/ \A n \in reports :
            \/ AtMost(u.peer_status, n.body.status)
            \/ AgeOf(v, u.next_recv_seq) < AgeOf(v, n.seq)
  BY DEF ReportsOK
<1>2. /\ w.next_recv_seq = m.seq
      /\ w.peer_status = IF IsReport(m) THEN MergeStatus(u.peer_status, m.body.status)
                         ELSE u.peer_status
  BY DEF Heard, HeardAfter
<1> DEFINE r == MergeStatus(u.peer_status, m.body.status)
<1>3. /\ DOMAIN r = Players
      /\ \A x : AtMost(u.peer_status, x) /\ AtMost(m.body.status, x) => AtMost(r, x)
      /\ AtMost(u.peer_status, m.body.status)
            => \A i \in Players : r[i].last_frame = m.body.status[i].last_frame
  BY <1>1, MergeIs
<1> HIDE DEF r
<1>4. DOMAIN w.peer_status = Players /\ AtMost(w.peer_status, status)
  BY <1>1, <1>2, <1>3 DEF r
<1>5. ASSUME ~excused2, NEW n \in reports
      PROVE  \/ AtMost(w.peer_status, n.body.status)
             \/ AgeOf(v, w.next_recv_seq) < AgeOf(v, n.seq)
  <2>1. ~excused /\ InOrder(u, m)
    BY <1>5 DEF Overtaken, Accepts
  <2>2. m.seq \in SequenceNumbers /\ n.seq \in SequenceNumbers
    OBVIOUS
  <2>3. /\ AgeOf(v, m.seq) \in Int /\ AgeOf(v, n.seq) \in Int
        /\ AgeOf(v, u.next_recv_seq) \in Int
        /\ SEQUENCE_NUMBERS \in Int /\ MAX_SEQ_DISTANCE \in Int /\ Lifetime \in Int
    BY <2>2, AgeIs, UdpProtocolAssumption, LinkAssumption
       DEF AgeOf, SequenceNumbers, MAX_SEQ_DISTANCE
  <2>4. AgeOf(v, m.seq) < MAX_SEQ_DISTANCE
    BY <1>1, <1>5, <2>3, LinkAssumption
  <2>5. AgeOf(v, m.seq) <= AgeOf(v, u.next_recv_seq)
    BY <2>1, <2>2, <2>4, InOrderIs DEF AgeOf, InOrder
  <2>6. CASE AgeOf(v, m.seq) < AgeOf(v, n.seq)
    BY <1>2, <2>6
  <2>7. CASE AgeOf(v, n.seq) <= AgeOf(v, m.seq)
    <3>1. AtMost(u.peer_status, n.body.status)
      BY <1>1, <1>5, <2>1, <2>3, <2>5, <2>7
    <3>2. IsReport(m) => AtMost(m.body.status, n.body.status)
      BY <1>1, <1>5, <2>7
    <3> QED BY <1>2, <1>3, <3>1, <3>2 DEF r
  <2> QED BY <2>3, <2>6, <2>7
<1> QED BY <1>1, <1>4, <1>5 DEF ReportsOK

(* Nothing is heard.                                                          *)
LEMMA HearingNothing ==
  ASSUME NEW u, NEW v, NEW packets, NEW status, NEW excused \in BOOLEAN,
         ReportsOK(u, v, packets, status, excused),
         NEW w, Heard(w) = Heard(u), NEW excused2 \in BOOLEAN, excused => excused2,
         NEW status2, AtMost(status, status2)
  PROVE  ReportsOK(w, v, packets, status2, excused2)
<1>1. w.next_recv_seq = u.next_recv_seq /\ w.peer_status = u.peer_status
  BY DEF Heard
<1> QED BY <1>1, AtMostMore DEF ReportsOK

(* Packets are sent.                                                          *)
LEMMA SendingKeeps ==
  ASSUME SEQUENCE_NUMBERS > 2,
         NEW u, u.next_recv_seq \in SequenceNumbers,
         NEW v, v.next_send_seq \in SequenceNumbers,
         NEW packets, \A m \in packets : m.seq \in SequenceNumbers,
         NEW status, NEW excused \in BOOLEAN, ReportsOK(u, v, packets, status, excused),
         NEW w, NEW k \in 0 .. 2, NEW now, Emits(v, w, k, now),
         AtMost(status, now), NEW status2, AtMost(now, status2),
         NEW packets2, \A m \in packets2 : /\ m \in packets \/ m \in ToSet(w.out)
                                           /\ AgeOf(w, m.seq) <= Lifetime
  PROVE  ReportsOK(u, w, packets2, status2, excused)
<1> DEFINE reports == {m \in packets : IsReport(m)}
           reports2 == {m \in packets2 : IsReport(m)}
           Old(m) == /\ m \in reports /\ AgeOf(v, m.seq) \in Nat /\ AgeOf(v, m.seq) <= Lifetime
                     /\ AgeOf(w, m.seq) = AgeOf(v, m.seq) + k
           New(m) == m.body.status = now /\ AgeOf(w, m.seq) < k
<1>1. /\ DOMAIN u.peer_status = Players /\ AtMost(u.peer_status, status)
      /\ \A m \in reports : AtMost(m.body.status, status)
      /\ \A m, n \in reports : AgeOf(v, m.seq) <= AgeOf(v, n.seq)
                                  => AtMost(n.body.status, m.body.status)
      /\ reports = {} \/ \A m \in packets : AgeOf(v, m.seq) <= Lifetime
      /\ excused \/ \A m \in reports :
            \/ AtMost(u.peer_status, m.body.status)
            \/ AgeOf(v, u.next_recv_seq) < AgeOf(v, m.seq)
  BY DEF ReportsOK
<1>2. /\ SEQUENCE_NUMBERS \in Int /\ Lifetime \in Int /\ 2 * Lifetime <= SEQUENCE_NUMBERS - 2
      /\ Lifetime >= 0
  BY UdpProtocolAssumption, LinkAssumption DEF MAX_SEQ_DISTANCE
<1>3. ASSUME NEW m \in packets2, IsReport(m)
      PROVE  Old(m) \/ New(m)
  <2>1. CASE m \in ToSet(w.out)
    BY <1>3, <2>1 DEF Emits
  <2>2. CASE m \in packets
    <3>1. m.seq \in SequenceNumbers /\ m \in reports
      BY <1>3, <2>2
    <3>2. AgeOf(v, m.seq) \in Nat
      <4>1. AgeOf(v, m.seq) \in SequenceNumbers
        BY <3>1, AgeIs DEF AgeOf
      <4> QED BY <4>1, UdpProtocolAssumption DEF SequenceNumbers
    <3>3. AgeOf(v, m.seq) <= Lifetime
      BY <1>1, <3>1
    <3>4. AgeOf(v, m.seq) + k < SEQUENCE_NUMBERS
      BY <1>2, <3>2, <3>3
    <3>5. AgeOf(w, m.seq) = AgeOf(v, m.seq) + k
      BY <3>1, <3>4 DEF Emits
    <3> QED BY <3>1, <3>2, <3>3, <3>5
  <2> QED BY <1>3, <2>1, <2>2
<1>4. AtMost(u.peer_status, status2) /\ AtMost(now, now) /\ AtMost(status, status2)
      /\ AtMost(u.peer_status, now)
  BY <1>1, AtMostMore
<1>5. \A m \in reports2 : AtMost(m.body.status, status2)
  <2> SUFFICES ASSUME NEW m \in packets2, IsReport(m) PROVE AtMost(m.body.status, status2)
    OBVIOUS
  <2>1. CASE Old(m)
    BY <1>1, <1>4, <2>1, AtMostMore
  <2>2. CASE New(m)
    BY <2>2
  <2> QED BY <1>3, <2>1, <2>2
<1>6. ASSUME NEW m \in packets2, IsReport(m), NEW n \in packets2, IsReport(n),
             AgeOf(w, m.seq) <= AgeOf(w, n.seq)
      PROVE  AtMost(n.body.status, m.body.status)
  <2>1. CASE Old(m) /\ Old(n)
    <3>1. AgeOf(v, m.seq) <= AgeOf(v, n.seq)
      BY <1>6, <2>1
    <3> QED BY <1>1, <2>1, <3>1
  <2>2. CASE New(m) /\ New(n)
    BY <1>4, <2>2
  <2>3. CASE New(m) /\ Old(n)
    BY <1>1, <2>3, AtMostMore
  <2>4. CASE Old(m) /\ New(n)
    <3>0. n.seq \in SequenceNumbers
      <4>1. CASE n \in ToSet(w.out)
        BY <4>1 DEF Emits
      <4> QED BY <4>1, <1>6
    <3>1. AgeOf(w, n.seq) \in Int
      BY <3>0, AgeIs DEF AgeOf, SequenceNumbers, Emits
    <3> QED BY <1>6, <2>4, <3>1
  <2> QED BY <1>3, <1>6, <2>1, <2>2, <2>3, <2>4
<1>7. ASSUME ~excused, NEW m \in packets2, IsReport(m)
      PROVE  \/ AtMost(u.peer_status, m.body.status)
             \/ AgeOf(w, u.next_recv_seq) < AgeOf(w, m.seq)
  <2>1. CASE New(m)
    BY <1>4, <2>1
  <2>2. CASE Old(m)
    <3>1. CASE AtMost(u.peer_status, m.body.status)
      BY <3>1
    <3>2. CASE AgeOf(v, u.next_recv_seq) < AgeOf(v, m.seq)
      <4>1. AgeOf(v, u.next_recv_seq) \in Nat
        <5>1. AgeOf(v, u.next_recv_seq) \in SequenceNumbers
          BY AgeIs DEF AgeOf
        <5> QED BY <5>1, UdpProtocolAssumption DEF SequenceNumbers
      <4>2. AgeOf(v, u.next_recv_seq) + k < SEQUENCE_NUMBERS
        BY <1>2, <2>2, <3>2, <4>1
      <4>3. AgeOf(w, u.next_recv_seq) = AgeOf(v, u.next_recv_seq) + k
        BY <4>2 DEF Emits
      <4> QED BY <2>2, <3>2, <4>1, <4>3
    <3> QED BY <1>1, <1>7, <2>2, <3>1, <3>2
  <2> QED BY <1>3, <1>7, <2>1, <2>2
<1> QED BY <1>1, <1>4, <1>5, <1>6, <1>7 DEF ReportsOK
-----------------------------------------------------------------------------
(* An input of the application, and the events.                               *)

(* SendInput sends at most one packet, with the status it is given.           *)
LEMMA SendInputCounts ==
  ASSUME NEW u, IsEndpoint(u), u.next_send_seq \in SequenceNumbers, u.events = <<>>,
         u.out = <<>>, NEW x, NEW given, NEW status, u.state # "disconnected" => status = given
  PROVE  \E k \in {0, 1} : Does(u, SendInput(u, x, given), k, 0, status, Heard(u))
<1> DEFINE v == IF u.state = "running" THEN [u EXCEPT !.pending = Append(@, x)] ELSE u
           body == InputMsg(v, given)
           heard == Heard(u)
<1> HIDE DEF heard
<1>1. Does(u, u, 0, 0, status, heard)
  BY DoesNothing DEF heard
<1>2. Does(u, v, 0, 0, status, heard) /\ v.state = u.state
  <2>1. CASE u.state = "running"
    <3>1. Changes(u, v, Inner) /\ v.state = u.state
      BY <2>1 DEF Changes, Inner, Fields, IsEndpoint
    <3> HIDE DEF v
    <3> QED BY <1>1, <3>1, DoesInside
  <2>2. CASE u.state # "running"
    BY <1>1, <2>2
  <2> QED BY <2>1, <2>2
<1>3. SendInput(u, x, given) = IF ~u.open THEN u ELSE SendMsg(v, body)
  BY DEF SendInput, Saves, SendPendingOutput
<1> HIDE DEF v
<1>4. body.status = given /\ body.disconnect_requested = (v.state = "disconnected")
  BY DEF InputMsg
<1> HIDE DEF body
<1>5. body.type = "Input" /\ ~body.disconnect_requested => body.status = status
  BY <1>2, <1>4
<1>6. Does(u, SendMsg(v, body), 0 + 1, 0, status, heard)
  BY <1>2, <1>5, DoesSend
<1> QED BY <1>1, <1>3, <1>6 DEF heard

(* The session synchronizes as long as its endpoint does.                     *)
Waits(u, b) == u.state = "syncing" => b.synchronizing

(* What the backend does with an endpoint leaves its packets alone.           *)
IsPair(s) ==
    /\ DOMAIN s = {"u", "backend"} /\ DOMAIN s.u = Fields
    /\ DOMAIN s.backend = {"synchronizing", "delivered", "shown"}
LeavesAlone(s, r) ==
    /\ IsPair(r) /\ r.u.events = s.u.events /\ r.u.out = s.u.out
    /\ r.u.next_send_seq = s.u.next_send_seq /\ Heard(r.u) = Heard(s.u)
    /\ Waits(s.u, s.backend) => Waits(r.u, r.backend)

(* What leaves alone the sending and hearing twice leaves them alone.         *)
LEMMA LeavesAloneTwice ==
  ASSUME NEW s, NEW t, NEW r, LeavesAlone(s, t), LeavesAlone(t, r)
  PROVE  LeavesAlone(s, r)
  BY DEF LeavesAlone

(* What VectorWar is told changes nothing of the endpoint (the event loop).   *)
LEMMA NotifyAlone ==
  ASSUME NEW s, IsPair(s), NEW code
  PROVE  LeavesAlone(s, Notify(s, code)) /\ Notify(s, code).u = s.u
<1> DEFINE r == Notify(s, code)
           b == [s.backend EXCEPT !.shown = ShownAfter(@, code)]
<1>1. r = [s EXCEPT !.backend = b]
  BY DEF Notify, IsPair
<1>2. /\ DOMAIN b = {"synchronizing", "delivered", "shown"}
      /\ b.synchronizing = s.backend.synchronizing
  BY DEF IsPair
<1> HIDE DEF b
<1>3. DOMAIN r = {"u", "backend"} /\ r.u = s.u /\ r.backend = b
  BY <1>1 DEF IsPair
<1> HIDE DEF r
<1> QED BY <1>2, <1>3 DEF IsPair, LeavesAlone, Waits, r

(* Nor does the end of the synchronization of the session.                    *)
LEMMA CheckInitialSyncAlone ==
  ASSUME NEW s, IsPair(s)
  PROVE  LeavesAlone(s, CheckInitialSync(s))
<1> DEFINE b == [s.backend EXCEPT !.synchronizing = FALSE]
           v == [s EXCEPT !.backend.synchronizing = FALSE]
           r == CheckInitialSync(s)
<1>1. v = [s EXCEPT !.backend = b]
  BY DEF IsPair
<1>2. DOMAIN b = {"synchronizing", "delivered", "shown"}
  BY DEF IsPair
<1> HIDE DEF b
<1>3. DOMAIN v = {"u", "backend"} /\ v.u = s.u /\ v.backend = b
  BY <1>1 DEF IsPair
<1>4. r = IF s.backend.synchronizing /\ s.u.state # "syncing" THEN Notify(v, "running") ELSE s
  BY DEF CheckInitialSync
<1> HIDE DEF v, r
<1>5. LeavesAlone(s, s) /\ IsPair(v)
  BY <1>2, <1>3 DEF LeavesAlone, IsPair
<1>6. LeavesAlone(v, Notify(v, "running")) /\ Notify(v, "running").u = v.u
  BY <1>5, NotifyAlone
<1> DEFINE x == Notify(v, "running")
<1> HIDE DEF x
<1>7. s.u.state # "syncing" => LeavesAlone(s, x)
  BY <1>3, <1>6 DEF LeavesAlone, Waits, x
<1> QED BY <1>4, <1>5, <1>7 DEF r, x

(* Nor does the disconnect of the other player, but for the state.            *)
LEMMA DisconnectPlayerAlone ==
  ASSUME NEW s, IsPair(s)
  PROVE  LeavesAlone(s, DisconnectPlayer(s))
<1> DEFINE v == [s EXCEPT !.u = Disconnect(@)]
           n == Notify(v, "disconnected")
           c == CheckInitialSync(n)
<1>1. DOMAIN v = {"u", "backend"} /\ v.u = Disconnect(s.u) /\ v.backend = s.backend
  BY DEF IsPair
<1>2. /\ DOMAIN v.u = Fields /\ v.u.state = "disconnected" /\ v.u.events = s.u.events
      /\ v.u.out = s.u.out /\ v.u.next_send_seq = s.u.next_send_seq /\ Heard(v.u) = Heard(s.u)
  BY <1>1 DEF IsPair, Disconnect, Fields, Heard
<1>3. DisconnectPlayer(s) = IF s.u.state = "disconnected" THEN s ELSE c
  BY DEF DisconnectPlayer
<1> HIDE DEF v
<1>4. IsPair(v) /\ LeavesAlone(s, v) /\ LeavesAlone(s, s)
  BY <1>1, <1>2 DEF IsPair, LeavesAlone, Waits
<1>5. LeavesAlone(v, n)
  BY <1>4, NotifyAlone
<1> HIDE DEF n
<1>6. LeavesAlone(n, c)
  BY <1>5, CheckInitialSyncAlone DEF LeavesAlone
<1> HIDE DEF c
<1> QED BY <1>3, <1>4, <1>5, <1>6, LeavesAloneTwice

(* So handling an event changes nothing of what was sent and heard.           *)
LEMMA OnEventAlone ==
  ASSUME NEW s, IsPair(s), NEW event
  PROVE  LeavesAlone(s, OnEvent(s, event))
<1> DEFINE r == OnEvent(s, event)
<1>1. CASE event.type = "synchronized"
  <2>1. r = CheckInitialSync(s)
    BY <1>1 DEF OnEvent
  <2> QED BY <2>1, CheckInitialSyncAlone
<1>2. CASE event.type = "disconnected"
  <2>1. r = DisconnectPlayer(s)
    BY <1>2 DEF OnEvent
  <2> QED BY <2>1, DisconnectPlayerAlone
<1>3. CASE event.type = "input" /\ s.u.state # "disconnected"
  <2> DEFINE b == [s.backend EXCEPT !.delivered = Append(@, event.input)]
  <2>1. r = [s EXCEPT !.backend.delivered = Append(@, event.input)]
    BY <1>3 DEF OnEvent
  <2>2. r = [s EXCEPT !.backend = b]
    BY <2>1 DEF IsPair
  <2>3. /\ DOMAIN b = {"synchronizing", "delivered", "shown"}
        /\ b.synchronizing = s.backend.synchronizing
    BY DEF IsPair
  <2> HIDE DEF b, r
  <2>4. DOMAIN r = {"u", "backend"} /\ r.u = s.u /\ r.backend = b
    BY <2>2 DEF IsPair
  <2>5. LeavesAlone(s, r)
    BY <2>3, <2>4 DEF LeavesAlone, IsPair, Waits
  <2> QED BY <2>5 DEF r
<1>4. CASE /\ event.type \notin {"synchronized", "disconnected"}
           /\ ~ (event.type = "input" /\ s.u.state # "disconnected")
  <2>1. r = Notify(s, event.type)
    BY <1>4 DEF OnEvent
  <2> QED BY <2>1, NotifyAlone
<1> QED BY <1>1, <1>2, <1>3, <1>4

(* All events of a call.                                                      *)
LEMMA EventsAlone ==
  ASSUME NEW u, IsEndpoint(u),
         NEW b, DOMAIN b = {"synchronizing", "delivered", "shown"}
  PROVE  LET r == Done(b, u)[Len(u.events)]
         IN  /\ r.u.out = u.out /\ r.u.next_send_seq = u.next_send_seq /\ Heard(r.u) = Heard(u)
             /\ Waits(u, b) => Waits(r.u, r.backend)
<1> DEFINE N == Len(u.events)
           v == TakeEvents(u)
           f == Done(b, u)
           s0 == [u |-> v, backend |-> b]
           I(n) == LeavesAlone(s0, f[n])
<1>1. N \in Nat /\ DOMAIN u = Fields /\ IsList(u.events)
  BY ListFacts DEF IsEndpoint
<1>2. /\ DOMAIN v = Fields /\ v.out = u.out /\ v.next_send_seq = u.next_send_seq
      /\ Heard(v) = Heard(u) /\ v.state = u.state
  BY <1>1 DEF TakeEvents, Fields, Heard
<1>3. f[0] = s0 /\ \A n \in 1 .. N : f[n] = OnEvent(f[n - 1], u.events[n])
  BY <1>1, DoneDoes
<1> HIDE DEF f, v
<1>4. DOMAIN s0 = {"u", "backend"} /\ s0.u = v /\ s0.backend = b
  OBVIOUS
<1> HIDE DEF s0
<1>5. IsPair(s0)
  BY <1>2, <1>4 DEF IsPair
<1>6. I(0)
  BY <1>3, <1>5 DEF LeavesAlone
<1>7. ASSUME NEW n \in 1 .. N, I(n - 1) PROVE I(n)
  <2> DEFINE s == f[n - 1]
             event == u.events[n]
  <2>1. f[n] = OnEvent(s, event)
    BY <1>3
  <2>2. LeavesAlone(s0, s)
    BY <1>7
  <2> HIDE DEF s, event
  <2>3. LeavesAlone(s, OnEvent(s, event))
    BY <2>2, OnEventAlone DEF LeavesAlone
  <2>4. LeavesAlone(s0, OnEvent(s, event))
    BY <2>2, <2>3, LeavesAloneTwice
  <2> QED BY <2>1, <2>4
<1>8. \A n \in 0 .. N : I(n)
  <2> DEFINE P == {n \in Nat : n > N \/ I(n)}
  <2> HIDE DEF N, I
  <2>1. 0 \in P
    BY <1>6
  <2>2. \A n \in Nat : n < N /\ n \in P => n + 1 \in P
    <3> SUFFICES ASSUME NEW n \in Nat, n < N, I(n) PROVE I(n + 1)
      BY <1>1
    <3>1. n + 1 \in 1 .. N /\ (n + 1) - 1 = n
      BY <1>1
    <3> QED BY <1>7, <3>1
  <2>3. N \in Int
    BY <1>1
  <2>4. \A n \in 0 .. N : n \in P
    <3> HIDE DEF P
    <3> QED BY <2>1, <2>2, <2>3, Induction
  <2> QED BY <1>1, <2>4
<1>9. I(N)
  <2> HIDE DEF I, N
  <2> QED BY <1>1, <1>8
<1>10. LeavesAlone(s0, f[N])
  BY <1>9
<1> HIDE DEF N
<1>11. /\ f[N].u.out = u.out /\ f[N].u.next_send_seq = u.next_send_seq
       /\ Heard(f[N].u) = Heard(u)
       /\ Waits(u, b) => Waits(f[N].u, f[N].backend)
  BY <1>2, <1>4, <1>10 DEF LeavesAlone, Waits
<1> QED BY <1>11 DEF f, N
-----------------------------------------------------------------------------
(* What a player says of the inputs never goes back.                          *)

(* The last frame of inputs that were sent one after the other.               *)
LEMMA LastFrameIs ==
  ASSUME NEW d, NEW D, SentOK(d, D)
  PROVE  LastFrame(D) = LastOf(d, D) /\ LastFrame(D) \in Int
<1>1. d \in Nat /\ Len(D) \in Nat /\ (D = <<>> <=> Len(D) = 0)
  BY EmptySeq, LenProperties, EmptyList, SeqIsList DEF SentOK
<1>2. CASE D = <<>>
  BY <1>1, <1>2 DEF LastFrame, LastOf, NullFrame
<1>3. CASE D # <<>>
  <2>1. Len(D) \in 1 .. Len(D) /\ Last(D) = D[Len(D)]
    BY <1>1, <1>3 DEF Last
  <2>2. D[Len(D)].frame = d + Len(D) - 1
    BY <2>1 DEF SentOK
  <2> QED BY <1>1, <1>3, <2>1, <2>2 DEF LastFrame, LastOf
<1> QED BY <1>2, <1>3

(* More inputs do not end earlier.                                            *)
LEMMA LastFrameGrows ==
  ASSUME NEW d, NEW A, SentOK(d, A), NEW B, SentOK(d, B), Len(A) <= Len(B)
  PROVE  LastFrame(A) <= LastFrame(B)
<1>1. d \in Nat /\ Len(A) \in Nat /\ Len(B) \in Nat
  BY LenProperties DEF SentOK
<1>2. LastFrame(A) = LastOf(d, A) /\ LastFrame(B) = LastOf(d, B)
  BY LastFrameIs
<1> QED BY <1>1, <1>2 DEF LastOf, NullFrame

(* Inputs that continue in those that were sent were sent one after the other. *)
LEMMA DeliveredIsSent ==
  ASSUME NEW d, NEW T, SentOK(d, T), NEW D \in Seq(AnyInput), Extends(D, T)
  PROVE  SentOK(d, D)
<1>1. Len(D) \in Nat /\ Len(T) \in Nat /\ Len(D) <= Len(T) /\ d \in Nat
      /\ \A n \in 1 .. Len(D) : T[n] = D[n]
  BY LenProperties DEF Extends, SentOK
<1> QED BY <1>1 DEF SentOK

(* The connect status of p by what it is made of.                             *)
StatusIs(p, S, state, D) ==
    [q \in Players |->
        IF q = p THEN [disconnected |-> FALSE, last_frame |-> LastFrame(S)]
        ELSE [disconnected |-> state = "disconnected", last_frame |-> LastFrame(D)]]

(* Whoever has sent and received more reports at least as much of everybody.  *)
LEMMA StatusMore ==
  ASSUME NEW p \in Players,
         NEW S, SentOK(FrameDelay[p], S), NEW S2, SentOK(FrameDelay[p], S2), Len(S) <= Len(S2),
         NEW D, SentOK(FrameDelay[PeerOf(p)], D), NEW D2, SentOK(FrameDelay[PeerOf(p)], D2),
         Len(D) <= Len(D2), NEW state, NEW state2
  PROVE  AtMost(StatusIs(p, S, state, D), StatusIs(p, S2, state2, D2))
<1>1. /\ LastFrame(S) \in Int /\ LastFrame(S2) \in Int /\ LastFrame(S) <= LastFrame(S2)
      /\ LastFrame(D) \in Int /\ LastFrame(D2) \in Int /\ LastFrame(D) <= LastFrame(D2)
  BY LastFrameIs, LastFrameGrows
<1> QED BY <1>1 DEF StatusIs, AtMost

(* What the invariant says of the lists in the status.                        *)
LEMMA StatusFacts ==
  ASSUME IInv, NEW p \in Players
  PROVE  /\ LocalStatus(p) = StatusIs(p, sent[p], endpoint[p].state, backend[p].delivered)
         /\ SentOK(FrameDelay[p], sent[p]) /\ Len(sent[p]) \in Nat
         /\ SentOK(FrameDelay[PeerOf(p)], backend[p].delivered)
         /\ Len(backend[p].delivered) \in Nat
         /\ AtMost(LocalStatus(p), LocalStatus(p))
<1> DEFINE q == PeerOf(p)
           D == backend[p].delivered
           d == FrameDelay[q]
           T == sent[q]
<1>1. /\ Known(p, sent[p], Got(q), T, Got(p)) /\ BackendOK(backend[p], endpoint[p], T, Got(p))
      /\ Len(sent[p]) \in Nat
  BY SideFacts
<1>2. SentOK(FrameDelay[p], sent[p]) /\ SentOK(d, T) /\ D \in Seq(AnyInput) /\ Extends(D, T)
  BY <1>1 DEF Known, BackendOK
<1> HIDE DEF D, d, T
<1>3. SentOK(d, D) /\ Len(D) \in Nat
  BY <1>2, DeliveredIsSent, LenProperties
<1>4. LocalStatus(p) = StatusIs(p, sent[p], endpoint[p].state, D)
  BY DEF LocalStatus, StatusIs, D
<1>5. Len(sent[p]) <= Len(sent[p]) /\ Len(D) <= Len(D)
  BY <1>1, <1>3
<1>6. SentOK(FrameDelay[PeerOf(p)], D)
  BY <1>3 DEF d
<1>7. AtMost(LocalStatus(p), LocalStatus(p))
  BY <1>2, <1>4, <1>5, <1>6, StatusMore
<1> QED BY <1>1, <1>2, <1>3, <1>4, <1>6, <1>7 DEF D

(* A step of a player.                                                        *)
LEMMA StepStatus ==
  ASSUME IInv, NEW p \in Players, NEW S2, NEW h2, NEW w, NEW b, StepOK(p, S2, h2, w, b)
  PROVE  /\ AtMost(StatusIs(p, S2, endpoint[p].state, backend[p].delivered), LocalStatus(p)')
         /\ \A r \in Players : AtMost(LocalStatus(r), LocalStatus(r)')
<1> DEFINE q == PeerOf(p)
           D == backend[p].delivered
           D2 == b.delivered
<1>1. PeerOf(p) \in Players /\ PeerOf(p) # p /\ PeerOf(q) = p
  BY PeerOfPeer
<1>2. /\ SentOK(FrameDelay[p], S2) /\ Len(sent[p]) <= Len(S2)
      /\ BackendOK(b, w, sent[q], h2) /\ Len(D) <= Len(D2)
      /\ backend' = [backend EXCEPT ![p] = b] /\ sent' = [sent EXCEPT ![p] = S2]
      /\ endpoint'[q] = endpoint[q]
  <2>1. Shape
    BY DEF IInv
  <2>2. Becomes(p, w)
    BY DEF StepOK
  <2>3. endpoint'[q] = endpoint[q]
    BY <2>1, <2>2, BecomesDoes
  <2> QED BY <2>3 DEF StepOK, Extends
<1>3. /\ backend'[p].delivered = D2 /\ sent'[p] = S2
      /\ backend'[q] = backend[q] /\ sent'[q] = sent[q]
  BY <1>1, <1>2 DEF IInv, Shape
<1>4. /\ SentOK(FrameDelay[p], sent[p]) /\ SentOK(FrameDelay[q], D) /\ Len(D) \in Nat
      /\ LocalStatus(p) = StatusIs(p, sent[p], endpoint[p].state, D)
      /\ LocalStatus(q) = StatusIs(q, sent[q], endpoint[q].state, backend[q].delivered)
      /\ AtMost(LocalStatus(q), LocalStatus(q))
  BY <1>1, StatusFacts
<1>5. SentOK(FrameDelay[q], D2)
  <2>1. SentOK(FrameDelay[q], sent[q])
    BY <1>1, StatusFacts
  <2> QED BY <1>2, <2>1, DeliveredIsSent DEF BackendOK
<1>6. LocalStatus(p)' = StatusIs(p, S2, endpoint'[p].state, D2)
  BY <1>3 DEF LocalStatus, StatusIs
<1>7. LocalStatus(q)' = StatusIs(q, sent[q], endpoint[q].state, backend[q].delivered)
  BY <1>2, <1>3 DEF LocalStatus, StatusIs
<1>8. Len(S2) \in Nat /\ Len(S2) <= Len(S2)
  BY <1>2, LenProperties DEF SentOK
<1> HIDE DEF D, D2, q
<1>9. SentOK(FrameDelay[PeerOf(p)], D) /\ SentOK(FrameDelay[PeerOf(p)], D2)
  BY <1>4, <1>5 DEF q
<1>10. /\ AtMost(StatusIs(p, S2, endpoint[p].state, D), LocalStatus(p)')
       /\ AtMost(LocalStatus(p), LocalStatus(p)')
  BY <1>2, <1>4, <1>6, <1>8, <1>9, StatusMore
<1>11. AtMost(LocalStatus(q), LocalStatus(q)')
  BY <1>4, <1>7
<1>12. \A r \in Players : r = p \/ r = q
  BY PlayersAssumption, <1>1 DEF q
<1> QED BY <1>10, <1>11, <1>12 DEF D

(* Every step.                                                                *)
LEMMA StatusGrows ==
  ASSUME IInv, [Next]_vars
  PROVE  \A p \in Players : AtMost(LocalStatus(p), LocalStatus(p)')
<1>1. CASE \E p \in Players : SentOne(p) \/ Quiet(p) \/ Took(p)
  <2>1. PICK p \in Players : SentOne(p) \/ Quiet(p) \/ Took(p)
    BY <1>1
  <2>2. \E S2, h2, w, b : StepOK(p, S2, h2, w, b)
    <3>1. CASE SentOne(p)
      BY <3>1 DEF SentOne
    <3>2. CASE Quiet(p)
      BY <3>2 DEF Quiet
    <3>3. CASE Took(p)
      BY <3>3 DEF Took
    <3> QED BY <2>1, <3>1, <3>2, <3>3
  <2> QED BY <2>2, StepStatus
<1>2. CASE UNCHANGED <<endpoint, backend, sent>>
  <2>1. \A p \in Players : LocalStatus(p)' = LocalStatus(p)
    BY <1>2 DEF LocalStatus
  <2> QED BY <2>1, StatusFacts
<1> QED BY <1>1, <1>2, NextDoes DEF Stops, vars
-----------------------------------------------------------------------------
(* Every step that is not a failed ASSERT.                                    *)

(* p's endpoint becomes w; the reports it has sent have the given status.     *)
Moved(p, w, k, status) ==
    LET u == endpoint[p]
    IN  /\ Becomes(p, w) /\ Emits(u, w, k, status)
        /\ AtMost(LocalStatus(p), status) /\ AtMost(status, LocalStatus(p)')
        /\ \/ Heard(w) = Heard(u)
           \/ \E m \in network[p] : /\ Accepts(u, m) /\ Heard(w) = HeardAfter(u, m)
                                    /\ late'[p] \/ ~Overtaken(u, m)
        /\ Waits(w, backend'[p])
Moves(p) ==
    /\ \E w, status : \E k \in 0 .. 2 : Moved(p, w, k, status)
    /\ \A r \in Players : r # p => backend'[r] = backend[r]
    /\ exited' = exited /\ late' \in [Players -> BOOLEAN] /\ \A r \in Players : late[r] => late'[r]

(* An endpoint of the system.                                                 *)
LEMMA EndpointFacts ==
  ASSUME IInv, NEW p \in Players
  PROVE  /\ IsEndpoint(endpoint[p]) /\ endpoint[p].events = <<>> /\ endpoint[p].out = <<>>
         /\ endpoint[p].next_send_seq \in SequenceNumbers
         /\ endpoint[p].next_recv_seq \in SequenceNumbers
         /\ endpoint[p].state \in {"syncing", "running", "disconnected"}
         /\ endpoint[p].state \in {"syncing", "running"} => endpoint[p].open
         /\ DOMAIN backend[p] = {"synchronizing", "delivered", "shown"}
         /\ \A m \in network[p] : PacketOK(PeerOf(p), sent[PeerOf(p)], Got(p),
                                           At(FrameDelay[p], sent[p], Got(PeerOf(p))), m)
<1>1. /\ EndpointOK(p, sent[p], Got(PeerOf(p)), sent[PeerOf(p)], Got(p), endpoint[p])
      /\ BackendOK(backend[p], endpoint[p], sent[PeerOf(p)], Got(p))
      /\ endpoint[p].events = <<>> /\ endpoint[p].out = <<>>
  BY SideFacts
<1>2. PeerOf(p) \in Players /\ PeerOf(PeerOf(p)) = p
  BY PeerOfPeer
<1>3. /\ Side(PeerOf(p), sent[PeerOf(p)], Got(p), sent[p], Got(PeerOf(p)),
              endpoint[PeerOf(p)], backend[PeerOf(p)], network[p])
      /\ EndpointOK(PeerOf(p), sent[PeerOf(p)], Got(p), sent[p], Got(PeerOf(p)),
                    endpoint[PeerOf(p)])
  BY <1>2, SideFacts
<1>4. endpoint[PeerOf(p)].last_received = At(FrameDelay[p], sent[p], Got(PeerOf(p)))
  BY <1>2, <1>3 DEF EndpointOK
<1>5. \A m \in network[p] : PacketOK(PeerOf(p), sent[PeerOf(p)], Got(p),
                                     At(FrameDelay[p], sent[p], Got(PeerOf(p))), m)
  BY <1>3, <1>4 DEF Side
<1> QED BY <1>1, <1>5 DEF EndpointOK, ControlOK, BackendOK

(* A call whose events are handled.                                           *)
LEMMA CallMoves ==
  ASSUME IInv, [Next]_vars, NEW p \in Players, Waits(endpoint[p], backend[p]),
         NEW u, HandleEvents(p, u), NEW k \in 0 .. 2, NEW n, NEW heard,
         Does(endpoint[p], u, k, n, LocalStatus(p), heard),
         endpoint[p].state = "syncing" \/ u.state = endpoint[p].state,
         \/ heard = Heard(endpoint[p])
         \/ \E m \in network[p] : /\ Accepts(endpoint[p], m) /\ heard = HeardAfter(endpoint[p], m)
                                  /\ late'[p] \/ ~Overtaken(endpoint[p], m),
         exited' = exited, late' \in [Players -> BOOLEAN], \A r \in Players : late[r] => late'[r]
  PROVE  Moves(p)
<1> DEFINE r == Done(backend[p], u)[Len(u.events)]
<1>1. Becomes(p, r.u) /\ backend' = [backend EXCEPT ![p] = r.backend]
  BY HandleEventsIs
<1>2. IsEndpoint(u) /\ DOMAIN backend[p] = {"synchronizing", "delivered", "shown"}
  BY EndpointFacts DEF Does
<1>3. /\ r.u.out = u.out /\ r.u.next_send_seq = u.next_send_seq /\ Heard(r.u) = Heard(u)
      /\ Waits(u, backend[p]) => Waits(r.u, r.backend)
  BY <1>2, EventsAlone
<1> HIDE DEF r
<1>4. backend'[p] = r.backend /\ \A x \in Players : x # p => backend'[x] = backend[x]
  BY <1>1 DEF IInv, Shape
<1>5. Emits(endpoint[p], r.u, k, LocalStatus(p)) /\ Heard(r.u) = heard
  BY <1>3 DEF Does, Emits, AgeOf
<1>6. AtMost(LocalStatus(p), LocalStatus(p)) /\ AtMost(LocalStatus(p), LocalStatus(p)')
  BY StatusFacts, StatusGrows
<1>7. Waits(r.u, backend'[p])
  BY <1>3, <1>4 DEF Waits
<1>8. Moved(p, r.u, k, LocalStatus(p))
  BY <1>1, <1>5, <1>6, <1>7 DEF Moved
<1> QED BY <1>4, <1>8 DEF Moves

(* A packet is taken.                                                         *)
LEMMA ReceiveMoves ==
  ASSUME IInv, [Next]_vars, NEW p \in Players, Waits(endpoint[p], backend[p]),
         NEW m \in network[p], NEW random, HandleEvents(p, OnMsg(endpoint[p], m, random)),
         late' = [late EXCEPT ![p] = @ \/ Overtaken(endpoint[p], m)], exited' = exited
  PROVE  Moves(p)
<1> DEFINE q == PeerOf(p)
           S == sent[p]
           T == sent[q]
           g == Got(q)
           h == Got(p)
           u == endpoint[p]
           w == OnMsg(u, m, random)
           heard == IF Accepts(u, m) THEN HeardAfter(u, m) ELSE Heard(u)
           status == LocalStatus(p)
<1>1. /\ Known(p, S, g, T, h) /\ EndpointOK(p, S, g, T, h, u) /\ u.events = <<>>
      /\ u.out = <<>>
  BY SideFacts
<1>2. PacketOK(PeerOf(p), T, h, At(FrameDelay[p], S, g), m)
  BY EndpointFacts
<1>3. /\ late' \in [Players -> BOOLEAN] /\ \A r \in Players : late[r] => late'[r]
      /\ late'[p] \/ ~Overtaken(u, m)
  <2>1. late \in [Players -> BOOLEAN] /\ Overtaken(u, m) \in BOOLEAN
    BY DEF IInv, Shape, Overtaken
  <2> QED BY <2>1
<1> HIDE DEF S, T, g, h, u, status
<1>4. PICK k \in {0, 1} : Does(u, w, k, Len(T) - h + 2, status, heard)
  <2>1. \E k \in {0, 1} :
          Does(u, OnMsg(u, m, random), k, Len(T) - h + 2, status,
               IF Accepts(u, m) THEN HeardAfter(u, m) ELSE Heard(u))
    BY <1>1, <1>2, OnMsgCounts
  <2> QED BY <2>1
<1>5. u.state = "syncing" \/ w.state = u.state
  <2>1. \E h2 \in 0 .. Len(T), pre \in {0, 1} :
          HandleOK(p, S, g, T, h, h2, pre, u, OnMsg(u, m, random), m)
    BY <1>1, <1>2, OnMsgDoes
  <2> QED BY <2>1 DEF HandleOK
<1>6. HandleEvents(p, w)
  BY DEF u
<1> HIDE DEF w
<1> DEFINE n == Len(T) - h + 2
<1>7. \/ heard = Heard(u)
      \/ \E x \in network[p] : /\ Accepts(u, x) /\ heard = HeardAfter(u, x)
                               /\ late'[p] \/ ~Overtaken(u, x)
  BY <1>3
<1> HIDE DEF heard, n
<1>8. k \in 0 .. 2 /\ Does(u, w, k, n, status, heard)
  BY <1>4 DEF n
<1> QED BY <1>3, <1>5, <1>6, <1>7, <1>8, CallMoves DEF u, status

(* Timers run out.                                                            *)
LEMMA PollMoves ==
  ASSUME IInv, [Next]_vars, NEW p \in Players, Waits(endpoint[p], backend[p]),
         NEW due, NEW random,
         HandleEvents(p, OnLoopPoll(endpoint[p], due, LocalStatus(p), random)),
         UNCHANGED <<exited, late>>
  PROVE  Moves(p)
<1> DEFINE q == PeerOf(p)
           S == sent[p]
           T == sent[q]
           g == Got(q)
           h == Got(p)
           u == endpoint[p]
           status == LocalStatus(p)
           w == OnLoopPoll(u, due, status, random)
           heard == Heard(u)
<1>1. /\ Known(p, S, g, T, h) /\ EndpointOK(p, S, g, T, h, u) /\ u.events = <<>>
      /\ u.out = <<>>
  BY SideFacts
<1>2. /\ IsEndpoint(u) /\ u.next_send_seq \in SequenceNumbers
      /\ u.state \in {"syncing", "running"} => u.open
  BY EndpointFacts
<1> HIDE DEF S, T, g, h, u, status
<1>3. PICK k \in 0 .. 2 : Does(u, OnLoopPoll(u, due, status, random), k, 2, status, Heard(u))
  BY <1>1, <1>2, OnLoopPollCounts
<1>4. w.state = u.state
  BY <1>1, OnLoopPollDoes DEF PollOK
<1>5. HandleEvents(p, w)
  BY DEF u, status
<1>6. Does(u, w, k, 2, status, heard)
  BY <1>3
<1> HIDE DEF w
<1>7. heard = Heard(u)
  OBVIOUS
<1> HIDE DEF heard
<1>8. late' \in [Players -> BOOLEAN] /\ \A r \in Players : late[r] => late'[r]
  BY DEF IInv, Shape
<1> QED BY <1>3, <1>4, <1>5, <1>6, <1>7, <1>8, CallMoves DEF u, status

(* ggpo_disconnect_player.                                                    *)
LEMMA LeaveMoves ==
  ASSUME IInv, [Next]_vars, NEW p \in Players, Waits(endpoint[p], backend[p]), Leave(p)
  PROVE  Moves(p)
<1> DEFINE u == endpoint[p]
           s == [u |-> u, backend |-> backend[p]]
           r == DisconnectPlayer(s)
<1>1. Becomes(p, r.u) /\ backend' = [backend EXCEPT ![p] = r.backend] /\ UNCHANGED <<exited, late>>
  BY DEF Leave
<1>2. /\ IsEndpoint(u) /\ u.next_send_seq \in SequenceNumbers
      /\ u.events = <<>> /\ u.out = <<>>
      /\ DOMAIN backend[p] = {"synchronizing", "delivered", "shown"}
  BY EndpointFacts
<1>3. IsPair(s) /\ s.u = u /\ s.backend = backend[p]
  BY <1>2 DEF IsPair, IsEndpoint
<1> HIDE DEF s
<1>4. LeavesAlone(s, r)
  BY <1>3, DisconnectPlayerAlone
<1> HIDE DEF r
<1>5. Does(u, u, 0, 0, LocalStatus(p), Heard(u))
  <2> DEFINE status == LocalStatus(p)
             heard == Heard(u)
  <2>1. heard = Heard(u)
    OBVIOUS
  <2> HIDE DEF u, status, heard
  <2>2. Does(u, u, 0, 0, status, heard)
    BY <1>2, <2>1, DoesNothing DEF heard
  <2> QED BY <2>2 DEF status, heard
<1>6. Emits(u, r.u, 0, LocalStatus(p)) /\ Heard(r.u) = Heard(u) /\ Waits(r.u, r.backend)
  BY <1>3, <1>4, <1>5 DEF LeavesAlone, Does, Emits, AgeOf
<1>7. backend'[p] = r.backend /\ \A x \in Players : x # p => backend'[x] = backend[x]
  BY <1>1 DEF IInv, Shape
<1>8. AtMost(LocalStatus(p), LocalStatus(p)) /\ AtMost(LocalStatus(p), LocalStatus(p)')
  BY StatusFacts, StatusGrows
<1>9. Moved(p, r.u, 0, LocalStatus(p))
  BY <1>1, <1>6, <1>7, <1>8 DEF Moved
<1>10. late' \in [Players -> BOOLEAN] /\ \A x \in Players : late[x] => late'[x]
  BY <1>1 DEF IInv, Shape
<1> QED BY <1>1, <1>7, <1>9, <1>10 DEF Moves
(* A player who runs says that it has the input it sends.                     *)
LEMMA InputStatus ==
  ASSUME IInv, NEW p \in Players, NEW bits \in Bits,
         LET input == [frame |-> FrameCount(p) + FrameDelay[p], bits |-> bits]
         IN  sent' = [sent EXCEPT ![p] = Append(@, input)],
         backend' = backend
  PROVE  LET status == [LocalStatus(p) EXCEPT ![p].last_frame = FrameCount(p) + FrameDelay[p]]
         IN  AtMost(LocalStatus(p), status) /\ AtMost(status, LocalStatus(p)')
<1> DEFINE d == FrameDelay[p]
           S == sent[p]
           input == [frame |-> FrameCount(p) + FrameDelay[p], bits |-> bits]
           S2 == Append(S, input)
           D == backend[p].delivered
           old == LocalStatus(p)
           status == [LocalStatus(p) EXCEPT ![p].last_frame = FrameCount(p) + FrameDelay[p]]
           new == StatusIs(p, S2, endpoint'[p].state, D)
<1>1. /\ SentOK(d, S) /\ Len(S) \in Nat /\ d \in Nat /\ SentOK(FrameDelay[PeerOf(p)], D)
      /\ old = StatusIs(p, S, endpoint[p].state, D)
  BY StatusFacts DEF SentOK
<1>2. input \in AnyInput /\ input.frame = d + Len(S)
  BY <1>1 DEF FrameCount, AnyInput
<1>3. sent'[p] = S2
  BY DEF IInv, Shape
<1>4. LocalStatus(p)' = new
  BY <1>3 DEF LocalStatus, StatusIs
<1>5. \A r \in Players :
          /\ status[r].last_frame = IF r = p THEN d + Len(S) ELSE LastFrame(D)
          /\ old[r].last_frame = IF r = p THEN LastFrame(S) ELSE LastFrame(D)
          /\ new[r].last_frame = IF r = p THEN LastFrame(S2) ELSE LastFrame(D)
  <2>1. status = [r \in Players |->
                    IF r = p THEN [old[p] EXCEPT !.last_frame = FrameCount(p) + FrameDelay[p]]
                    ELSE old[r]]
    BY <1>1 DEF StatusIs
  <2>2. old[p] = [disconnected |-> FALSE, last_frame |-> LastFrame(S)]
    BY <1>1 DEF StatusIs
  <2>3. [old[p] EXCEPT !.last_frame = FrameCount(p) + FrameDelay[p]].last_frame = d + Len(S)
    BY <1>1, <2>2 DEF FrameCount
  <2>4. \A r \in Players : /\ old[r].last_frame = IF r = p THEN LastFrame(S) ELSE LastFrame(D)
                           /\ new[r].last_frame = IF r = p THEN LastFrame(S2) ELSE LastFrame(D)
    BY <1>1 DEF StatusIs
  <2> HIDE DEF old, new
  <2> QED BY <2>1, <2>3, <2>4
<1> HIDE DEF status, old, new, input, S2, S, D
<1>6. SentOK(d, S2) /\ Len(S2) = Len(S) + 1
  BY <1>1, <1>2, AppendExtends DEF S2
<1>7. /\ LastFrame(S) = LastOf(d, S) /\ LastFrame(S2) = LastOf(d, S2)
      /\ LastFrame(S) \in Int /\ LastFrame(S2) \in Int /\ LastFrame(D) \in Int
  BY <1>1, <1>6, LastFrameIs
<1>8. LastFrame(S) <= d + Len(S) /\ LastFrame(S2) = d + Len(S) /\ d + Len(S) \in Int
  BY <1>1, <1>6, <1>7 DEF LastOf, NullFrame
<1>9. LastFrame(D) <= LastFrame(D) /\ d + Len(S) <= d + Len(S)
  BY <1>7, <1>8
<1>10. AtMost(old, status) /\ AtMost(status, new)
  BY <1>5, <1>7, <1>8, <1>9 DEF AtMost
<1> QED BY <1>4, <1>10 DEF old, status

(* A player sends an input, or says what it knows after it disconnected the   *)
(* other one.                                                                 *)
LEMMA SendMoves ==
  ASSUME IInv, [Next]_vars, NEW p \in Players, Waits(endpoint[p], backend[p]),
         NEW bits \in Bits, SendLocalInput(p, bits), SendInputAsserts(endpoint[p])
  PROVE  Moves(p)
<1> DEFINE u == endpoint[p]
           input  == [frame |-> FrameCount(p) + FrameDelay[p], bits |-> bits]
           given == [LocalStatus(p) EXCEPT ![p].last_frame = input.frame]
           status == IF u.state = "disconnected" THEN LocalStatus(p) ELSE given
           w == SendInput(u, input, given)
           heard == Heard(u)
<1>1. /\ Becomes(p, w) /\ ~backend[p].synchronizing
      /\ sent' = IF u.state = "running" THEN [sent EXCEPT ![p] = Append(@, input)] ELSE sent
      /\ UNCHANGED <<backend, exited, late>>
  BY DEF SendLocalInput
<1>2. /\ IsEndpoint(u) /\ u.next_send_seq \in SequenceNumbers
      /\ u.events = <<>> /\ u.out = <<>>
      /\ u.state \in {"syncing", "running", "disconnected"}
  BY EndpointFacts
<1>3. u.state \in {"running", "disconnected"}
  BY <1>1, <1>2 DEF Waits
<1>4. AtMost(LocalStatus(p), status) /\ AtMost(status, LocalStatus(p)')
  <2>1. CASE u.state = "disconnected"
    BY <2>1, StatusFacts, StatusGrows
  <2>2. CASE u.state = "running"
    <3>1. sent' = [sent EXCEPT ![p] = Append(@, input)] /\ backend' = backend
      BY <1>1, <2>2
    <3>2. status = [LocalStatus(p) EXCEPT ![p].last_frame = FrameCount(p) + FrameDelay[p]]
      BY <2>2
    <3> HIDE DEF status
    <3> QED BY <3>1, <3>2, InputStatus
  <2> QED BY <1>3, <2>1, <2>2
<1>5. u.state # "disconnected" => status = given
  OBVIOUS
<1>6. heard = Heard(u)
  OBVIOUS
<1> HIDE DEF status, given, input, heard
<1>7. PICK k \in {0, 1} : Does(u, SendInput(u, input, given), k, 0, status, Heard(u))
  <2> HIDE DEF u
  <2> QED BY <1>2, <1>5, SendInputCounts
<1>8. Emits(u, w, k, status) /\ Heard(w) = Heard(u)
  BY <1>7 DEF Does
<1>9. w.state = u.state
  <2>1. w = u \/ \E v, body : w = SendMsg(v, body) /\ IsEndpoint(v) /\ v.state = u.state
    <3> DEFINE v == IF u.state = "running" THEN [u EXCEPT !.pending = Append(@, input)] ELSE u
    <3>1. w = u \/ w = SendMsg(v, InputMsg(v, given))
      BY DEF SendInput, Saves, SendPendingOutput
    <3>2. IsEndpoint(v) /\ v.state = u.state
      BY <1>2 DEF IsEndpoint, Fields
    <3> HIDE DEF v, w
    <3> QED BY <3>1, <3>2
  <2> HIDE DEF w
  <2>2. CASE w = u
    BY <2>2
  <2>3. ASSUME NEW v, NEW body, w = SendMsg(v, body) /\ IsEndpoint(v) /\ v.state = u.state
        PROVE  w.state = u.state
    <3>1. Changes(v, SendMsg(v, body), {"out", "next_send_seq"})
      BY <2>3, SendMsgDoes
    <3>2. Changes(v, w, {"out", "next_send_seq"})
      BY <2>3, <3>1
    <3> QED BY <2>3, <3>2 DEF Changes, Fields
  <2> QED BY <2>1, <2>2, <2>3
<1> HIDE DEF w
<1>10. Waits(w, backend'[p])
  BY <1>3, <1>9 DEF Waits
<1>11. Moved(p, w, k, status)
  BY <1>1, <1>4, <1>8, <1>10 DEF Moved
<1>12. late' \in [Players -> BOOLEAN] /\ \A x \in Players : late[x] => late'[x]
  BY <1>1 DEF IInv, Shape
<1>13. k \in 0 .. 2
  OBVIOUS
<1> QED BY <1>1, <1>11, <1>12, <1>13 DEF Moves
-----------------------------------------------------------------------------
(* The ASSERTs.                                                               *)

(* There is room for the events of a packet with all that can be pending, a   *)
(* disconnect and the end of an interruption.                                 *)
RoomForEvents ==
    \A p \in Players :
        2 * MAX_PREDICTION_FRAMES + FrameDelay[p] + FrameDelay[PeerOf(p)] + 2 <= RING_SIZE

(* What strengthens the invariant: the reports on their way to p, and that p  *)
(* sends no input before its endpoint runs.                                   *)
ReportInv(p) ==
    LET q == PeerOf(p)
    IN  /\ ReportsOK(endpoint[p], endpoint[q], network[p], LocalStatus(q), late[p])
        /\ Waits(endpoint[p], backend[p])
        /\ exited[p] => late[p]
ReportsInv == \A p \in Players : ReportInv(p)

(* Only the sequence numbers of the sender matter for the ages.               *)
LEMMA SameAges ==
  ASSUME NEW u, NEW v, NEW v2, v2.next_send_seq = v.next_send_seq,
         NEW packets, NEW status, NEW excused, ReportsOK(u, v, packets, status, excused)
  PROVE  ReportsOK(u, v2, packets, status, excused)
  BY DEF ReportsOK, AgeOf

(* A step that is not a failed ASSERT keeps the invariant.                    *)
LEMMA MovesKeep ==
  ASSUME SEQUENCE_NUMBERS > 2, IInv, ReportsInv, [Next]_vars, NEW p \in Players, Moves(p)
  PROVE  ReportsInv'
<1> DEFINE q == PeerOf(p)
           u == endpoint[p]
           v == endpoint[q]
<1>1. q \in Players /\ q # p /\ PeerOf(q) = p /\ \A r \in Players : r = p \/ r = q
  BY PeerOfPeer, PlayersAssumption
<1>2. PICK w : \E status : \E k \in 0 .. 2 : Moved(p, w, k, status)
  BY DEF Moves
<1>3. PICK status : \E k \in 0 .. 2 : Moved(p, w, k, status)
  BY <1>2
<1>4. PICK k \in 0 .. 2 : Moved(p, w, k, status)
  BY <1>3
<1>5. /\ backend'[q] = backend[q] /\ exited' = exited
      /\ late' \in [Players -> BOOLEAN] /\ late \in [Players -> BOOLEAN]
      /\ \A r \in Players : late[r] => late'[r]
  BY <1>1 DEF Moves, IInv, Shape
<1>6. /\ endpoint'[p] = [w EXCEPT !.out = <<>>] /\ endpoint'[q] = v
      /\ network'[p] = network[p]
      /\ \A m \in network'[q] : m \in network[q] \/ m \in ToSet(w.out)
  <2>1. Shape /\ Becomes(p, w)
    BY <1>4 DEF IInv, Moved
  <2> QED BY <2>1, BecomesDoes
<1>7. \A m \in network'[q] : AgeOf(w, m.seq) <= Lifetime
  <2>1. Transmit(p, w)
    BY <1>4 DEF Moved, Becomes
  <2>2. PICK kept \in SUBSET {m \in network[q] \cup ToSet(w.out) : Age(w, m) <= Lifetime} :
           network' = [network EXCEPT ![q] = kept]
    BY <2>1 DEF Transmit
  <2>3. network'[q] = kept
    BY <1>1, <2>2 DEF IInv, Shape
  <2> QED BY <2>2, <2>3 DEF Age, AgeOf
<1>8. /\ IsEndpoint(u) /\ u.next_send_seq \in SequenceNumbers
      /\ u.next_recv_seq \in SequenceNumbers
      /\ \A m \in network[p] : m.seq \in SequenceNumbers
      /\ v.next_send_seq \in SequenceNumbers /\ v.next_recv_seq \in SequenceNumbers
      /\ \A m \in network[q] : m.seq \in SequenceNumbers
  BY <1>1, EndpointFacts DEF PacketOK
<1> DEFINE x == endpoint'[p]
<1>9. Heard(x) = Heard(w) /\ x.next_send_seq = w.next_send_seq /\ x.state = w.state
  BY <1>6 DEF Heard
<1>10. /\ ReportsOK(u, v, network[p], LocalStatus(q), late[p])
       /\ ReportsOK(v, u, network[q], LocalStatus(p), late[q])
       /\ Waits(v, backend[q]) /\ \A r \in Players : exited[r] => late[r]
  BY <1>1 DEF ReportsInv, ReportInv
<1>11. AtMost(LocalStatus(q), LocalStatus(q)')
  BY <1>1, StatusGrows
<1>12. Waits(x, backend'[p]) /\ Waits(v, backend'[q]) /\ \A r \in Players : exited'[r] => late'[r]
  BY <1>4, <1>5, <1>9, <1>10 DEF Moved, Waits
<1> DEFINE old == LocalStatus(q)
           new == LocalStatus(q)'
           own == LocalStatus(p)
           own2 == LocalStatus(p)'
           sending == network[p]
           coming == network[q]
           coming2 == network'[q]
           e == late[p]
           e2 == late'[p]
           f == late[q]
           f2 == late'[q]
<1>13. e \in BOOLEAN /\ e2 \in BOOLEAN /\ f \in BOOLEAN /\ f2 \in BOOLEAN
       /\ (e => e2) /\ (f => f2)
  BY <1>1, <1>5
<1>14. \/ Heard(w) = Heard(u)
       \/ \E m \in sending : /\ Accepts(u, m) /\ Heard(w) = HeardAfter(u, m)
                             /\ e2 \/ ~Overtaken(u, m)
  BY <1>4 DEF Moved
<1>15. /\ Emits(u, w, k, status) /\ AtMost(own, status) /\ AtMost(status, own2)
  BY <1>4 DEF Moved
<1>16. \A m \in coming2 : (m \in coming \/ m \in ToSet(w.out)) /\ AgeOf(w, m.seq) <= Lifetime
  BY <1>6, <1>7
<1> HIDE DEF u, v, x, old, new, own, own2, sending, coming, coming2, e, e2, f, f2
<1>17. ReportsOK(x, v, sending, new, e2)
  <2>1. ReportsOK(u, v, sending, old, e) /\ AtMost(old, new)
    BY <1>10, <1>11 DEF u, v, old, new, e, sending
  <2>2. \A m \in sending : m.seq \in SequenceNumbers
    BY <1>8 DEF sending
  <2>3. CASE Heard(w) = Heard(u)
    <3>1. Heard(x) = Heard(u)
      BY <1>9, <2>3
    <3> QED BY <1>13, <2>1, <3>1, HearingNothing
  <2>4. ASSUME NEW m \in sending, Accepts(u, m), Heard(w) = HeardAfter(u, m),
               e2 \/ ~Overtaken(u, m)
        PROVE  ReportsOK(x, v, sending, new, e2)
    <3>1. ReportsOK(w, v, sending, old, e2)
      BY <1>8, <1>13, <2>1, <2>2, <2>4, HearingKeeps
    <3> QED BY <1>9, <1>13, <2>1, <3>1, HearingNothing
  <2> QED BY <1>14, <2>3, <2>4
<1>18. ReportsOK(v, x, coming2, own2, f2)
  <2>1. ReportsOK(v, u, coming, own, f)
    BY <1>10 DEF u, v, own, f, coming
  <2>2. \A m \in coming : m.seq \in SequenceNumbers
    BY <1>8 DEF coming
  <2>3. ReportsOK(v, w, coming2, own2, f)
    BY <1>8, <1>13, <1>15, <1>16, <2>1, <2>2, SendingKeeps
  <2>4. ReportsOK(v, x, coming2, own2, f)
    BY <1>9, <2>3, SameAges
  <2>5. AtMost(own2, own2)
    BY <1>15, AtMostMore DEF AtMost
  <2> QED BY <1>13, <2>4, <2>5, HearingNothing
<1>19. ReportInv(p)'
  BY <1>6, <1>12, <1>17 DEF ReportInv, x, v, sending, new, e2
<1>20. ReportInv(q)'
  BY <1>1, <1>6, <1>12, <1>18 DEF ReportInv, x, v, coming2, own2, f2
<1> QED BY <1>1, <1>19, <1>20 DEF ReportsInv
(* The pending output is bounded by the barrier, in every state.              *)
LEMMA FewPending ==
  ASSUME IInv, Numbered!IInv, NEW p \in Players
  PROVE  Len(endpoint[p].pending)
            <= 2 * MAX_PREDICTION_FRAMES + FrameDelay[p] + FrameDelay[PeerOf(p)] - 1
<1> DEFINE d == FrameDelay[p]
           e == FrameDelay[PeerOf(p)]
           n == Len(endpoint[p].pending)
           gone == Gone(sent[p], endpoint[p].pending)
<1>1. /\ Count[p] = Len(sent[p]) /\ Len(sent[p]) \in Nat /\ d \in Nat
      /\ First[p] = d + gone /\ gone \in Nat
  BY FlowIs
<1>2. gone + n = Len(sent[p]) /\ n \in Nat
  BY SideFacts, FramesOf
<1>3. MAX_PREDICTION_FRAMES \in Nat \ {0} /\ e \in Nat
  BY PeerOfPeer, SessionAssumption
<1>4. Numbered!PeerOf(p) = PeerOf(p)
  BY DEF Numbered!PeerOf, PeerOf
<1>5. Numbered!Pending(p)
        <= 2 * MAX_PREDICTION_FRAMES + FrameDelay[p] + FrameDelay[Numbered!PeerOf(p)] - 1
  BY Numbered!IInvBoundsPending, PlayersAssumption, SessionAssumption
     DEF Numbered!PlayersAssumption, Numbered!SessionAssumption, Numbered!PendingBounded
<1>6. Numbered!Pending(p)
        = (IF Count[p] = 0 THEN -1 ELSE Count[p] - 1 + d) - First[p] + 1
  BY DEF Numbered!Pending, Numbered!LastSent, Numbered!NullFrame
<1>7. Numbered!Pending(p) <= 2 * MAX_PREDICTION_FRAMES + d + e - 1
  BY <1>4, <1>5
<1> DEFINE c == Count[p]
           first == First[p]
           pending == Numbered!Pending(p)
<1>8. /\ c = Len(sent[p]) /\ first = d + gone
      /\ pending = (IF c = 0 THEN -1 ELSE c - 1 + d) - first + 1
      /\ pending <= 2 * MAX_PREDICTION_FRAMES + d + e - 1
  BY <1>1, <1>6, <1>7
<1> HIDE DEF d, e, n, gone, c, first, pending
<1>9. c \in Nat /\ gone + n = c
  BY <1>1, <1>2, <1>8
<1>10. n <= 2 * MAX_PREDICTION_FRAMES + d + e - 1
  BY <1>1, <1>2, <1>3, <1>8, <1>9
<1> QED BY <1>10 DEF d, e, n

(* So are the inputs of the other player that a packet can bring.             *)
LEMMA FewComing ==
  ASSUME RoomForEvents, IInv, Numbered!IInv, NEW p \in Players
  PROVE  Len(sent[PeerOf(p)]) - Got(p) + 2 <= RING_SIZE - 1
<1> DEFINE q == PeerOf(p)
           T == sent[q]
           n == Len(endpoint[q].pending)
           gone == Gone(T, endpoint[q].pending)
           h == Got(p)
           d == FrameDelay[q]
           e == FrameDelay[p]
<1>1. q \in Players /\ PeerOf(q) = p
  BY PeerOfPeer
<1>2. /\ EndpointOK(q, T, h, sent[p], Got(q), endpoint[q])
      /\ Known(q, T, h, sent[p], Got(q)) /\ h \in Nat
  BY <1>1, SideFacts
<1>3. gone \in Nat /\ n \in Nat /\ gone + n = Len(T) /\ Len(T) \in Nat /\ (gone = 0 \/ gone < h)
  BY <1>2, FramesOf DEF EndpointOK, Acked
<1>4. n <= 2 * MAX_PREDICTION_FRAMES + d + e - 1
  BY <1>1, FewPending
<1>5. 2 * MAX_PREDICTION_FRAMES + d + e + 2 <= RING_SIZE
  BY <1>1 DEF RoomForEvents
<1>6. MAX_PREDICTION_FRAMES \in Nat /\ d \in Nat /\ e \in Nat /\ RING_SIZE \in Nat
  BY <1>1, SessionAssumption, UdpProtocolAssumption
<1> HIDE DEF n, gone, h, d, e, T
<1>7. Len(T) - h <= n
  BY <1>2, <1>3
<1> QED BY <1>2, <1>3, <1>4, <1>5, <1>6, <1>7 DEF T, h

(* A packet that comes to a player who has not taken a late packet of the     *)
(* handshake.                                                                 *)
LEMMA ReceiveHolds ==
  ASSUME RoomForEvents, IInv, Numbered!IInv, ReportsInv, NEW p \in Players, ~late[p],
         NEW m \in network[p], NEW random
  PROVE  OnMsgAsserts(endpoint[p], m, random)
<1> DEFINE q == PeerOf(p)
           S == sent[p]
           T == sent[q]
           g == Got(q)
           h == Got(p)
           u == endpoint[p]
           v == endpoint[q]
           w == OnMsg(u, m, random)
           status == LocalStatus(q)
           packets == network[p]
<1>1. /\ Known(p, S, g, T, h) /\ EndpointOK(p, S, g, T, h, u) /\ u.events = <<>>
      /\ u.out = <<>> /\ Len(T) - h + 2 <= RING_SIZE - 1 /\ h \in Nat
  BY SideFacts, FewComing
<1>2. PacketOK(q, T, h, At(FrameDelay[p], S, g), m) /\ m.seq \in SequenceNumbers
  BY EndpointFacts DEF PacketOK
<1>3. ReportsOK(u, v, packets, status, FALSE)
  <2>1. ReportsOK(u, v, packets, status, late[p])
    BY DEF ReportsInv, ReportInv
  <2> QED BY <2>1 DEF ReportsOK
<1>4. u.next_recv_seq \in SequenceNumbers /\ v.next_send_seq \in SequenceNumbers
  BY EndpointFacts, PeerOfPeer
<1>5. m \in packets
  OBVIOUS
<1>6. RING_SIZE \in Nat
  BY UdpProtocolAssumption
<1> HIDE DEF S, T, g, h, u, v, status, packets
<1>7. /\ \E k \in {0, 1} : Does(u, OnMsg(u, m, random), k, Len(T) - h + 2, status,
                                IF Accepts(u, m) THEN HeardAfter(u, m) ELSE Heard(u))
      /\ m.body.type = "Input" /\ Accepts(u, m) => HearInputsAsserts(u, m.body)
  BY <1>1, <1>2, OnMsgCounts
<1>8. Len(w.events) <= Len(T) - h + 2 /\ IsList(w.events)
  BY <1>7 DEF Does, IsEndpoint
<1> HIDE DEF w
<1>9. Holds(w.events)
  <2>1. Len(w.events) \in Nat
    BY <1>8, ListFacts
  <2>2. Len(T) \in Nat
    BY <1>1, LenProperties DEF Known, SentOK
  <2> QED BY <1>1, <1>6, <1>8, <2>1, <2>2 DEF Holds
<1>10. IsReport(m) /\ Accepts(u, m) => MergeStatusAsserts(u.peer_status, m.body.status)
  <2> SUFFICES ASSUME IsReport(m), Accepts(u, m)
               PROVE  MergeStatusAsserts(u.peer_status, m.body.status)
    OBVIOUS
  <2>1. InOrder(u, m)
    BY DEF Accepts, IsSync, IsReport
  <2> QED BY <1>2, <1>3, <1>4, <1>5, <2>1, MergeHolds
<1>11. OnMsgAsserts(u, m, random)
  BY <1>7, <1>9, <1>10 DEF OnMsgAsserts, OnInputAsserts, IsReport, w
<1> QED BY <1>11 DEF u

(* The timers.                                                                *)
LEMMA PollHolds ==
  ASSUME RoomForEvents, IInv, NEW p \in Players, NEW due, NEW random
  PROVE  /\ Holds(OnLoopPoll(endpoint[p], due, LocalStatus(p), random).events)
         /\ SendPendingOutputAsserts(endpoint[p])
<1> DEFINE u == endpoint[p]
           status == LocalStatus(p)
           w == OnLoopPoll(u, due, status, random)
<1>1. /\ IsEndpoint(u) /\ u.next_send_seq \in SequenceNumbers /\ u.events = <<>> /\ u.out = <<>>
      /\ u.state \in {"syncing", "running"} => u.open
  BY EndpointFacts
<1> HIDE DEF u, status
<1>2. PICK k \in 0 .. 2 : Does(u, OnLoopPoll(u, due, status, random), k, 2, status, Heard(u))
  BY <1>1, OnLoopPollCounts
<1>3. Len(w.events) <= 2 /\ Len(w.events) \in Nat
  BY <1>2, ListFacts DEF Does, IsEndpoint
<1>4. 2 * MAX_PREDICTION_FRAMES + FrameDelay[p] + FrameDelay[PeerOf(p)] + 2 <= RING_SIZE
      /\ MAX_PREDICTION_FRAMES \in Nat \ {0} /\ RING_SIZE \in Nat
      /\ FrameDelay[p] \in Nat /\ FrameDelay[PeerOf(p)] \in Nat
  BY SessionAssumption, UdpProtocolAssumption, PeerOfPeer DEF RoomForEvents
<1> HIDE DEF w
<1>5. Holds(w.events)
  BY <1>3, <1>4 DEF Holds
<1> QED BY <1>5, PendingFollows DEF w, u, status

(* An input.                                                                  *)
LEMMA SendHolds ==
  ASSUME RoomForEvents, IInv, Numbered!IInv, NEW p \in Players,
         endpoint[p].state = "running" => BehindBarrier(p)
  PROVE  SendInputAsserts(endpoint[p])
<1>1. Room
  <2> SUFFICES ASSUME NEW r \in Players
               PROVE  2 * MAX_PREDICTION_FRAMES + FrameDelay[r] + FrameDelay[PeerOf(r)] <= RING_SIZE
    BY DEF Room
  <2>1. 2 * MAX_PREDICTION_FRAMES + FrameDelay[r] + FrameDelay[PeerOf(r)] + 2 <= RING_SIZE
        /\ MAX_PREDICTION_FRAMES \in Nat /\ FrameDelay[r] \in Nat /\ FrameDelay[PeerOf(r)] \in Nat
        /\ RING_SIZE \in Nat
    BY SessionAssumption, UdpProtocolAssumption, PeerOfPeer DEF RoomForEvents
  <2> QED BY <2>1
<1> QED BY <1>1, RoomToSend, PendingFollows DEF SendInputAsserts, Saves

(* A failed ASSERT after a late packet of the handshake.                      *)
LEMMA ExitKeeps ==
  ASSUME IInv, ReportsInv, NEW p \in Players, Exit(p), late[p]
  PROVE  ReportsInv'
<1>1. /\ exited' = [exited EXCEPT ![p] = TRUE]
      /\ UNCHANGED <<endpoint, backend, network, sent, late>>
  BY DEF Exit
<1>2. \A r \in Players : LocalStatus(r)' = LocalStatus(r)
  BY <1>1 DEF LocalStatus
<1> SUFFICES ASSUME NEW r \in Players PROVE ReportInv(r)'
  BY DEF ReportsInv
<1>3. exited'[r] => late'[r]
  BY <1>1 DEF IInv, Shape, ReportsInv, ReportInv
<1>4. PeerOf(r) \in Players /\ ReportInv(r)
  BY PeerOfPeer DEF ReportsInv
<1> QED BY <1>1, <1>2, <1>3, <1>4 DEF ReportInv

(* The invariant is inductive.                                                *)
LEMMA ReportsStep ==
  ASSUME SEQUENCE_NUMBERS > 2, RoomForEvents, IInv, Numbered!IInv, ReportsInv, [Next]_vars
  PROVE  ReportsInv'
<1>1. CASE UNCHANGED vars
  BY <1>1 DEF vars, ReportsInv, ReportInv, LocalStatus
<1>2. CASE Next
  <2>1. PICK p \in Players :
           \/ \E bits \in Bits : SendLocalInput(p, bits)
           \/ Receive(p)
           \/ \E due \in DueTimers[p], random \in Randoms : Poll(p, due, random)
           \/ Leave(p)
    BY <1>2 DEF Next
  <2>2. Waits(endpoint[p], backend[p])
    BY DEF ReportsInv, ReportInv
  <2>3. Moves(p) => ReportsInv'
    BY MovesKeep
  <2>4. ASSUME NEW bits \in Bits, SendLocalInput(p, bits) PROVE Moves(p)
    <3>1. endpoint[p].state = "running" => BehindBarrier(p)
      BY <2>4 DEF SendLocalInput
    <3>2. SendInputAsserts(endpoint[p])
      BY <3>1, SendHolds
    <3> QED BY <2>2, <2>4, <3>2, SendMoves
  <2>5. CASE Receive(p)
    <3>1. PICK m \in network[p], random \in Randoms :
             IF OnMsgAsserts(endpoint[p], m, random)
             THEN /\ HandleEvents(p, OnMsg(endpoint[p], m, random))
                  /\ late' = [late EXCEPT ![p] = @ \/ Overtaken(endpoint[p], m)]
                  /\ UNCHANGED <<sent, exited>>
             ELSE Exit(p)
      BY <2>5 DEF Receive, ReceiveOne
    <3>2. CASE OnMsgAsserts(endpoint[p], m, random)
      BY <2>2, <2>3, <3>1, <3>2, ReceiveMoves
    <3>3. CASE ~OnMsgAsserts(endpoint[p], m, random)
      <4>1. Exit(p)
        BY <3>1, <3>3
      <4>2. late[p]
        BY <3>3, ReceiveHolds
      <4> QED BY <4>1, <4>2, ExitKeeps
    <3> QED BY <3>2, <3>3
  <2>6. ASSUME NEW due, NEW random, Poll(p, due, random) PROVE Moves(p)
    BY <2>2, <2>6, PollHolds, PollMoves DEF Poll
  <2>7. CASE Leave(p)
    BY <2>2, <2>3, <2>7, LeaveMoves
  <2> QED BY <2>1, <2>3, <2>4, <2>5, <2>6, <2>7
<1> QED BY <1>1, <1>2
-----------------------------------------------------------------------------
(* Both ways to start.                                                        *)

(* Nothing has been heard.                                                    *)
HeardNothing == [i \in Players |-> [disconnected |-> FALSE, last_frame |-> NullFrame]]

(* An endpoint that waits for the answer to its first request.                *)
Asks(u, random) ==
    /\ IsEndpoint(u) /\ u.state = "syncing" /\ u.roundtrips = NUM_SYNC_PACKETS
    /\ u.random = random /\ u.peer_status = HeardNothing /\ u.notify_sent = FALSE

LEMMA StartedAsks ==
  ASSUME NEW p \in Players, NEW random
  PROVE  Asks(Synchronize([InitEndpoint(Magic[p], Players)
                             EXCEPT !.next_send_seq = Unanswered[p]], random), random)
<1> DEFINE e == [InitEndpoint(Magic[p], Players) EXCEPT !.next_send_seq = Unanswered[p]]
           c == [e EXCEPT !.random = random]
           body == [type |-> "SyncRequest", random |-> random]
<1>1. DOMAIN e = Fields
  BY DEF InitEndpoint, Fields
<1>2. /\ e.state = "syncing" /\ e.roundtrips = NUM_SYNC_PACKETS /\ e.notify_sent = FALSE
      /\ e.peer_status = HeardNothing /\ e.events = <<>> /\ e.out = <<>>
  BY DEF InitEndpoint, HeardNothing
<1> HIDE DEF e
<1>3. Asks(c, random)
  BY <1>1, <1>2, NoList DEF Asks, IsEndpoint, Fields
<1>4. Synchronize(e, random) = SendMsg(c, body)
  BY DEF Synchronize, SendSyncRequest
<1> HIDE DEF c, body
<1>5. IsEndpoint(SendMsg(c, body)) /\ Changes(c, SendMsg(c, body), {"out", "next_send_seq"})
  BY <1>3, SendMsgDoes DEF Asks
<1>6. Asks(SendMsg(c, body), random)
  BY <1>3, <1>5 DEF Asks, Changes, Fields
<1> QED BY <1>4, <1>6 DEF e

(* The request of the other player changes nothing of this,                   *)
LEMMA AskedAsks ==
  ASSUME NEW u, NEW random, Asks(u, random), NEW m, m.body.type = "SyncRequest", NEW next
  PROVE  Asks(OnMsg(u, m, next), random)
<1> DEFINE a == [u EXCEPT !.next_recv_seq = m.seq]
           body == [type |-> "SyncReply", random |-> m.body.random]
           w == OnMsg(u, m, next)
<1>1. Asks(a, random)
  BY DEF Asks, IsEndpoint, Fields
<1>2. w = Resume(Handle(a, m, next), Handled(u, m))
  BY DEF OnMsg, Accepts, IsSync
<1>3. Handle(a, m, next) = a \/ Handle(a, m, next) = SendMsg(a, body)
  BY DEF Handle, OnSyncRequest
<1> HIDE DEF a, body
<1>4. IsEndpoint(SendMsg(a, body)) /\ Changes(a, SendMsg(a, body), {"out", "next_send_seq"})
  BY <1>1, SendMsgDoes DEF Asks
<1>5. Asks(SendMsg(a, body), random)
  BY <1>1, <1>4 DEF Asks, Changes, Fields
<1> DEFINE x == Handle(a, m, next)
<1> HIDE DEF x
<1>6. Asks(x, random)
  BY <1>1, <1>3, <1>5 DEF x
<1>7. Resume(x, Handled(u, m)) = x
  BY <1>6 DEF Resume, Asks
<1> QED BY <1>2, <1>6, <1>7 DEF x

(* and after the answer nothing has been heard either; one answer is enough   *)
(* if there is only one to come.                                              *)
LEMMA AnsweredHeard ==
  ASSUME NEW u, NEW random, Asks(u, random),
         NEW m, m.body.type = "SyncReply", m.body.random = random, NEW next
  PROVE  LET w == OnMsg(u, m, next)
         IN  /\ w.peer_status = HeardNothing
             /\ NUM_SYNC_PACKETS = 1 => w.state # "syncing"
<1> DEFINE v == [u EXCEPT !.next_recv_seq = m.seq]
           c == [v EXCEPT !.connected = TRUE]
           a == QueueEvent(c, [type |-> "connected"])
           met == IF v.connected THEN v ELSE a
           one == [met EXCEPT !.roundtrips = @ - 1]
           r == [one EXCEPT !.state = "running", !.last_received.frame = NullFrame,
                            !.remote_magic = m.magic]
           e == QueueEvent(one, [type |-> "synchronizing"])
           x == [e EXCEPT !.random = next]
           body == [type |-> "SyncRequest", random |-> next]
           y == QueueEvent(r, [type |-> "synchronized"])
           h == IF one.roundtrips = 0 THEN y ELSE SendMsg(x, body)
           w == OnMsg(u, m, next)
           Same(z) == /\ IsEndpoint(z) /\ z.peer_status = HeardNothing /\ z.notify_sent = FALSE
<1>1. Asks(v, random)
  BY DEF Asks, IsEndpoint, Fields
<1>2. w = Resume(Handle(v, m, next), Handled(u, m))
  BY DEF OnMsg, Accepts, IsSync
<1>3. Handle(v, m, next) = OnSyncReply(v, m, next)
  BY DEF Handle
<1>4. OnSyncReply(v, m, next) = h
  BY <1>1 DEF OnSyncReply, SendSyncRequest, Asks
<1> HIDE DEF v, w
<1>5. Same(met) /\ met.roundtrips = NUM_SYNC_PACKETS
  <2>1. Same(c) /\ c.roundtrips = NUM_SYNC_PACKETS
    BY <1>1 DEF Asks, IsEndpoint, Fields
  <2> HIDE DEF c
  <2>2. IsEndpoint(a) /\ Changes(c, a, {"events"})
    BY <2>1, QueueEventDoes
  <2>3. Same(a) /\ a.roundtrips = NUM_SYNC_PACKETS
    BY <2>1, <2>2 DEF Changes, Fields
  <2> HIDE DEF a
  <2> QED BY <1>1, <2>3 DEF Asks
<1> HIDE DEF met
<1>6. Same(one) /\ one.roundtrips = NUM_SYNC_PACKETS - 1
  BY <1>5 DEF IsEndpoint, Fields
<1> HIDE DEF one
<1>7. Same(y) /\ y.state = "running"
  <2>1. Same(r) /\ r.state = "running"
    BY <1>6 DEF IsEndpoint, Fields
  <2> HIDE DEF r
  <2>2. IsEndpoint(y) /\ Changes(r, y, {"events"})
    BY <2>1, QueueEventDoes
  <2> HIDE DEF y
  <2> QED BY <2>1, <2>2 DEF Changes, Fields
<1>8. Same(SendMsg(x, body))
  <2>1. IsEndpoint(e) /\ Changes(one, e, {"events"})
    BY <1>6, QueueEventDoes
  <2> HIDE DEF e
  <2>2. Same(e)
    BY <1>6, <2>1 DEF Changes, Fields
  <2>3. Same(x)
    BY <2>2 DEF IsEndpoint, Fields
  <2> HIDE DEF x, body
  <2>4. IsEndpoint(SendMsg(x, body)) /\ Changes(x, SendMsg(x, body), {"out", "next_send_seq"})
    BY <2>3, SendMsgDoes
  <2> DEFINE z == SendMsg(x, body)
  <2> HIDE DEF z
  <2>5. z.peer_status = x.peer_status /\ z.notify_sent = x.notify_sent
    BY <2>4 DEF Changes, Fields, z
  <2> QED BY <2>3, <2>4, <2>5 DEF z
<1> HIDE DEF y, x, body, r
<1>9. Same(h) /\ (NUM_SYNC_PACKETS = 1 => h.state = "running")
  BY <1>6, <1>7, <1>8
<1> HIDE DEF h
<1>10. Resume(h, Handled(u, m)) = h
  BY <1>9 DEF Resume
<1>11. w = h
  BY <1>2, <1>3, <1>4, <1>10
<1> QED BY <1>9, <1>11 DEF w

(* Nothing has been heard and nothing is on its way.                          *)
LEMMA InitReports ==
  ASSUME NEW initial, InitWith(initial), IInv, Starts,
         \A p \in Players : /\ DOMAIN initial[p] = Fields
                            /\ initial[p].peer_status = HeardNothing
                            /\ initial[p].state = "syncing" => backend[p].synchronizing
  PROVE  ReportsInv
<1> SUFFICES ASSUME NEW p \in Players PROVE ReportInv(p)
  BY DEF ReportsInv
<1> DEFINE q == PeerOf(p)
           u == initial[p]
<1>1. q \in Players
  BY PeerOfPeer
<1>2. /\ endpoint[p] = [u EXCEPT !.out = <<>>, !.events = <<>>]
      /\ ~exited[p] /\ ~late[p]
  BY DEF InitWith, InitLink
<1>3. endpoint[p].peer_status = HeardNothing /\ endpoint[p].state = u.state
  BY <1>2 DEF Fields
<1>4. \A r \in Players : LocalStatus(q)[r].last_frame = NullFrame
  BY <1>1 DEF Starts, LocalStatus, LastFrame
<1>5. AtMost(endpoint[p].peer_status, LocalStatus(q))
  BY <1>3, <1>4 DEF AtMost, HeardNothing, NullFrame
<1>6. {m \in network[p] : IsReport(m)} = {}
  BY DEF Starts, InputPackets, IsReport
<1>7. ReportsOK(endpoint[p], endpoint[q], network[p], LocalStatus(q), late[p])
  <2> DEFINE reports == {m \in network[p] : IsReport(m)}
  <2>1. reports = {}
    BY <1>6
  <2>2. DOMAIN endpoint[p].peer_status = Players
    BY <1>3 DEF HeardNothing
  <2> QED BY <1>5, <2>1, <2>2 DEF ReportsOK
<1>8. Waits(endpoint[p], backend[p])
  BY <1>3 DEF Waits
<1> QED BY <1>2, <1>7, <1>8 DEF ReportInv

(* Before the handshake.                                                      *)
LEMMA InitReportsOK ==
  ASSUME Init
  PROVE  ReportsInv
<1>1. PICK random \in [Players -> Randoms] : InitWith(Started(random, Players))
  BY DEF Init
<1> DEFINE initial == Started(random, Players)
<1>2. ASSUME NEW p \in Players PROVE Asks(initial[p], random[p])
  BY StartedAsks DEF Started
<1>3. \A p \in Players : backend[p].synchronizing
  BY DEF Init
<1> HIDE DEF initial
<1>4. \A p \in Players : /\ DOMAIN initial[p] = Fields
                         /\ initial[p].peer_status = HeardNothing
                         /\ initial[p].state = "syncing" => backend[p].synchronizing
  BY <1>2, <1>3 DEF Asks, IsEndpoint
<1> QED BY <1>1, <1>4, InitDoes, InitReports DEF initial

(* After the handshake, if one round trip is enough.                          *)
LEMMA InitRunningReportsOK ==
  ASSUME InitRunning, NUM_SYNC_PACKETS = 1
  PROVE  ReportsInv
<1>1. PICK random \in Randoms :
        LET start    == Started([p \in Players |-> random], Players)
            asked    == [p \in Players |-> OnMsg(start[p], start[PeerOf(p)].out[1], random)]
            answered == [p \in Players |-> OnMsg(asked[p], asked[PeerOf(p)].out[2], random)]
        IN  InitWith(answered)
  BY DEF InitRunning
<1> DEFINE start    == Started([p \in Players |-> random], Players)
           asked    == [p \in Players |-> OnMsg(start[p], start[PeerOf(p)].out[1], random)]
           answered == [p \in Players |-> OnMsg(asked[p], asked[PeerOf(p)].out[2], random)]
           request(p) == SyncRequestOf(p, random)
<1>2. ASSUME NEW p \in Players
      PROVE  /\ StartOK(p, start[p]) /\ start[p].state = "syncing"
             /\ start[p].out = Append(<<>>, request(p)) /\ Asks(start[p], random)
  BY StartedDoes, StartedAsks DEF Started
<1>3. \A p \in Players : asked[p] = OnMsg(start[p], start[PeerOf(p)].out[1], random)
  OBVIOUS
<1>4. \A p \in Players : answered[p] = OnMsg(asked[p], asked[PeerOf(p)].out[2], random)
  OBVIOUS
<1>5. InitWith(answered)
  BY <1>1
<1>6. \A p \in Players : /\ request(p).seq \in SequenceNumbers
                         /\ request(p).body.type = "SyncRequest"
                         /\ request(p).body.random = random
  BY LinkAssumption DEF SequenceNumbers, SyncRequestOf
<1> HIDE DEF start, asked, answered, request
<1>7. ASSUME NEW p \in Players
      PROVE  start[p].out[1] = request(p) /\ Len(start[p].out) = 1 /\ IsList(start[p].out)
  <2>1. start[p].out = Append(<<>>, request(p)) /\ IsList(<<>>) /\ Len(<<>>) = 0
    BY <1>2, NoList
  <2>2. /\ IsList(Append(<<>>, request(p)))
        /\ Len(Append(<<>>, request(p))) = Len(<<>>) + 1
        /\ Append(<<>>, request(p))[Len(<<>>) + 1] = request(p)
    BY <2>1, AppendList
  <2> QED BY <2>1, <2>2
<1>8. ASSUME NEW p \in Players
      PROVE  /\ Asks(asked[p], random) /\ StartOK(p, asked[p])
             /\ asked[p].out[2].body.type = "SyncReply"
             /\ asked[p].out[2].body.random = random
             /\ asked[p].out[2].magic = Magic[p] /\ asked[p].out[2].seq \in SequenceNumbers
  <2> DEFINE m == request(PeerOf(p))
             u == start[p]
             w == asked[p]
             r == SyncReplyOf(p, u, m)
  <2>1. /\ w = OnMsg(u, m, random) /\ StartOK(p, u) /\ u.state = "syncing" /\ Asks(u, random)
        /\ m.seq \in SequenceNumbers /\ m.body.type = "SyncRequest" /\ m.body.random = random
        /\ Len(u.out) = 1 /\ IsList(u.out)
    BY <1>2, <1>3, <1>6, <1>7, PeerOfPeer
  <2> HIDE DEF m, u, w
  <2>2. StartOK(p, OnMsg(u, m, random)) /\ OnMsg(u, m, random).out = Append(u.out, r)
    BY <2>1, AskedDoes
  <2>3. w.out = Append(u.out, r) /\ StartOK(p, w)
    BY <2>1, <2>2
  <2>4. /\ r.body.type = "SyncReply" /\ r.body.random = random /\ r.magic = Magic[p]
        /\ r.seq = u.next_send_seq
    BY <2>1 DEF SyncReplyOf
  <2>5. u.next_send_seq \in SequenceNumbers
    BY <2>1 DEF StartOK, EndpointOK, ControlOK
  <2> HIDE DEF r
  <2>6. w.out[2] = r
    <3>1. Append(u.out, r)[Len(u.out) + 1] = r
      BY <2>1, AppendList
    <3>2. Len(u.out) + 1 = 2
      BY <2>1
    <3> QED BY <2>3, <3>1, <3>2
  <2>7. Asks(w, random)
    BY <2>1, AskedAsks
  <2> QED BY <2>3, <2>4, <2>5, <2>6, <2>7 DEF w
<1>9. ASSUME NEW p \in Players
      PROVE  /\ DOMAIN answered[p] = Fields /\ answered[p].peer_status = HeardNothing
             /\ answered[p].state # "syncing"
  <2> DEFINE q == PeerOf(p)
             m == asked[q].out[2]
  <2>1. q \in Players
    BY PeerOfPeer
  <2>2. /\ m.body.type = "SyncReply" /\ m.body.random = random
        /\ m.magic = Magic[q] /\ m.seq \in SequenceNumbers
    BY <1>8, <2>1
  <2>3. answered[p] = OnMsg(asked[p], m, random) /\ Asks(asked[p], random) /\ StartOK(p, asked[p])
    BY <1>4, <1>8
  <2> HIDE DEF m
  <2>4. /\ OnMsg(asked[p], m, random).peer_status = HeardNothing
        /\ OnMsg(asked[p], m, random).state # "syncing"
    BY <2>2, <2>3, AnsweredHeard
  <2>5. StartOK(p, OnMsg(asked[p], m, random))
    BY <2>2, <2>3, AnsweredDoes
  <2> QED BY <2>3, <2>4, <2>5 DEF StartOK, EndpointOK, ControlOK, IsEndpoint
<1> QED BY <1>5, <1>9, InitRunningDoes, InitReports

(* No ASSERT of the protocol fires, whatever the network loses, repeats or    *)
(* reorders, before a packet of the handshake came late; as long as the ring  *)
(* of events has room for what the barrier can leave pending, and packets do  *)
(* not live for half of the sequence numbers. Younger packets never say less  *)
(* of any player's inputs than older ones, and the filter takes no packet     *)
(* older than the last (OnMsg, OnInput, udp_proto.cpp:535 and :550).           *)
THEOREM AssertsNeedLateHandshake ==
    RoomForEvents /\ SEQUENCE_NUMBERS > 2
    => (Spec \/ (NUM_SYNC_PACKETS = 1 /\ RunningSpec) => []AssertsOnlyAfterLateHandshake)
<1> SUFFICES ASSUME RoomForEvents, SEQUENCE_NUMBERS > 2
             PROVE  Spec \/ (NUM_SYNC_PACKETS = 1 /\ RunningSpec)
                    => []AssertsOnlyAfterLateHandshake
  OBVIOUS
<1>1. Init => ReportsInv
  BY InitReportsOK
<1>2. NUM_SYNC_PACKETS = 1 /\ InitRunning => ReportsInv
  BY InitRunningReportsOK
<1>3. IInv /\ Numbered!IInv /\ ReportsInv /\ [Next]_vars => ReportsInv'
  BY ReportsStep
<1>4. ReportsInv => AssertsOnlyAfterLateHandshake
  BY DEF ReportsInv, ReportInv, AssertsOnlyAfterLateHandshake
<1>5. Spec \/ RunningSpec => [](IInv /\ Numbered!IInv)
  BY EndpointsInvariant, FlowInvariant, PTL
<1>6. CASE NUM_SYNC_PACKETS = 1
  <2>1. InitRunning => ReportsInv
    BY <1>2, <1>6
  <2>2. Spec \/ RunningSpec => []AssertsOnlyAfterLateHandshake
    BY <1>1, <2>1, <1>3, <1>4, <1>5, PTL DEF Spec, RunningSpec
  <2> QED BY <2>2
<1>7. CASE NUM_SYNC_PACKETS # 1
  <2>1. Spec => []AssertsOnlyAfterLateHandshake
    BY <1>1, <1>3, <1>4, <1>5, PTL DEF Spec, RunningSpec
  <2> QED BY <1>7, <2>1
<1> QED BY <1>6, <1>7
=============================================================================
