---------------------------- MODULE SpectatorProofs ---------------------------
(***************************************************************************)
(* For any network, any ring, any feed and any length of the spectator's    *)
(* buffer: the theorems about a host and the spectator it feeds.            *)
(*                                                                          *)
(* All is said in terms of three streams: the inputs S the host's endpoint  *)
(* has sent, a beginning of the feed; the first g of them, which the        *)
(* spectator's endpoint has received; and the first h of those, which the   *)
(* spectator has handled, and which are what it acknowledges.  The events   *)
(* that wait at the spectator bring the inputs in between (Brings), its     *)
(* ring has the last of the first h in every slot (RingOK), and what it has *)
(* played is a beginning of them.  First come lists, the operators of an    *)
(* endpoint, the ring and the events of one Pump, then every step of the    *)
(* system, then what follows from the invariant.  The notions of a list, of *)
(* a stream and of a correct packet are those of EndpointsProofs, with any  *)
(* first frame there and frame 0 here; here packets also acknowledge only   *)
(* what has been handled.                                                   *)
(***************************************************************************)
EXTENDS Spectator, FiniteSetTheorems, SequenceTheorems, WellFoundedInduction, TLAPS
-----------------------------------------------------------------------------
(* A set of numbers has a least element.                                      *)
LEMMA LeastNatural ==
  ASSUME NEW S \in SUBSET Nat, S # {}
  PROVE  \E n \in S : \A m \in S : n <= m
<1> DEFINE R == {pair \in Nat \X Nat : pair[1] < pair[2]}
<1>1. IsWellFoundedOn(R, Nat)
  BY NatLessThanWellFounded, Zenon DEF OpToRel
<1>2. PICK n \in S : \A m \in S : <<m, n>> \notin R
  <2> HIDE DEF R
  <2> QED BY <1>1, WFMin
<1>3. \A m \in S : m < n => <<m, n>> \in R
  <2> SUFFICES ASSUME NEW m \in S, m < n PROVE <<m, n>> \in R
    OBVIOUS
  <2>1. <<m, n>> \in Nat \X Nat /\ <<m, n>>[1] < <<m, n>>[2]
    OBVIOUS
  <2> QED BY <2>1
<1>4. \A m \in S : ~ (m < n) => n <= m
  OBVIOUS
<1> QED BY <1>2, <1>3, <1>4

(* Induction up to k.                                                         *)
LEMMA Induction ==
  ASSUME NEW S, NEW k \in Int, 0 \in S, \A n \in Nat : n < k /\ n \in S => n + 1 \in S
  PROVE  \A n \in 0 .. k : n \in S
<1> SUFFICES ASSUME (0 .. k) \ S # {} PROVE FALSE
  OBVIOUS
<1>1. PICK n \in (0 .. k) \ S : \A m \in (0 .. k) \ S : n <= m
  <2>1. (0 .. k) \ S \in SUBSET Nat
    OBVIOUS
  <2> QED BY <2>1, LeastNatural
<1>2. n # 0 /\ n - 1 \in Nat
  BY <1>1
<1>3. n - 1 \in S
  BY <1>1, <1>2
<1> QED
  BY <1>1, <1>2, <1>3
-----------------------------------------------------------------------------
(* Sequences whose elements may be anything.                                  *)
IsList(s) == s \in Seq(ToSet(s))

(* What a list is made of.                                                    *)
LEMMA ListFacts ==
  ASSUME NEW s, IsList(s)
  PROVE  Len(s) \in Nat /\ DOMAIN s = 1 .. Len(s)
  BY DEF IsList

(* The empty list.                                                            *)
LEMMA NoList == IsList(<<>>) /\ ToSet(<<>>) = {} /\ Len(<<>>) = 0
  BY DEF IsList, ToSet

(* A sequence over any set is a list.                                         *)
LEMMA SeqIsList ==
  ASSUME NEW S, NEW s \in Seq(S)
  PROVE  IsList(s) /\ ToSet(s) \subseteq S
<1>1. \A i \in DOMAIN s : s[i] \in ToSet(s)
  BY DEF ToSet
<1>2. s \in [1 .. Len(s) -> ToSet(s)] /\ Len(s) \in Nat
  BY <1>1
<1> QED BY <1>2 DEF IsList, ToSet

(* A part of a list.                                                          *)
LEMMA PartOfList ==
  ASSUME NEW s, IsList(s), NEW m \in Nat \ {0}, NEW n \in 0 .. Len(s), m <= n + 1
  PROVE  LET part == SubSeq(s, m, n)
         IN  /\ IsList(part) /\ Len(part) = n - m + 1
             /\ \A k \in 1 .. n - m + 1 : part[k] = s[m + k - 1]
<1> DEFINE part == SubSeq(s, m, n)
           T == ToSet(s)
<1>1. s \in Seq(T) /\ Len(s) \in Nat /\ n \in Int /\ m \in Int
  BY DEF IsList
<1> HIDE DEF T
<1>2. \A k \in m .. n : k \in 1 .. Len(s)
  BY <1>1
<1>3. \A k \in m .. n : s[k] \in T
  BY <1>1, <1>2, ElementOfSeq
<1>4. /\ part \in Seq(T) /\ Len(part) = (IF m <= n THEN n - m + 1 ELSE 0)
      /\ \A k \in 1 .. n - m + 1 : part[k] = s[m + k - 1]
  BY <1>1, <1>3, SubSeqProperties
<1> HIDE DEF part
<1>5. Len(part) = n - m + 1
  BY <1>1, <1>4
<1>6. IsList(part)
  BY <1>4, SeqIsList
<1> QED BY <1>4, <1>5, <1>6 DEF part

(* A list with one element more.                                              *)
LEMMA AppendList ==
  ASSUME NEW s, IsList(s), NEW x
  PROVE  /\ IsList(Append(s, x)) /\ Len(Append(s, x)) = Len(s) + 1
         /\ ToSet(Append(s, x)) = ToSet(s) \cup {x}
         /\ Append(s, x)[Len(s) + 1] = x
         /\ \A n \in 1 .. Len(s) : Append(s, x)[n] = s[n]
<1> DEFINE S == ToSet(s) \cup {x}
<1>1. s \in Seq(S)
  BY SeqMonotonic DEF IsList
<1>2. /\ Append(s, x) \in Seq(S)
      /\ Len(Append(s, x)) = Len(s) + 1 /\ Len(s) \in Nat
      /\ Append(s, x)[Len(s) + 1] = x
      /\ \A n \in 1 .. Len(s) : Append(s, x)[n] = s[n]
      /\ DOMAIN Append(s, x) = 1 .. Len(s) + 1 /\ DOMAIN s = 1 .. Len(s)
  BY <1>1, AppendProperties
<1> HIDE DEF S
<1>3. ToSet(Append(s, x)) = {Append(s, x)[n] : n \in 1 .. Len(s) + 1}
  BY <1>2 DEF ToSet
<1>4. ToSet(Append(s, x)) = ToSet(s) \cup {x}
  <2>1. \A n \in 1 .. Len(s) + 1 : Append(s, x)[n] \in ToSet(s) \cup {x}
    BY <1>2 DEF ToSet
  <2>2. \A n \in 1 .. Len(s) : s[n] \in {Append(s, x)[m] : m \in 1 .. Len(s) + 1}
    BY <1>2
  <2>3. x \in {Append(s, x)[m] : m \in 1 .. Len(s) + 1}
    BY <1>2
  <2> QED BY <1>2, <1>3, <2>1, <2>2, <2>3 DEF ToSet
<1> QED BY <1>2, <1>4, SeqIsList
-----------------------------------------------------------------------------
(* Records of endpoints.                                                      *)
Fields == {"state", "open", "magic", "remote_magic", "roundtrips", "random",
           "connected", "next_send_seq", "next_recv_seq", "pending", "last_acked",
           "last_received", "peer_status", "notify_sent", "disconnect_event_sent",
           "events", "out"}
Changes(u, w, fs) == DOMAIN w = Fields /\ \A f \in Fields \ fs : w[f] = u[f]

IsEndpoint(u) == DOMAIN u = Fields /\ IsList(u.events) /\ IsList(u.out)

(* SendMsg puts one packet behind those the endpoint has sent.                *)
LEMMA SendMsgDoes ==
  ASSUME NEW u, IsEndpoint(u), NEW body
  PROVE  LET w == SendMsg(u, body)
             m == [magic |-> u.magic, seq |-> u.next_send_seq, body |-> body]
         IN  /\ IsEndpoint(w) /\ Changes(u, w, {"out", "next_send_seq"})
             /\ w.next_send_seq = (u.next_send_seq + 1) % SEQUENCE_NUMBERS
             /\ w.out = Append(u.out, m)
             /\ ToSet(w.out) = ToSet(u.out) \cup {m}
<1> DEFINE m == [magic |-> u.magic, seq |-> u.next_send_seq, body |-> body]
           w == SendMsg(u, body)
<1>1. /\ DOMAIN w = Fields /\ \A f \in Fields \ {"out", "next_send_seq"} : w[f] = u[f]
      /\ w.next_send_seq = (u.next_send_seq + 1) % SEQUENCE_NUMBERS
      /\ w.out = Append(u.out, m)
  BY DEF SendMsg, IsEndpoint, Fields
<1>2. w.events = u.events
  BY <1>1 DEF Fields
<1> HIDE DEF m
<1>3. IsList(Append(u.out, m)) /\ ToSet(Append(u.out, m)) = ToSet(u.out) \cup {m}
  BY AppendList DEF IsEndpoint
<1> HIDE DEF w
<1> QED BY <1>1, <1>2, <1>3 DEF IsEndpoint, Changes, w, m

(* QueueEvent puts one event behind those the backend has not taken.          *)
LEMMA QueueEventDoes ==
  ASSUME NEW u, IsEndpoint(u), NEW event
  PROVE  LET w == QueueEvent(u, event)
         IN  /\ IsEndpoint(w) /\ Changes(u, w, {"events"})
             /\ w.events = Append(u.events, event)
<1> DEFINE w == QueueEvent(u, event)
<1>1. /\ DOMAIN w = Fields /\ \A f \in Fields \ {"events"} : w[f] = u[f]
      /\ w.events = Append(u.events, event)
  BY DEF QueueEvent, IsEndpoint, Fields
<1>2. w.out = u.out
  BY <1>1 DEF Fields
<1>3. IsList(Append(u.events, event))
  BY AppendList DEF IsEndpoint
<1> HIDE DEF w
<1> QED BY <1>1, <1>2, <1>3 DEF IsEndpoint, Changes, w
-----------------------------------------------------------------------------
(* The stream S of the inputs the host has sent, from frame 0 on, of which    *)
(* the spectator has received the first g.                                    *)
AnyInput == [frame : Nat, bits : Bits]
Bit(S, n) == IF n = 0 THEN {} ELSE S[n].bits
At(S, n) == [frame |-> n - 1, bits |-> Bit(S, n)]

SentOK(S) ==
    /\ S \in Seq(AnyInput)
    /\ \A n \in 1 .. Len(S) : S[n].frame = n - 1

Gone(S, pending) == Len(S) - Len(pending)
PendingOK(S, pending, acked) ==
    /\ IsList(pending) /\ Len(pending) <= Len(S)
    /\ \A n \in 1 .. Len(pending) : pending[n] = S[Gone(S, pending) + n]
    /\ acked = At(S, Gone(S, pending))
    /\ Len(S) > 0 => Len(pending) > 0

Carries(S, g, body, i) ==
    /\ i = 0 \/ i < g
    /\ IsList(body.frames) /\ i + Len(body.frames) <= Len(S)
    /\ body.frames # <<>> => body.start = i
    /\ \A n \in 1 .. Len(body.frames) :
          body.frames[n] = Difference(Bit(S, i + n - 1), Bit(S, i + n))
FramesOK(S, g, body) == \E i \in 0 .. Len(S) : Carries(S, g, body, i)

(* A function on 1 .. n is a list of n elements.                              *)
LEMMA FunctionIsList ==
  ASSUME NEW n \in Nat, NEW f, f = [i \in 1 .. n |-> f[i]]
  PROVE  IsList(f) /\ Len(f) = n /\ (n = 0 <=> f = <<>>)
<1> DEFINE T == {f[i] : i \in 1 .. n}
<1>1. f \in [1 .. n -> T]
  OBVIOUS
<1>2. f \in Seq(T) /\ Len(f) = n
  BY <1>1
<1> QED BY <1>2, SeqIsList, EmptySeq

(* Only the empty list has no elements.                                       *)
LEMMA EmptyList ==
  ASSUME NEW s, IsList(s)
  PROVE  s = <<>> <=> Len(s) = 0
  BY EmptySeq DEF IsList

(* What is kept of the n-th input is the input.                               *)
LEMMA AtIsSent ==
  ASSUME NEW S, SentOK(S), NEW n \in 1 .. Len(S)
  PROVE  At(S, n) = S[n]
<1>1. S[n] \in AnyInput /\ S[n].frame = n - 1
  BY ElementOfSeq DEF SentOK
<1>2. S[n] = [frame |-> S[n].frame, bits |-> S[n].bits]
  BY <1>1 DEF AnyInput
<1> QED BY <1>1, <1>2 DEF At, Bit

(* OnInput decodes a packet against the last input it took: what comes out    *)
(* are the inputs that were sent, if the packet starts no later.              *)
LEMMA DecodeIsSent ==
  ASSUME NEW S, SentOK(S), NEW g \in 0 .. Len(S),
         NEW u, u.last_received = At(S, g),
         NEW body, NEW i \in 0 .. Len(S), Carries(S, g, body, i), body.frames # <<>>
  PROVE  /\ Skipped(u, body) = g - i
         /\ Decode(u, body) = [n \in 1 .. i + Len(body.frames) - g |-> S[g + n]]
<1> DEFINE k == i + Len(body.frames) - g
<1>1. /\ Len(S) \in Nat /\ Len(body.frames) \in Nat /\ body.start = i
      /\ k \in Int /\ k = i + Len(body.frames) - g
  BY ListFacts DEF SentOK, Carries
<1> HIDE DEF k
<1>2. Base(u, body) = g - 1 /\ Skipped(u, body) = g - i
  BY <1>1 DEF Base, Skipped, At, NullFrame, Carries
<1> DEFINE fr == body.frames
           D == 0 .. Len(fr) - Skipped(u, body)
           step(r, n) == IF n = 0 THEN [frame |-> Base(u, body), bits |-> u.last_received.bits]
                         ELSE [frame |-> r[n - 1].frame + 1,
                               bits  |-> (r[n - 1].bits \cup fr[Skipped(u, body) + n].on)
                                            \ fr[Skipped(u, body) + n].off]
           f == CHOOSE r : r = [n \in D |-> step(r, n)]
           h == [n \in D |-> [frame |-> g + n - 1, bits |-> Bit(S, g + n)]]
<1>3. Decode(u, body) = [n \in 1 .. Len(fr) - Skipped(u, body) |-> f[n]]
  BY DEF Decode
<1>4. D = 0 .. k /\ 1 .. Len(fr) - Skipped(u, body) = 1 .. k
  BY <1>1, <1>2
<1>5. \A n \in 1 .. k : n + (g - i) \in 1 .. Len(fr)
  BY <1>1 DEF Carries
<1>6. \A r : \A n \in 1 .. k : r[n - 1] = h[n - 1] => step(r, n) = h[n]
  <2> SUFFICES ASSUME NEW r, NEW n \in 1 .. k, r[n - 1] = h[n - 1]
               PROVE  step(r, n) = h[n]
    OBVIOUS
  <2>1. n \in D /\ n - 1 \in D /\ n # 0
    <3> HIDE DEF D
    <3>1. n \in 0 .. k /\ n - 1 \in 0 .. k /\ n # 0
      BY SMTT(30), <1>1
    <3> QED BY <1>4, <3>1
  <2>2. h[n - 1] = [frame |-> g + (n - 1) - 1, bits |-> Bit(S, g + (n - 1))]
    BY <2>1
  <2>3. fr[(g - i) + n] = Difference(Bit(S, g + n - 1), Bit(S, g + n))
    <3>1. (g - i) + n \in 1 .. Len(fr)
      BY SMTT(60), <1>5
    <3>2. i + ((g - i) + n) - 1 = g + n - 1 /\ i + ((g - i) + n) = g + n
      BY <1>1
    <3> QED BY <3>1, <3>2 DEF Carries
  <2>4. /\ r[n - 1].frame + 1 = g + n - 1
        /\ (r[n - 1].bits \cup fr[(g - i) + n].on) \ fr[(g - i) + n].off = Bit(S, g + n)
    <3>1. r[n - 1].bits = Bit(S, g + n - 1)
      BY <1>1, <2>2
    <3>2. fr[(g - i) + n].on = Bit(S, g + n) \ Bit(S, g + n - 1)
          /\ fr[(g - i) + n].off = Bit(S, g + n - 1) \ Bit(S, g + n)
      BY <2>3 DEF Difference
    <3>3. (r[n - 1].bits \cup fr[(g - i) + n].on) \ fr[(g - i) + n].off = Bit(S, g + n)
      BY <3>1, <3>2
    <3>4. r[n - 1].frame = g + (n - 1) - 1
      BY <2>2
    <3>5. g + (n - 1) - 1 + 1 = g + n - 1
      BY <1>1
    <3> HIDE DEF h, D, fr
    <3> QED BY <3>3, <3>4, <3>5
  <2>5. h[n] = [frame |-> g + n - 1, bits |-> Bit(S, g + n)]
    BY <2>1
  <2> HIDE DEF h, D
  <2> QED BY <1>2, <2>1, <2>4, <2>5
<1>7. \A r : step(r, 0) = h[0] \/ k < 0
  BY <1>1, <1>2, <1>4 DEF At
<1>8. h = [n \in D |-> step(h, n)]
  <2>1. \A n \in D : h[n] = step(h, n)
    <3> HIDE DEF h, step, D
    <3> QED BY <1>1, <1>4, <1>6, <1>7
  <2> HIDE DEF step
  <2> QED BY <2>1
<1>9. f = [n \in D |-> step(f, n)]
  <2> HIDE DEF step, h, D
  <2> QED BY <1>8
<1>10. \A n \in 0 .. k : f[n] = h[n]
  <2> DEFINE T == {n \in Nat : n > k \/ f[n] = h[n]}
  <2> HIDE DEF step, h, f, D
  <2>1. \A n \in 0 .. k : f[n] = step(f, n)
    BY <1>4, <1>9
  <2>2. 0 \in T
    BY <1>1, <1>7, <2>1
  <2>3. \A n \in Nat : n < k /\ n \in T => n + 1 \in T
    <3> SUFFICES ASSUME NEW n \in Nat, n < k, f[n] = h[n] PROVE f[n + 1] = h[n + 1]
      BY <1>1
    <3>1. n + 1 \in 1 .. k /\ n + 1 \in 0 .. k /\ (n + 1) - 1 = n
      BY <1>1
    <3> QED BY <1>6, <2>1, <3>1
  <2>4. \A n \in 0 .. k : n \in T
    <3> HIDE DEF T
    <3> QED BY <1>1, <2>2, <2>3, Induction
  <2> QED BY <1>1, <2>4
<1>11. \A n \in 1 .. k : f[n] = S[g + n]
  <2> SUFFICES ASSUME NEW n \in 1 .. k PROVE h[n] = S[g + n]
    <3> HIDE DEF f, h
    <3> QED BY <1>10
  <2>1. g + n \in 1 .. Len(S)
    BY <1>1 DEF Carries
  <2>2. n \in D /\ g + n # 0
    <3> HIDE DEF D
    <3> QED BY <1>4
  <2>3. h[n] = [frame |-> g + n - 1, bits |-> Bit(S, g + n)]
    BY <2>2
  <2>4. g + n - 1 = (g + n) - 1
    BY <1>1
  <2>5. h[n] = At(S, g + n)
    BY <2>2, <2>3, <2>4 DEF At
  <2> QED BY <2>1, <2>5, AtIsSent
<1> QED
  <2> HIDE DEF f, D
  <2> QED BY <1>2, <1>3, <1>4, <1>11 DEF k

(* What a packet carries of the pending output.                               *)
LEMMA InputMsgCarries ==
  ASSUME NEW S, SentOK(S), NEW g \in 0 .. Len(S), NEW u, NEW status,
         PendingOK(S, u.pending, u.last_acked),
         Gone(S, u.pending) = 0 \/ Gone(S, u.pending) < g
  PROVE  LET body == InputMsg(u, status)
         IN  /\ Carries(S, g, body, Gone(S, u.pending)) /\ FramesOK(S, g, body)
             /\ Len(body.frames) = Len(u.pending)
             /\ SendPendingOutputAsserts(u)
<1> DEFINE body == InputMsg(u, status)
           pending == u.pending
           i == Gone(S, pending)
<1>1. /\ Len(S) \in Nat /\ Len(pending) \in Nat /\ i \in 0 .. Len(S)
      /\ DOMAIN pending = 1 .. Len(pending)
  BY ListFacts DEF SentOK, PendingOK, Gone
<1>2. body.frames = Encode(u) /\ body.start = (IF pending = <<>> THEN 0 ELSE pending[1].frame)
  BY DEF InputMsg
<1>3. IsList(Encode(u)) /\ Len(Encode(u)) = Len(pending) /\ (Encode(u) = <<>> <=> pending = <<>>)
  <2>1. Encode(u) = [n \in 1 .. Len(pending) |-> Encode(u)[n]]
    BY <1>1 DEF Encode
  <2>2. pending = <<>> <=> Len(pending) = 0
    BY EmptyList DEF PendingOK
  <2> QED BY <1>1, <2>1, <2>2, FunctionIsList
<1>4. \A n \in 1 .. Len(pending) : Encode(u)[n] = Difference(Bit(S, i + n - 1), Bit(S, i + n))
  <2> SUFFICES ASSUME NEW n \in 1 .. Len(pending)
               PROVE  Encode(u)[n] = Difference(Bit(S, i + n - 1), Bit(S, i + n))
    OBVIOUS
  <2>1. Encode(u)[n] = Difference(IF n = 1 THEN u.last_acked.bits ELSE pending[n - 1].bits,
                                  pending[n].bits)
    BY <1>1 DEF Encode
  <2>2. pending[n] = S[i + n] /\ i + n # 0
    BY <1>1 DEF PendingOK
  <2>3. CASE n = 1
    <3>1. u.last_acked.bits = Bit(S, i) /\ i + n - 1 = i
      BY <1>1, <2>3 DEF PendingOK, At
    <3> QED BY <2>1, <2>2, <2>3, <3>1 DEF Bit
  <2>4. CASE n # 1
    <3>1. n - 1 \in 1 .. Len(pending) /\ i + (n - 1) = i + n - 1 /\ i + n - 1 # 0
      BY <1>1, <2>4
    <3>2. pending[n - 1] = S[i + n - 1]
      BY <3>1 DEF PendingOK
    <3> HIDE DEF pending, i
    <3> QED BY <2>1, <2>2, <2>4, <3>1, <3>2 DEF Bit
  <2> QED BY <2>3, <2>4
<1>5. pending # <<>> => pending[1].frame = i
  <2> SUFFICES ASSUME pending # <<>> PROVE pending[1].frame = i
    OBVIOUS
  <2>1. 1 \in 1 .. Len(pending)
    BY <1>1, EmptyList DEF PendingOK
  <2>2. pending[1] = S[i + 1] /\ i + 1 \in 1 .. Len(S)
    <3>1. pending[1] = S[i + 1]
      BY <2>1 DEF PendingOK
    <3>2. i + Len(pending) = Len(S)
      BY <1>1 DEF Gone
    <3> HIDE DEF pending, i
    <3> QED BY <1>1, <2>1, <3>1, <3>2
  <2> QED BY <1>1, <2>2 DEF SentOK
<1>6. SendPendingOutputAsserts(u)
  BY <1>1, <1>5 DEF SendPendingOutputAsserts, PendingOK, At, NullFrame
<1>7. i + Len(pending) <= Len(S)
  BY <1>1 DEF Gone
<1> HIDE DEF body, pending, i
<1>8. Carries(S, g, body, i)
  BY <1>2, <1>3, <1>4, <1>5, <1>7 DEF Carries, i, pending
<1> QED BY <1>1, <1>2, <1>3, <1>6, <1>8 DEF FramesOK, body, i, pending

(* What an acknowledgement takes away from the pending output.                *)
LEMMA DropDoes ==
  ASSUME NEW S, SentOK(S), NEW g \in 0 .. Len(S), NEW u, IsEndpoint(u),
         PendingOK(S, u.pending, u.last_acked),
         NEW ack \in Int, ack <= At(S, g).frame
  PROVE  LET w == DropAcknowledged(u, ack)
         IN  /\ IsEndpoint(w) /\ Changes(u, w, {"pending", "last_acked"})
             /\ PendingOK(S, w.pending, w.last_acked)
             /\ Gone(S, w.pending) = Max2(Gone(S, u.pending), ack)
<1> DEFINE pending == u.pending
           i == Gone(S, pending)
           c == IF ack > i THEN ack - i ELSE 0
           N == {n \in 0 .. Len(pending) : \A k \in 1 .. n : pending[k].frame < ack}
<1>1. /\ Len(S) \in Nat /\ Len(pending) \in Nat /\ i \in 0 .. Len(S)
      /\ i + Len(pending) = Len(S)
  BY ListFacts DEF SentOK, PendingOK, Gone
<1>2. c \in 0 .. Len(pending) /\ (c # 0 => c < Len(pending))
  BY <1>1 DEF At, NullFrame
<1>3. \A k \in 1 .. Len(pending) : pending[k].frame = i + k - 1
  <2> SUFFICES ASSUME NEW k \in 1 .. Len(pending) PROVE pending[k].frame = i + k - 1
    OBVIOUS
  <2>1. pending[k] = S[i + k] /\ i + k \in 1 .. Len(S)
    BY <1>1 DEF PendingOK
  <2>2. S[i + k].frame = (i + k) - 1
    BY <2>1 DEF SentOK
  <2> QED BY <1>1, <2>1, <2>2
<1>4. \A k \in 1 .. Len(pending) : pending[k].frame < ack <=> k <= c
  <2> HIDE DEF pending, i
  <2> QED BY <1>1, <1>3
<1>5. N = 0 .. c
  <2> HIDE DEF pending, c
  <2> QED BY <1>1, <1>2, <1>4
<1>6. Max(N) = c
  <2>1. c \in 0 .. c /\ \A y \in 0 .. c : c >= y
    BY <1>2
  <2>2. \A x \in 0 .. c : (\A y \in 0 .. c : x >= y) => x = c
    BY <1>2
  <2> HIDE DEF N, c
  <2> QED BY <1>5, <2>1, <2>2 DEF Max
<1> DEFINE gone == SubSeq(pending, 1, c)
           w == DropAcknowledged(u, ack)
<1>7. Acknowledged(u, ack) = gone
  BY <1>6 DEF Acknowledged, OlderThan
<1>8. pending \in Seq(ToSet(pending))
  BY DEF PendingOK, IsList
<1>9. /\ Len(gone) = c /\ (gone = <<>> <=> c = 0)
      /\ \A n \in 1 .. c : gone[n] = pending[n]
  <2> HIDE DEF pending, c
  <2>1. /\ IsList(gone) /\ Len(gone) = c - 1 + 1
        /\ \A n \in 1 .. c - 1 + 1 : gone[n] = pending[1 + n - 1]
    <3>1. IsList(pending) /\ 1 \in Nat \ {0} /\ c \in 0 .. Len(pending) /\ 1 <= c + 1
      BY <1>1, <1>2, <1>8 DEF IsList
    <3> QED BY <3>1, PartOfList
  <2> HIDE DEF gone
  <2> QED BY <1>1, <1>2, <2>1, EmptyList
<1>10. CASE c = 0
  <2>1. w = u
    BY <1>7, <1>9, <1>10 DEF DropAcknowledged
  <2>2. Max2(i, ack) = i
    BY <1>1, <1>10 DEF Max2
  <2> QED BY <2>1, <2>2 DEF Changes, IsEndpoint
<1>11. CASE c # 0
  <2> DEFINE rest == SubSeq(pending, c + 1, Len(pending))
  <2>1. w = [u EXCEPT !.last_acked = gone[Len(gone)], !.pending = SubSeq(@, Len(gone) + 1, Len(@))]
    BY <1>7, <1>9, <1>11 DEF DropAcknowledged
  <2>2. /\ DOMAIN w = Fields /\ w.pending = rest /\ w.last_acked = pending[c]
        /\ \A f \in Fields \ {"pending", "last_acked"} : w[f] = u[f]
    <3>1. gone[Len(gone)] = pending[c]
      BY <1>2, <1>9, <1>11
    <3> HIDE DEF gone, w
    <3> QED BY <2>1, <3>1, <1>9 DEF IsEndpoint, Fields
  <2>3. IsList(rest) /\ Len(rest) = Len(pending) - c
        /\ \A n \in 1 .. Len(pending) - c : rest[n] = pending[c + n]
    <3> HIDE DEF pending, c
    <3>2. /\ IsList(rest) /\ Len(rest) = Len(pending) - (c + 1) + 1
          /\ \A n \in 1 .. Len(pending) - (c + 1) + 1 : rest[n] = pending[(c + 1) + n - 1]
      <4>1. /\ IsList(pending) /\ c + 1 \in Nat \ {0}
            /\ Len(pending) \in 0 .. Len(pending) /\ c + 1 <= Len(pending) + 1
        BY <1>1, <1>2, <1>8 DEF IsList
      <4> QED BY <4>1, PartOfList
    <3> HIDE DEF rest
    <3>3. Len(rest) = Len(pending) - c
      BY <1>1, <1>2, <3>2
    <3>4. \A n \in 1 .. Len(pending) - c : rest[n] = pending[c + n]
      <4> TAKE n \in 1 .. Len(pending) - c
      <4>1. n \in 1 .. Len(pending) - (c + 1) + 1 /\ (c + 1) + n - 1 = c + n
        BY <1>1, <1>2
      <4> QED BY <3>2, <4>1
    <3> QED BY <3>2, <3>3, <3>4
  <2>4. Gone(S, rest) = i + c /\ i + c = ack /\ Max2(i, ack) = ack
    <3>1. Gone(S, rest) = i + c
      <4> HIDE DEF rest, c
      <4> QED BY <1>1, <1>2, <2>3 DEF Gone
    <3> QED BY <3>1, <1>1, <1>11 DEF Max2
  <2>5. \A n \in 1 .. Len(rest) : rest[n] = S[Gone(S, rest) + n]
    <3> TAKE n \in 1 .. Len(rest)
    <3> HIDE DEF rest, c
    <3>1. c + n \in 1 .. Len(pending) /\ i + (c + n) = (i + c) + n /\ n \in 1 .. Len(pending) - c
      BY SMTT(60), <1>1, <1>2, <2>3
    <3>2. pending[c + n] = S[i + (c + n)]
      BY <3>1 DEF PendingOK
    <3> QED BY <2>3, <2>4, <3>1, <3>2
  <2>6. pending[c] = At(S, Gone(S, rest))
    <3> HIDE DEF rest, c
    <3>1. c \in 1 .. Len(pending) /\ i + c \in 1 .. Len(S)
      BY <1>1, <1>2, <1>11
    <3>2. pending[c] = S[i + c]
      BY <3>1 DEF PendingOK
    <3> QED BY <2>4, <3>1, <3>2, AtIsSent
  <2>7. Len(rest) <= Len(S) /\ Len(rest) > 0
    <3> HIDE DEF rest, c
    <3> QED BY <1>1, <1>2, <1>11, <2>3
  <2>8. PendingOK(S, w.pending, w.last_acked)
    <3> HIDE DEF rest, c, w
    <3> QED BY <2>2, <2>3, <2>5, <2>6, <2>7 DEF PendingOK
  <2>9. IsEndpoint(w)
    <3> HIDE DEF w
    <3> QED BY <2>2 DEF IsEndpoint, Fields
  <2> HIDE DEF rest, w, c
  <2> QED BY <2>2, <2>4, <2>8, <2>9 DEF Changes, w
<1> QED BY <1>10, <1>11

(* What a packet adds to the inputs that were received.                       *)
LEMMA HearInputsDoes ==
  ASSUME NEW S, SentOK(S), NEW g \in 0 .. Len(S),
         NEW u, IsEndpoint(u), u.last_received = At(S, g),
         NEW body, NEW i \in 0 .. Len(S), Carries(S, g, body, i)
  PROVE  LET w == HearInputs(u, body)
             k == Max2(0, i + Len(body.frames) - g)
         IN  /\ HearInputsAsserts(u, body)
             /\ IsEndpoint(w) /\ Changes(u, w, {"last_received", "events"})
             /\ g + k \in 0 .. Len(S) /\ w.last_received = At(S, g + k)
             /\ Len(w.events) = Len(u.events) + k
             /\ \A n \in 1 .. Len(u.events) : w.events[n] = u.events[n]
             /\ \A n \in 1 .. k : w.events[Len(u.events) + n]
                                     = [type |-> "input", input |-> S[g + n]]
<1> DEFINE w == HearInputs(u, body)
           r == i + Len(body.frames) - g
           k == Max2(0, r)
           heard == [n \in 1 .. r |-> S[g + n]]
           arrived == [n \in 1 .. r |-> [type |-> "input", input |-> S[g + n]]]
<1>1. /\ Len(S) \in Nat /\ Len(body.frames) \in Nat
      /\ (body.frames = <<>> <=> Len(body.frames) = 0)
      /\ Len(u.events) \in Nat /\ i + Len(body.frames) <= Len(S) /\ (i = 0 \/ i < g)
  BY ListFacts, EmptyList DEF SentOK, Carries, IsEndpoint
<1>2. k \in Nat /\ g + k \in 0 .. Len(S) /\ (k = 0 <=> r <= 0) /\ (r > 0 => k = r)
  BY <1>1 DEF Max2
<1>3. body.frames # <<>> => /\ Skipped(u, body) = g - i
                            /\ Decode(u, body) = heard
  <2>1. r \in Int /\ r = i + Len(body.frames) - g
    BY <1>1
  <2> HIDE DEF r
  <2>2. ASSUME body.frames # <<>>
        PROVE  /\ Skipped(u, body) = g - i
               /\ Decode(u, body) = [n \in 1 .. r |-> S[g + n]]
    BY <2>1, <2>2, DecodeIsSent
  <2> QED BY <2>2
<1>4. HearInputsAsserts(u, body)
  BY <1>1, <1>3 DEF HearInputsAsserts, Skipped, Base, Carries, At, NullFrame
<1>5. r <= 0 => heard = <<>>
  <2> SUFFICES ASSUME r <= 0 PROVE heard = <<>>
    OBVIOUS
  <2>1. 1 .. r = 1 .. 0
    BY <1>1
  <2>2. heard = [n \in 1 .. 0 |-> S[g + n]]
    BY <2>1
  <2>3. heard = [n \in 1 .. 0 |-> heard[n]]
    BY <2>2
  <2> HIDE DEF heard
  <2> QED BY <2>3, FunctionIsList
<1>6. CASE k = 0
  <2>1. w = u
    BY <1>1, <1>2, <1>3, <1>5, <1>6 DEF HearInputs
  <2> HIDE DEF w, k
  <2>2. Changes(u, w, {"last_received", "events"}) /\ g + k = g
    BY <1>6, <2>1 DEF Changes, IsEndpoint
  <2>3. \A n \in 1 .. k : FALSE
    BY <1>6
  <2> QED BY <1>1, <1>2, <1>4, <1>6, <2>1, <2>2, <2>3 DEF w, k
<1>7. CASE k # 0
  <2>1. r = k /\ r \in Nat /\ r > 0 /\ body.frames # <<>>
    <3>1. r \in Int
      BY <1>1
    <3>2. r = k /\ r > 0
      BY <3>1, <1>2, <1>7
    <3>3. Len(body.frames) # 0
      <4> HIDE DEF k
      <4> QED BY <1>1, <3>2
    <3> HIDE DEF r, k
    <3> QED BY <1>1, <3>1, <3>2, <3>3
  <2>2. IsList(heard) /\ Len(heard) = r /\ heard # <<>>
    <3>1. heard = [n \in 1 .. r |-> heard[n]]
      OBVIOUS
    <3> HIDE DEF heard, r
    <3> QED BY <2>1, <3>1, FunctionIsList
  <2>3. IsList(arrived) /\ Len(arrived) = r
    <3>1. arrived = [n \in 1 .. r |-> arrived[n]]
      OBVIOUS
    <3> HIDE DEF arrived, r
    <3> QED BY <2>1, <3>1, FunctionIsList
  <2>4. heard[r] = S[g + r] /\ \A n \in 1 .. r : arrived[n] = [type |-> "input", input |-> S[g + n]]
    <3>1. r \in 1 .. r
      BY <2>1
    <3> HIDE DEF r
    <3> QED BY <3>1
  <2>5. [n \in DOMAIN heard |-> [type |-> "input", input |-> heard[n]]] = arrived
    <3> HIDE DEF r
    <3> QED OBVIOUS
  <2>6. w = [u EXCEPT !.last_received = heard[Len(heard)], !.events = @ \o arrived]
    <3> HIDE DEF heard, arrived
    <3> QED BY <1>3, <2>1, <2>2, <2>5 DEF HearInputs
  <2>7. /\ IsList(u.events \o arrived)
        /\ Len(u.events \o arrived) = Len(u.events) + r
        /\ \A n \in 1 .. Len(u.events) : (u.events \o arrived)[n] = u.events[n]
        /\ \A n \in 1 .. r : (u.events \o arrived)[Len(u.events) + n] = arrived[n]
    <3> DEFINE T == ToSet(u.events) \cup ToSet(arrived)
    <3>1. u.events \in Seq(T) /\ arrived \in Seq(T)
      <4>1. u.events \in Seq(ToSet(u.events)) /\ arrived \in Seq(ToSet(arrived))
        BY <2>3 DEF IsEndpoint, IsList
      <4>2. ToSet(u.events) \subseteq T /\ ToSet(arrived) \subseteq T
        OBVIOUS
      <4> HIDE DEF T, arrived
      <4> QED BY <4>1, <4>2, SeqMonotonic
    <3> HIDE DEF T, arrived, r
    <3>2. /\ u.events \o arrived \in Seq(T)
          /\ Len(u.events \o arrived) = Len(u.events) + Len(arrived)
          /\ \A n \in 1 .. Len(u.events) + Len(arrived) : (u.events \o arrived)[n] =
                IF n <= Len(u.events) THEN u.events[n] ELSE arrived[n - Len(u.events)]
      BY <3>1, ConcatProperties
    <3>3. \A n \in 1 .. r : Len(u.events) + n \in 1 .. Len(u.events) + r
                            /\ (Len(u.events) + n) - Len(u.events) = n
                            /\ ~ (Len(u.events) + n <= Len(u.events))
      BY <1>1, <2>1
    <3>4. \A n \in 1 .. Len(u.events) : n \in 1 .. Len(u.events) + r /\ n <= Len(u.events)
      BY <1>1, <2>1
    <3> QED BY <2>3, <3>2, <3>3, <3>4, SeqIsList
  <2>8. /\ DOMAIN w = Fields /\ w.last_received = heard[Len(heard)]
        /\ w.events = u.events \o arrived
        /\ \A f \in Fields \ {"last_received", "events"} : w[f] = u[f]
    <3> HIDE DEF heard, arrived, w
    <3> QED BY <2>6 DEF IsEndpoint, Fields
  <2>9. S[g + r] = At(S, g + r)
    <3>1. g + r \in 1 .. Len(S)
      BY <1>1, <1>2, <2>1
    <3> QED BY <3>1, AtIsSent
  <2>10. IsEndpoint(w)
    <3> HIDE DEF w, arrived
    <3> QED BY <2>7, <2>8 DEF IsEndpoint, Fields
  <2> HIDE DEF w, k, r, heard, arrived
  <2>11. Changes(u, w, {"last_received", "events"})
    BY <2>8 DEF Changes
  <2>12. w.last_received = At(S, g + k)
    BY <2>1, <2>2, <2>4, <2>8, <2>9
  <2>13. /\ Len(w.events) = Len(u.events) + k
         /\ \A n \in 1 .. Len(u.events) : w.events[n] = u.events[n]
         /\ \A n \in 1 .. k : w.events[Len(u.events) + n] = [type |-> "input", input |-> S[g + n]]
    BY <2>1, <2>4, <2>7, <2>8
  <2> QED BY <1>2, <1>4, <2>10, <2>11, <2>12, <2>13 DEF w, k, r
<1> QED BY <1>6, <1>7
-----------------------------------------------------------------------------
(* The events that wait to be handled.  c[n] is the number of inputs of T     *)
(* that have come before the n-th event is over.                              *)
Counts(T, E, c) ==
    \A n \in 1 .. Len(E) :
        IF E[n].type = "input"
        THEN c[n] = c[n - 1] + 1 /\ c[n] \in 1 .. Len(T) /\ E[n].input = T[c[n]]
        ELSE c[n] = c[n - 1]

(* They bring the inputs from h + 1 to g.                                     *)
Brings(T, h, g, E) ==
    \E c \in [0 .. Len(E) -> Nat] : c[0] = h /\ c[Len(E)] = g /\ Counts(T, E, c)

(* No event brings no input.                                                  *)
LEMMA NoEvents ==
  ASSUME NEW T, NEW h \in Nat
  PROVE  Brings(T, h, h, <<>>)
<1> DEFINE c == [n \in 0 .. Len(<<>>) |-> h]
<1>1. c \in [0 .. Len(<<>>) -> Nat] /\ Len(<<>>) = 0 /\ c[0] = h
  BY NoList
<1>2. Counts(T, <<>>, c)
  BY <1>1 DEF Counts
<1> QED BY <1>1, <1>2 DEF Brings

(* One event more.                                                            *)
LEMMA BringsMore ==
  ASSUME NEW T, NEW h \in Nat, NEW g \in Nat, NEW E, IsList(E), Brings(T, h, g, E),
         NEW event, NEW g2 \in Nat,
         IF event.type = "input"
         THEN g2 = g + 1 /\ g2 \in 1 .. Len(T) /\ event.input = T[g2]
         ELSE g2 = g
  PROVE  Brings(T, h, g2, Append(E, event))
<1> DEFINE F == Append(E, event)
<1>1. /\ Len(F) = Len(E) + 1 /\ Len(E) \in Nat /\ F[Len(E) + 1] = event
      /\ \A n \in 1 .. Len(E) : F[n] = E[n]
  BY AppendList, ListFacts
<1>2. PICK c \in [0 .. Len(E) -> Nat] : c[0] = h /\ c[Len(E)] = g /\ Counts(T, E, c)
  BY DEF Brings
<1> HIDE DEF F
<1> DEFINE d == [n \in 0 .. Len(F) |-> IF n = Len(F) THEN g2 ELSE c[n]]
<1>3. /\ d \in [0 .. Len(F) -> Nat] /\ d[0] = h /\ d[Len(F)] = g2
      /\ \A n \in 0 .. Len(E) : d[n] = c[n]
  BY <1>1, <1>2
<1> HIDE DEF d
<1>4. ASSUME NEW n \in 1 .. Len(F)
      PROVE  IF F[n].type = "input"
             THEN d[n] = d[n - 1] + 1 /\ d[n] \in 1 .. Len(T) /\ F[n].input = T[d[n]]
             ELSE d[n] = d[n - 1]
  <2>1. CASE n = Len(F)
    <3>1. F[n] = event /\ n - 1 = Len(E) /\ n - 1 \in 0 .. Len(E)
      BY <1>1, <2>1
    <3>2. d[n] = g2 /\ d[n - 1] = g
      BY <1>2, <1>3, <2>1, <3>1
    <3> QED BY <3>1, <3>2
  <2>2. CASE n # Len(F)
    <3>1. n \in 1 .. Len(E) /\ n \in 0 .. Len(E) /\ n - 1 \in 0 .. Len(E)
      BY <1>1, <2>2
    <3>2. F[n] = E[n] /\ d[n] = c[n] /\ d[n - 1] = c[n - 1]
      BY <1>1, <1>3, <3>1
    <3> QED BY <1>2, <3>1, <3>2 DEF Counts
  <2> QED BY <2>1, <2>2
<1>5. Counts(T, F, d)
  BY <1>4 DEF Counts
<1> QED BY <1>3, <1>5 DEF Brings, F

(* Several inputs more.                                                       *)
LEMMA BringsInputs ==
  ASSUME NEW T, Len(T) \in Nat, NEW h \in Nat, NEW g \in Nat, NEW E, IsList(E),
         Brings(T, h, g, E), NEW k \in Nat, g + k <= Len(T),
         NEW F, IsList(F), Len(F) = Len(E) + k,
         \A n \in 1 .. Len(E) : F[n] = E[n],
         \A n \in 1 .. k : F[Len(E) + n] = [type |-> "input", input |-> T[g + n]]
  PROVE  Brings(T, h, g + k, F)
<1>1. Len(E) \in Nat
  BY ListFacts
<1>2. PICK c \in [0 .. Len(E) -> Nat] : c[0] = h /\ c[Len(E)] = g /\ Counts(T, E, c)
  BY DEF Brings
<1> DEFINE d == [n \in 0 .. Len(F) |-> IF n <= Len(E) THEN c[n] ELSE g + (n - Len(E))]
<1>3. /\ d \in [0 .. Len(F) -> Nat] /\ d[0] = h
      /\ \A n \in 0 .. Len(E) : d[n] = c[n]
      /\ \A n \in 0 .. k : d[Len(E) + n] = g + n
  <2>1. \A n \in 0 .. Len(F) : d[n] \in Nat
    BY <1>1, <1>2
  <2>2. \A n \in 0 .. Len(E) : n \in 0 .. Len(F) /\ n <= Len(E)
    BY <1>1
  <2>3. \A n \in 0 .. k : d[Len(E) + n] = g + n
    <3> TAKE n \in 0 .. k
    <3>1. Len(E) + n \in 0 .. Len(F) /\ (Len(E) + n <= Len(E) => n = 0)
          /\ (Len(E) + n) - Len(E) = n /\ Len(E) + 0 = Len(E)
      BY <1>1
    <3>2. d[Len(E) + n] = IF Len(E) + n <= Len(E) THEN c[Len(E) + n]
                          ELSE g + ((Len(E) + n) - Len(E))
      BY <3>1
    <3> HIDE DEF d
    <3>3. CASE Len(E) + n <= Len(E)
      BY <1>1, <1>2, <3>1, <3>2, <3>3
    <3>4. CASE ~(Len(E) + n <= Len(E))
      BY <3>1, <3>2, <3>4
    <3> QED BY <3>3, <3>4
  <2> QED BY <1>1, <1>2, <2>1, <2>2, <2>3
<1> HIDE DEF d
<1>4. d[Len(F)] = g + k
  BY <1>3
<1>5. ASSUME NEW n \in 1 .. Len(F)
      PROVE  IF F[n].type = "input"
             THEN d[n] = d[n - 1] + 1 /\ d[n] \in 1 .. Len(T) /\ F[n].input = T[d[n]]
             ELSE d[n] = d[n - 1]
  <2>1. CASE n \in 1 .. Len(E)
    <3>1. n \in 0 .. Len(E) /\ n - 1 \in 0 .. Len(E)
      BY <1>1, <2>1
    <3>2. F[n] = E[n] /\ d[n] = c[n] /\ d[n - 1] = c[n - 1]
      BY <1>3, <2>1, <3>1
    <3> QED BY <1>2, <2>1, <3>2 DEF Counts
  <2>2. CASE n \notin 1 .. Len(E)
    <3> DEFINE m == n - Len(E)
    <3>1. /\ m \in 1 .. k /\ m \in 0 .. k /\ m - 1 \in 0 .. k
          /\ n = Len(E) + m /\ n - 1 = Len(E) + (m - 1)
      BY <1>1, <2>2
    <3> HIDE DEF m
    <3>2. F[n] = [type |-> "input", input |-> T[g + m]] /\ d[n] = g + m /\ d[n - 1] = g + (m - 1)
      BY <1>3, <3>1
    <3>3. F[n].type = "input" /\ F[n].input = T[d[n]]
      BY <3>2
    <3>4. d[n] = d[n - 1] + 1 /\ d[n] \in 1 .. Len(T)
      BY <3>1, <3>2
    <3> QED BY <3>3, <3>4
  <2> QED BY <2>1, <2>2
<1>6. Counts(T, F, d)
  BY <1>5 DEF Counts
<1> QED BY <1>3, <1>4, <1>6 DEF Brings

(* The number of events with inputs.                                          *)
LEMMA BringsAsMany ==
  ASSUME NEW T, NEW h \in Nat, NEW g \in Nat, NEW E, IsList(E), Brings(T, h, g, E)
  PROVE  LET queued == {n \in DOMAIN E : E[n].type = "input"}
         IN  h <= g /\ Cardinality(queued) = g - h
<1> DEFINE Q(k) == {n \in 1 .. k : E[n].type = "input"}
<1>1. Len(E) \in Nat /\ DOMAIN E = 1 .. Len(E)
  BY ListFacts
<1>2. PICK c \in [0 .. Len(E) -> Nat] : c[0] = h /\ c[Len(E)] = g /\ Counts(T, E, c)
  BY DEF Brings
<1> DEFINE G == {k \in Nat : k > Len(E) \/
                    (IsFiniteSet(Q(k)) /\ Cardinality(Q(k)) = c[k] - h /\ h <= c[k])}
<1>3. 0 \in G
  <2>1. Q(0) = {}
    OBVIOUS
  <2>2. IsFiniteSet(Q(0)) /\ Cardinality(Q(0)) = 0
    BY <2>1, FS_EmptySet
  <2> HIDE DEF Q
  <2>3. c[0] - h = 0 /\ h <= c[0]
    BY <1>2
  <2> QED BY <2>2, <2>3
<1>4. ASSUME NEW k \in Nat, k < Len(E), k \in G
      PROVE  k + 1 \in G
  <2>1. IsFiniteSet(Q(k)) /\ Cardinality(Q(k)) = c[k] - h /\ h <= c[k]
    <3> HIDE DEF Q
    <3> QED BY <1>1, <1>4
  <2>2. /\ k + 1 \in 1 .. Len(E) /\ (k + 1) - 1 = k /\ c[k] \in Nat /\ c[k + 1] \in Nat
        /\ k + 1 \notin 1 .. k /\ 1 .. k + 1 = (1 .. k) \cup {k + 1}
    BY <1>1, <1>2, <1>4
  <2>3. CASE E[k + 1].type = "input"
    <3>1. Q(k + 1) = Q(k) \cup {k + 1} /\ k + 1 \notin Q(k)
      BY <2>2, <2>3
    <3>2. c[k + 1] = c[k] + 1
      BY <1>2, <2>2, <2>3 DEF Counts
    <3> HIDE DEF Q
    <3>3. /\ IsFiniteSet(Q(k) \cup {k + 1})
          /\ Cardinality(Q(k) \cup {k + 1}) = Cardinality(Q(k)) + 1
      BY <2>1, <3>1, FS_AddElement
    <3>4. Cardinality(Q(k + 1)) = (c[k] - h) + 1 /\ h <= c[k]
      BY <2>1, <3>1, <3>3
    <3>5. (c[k] - h) + 1 = c[k + 1] - h /\ h <= c[k + 1]
      BY <2>1, <2>2, <3>2
    <3>6. IsFiniteSet(Q(k + 1)) /\ Cardinality(Q(k + 1)) = c[k + 1] - h
      BY <3>1, <3>3, <3>4, <3>5
    <3> QED BY <3>5, <3>6
  <2>4. CASE E[k + 1].type # "input"
    <3>1. Q(k + 1) = Q(k)
      BY <2>2, <2>4
    <3>2. c[k + 1] = c[k]
      BY <1>2, <2>2, <2>4 DEF Counts
    <3> HIDE DEF Q
    <3> QED BY <2>1, <3>1, <3>2
  <2> QED BY <2>3, <2>4
<1> HIDE DEF Q
<1>5. \A k \in 0 .. Len(E) : k \in G
  <2>1. \A k \in Nat : k < Len(E) /\ k \in G => k + 1 \in G
    BY <1>4
  <2>2. Len(E) \in Int
    BY <1>1
  <2> HIDE DEF G
  <2> QED BY <1>3, <2>1, <2>2, Induction
<1>6. Cardinality(Q(Len(E))) = g - h /\ h <= g
  BY <1>1, <1>2, <1>5
<1> QED BY <1>1, <1>6 DEF Q
-----------------------------------------------------------------------------
(* The endpoint of p, which has sent S, of which the other end has handled a, *)
(* and has received g of the inputs T of the other end and handled h; what it *)
(* sends acknowledges less than b.                                            *)
SequenceNumbers == 0 .. SEQUENCE_NUMBERS - 1

PacketOK(p, S, a, b, m) ==
    /\ m.magic = Magic[p] /\ m.seq \in SequenceNumbers
    /\ m.body.type = "Input" => FramesOK(S, a, m.body)
    /\ m.body.type \in {"Input", "InputAck"} => m.body.ack \in Int /\ m.body.ack < b

ControlOK(p, g, u) ==
    /\ IsEndpoint(u) /\ u.magic = Magic[p]
    /\ u.state \in {"syncing", "running", "disconnected"}
    /\ u.next_send_seq \in SequenceNumbers /\ u.next_recv_seq \in SequenceNumbers
    /\ u.roundtrips \in 0 .. NUM_SYNC_PACKETS
    /\ u.remote_magic \in {0, Magic[PeerOf(p)]}
    /\ u.state = "syncing" => /\ u.remote_magic = 0 /\ u.roundtrips # 0 /\ g = 0
                              /\ \A n \in 1 .. Len(u.events) :
                                    u.events[n].type # "synchronized"
    /\ u.state # "disconnected" => u.open

Acked(S, a, u) ==
    /\ PendingOK(S, u.pending, u.last_acked)
    /\ Gone(S, u.pending) = 0 \/ Gone(S, u.pending) < a

EndOK(p, S, a, T, h, b, g, u) ==
    /\ ControlOK(p, g, u)
    /\ Acked(S, a, u)
    /\ u.last_received = At(T, g) /\ Brings(T, h, g, u.events)
    /\ \A m \in ToSet(u.out) : PacketOK(p, S, a, b, m)

(* What is said of an endpoint and does not change while it is called.        *)
Known(p, S, a, T, h, b, g) ==
    /\ p \in Players
    /\ SentOK(S) /\ a \in 0 .. Len(S)
    /\ SentOK(T) /\ g \in 0 .. Len(T) /\ h \in 0 .. g /\ b \in Nat

(* An endpoint runs when it has synchronized, and a call does nothing else to *)
(* its state.                                                                 *)
Moves(u, w) == w.state = u.state \/ (u.state = "syncing" /\ w.state = "running")

(* There is one other end.                                                    *)
LEMMA PeerOfPeer ==
    \A p \in Players : PeerOf(p) \in Players /\ PeerOf(p) # p /\ PeerOf(PeerOf(p)) = p
  BY PlayersAssumption DEF PeerOf

(* _next_send_seq and _next_recv_seq are 16 bits wide.                        *)
LEMMA NextSequenceNumber ==
  ASSUME NEW n \in SequenceNumbers
  PROVE  (n + 1) % SEQUENCE_NUMBERS \in SequenceNumbers
  BY UdpProtocolAssumption DEF SequenceNumbers

(* An endpoint may send anything that is no input and acknowledges none,      *)
LEMMA SendKeeps ==
  ASSUME NEW p, NEW S, NEW a, NEW T, NEW h, NEW b, NEW g, NEW u,
         EndOK(p, S, a, T, h, b, g, u), NEW body,
         body.type = "Input" => FramesOK(S, a, body),
         body.type \in {"Input", "InputAck"} => body.ack \in Int /\ body.ack < b
  PROVE  LET w == SendMsg(u, body)
         IN  /\ EndOK(p, S, a, T, h, b, g, w) /\ w.state = u.state
             /\ Changes(u, w, {"out", "next_send_seq"})
<1> DEFINE w == SendMsg(u, body)
           m == [magic |-> u.magic, seq |-> u.next_send_seq, body |-> body]
<1>1. /\ IsEndpoint(w) /\ Changes(u, w, {"out", "next_send_seq"})
      /\ w.next_send_seq = (u.next_send_seq + 1) % SEQUENCE_NUMBERS
      /\ ToSet(w.out) = ToSet(u.out) \cup {m}
  BY SendMsgDoes DEF EndOK, ControlOK
<1>2. PacketOK(p, S, a, b, m)
  BY DEF EndOK, ControlOK, PacketOK
<1> HIDE DEF w, m
<1>3. ControlOK(p, g, w) /\ w.state = u.state
  BY <1>1, NextSequenceNumber DEF EndOK, ControlOK, Changes, Fields
<1>4. /\ w.pending = u.pending /\ w.last_acked = u.last_acked
      /\ w.last_received = u.last_received /\ w.events = u.events
  BY <1>1 DEF Changes, Fields
<1>5. Acked(S, a, w)
  BY <1>4 DEF EndOK, Acked
<1> QED BY <1>1, <1>2, <1>3, <1>4, <1>5 DEF EndOK, w

(* queue any event but an input,                                              *)
LEMMA QueueKeeps ==
  ASSUME NEW p, NEW S, NEW a, NEW T, NEW h, NEW b, NEW g, Known(p, S, a, T, h, b, g), NEW u,
         EndOK(p, S, a, T, h, b, g, u), NEW event, event.type # "input",
         event.type = "synchronized" => u.state # "syncing"
  PROVE  LET w == QueueEvent(u, event)
         IN  /\ EndOK(p, S, a, T, h, b, g, w) /\ w.state = u.state
             /\ Changes(u, w, {"events"})
<1> DEFINE w == QueueEvent(u, event)
<1>1. /\ IsEndpoint(w) /\ Changes(u, w, {"events"}) /\ w.events = Append(u.events, event)
      /\ IsEndpoint(u) /\ IsList(u.events)
  BY QueueEventDoes DEF EndOK, ControlOK, IsEndpoint
<1> HIDE DEF w
<1>2. /\ w.state = u.state /\ w.magic = u.magic /\ w.next_send_seq = u.next_send_seq
      /\ w.next_recv_seq = u.next_recv_seq /\ w.roundtrips = u.roundtrips
      /\ w.remote_magic = u.remote_magic /\ w.open = u.open /\ w.pending = u.pending
      /\ w.last_acked = u.last_acked /\ w.last_received = u.last_received /\ w.out = u.out
  BY <1>1 DEF Changes, Fields
<1>3. /\ Len(w.events) = Len(u.events) + 1 /\ w.events[Len(u.events) + 1] = event
      /\ Len(u.events) \in Nat /\ \A n \in 1 .. Len(u.events) : w.events[n] = u.events[n]
  BY <1>1, AppendList, ListFacts
<1>4. u.state = "syncing" => \A n \in 1 .. Len(w.events) : w.events[n].type # "synchronized"
  <2> SUFFICES ASSUME u.state = "syncing", NEW n \in 1 .. Len(w.events)
               PROVE  w.events[n].type # "synchronized"
    OBVIOUS
  <2>1. n \in 1 .. Len(u.events) \/ n = Len(u.events) + 1
    BY <1>3
  <2> QED BY <1>3, <2>1 DEF EndOK, ControlOK
<1>5. ControlOK(p, g, w)
  BY <1>1, <1>2, <1>4 DEF EndOK, ControlOK
<1>6. Brings(T, h, g, w.events)
  <2>1. g \in Nat /\ h \in Nat
    BY DEF Known, SentOK
  <2> QED BY <1>1, <2>1, BringsMore DEF EndOK
<1>7. Acked(S, a, w)
  BY <1>2 DEF EndOK, Acked
<1> QED BY <1>1, <1>2, <1>5, <1>6, <1>7 DEF EndOK, w

(* and send its pending output when it has handled what it received.          *)
LEMMA SendPendingKeeps ==
  ASSUME NEW p, NEW S, NEW a, NEW T, NEW h, NEW b, NEW g, Known(p, S, a, T, h, b, g), NEW u,
         EndOK(p, S, a, T, h, b, g, u), g <= b, NEW status
  PROVE  LET w == SendPendingOutput(u, status)
         IN  /\ EndOK(p, S, a, T, h, b, g, w) /\ w.state = u.state
             /\ Changes(u, w, {"out", "next_send_seq"})
<1> DEFINE body == InputMsg(u, status)
<1>1. FramesOK(S, a, body)
  BY InputMsgCarries DEF Known, EndOK, Acked
<1>2. body.ack = u.last_received.frame
  BY DEF InputMsg
<1>3. u.last_received.frame = g - 1 /\ g \in Nat /\ b \in Nat
  BY DEF Known, EndOK, At, SentOK
<1> HIDE DEF body
<1>4. body.ack \in Int /\ body.ack < b
  BY <1>2, <1>3
<1> DEFINE w == SendMsg(u, body)
<1>5. /\ EndOK(p, S, a, T, h, b, g, w) /\ w.state = u.state
      /\ Changes(u, w, {"out", "next_send_seq"})
  BY <1>1, <1>4, SendKeeps
<1> QED BY <1>5 DEF SendPendingOutput, body

(* Most fields say nothing of the inputs.                                     *)
OtherFields == {"random", "connected", "next_recv_seq", "peer_status", "notify_sent",
                "disconnect_event_sent"}
LEMMA OtherFieldsKeep ==
  ASSUME NEW p, NEW S, NEW a, NEW T, NEW h, NEW b, NEW g, NEW u,
         EndOK(p, S, a, T, h, b, g, u), NEW w, Changes(u, w, OtherFields),
         w.next_recv_seq \in SequenceNumbers
  PROVE  EndOK(p, S, a, T, h, b, g, w) /\ w.state = u.state
<1>1. /\ w.state = u.state /\ w.magic = u.magic /\ w.next_send_seq = u.next_send_seq
      /\ w.roundtrips = u.roundtrips /\ w.remote_magic = u.remote_magic
      /\ w.open = u.open /\ w.pending = u.pending /\ w.last_acked = u.last_acked
      /\ w.last_received = u.last_received /\ w.out = u.out /\ w.events = u.events
      /\ DOMAIN w = Fields
  BY DEF Changes, Fields, OtherFields
<1>2. IsEndpoint(w)
  BY <1>1 DEF EndOK, ControlOK, IsEndpoint
<1>3. ControlOK(p, g, w)
  BY <1>1, <1>2 DEF EndOK, ControlOK
<1>4. Acked(S, a, w)
  BY <1>1 DEF EndOK, Acked
<1> QED BY <1>1, <1>3, <1>4 DEF EndOK

(* The handshake does not touch the inputs.                                   *)
LEMMA OnSyncReplyKeeps ==
  ASSUME NEW p, NEW S, NEW a, NEW T, NEW h, NEW b, NEW g, Known(p, S, a, T, h, b, g), NEW u,
         EndOK(p, S, a, T, h, b, g, u), NEW m, m.magic = Magic[PeerOf(p)], NEW random
  PROVE  LET w == OnSyncReply(u, m, random)
         IN  EndOK(p, S, a, T, h, b, g, w) /\ Moves(u, w)
<1> DEFINE w == OnSyncReply(u, m, random)
           c == [u EXCEPT !.connected = TRUE]
           met == IF u.connected THEN u ELSE QueueEvent(c, [type |-> "connected"])
           one == [met EXCEPT !.roundtrips = @ - 1]
<1>1. CASE u.state # "syncing" \/ m.body.random # u.random
  BY <1>1 DEF OnSyncReply, Moves
<1>2. CASE ~ (u.state # "syncing" \/ m.body.random # u.random)
  <2>1. EndOK(p, S, a, T, h, b, g, c) /\ c.state = u.state
    <3>1. Changes(u, c, OtherFields) /\ c.next_recv_seq \in SequenceNumbers
      BY DEF EndOK, ControlOK, IsEndpoint, Changes, Fields, OtherFields
    <3> HIDE DEF c
    <3> QED BY <3>1, OtherFieldsKeep
  <2> DEFINE e1 == [type |-> "connected"]
  <2>2. e1.type # "input" /\ e1.type # "synchronized"
    OBVIOUS
  <2>3. EndOK(p, S, a, T, h, b, g, met) /\ met.state = "syncing"
    <3> HIDE DEF c, e1
    <3>1. EndOK(p, S, a, T, h, b, g, QueueEvent(c, e1)) /\ QueueEvent(c, e1).state = c.state
      BY <2>1, <2>2, QueueKeeps
    <3> QED BY <1>2, <2>1, <3>1 DEF e1
  <2> HIDE DEF met, c
  <2>4. /\ DOMAIN met = Fields /\ met.roundtrips \in 1 .. NUM_SYNC_PACKETS /\ g = 0 /\ met.open
        /\ IsList(met.events) /\ IsList(met.out)
    BY <2>3, UdpProtocolAssumption DEF EndOK, ControlOK, IsEndpoint
  <2>5. /\ DOMAIN one = Fields /\ one.roundtrips = met.roundtrips - 1
        /\ \A f \in Fields \ {"roundtrips"} : one[f] = met[f]
    BY <2>4 DEF Fields
  <2> HIDE DEF one
  <2>6. one.roundtrips \in 0 .. NUM_SYNC_PACKETS
    BY <2>4, <2>5, UdpProtocolAssumption
  <2>7. /\ one.state = met.state /\ one.open = met.open /\ one.magic = met.magic
        /\ one.remote_magic = met.remote_magic /\ one.next_send_seq = met.next_send_seq
        /\ one.next_recv_seq = met.next_recv_seq /\ one.events = met.events
        /\ one.out = met.out /\ one.pending = met.pending
        /\ one.last_acked = met.last_acked /\ one.last_received = met.last_received
    BY <2>5 DEF Fields
  <2>8. CASE one.roundtrips = 0
    <3> DEFINE r == [one EXCEPT !.state = "running", !.last_received.frame = NullFrame,
                                !.remote_magic = m.magic]
               e == [type |-> "synchronized"]
    <3>1. w = QueueEvent(r, e)
      BY <1>2, <2>8 DEF OnSyncReply, one, met, c
    <3>2. /\ DOMAIN r = Fields /\ r.state = "running" /\ r.remote_magic = m.magic
          /\ r.last_received = [one.last_received EXCEPT !.frame = NullFrame]
          /\ \A f \in Fields \ {"state", "last_received", "remote_magic"} : r[f] = one[f]
      BY <2>5 DEF Fields
    <3>3. r.last_received = one.last_received
      <4>1. one.last_received = At(T, 0)
        BY <2>3, <2>4, <2>7 DEF EndOK
      <4> QED BY <3>2, <4>1 DEF At, NullFrame
    <3> HIDE DEF r
    <3>4. /\ r.open = one.open /\ r.magic = one.magic /\ r.roundtrips = one.roundtrips
          /\ r.next_send_seq = one.next_send_seq /\ r.next_recv_seq = one.next_recv_seq
          /\ r.events = one.events /\ r.out = one.out /\ r.pending = one.pending
          /\ r.last_acked = one.last_acked
      BY <3>2 DEF Fields
    <3>5. ControlOK(p, g, r)
      <4>1. IsEndpoint(r)
        BY <2>4, <2>7, <3>2, <3>4 DEF IsEndpoint
      <4> QED BY <2>3, <2>4, <2>6, <2>7, <3>2, <3>4, <4>1 DEF EndOK, ControlOK
    <3>6. EndOK(p, S, a, T, h, b, g, r)
      BY <2>3, <2>7, <3>3, <3>4, <3>5 DEF EndOK, Acked
    <3>7. e.type # "input" /\ r.state # "syncing"
      BY <3>2
    <3> HIDE DEF e, w
    <3>8. EndOK(p, S, a, T, h, b, g, w) /\ w.state = r.state
      BY <3>1, <3>6, <3>7, QueueKeeps
    <3> QED BY <1>2, <3>2, <3>8 DEF w, Moves
  <2>9. CASE one.roundtrips # 0
    <3> DEFINE e == [type |-> "synchronizing"]
               q == QueueEvent(one, e)
               v == [q EXCEPT !.random = random]
               body == [type |-> "SyncRequest", random |-> random]
    <3>1. w = SendMsg(v, body)
      BY <1>2, <2>9 DEF OnSyncReply, SendSyncRequest, one, met, c
    <3>2. EndOK(p, S, a, T, h, b, g, one)
      <4>1. IsEndpoint(one)
        BY <2>4, <2>5, <2>7 DEF IsEndpoint
      <4>2. ControlOK(p, g, one)
        BY <2>3, <2>4, <2>6, <2>7, <2>9, <4>1 DEF EndOK, ControlOK
      <4> QED BY <2>3, <2>7, <4>2 DEF EndOK, Acked
    <3>3. e.type # "input" /\ e.type # "synchronized" /\ body.type \notin {"Input", "InputAck"}
          /\ body.type # "Input"
      OBVIOUS
    <3> HIDE DEF e, body
    <3>4. EndOK(p, S, a, T, h, b, g, q) /\ q.state = one.state
      BY <3>2, <3>3, QueueKeeps
    <3> HIDE DEF q
    <3>5. Changes(q, v, OtherFields) /\ v.next_recv_seq \in SequenceNumbers
      BY <3>4 DEF EndOK, ControlOK, IsEndpoint, Changes, Fields, OtherFields
    <3> HIDE DEF v
    <3>6. EndOK(p, S, a, T, h, b, g, v) /\ v.state = q.state
      BY <3>4, <3>5, OtherFieldsKeep
    <3> HIDE DEF w
    <3>7. EndOK(p, S, a, T, h, b, g, w) /\ w.state = v.state
      BY <3>1, <3>3, <3>6, SendKeeps
    <3> QED BY <1>2, <2>3, <2>7, <3>4, <3>6, <3>7 DEF w, Moves
  <2> QED BY <2>8, <2>9
<1> QED BY <1>1, <1>2

(* Dropping acknowledged inputs.                                              *)
LEMMA DropKeeps ==
  ASSUME NEW p, NEW S, NEW a, NEW T, NEW h, NEW b, NEW g, Known(p, S, a, T, h, b, g), NEW u,
         EndOK(p, S, a, T, h, b, g, u), NEW ack \in Int, ack < a
  PROVE  LET w == DropAcknowledged(u, ack)
         IN  EndOK(p, S, a, T, h, b, g, w) /\ w.state = u.state
<1> DEFINE w == DropAcknowledged(u, ack)
<1>1. SentOK(S) /\ a \in 0 .. Len(S) /\ Len(S) \in Nat
  BY ListFacts DEF Known, SentOK
<1>2. IsEndpoint(u) /\ PendingOK(S, u.pending, u.last_acked) /\ ack <= At(S, a).frame
  BY <1>1 DEF EndOK, ControlOK, Acked, At
<1>3. /\ IsEndpoint(w) /\ Changes(u, w, {"pending", "last_acked"})
      /\ PendingOK(S, w.pending, w.last_acked)
      /\ Gone(S, w.pending) = Max2(Gone(S, u.pending), ack)
  BY <1>1, <1>2, DropDoes
<1>4. Gone(S, w.pending) = 0 \/ Gone(S, w.pending) < a
  <2>1. Gone(S, u.pending) \in Int /\ Gone(S, u.pending) >= 0
    BY <1>1, <1>2, ListFacts DEF Gone, PendingOK
  <2>2. Gone(S, u.pending) = 0 \/ Gone(S, u.pending) < a
    BY DEF EndOK, Acked
  <2> HIDE DEF w
  <2> QED BY <1>1, <1>3, <2>1, <2>2 DEF Max2
<1> HIDE DEF w
<1>5. ControlOK(p, g, w)
  BY <1>3 DEF EndOK, ControlOK, Changes, Fields
<1>6. /\ w.last_received = u.last_received /\ w.out = u.out /\ w.events = u.events
      /\ w.state = u.state
  BY <1>3 DEF Changes, Fields
<1> QED BY <1>3, <1>4, <1>5, <1>6 DEF EndOK, Acked, w

(* The status in a packet says nothing about inputs.                          *)
LEMMA HearStatusKeeps ==
  ASSUME NEW p, NEW S, NEW a, NEW T, NEW h, NEW b, NEW g, Known(p, S, a, T, h, b, g), NEW u,
         EndOK(p, S, a, T, h, b, g, u), NEW body
  PROVE  LET w == HearStatus(u, body)
         IN  EndOK(p, S, a, T, h, b, g, w) /\ w.state = u.state
<1> DEFINE w == HearStatus(u, body)
           c == [u EXCEPT !.disconnect_event_sent = TRUE]
           d == [u EXCEPT !.peer_status = MergeStatus(@, body.status)]
           e == [type |-> "disconnected"]
<1>1. /\ Changes(u, c, OtherFields) /\ c.next_recv_seq \in SequenceNumbers
      /\ Changes(u, d, OtherFields) /\ d.next_recv_seq \in SequenceNumbers
  BY DEF EndOK, ControlOK, IsEndpoint, Changes, Fields, OtherFields
<1>2. w = QueueEvent(c, e) \/ w = d \/ w = u
  BY DEF HearStatus, HearDisconnect
<1> HIDE DEF c, d, w
<1>3. /\ EndOK(p, S, a, T, h, b, g, c) /\ c.state = u.state
      /\ EndOK(p, S, a, T, h, b, g, d) /\ d.state = u.state
  BY <1>1, OtherFieldsKeep
<1>4. e.type # "input" /\ e.type # "synchronized"
  OBVIOUS
<1> HIDE DEF e
<1> DEFINE q == QueueEvent(c, e)
<1>5. EndOK(p, S, a, T, h, b, g, q) /\ q.state = c.state
  BY <1>3, <1>4, QueueKeeps
<1> HIDE DEF q
<1> QED BY <1>2, <1>3, <1>5 DEF w, q

(* An Input packet of the other end.                                          *)
LEMMA OnInputKeeps ==
  ASSUME NEW p, NEW S, NEW a, NEW T, NEW h, NEW b, NEW g, Known(p, S, a, T, h, b, g), NEW u,
         EndOK(p, S, a, T, h, b, g, u), u.state # "syncing",
         NEW body, NEW k, k <= g, k \in Nat, FramesOK(T, k, body),
         body.ack \in Int, body.ack < a
  PROVE  LET w == OnInput(u, body)
         IN  \E g2 \in g .. Len(T) :
                EndOK(p, S, a, T, h, b, g2, w) /\ w.state = u.state
<1>1. PICK i \in 0 .. Len(T) : Carries(T, k, body, i)
  BY DEF FramesOK
<1>2. /\ SentOK(T) /\ g \in 0 .. Len(T) /\ Len(T) \in Nat /\ Len(body.frames) \in Nat
      /\ h \in 0 .. g /\ g \in Nat /\ h \in Nat
  BY <1>1, ListFacts DEF Known, SentOK, Carries
<1>3. Carries(T, g, body, i)
  BY <1>1, <1>2 DEF Carries
<1> DEFINE v == HearStatus(u, body)
           x == HearInputs(v, body)
           w == OnInput(u, body)
           n == Max2(0, i + Len(body.frames) - g)
<1>4. w = DropAcknowledged(x, body.ack)
  BY DEF OnInput
<1>5. EndOK(p, S, a, T, h, b, g, v) /\ v.state = u.state
  BY HearStatusKeeps
<1> HIDE DEF v
<1>6. IsEndpoint(v) /\ v.last_received = At(T, g) /\ Brings(T, h, g, v.events) /\ IsList(v.events)
  BY <1>5 DEF EndOK, ControlOK, IsEndpoint
<1>7. /\ IsEndpoint(x) /\ Changes(v, x, {"last_received", "events"})
      /\ g + n \in 0 .. Len(T) /\ x.last_received = At(T, g + n)
      /\ Len(x.events) = Len(v.events) + n
      /\ \A j \in 1 .. Len(v.events) : x.events[j] = v.events[j]
      /\ \A j \in 1 .. n : x.events[Len(v.events) + j] = [type |-> "input", input |-> T[g + j]]
  BY <1>2, <1>3, <1>6, HearInputsDoes
<1>8. n \in Nat
  BY <1>2 DEF Max2
<1> HIDE DEF x, w, n
<1>9. /\ x.state = v.state /\ x.magic = v.magic /\ x.next_send_seq = v.next_send_seq
      /\ x.next_recv_seq = v.next_recv_seq /\ x.roundtrips = v.roundtrips
      /\ x.remote_magic = v.remote_magic /\ x.open = v.open /\ x.pending = v.pending
      /\ x.last_acked = v.last_acked /\ x.out = v.out
  BY <1>7 DEF Changes, Fields
<1>10. Brings(T, h, g + n, x.events)
  <2>1. IsList(x.events) /\ g + n <= Len(T)
    BY <1>7 DEF IsEndpoint
  <2> QED BY <1>2, <1>6, <1>7, <1>8, <2>1, BringsInputs
<1>11. EndOK(p, S, a, T, h, b, g + n, x)
  <2>1. ControlOK(p, g + n, x)
    BY <1>5, <1>7, <1>9 DEF EndOK, ControlOK
  <2>2. Acked(S, a, x)
    BY <1>5, <1>9 DEF EndOK, Acked
  <2> QED BY <1>5, <1>7, <1>9, <1>10, <2>1, <2>2 DEF EndOK
<1>12. Known(p, S, a, T, h, b, g + n)
  BY <1>2, <1>7, <1>8 DEF Known
<1>13. EndOK(p, S, a, T, h, b, g + n, w) /\ w.state = x.state
  BY <1>4, <1>11, <1>12, DropKeeps
<1>14. g + n \in g .. Len(T)
  BY <1>2, <1>7, <1>8
<1> QED BY <1>5, <1>9, <1>13, <1>14 DEF w
-----------------------------------------------------------------------------
(* A packet is read.  It acknowledges inputs the other end has handled, and   *)
(* so does not the answer of this end, which holds none.                      *)

(* OnMsg after the filters: what each kind of packet does.                    *)
LEMMA HandleKeeps ==
  ASSUME NEW p, NEW S, NEW a, NEW T, NEW h, NEW b, NEW g, Known(p, S, a, T, h, b, g), NEW u,
         EndOK(p, S, a, T, h, b, g, u), NEW m, PacketOK(PeerOf(p), T, h, a, m), NEW random,
         IsSync(m) \/ u.state # "syncing"
  PROVE  LET w == Handle(u, m, random)
         IN  \E g2 \in g .. Len(T) : EndOK(p, S, a, T, h, b, g2, w) /\ Moves(u, w)
<1> DEFINE w == Handle(u, m, random)
<1>1. /\ g \in g .. Len(T) /\ h <= g /\ h \in Nat /\ g \in Nat /\ Len(T) \in Nat
  BY DEF Known, SentOK
<1>2. CASE m.body.type = "SyncRequest"
  <2> DEFINE body == [type |-> "SyncReply", random |-> m.body.random]
  <2>1. w = SendMsg(u, body) \/ w = u
    BY <1>2 DEF Handle, OnSyncRequest
  <2>2. body.type # "Input" /\ body.type \notin {"Input", "InputAck"}
    OBVIOUS
  <2> HIDE DEF body, w
  <2>3. EndOK(p, S, a, T, h, b, g, w) /\ w.state = u.state
    BY <2>1, <2>2, SendKeeps
  <2> QED BY <1>1, <2>3 DEF Moves, w
<1>3. CASE m.body.type = "SyncReply"
  <2>1. w = OnSyncReply(u, m, random) /\ m.magic = Magic[PeerOf(p)]
    BY <1>3 DEF Handle, PacketOK
  <2> HIDE DEF w
  <2>2. EndOK(p, S, a, T, h, b, g, w) /\ Moves(u, w)
    BY <2>1, OnSyncReplyKeeps
  <2> QED BY <1>1, <2>2 DEF w
<1>4. CASE m.body.type = "Input"
  <2> DEFINE body == m.body
  <2>1. /\ w = OnInput(u, body) /\ u.state # "syncing"
        /\ FramesOK(T, h, body) /\ body.ack \in Int /\ body.ack < a
    BY <1>4 DEF Handle, IsSync, PacketOK
  <2> HIDE DEF w, body
  <2>2. \E g2 \in g .. Len(T) : EndOK(p, S, a, T, h, b, g2, w) /\ w.state = u.state
    BY <1>1, <2>1, OnInputKeeps
  <2> QED BY <2>2 DEF Moves, w
<1>5. CASE m.body.type = "InputAck"
  <2> DEFINE ack == m.body.ack
  <2>1. w = DropAcknowledged(u, ack) /\ ack \in Int /\ ack < a
    BY <1>5 DEF Handle, PacketOK
  <2> HIDE DEF w, ack
  <2>2. EndOK(p, S, a, T, h, b, g, w) /\ w.state = u.state
    BY <2>1, DropKeeps
  <2> QED BY <1>1, <2>2 DEF Moves, w
<1>6. CASE m.body.type = "QualityReport"
  <2> DEFINE body == [type |-> "QualityReply"]
  <2>1. w = SendMsg(u, body) /\ body.type # "Input" /\ body.type \notin {"Input", "InputAck"}
    BY <1>6 DEF Handle
  <2> HIDE DEF w, body
  <2>2. EndOK(p, S, a, T, h, b, g, w) /\ w.state = u.state
    BY <2>1, SendKeeps
  <2> QED BY <1>1, <2>2 DEF Moves, w
<1>7. CASE m.body.type \notin {"SyncRequest", "SyncReply", "Input", "InputAck", "QualityReport"}
  <2>1. w = u
    BY <1>7 DEF Handle
  <2> QED BY <1>1, <2>1 DEF Moves
<1> QED BY <1>2, <1>3, <1>4, <1>5, <1>6, <1>7

(* OnMsg, with the filters for the magic number and the sequence number, and  *)
(* the end of an interruption.                                                *)
LEMMA OnMsgKeeps ==
  ASSUME NEW p, NEW S, NEW a, NEW T, NEW h, NEW b, NEW g, Known(p, S, a, T, h, b, g), NEW u,
         EndOK(p, S, a, T, h, b, g, u), NEW m, PacketOK(PeerOf(p), T, h, a, m), NEW random
  PROVE  LET w == OnMsg(u, m, random)
         IN  \E g2 \in g .. Len(T) : EndOK(p, S, a, T, h, b, g2, w) /\ Moves(u, w)
<1> DEFINE w == OnMsg(u, m, random)
<1>1. /\ g \in g .. Len(T) /\ g \in Nat /\ Len(T) \in Nat
  BY DEF Known, SentOK
<1>2. CASE ~ Accepts(u, m)
  BY <1>1, <1>2 DEF OnMsg, Moves
<1>3. CASE Accepts(u, m)
  <2> DEFINE c == [u EXCEPT !.next_recv_seq = m.seq]
             v == Handle(c, m, random)
             handled == Handled(u, m)
             d == [v EXCEPT !.notify_sent = FALSE]
             e == [type |-> "resumed"]
  <2>1. Changes(u, c, OtherFields) /\ c.next_recv_seq \in SequenceNumbers
    BY DEF EndOK, ControlOK, IsEndpoint, Changes, Fields, OtherFields, PacketOK
  <2>2. w = Resume(v, handled)
    BY <1>3 DEF OnMsg
  <2> HIDE DEF c
  <2>3. EndOK(p, S, a, T, h, b, g, c) /\ c.state = u.state
    BY <2>1, OtherFieldsKeep
  <2>4. IsSync(m) \/ c.state # "syncing"
    <3>1. m.magic = Magic[PeerOf(p)] /\ Magic[PeerOf(p)] # 0
      BY PeerOfPeer, LinkAssumption DEF PacketOK, Known
    <3> QED BY <1>3, <2>3, <3>1 DEF Accepts, EndOK, ControlOK
  <2>5. PICK g2 \in g .. Len(T) : EndOK(p, S, a, T, h, b, g2, v) /\ Moves(c, v)
    BY <2>3, <2>4, HandleKeeps
  <2>6. Known(p, S, a, T, h, b, g2)
    BY <1>1, <2>5 DEF Known
  <2> HIDE DEF v, handled
  <2>7. w = v \/ w = QueueEvent(d, e)
    BY <2>2 DEF Resume
  <2>8. Changes(v, d, OtherFields) /\ d.next_recv_seq \in SequenceNumbers
    BY <2>5 DEF EndOK, ControlOK, IsEndpoint, Changes, Fields, OtherFields
  <2>9. e.type # "input" /\ e.type # "synchronized"
    OBVIOUS
  <2> HIDE DEF d, e, w
  <2>10. EndOK(p, S, a, T, h, b, g2, d) /\ d.state = v.state
    BY <2>5, <2>8, OtherFieldsKeep
  <2> DEFINE q == QueueEvent(d, e)
  <2>11. EndOK(p, S, a, T, h, b, g2, q) /\ q.state = d.state
    BY <2>6, <2>9, <2>10, QueueKeeps
  <2> HIDE DEF q
  <2>12. EndOK(p, S, a, T, h, b, g2, w) /\ w.state = v.state
    BY <2>5, <2>7, <2>10, <2>11 DEF q
  <2> QED BY <2>3, <2>5, <2>12 DEF Moves, w
<1> QED BY <1>2, <1>3
-----------------------------------------------------------------------------
(* The timers, and an input.                                                  *)

(* OnLoopPoll of an endpoint that runs.                                       *)
LEMMA PollRunningKeeps ==
  ASSUME NEW p, NEW S, NEW a, NEW T, NEW h, NEW b, NEW g, Known(p, S, a, T, h, b, g), NEW u,
         EndOK(p, S, a, T, h, b, g, u), g <= b, NEW due, NEW status
  PROVE  LET w == PollRunning(u, due, status)
         IN  EndOK(p, S, a, T, h, b, g, w) /\ w.state = u.state
<1> DEFINE report    == [type |-> "QualityReport"]
           alone     == [type |-> "KeepAlive"]
           retried   == IF "retry" \in due THEN SendPendingOutput(u, status) ELSE u
           reported  == IF "quality" \in due THEN SendMsg(retried, report) ELSE retried
           alive     == IF "keep_alive" \in due /\ reported.out = <<>>
                        THEN SendMsg(reported, alone) ELSE reported
           announced == IF "interrupted" \in due /\ ~alive.notify_sent
                        THEN Interrupted(alive) ELSE alive
           w == IF "timeout" \in due /\ ~announced.disconnect_event_sent
                THEN TimedOut(announced) ELSE announced
           Fine(v) == EndOK(p, S, a, T, h, b, g, v) /\ v.state = u.state
<1>1. PollRunning(u, due, status) = w
  BY DEF PollRunning
<1>2. ASSUME NEW v, Fine(v), NEW body, body.type \notin {"Input", "InputAck"}
      PROVE  Fine(SendMsg(v, body))
  BY <1>2, SendKeeps
<1>3. ASSUME NEW v, Fine(v), NEW event, event.type \notin {"input", "synchronized"},
             NEW c, Changes(v, c, OtherFields), c.next_recv_seq = v.next_recv_seq
      PROVE  Fine(QueueEvent(c, event))
  <2>1. v.next_recv_seq \in SequenceNumbers
    BY <1>3 DEF EndOK, ControlOK
  <2>2. Fine(c)
    BY <1>3, <2>1, OtherFieldsKeep
  <2> QED BY <1>3, <2>2, QueueKeeps
<1>4. Fine(retried)
  BY SendPendingKeeps
<1>5. report.type \notin {"Input", "InputAck"} /\ alone.type \notin {"Input", "InputAck"}
  OBVIOUS
<1> HIDE DEF retried, Fine, report, alone
<1>6. Fine(reported)
  BY <1>2, <1>4, <1>5
<1> HIDE DEF reported
<1>7. Fine(alive)
  BY <1>2, <1>5, <1>6
<1> HIDE DEF alive
<1>8. Fine(announced)
  <2> DEFINE c == [alive EXCEPT !.notify_sent = TRUE]
             e == [type |-> "interrupted"]
  <2>1. Changes(alive, c, OtherFields) /\ c.next_recv_seq = alive.next_recv_seq
    BY <1>7 DEF Fine, EndOK, ControlOK, IsEndpoint, Changes, Fields, OtherFields
  <2>2. e.type \notin {"input", "synchronized"} /\ Interrupted(alive) = QueueEvent(c, e)
    BY DEF Interrupted
  <2> HIDE DEF c, e
  <2> QED BY <1>3, <1>7, <2>1, <2>2
<1> HIDE DEF announced
<1>9. Fine(w)
  <2> DEFINE c == [announced EXCEPT !.disconnect_event_sent = TRUE]
             e == [type |-> "disconnected"]
  <2>1. Changes(announced, c, OtherFields) /\ c.next_recv_seq = announced.next_recv_seq
    BY <1>8 DEF Fine, EndOK, ControlOK, IsEndpoint, Changes, Fields, OtherFields
  <2>2. e.type \notin {"input", "synchronized"} /\ TimedOut(announced) = QueueEvent(c, e)
    BY DEF TimedOut
  <2> HIDE DEF c, e
  <2> QED BY <1>3, <1>8, <2>1, <2>2
<1> HIDE DEF w
<1> QED BY <1>1, <1>9 DEF Fine

(* OnLoopPoll in every state.                                                 *)
LEMMA OnLoopPollKeeps ==
  ASSUME NEW p, NEW S, NEW a, NEW T, NEW h, NEW b, NEW g, Known(p, S, a, T, h, b, g), NEW u,
         EndOK(p, S, a, T, h, b, g, u), g <= b, NEW due, NEW status, NEW random
  PROVE  LET w == OnLoopPoll(u, due, status, random)
         IN  EndOK(p, S, a, T, h, b, g, w) /\ w.state = u.state
<1> DEFINE w == OnLoopPoll(u, due, status, random)
           v == [u EXCEPT !.random = random]
           body == [type |-> "SyncRequest", random |-> random]
           closed == [u EXCEPT !.open = FALSE]
<1>1. \/ w = u
      \/ w = SendMsg(v, body)
      \/ w = PollRunning(u, due, status)
      \/ w = closed /\ u.state = "disconnected"
  BY DEF OnLoopPoll, SendSyncRequest, EndOK, ControlOK
<1>2. Changes(u, v, OtherFields) /\ v.next_recv_seq \in SequenceNumbers
  BY DEF EndOK, ControlOK, IsEndpoint, Changes, Fields, OtherFields
<1>3. body.type \notin {"Input", "InputAck"}
  OBVIOUS
<1>4. DOMAIN closed = Fields /\ \A f \in Fields \ {"open"} : closed[f] = u[f]
  BY DEF EndOK, ControlOK, IsEndpoint, Fields
<1> HIDE DEF w, v, body, closed
<1>5. EndOK(p, S, a, T, h, b, g, v) /\ v.state = u.state
  BY <1>2, OtherFieldsKeep
<1> DEFINE x == SendMsg(v, body)
           y == PollRunning(u, due, status)
<1>6. EndOK(p, S, a, T, h, b, g, x) /\ x.state = u.state
  BY <1>3, <1>5, SendKeeps
<1>7. EndOK(p, S, a, T, h, b, g, y) /\ y.state = u.state
  BY PollRunningKeeps
<1>8. ASSUME u.state = "disconnected"
      PROVE  EndOK(p, S, a, T, h, b, g, closed) /\ closed.state = u.state
  <2>1. /\ closed.state = u.state /\ closed.magic = u.magic
        /\ closed.next_send_seq = u.next_send_seq /\ closed.next_recv_seq = u.next_recv_seq
        /\ closed.roundtrips = u.roundtrips /\ closed.remote_magic = u.remote_magic
        /\ closed.pending = u.pending /\ closed.last_acked = u.last_acked
        /\ closed.last_received = u.last_received /\ closed.out = u.out
        /\ closed.events = u.events
    BY <1>4 DEF Fields
  <2>2. IsEndpoint(closed)
    BY <1>4, <2>1 DEF EndOK, ControlOK, IsEndpoint
  <2>3. ControlOK(p, g, closed)
    BY <1>8, <2>1, <2>2 DEF EndOK, ControlOK
  <2> QED BY <2>1, <2>3 DEF EndOK, Acked
<1> HIDE DEF x, y
<1> QED BY <1>1, <1>6, <1>7, <1>8 DEF w, x, y

(* S2 continues S.                                                            *)
Extends(S, S2) == Len(S) <= Len(S2) /\ \A n \in 1 .. Len(S) : S2[n] = S[n]

(* An input more continues the inputs of the host.                            *)
LEMMA AppendExtends ==
  ASSUME NEW S, SentOK(S), NEW x \in AnyInput, x.frame = Len(S)
  PROVE  LET S2 == Append(S, x)
         IN  /\ SentOK(S2) /\ Extends(S, S2) /\ Len(S) \in Nat
             /\ Len(S2) = Len(S) + 1 /\ S2[Len(S) + 1] = x
<1> DEFINE S2 == Append(S, x)
<1>1. /\ S2 \in Seq(AnyInput) /\ Len(S2) = Len(S) + 1 /\ Len(S) \in Nat
      /\ S2[Len(S) + 1] = x /\ \A n \in 1 .. Len(S) : S2[n] = S[n]
  BY AppendProperties DEF SentOK
<1> HIDE DEF S2
<1>2. \A n \in 1 .. Len(S2) : n \in 1 .. Len(S) \/ n = Len(S) + 1
  BY <1>1
<1>3. \A n \in 1 .. Len(S2) : S2[n].frame = n - 1
  BY <1>1, <1>2 DEF SentOK
<1>4. Extends(S, S2)
  BY <1>1 DEF Extends
<1> QED BY <1>1, <1>3, <1>4 DEF SentOK, S2

(* The inputs sent before stay what they were.                                *)
LEMMA BitOfMore ==
  ASSUME NEW S, Len(S) \in Nat, NEW S2, Extends(S, S2), NEW n \in 0 .. Len(S)
  PROVE  Bit(S2, n) = Bit(S, n) /\ At(S2, n) = At(S, n)
<1>1. Bit(S2, n) = Bit(S, n)
  BY DEF Bit, Extends
<1> QED BY <1>1 DEF At

(* What was true of a packet stays true while both ends go on.                *)
LEMMA PacketMore ==
  ASSUME NEW p, NEW S, Len(S) \in Nat, NEW S2, Len(S2) \in Nat, Extends(S, S2),
         NEW a \in Nat, NEW a2 \in Nat, a <= a2, NEW b \in Nat, NEW b2 \in Nat, b <= b2,
         NEW m, PacketOK(p, S, a, b, m)
  PROVE  PacketOK(p, S2, a2, b2, m)
<1>1. ASSUME FramesOK(S, a, m.body)
      PROVE  FramesOK(S2, a2, m.body)
  <2>1. PICK i \in 0 .. Len(S) : Carries(S, a, m.body, i)
    BY <1>1 DEF FramesOK
  <2>2. Len(m.body.frames) \in Nat /\ i + Len(m.body.frames) <= Len(S)
    BY <2>1, ListFacts DEF Carries
  <2>3. \A n \in 1 .. Len(m.body.frames) :
           m.body.frames[n] = Difference(Bit(S2, i + n - 1), Bit(S2, i + n))
    <3> SUFFICES ASSUME NEW n \in 1 .. Len(m.body.frames)
                 PROVE  m.body.frames[n] = Difference(Bit(S2, i + n - 1), Bit(S2, i + n))
      OBVIOUS
    <3>1. i + n - 1 \in 0 .. Len(S) /\ i + n \in 0 .. Len(S)
      BY <2>2
    <3>2. Bit(S2, i + n - 1) = Bit(S, i + n - 1) /\ Bit(S2, i + n) = Bit(S, i + n)
      BY <3>1, BitOfMore
    <3> QED BY <2>1, <3>2 DEF Carries
  <2>4. i \in 0 .. Len(S2) /\ i + Len(m.body.frames) <= Len(S2) /\ (i = 0 \/ i < a2)
    BY <2>1, <2>2 DEF Extends, Carries
  <2> QED BY <2>1, <2>3, <2>4 DEF FramesOK, Carries
<1>2. ASSUME m.body.ack \in Int, m.body.ack < b
      PROVE  m.body.ack < b2
  BY <1>2
<1> QED BY <1>1, <1>2 DEF PacketOK

(* The other end sent or handled more.                                        *)
LEMMA EndMore ==
  ASSUME NEW p, NEW S, Len(S) \in Nat, NEW a \in Nat, NEW a2 \in Nat, a <= a2,
         NEW T, NEW T2, Extends(T, T2), Len(T) \in Nat, Len(T2) \in Nat,
         NEW h, NEW b, NEW b2, NEW g \in 0 .. Len(T),
         NEW u, EndOK(p, S, a, T, h, b, g, u), u.out = <<>>
  PROVE  EndOK(p, S, a2, T2, h, b2, g, u)
<1>1. u.last_received = At(T2, g)
  BY BitOfMore DEF EndOK
<1>2. Acked(S, a2, u)
  <2>1. Len(u.pending) \in Nat
    BY ListFacts DEF EndOK, Acked, PendingOK
  <2> QED BY <2>1 DEF EndOK, Acked, Gone
<1>3. ToSet(u.out) = {}
  BY NoList
<1>4. Brings(T2, h, g, u.events)
  <2> DEFINE E == u.events
  <2>1. Len(E) \in Nat
    BY ListFacts DEF EndOK, ControlOK, IsEndpoint
  <2>2. PICK c \in [0 .. Len(E) -> Nat] : c[0] = h /\ c[Len(E)] = g /\ Counts(T, E, c)
    BY DEF EndOK, Brings
  <2> HIDE DEF E
  <2>3. Counts(T2, E, c)
    <3> SUFFICES ASSUME NEW n \in 1 .. Len(E)
                 PROVE  IF E[n].type = "input"
                        THEN c[n] = c[n - 1] + 1 /\ c[n] \in 1 .. Len(T2) /\ E[n].input = T2[c[n]]
                        ELSE c[n] = c[n - 1]
      BY DEF Counts
    <3>1. IF E[n].type = "input"
          THEN c[n] = c[n - 1] + 1 /\ c[n] \in 1 .. Len(T) /\ E[n].input = T[c[n]]
          ELSE c[n] = c[n - 1]
      BY <2>2 DEF Counts
    <3>2. \A k \in 1 .. Len(T) : k \in 1 .. Len(T2) /\ T2[k] = T[k]
      BY DEF Extends
    <3> QED BY <3>1, <3>2
  <2> QED BY <2>2, <2>3 DEF Brings, E
<1> QED BY <1>1, <1>2, <1>3, <1>4 DEF EndOK

(* A running host appends an input to its pending output and sends all of it. *)
LEMMA SendInputKeeps ==
  ASSUME NEW p, NEW S, NEW a, NEW T, NEW h, NEW b, NEW g, Known(p, S, a, T, h, b, g), NEW u,
         EndOK(p, S, a, T, h, b, g, u), u.out = <<>>, g <= b,
         NEW x \in AnyInput, u.state = "running" => x.frame = Len(S),
         NEW status
  PROVE  LET w == SendInput(u, x, status)
             S2 == IF u.state = "running" THEN Append(S, x) ELSE S
         IN  EndOK(p, S2, a, T, h, b, g, w) /\ w.state = u.state
<1> DEFINE S2 == Append(S, x)
           v == [u EXCEPT !.pending = Append(@, x)]
           w == SendInput(u, x, status)
<1>2. /\ SentOK(S) /\ Len(S) \in Nat /\ IsList(u.pending) /\ Len(u.pending) \in Nat /\ Len(u.pending) <= Len(S)
      /\ \A n \in 1 .. Len(u.pending) : u.pending[n] = S[Gone(S, u.pending) + n]
      /\ u.last_acked = At(S, Gone(S, u.pending))
      /\ DOMAIN u = Fields /\ a \in 0 .. Len(S)
      /\ Gone(S, u.pending) = 0 \/ Gone(S, u.pending) < a
  BY ListFacts DEF EndOK, Acked, PendingOK, ControlOK, IsEndpoint, Known,
                    SentOK
<1>3. CASE u.state = "running"
  <2>0. /\ SentOK(S2) /\ Extends(S, S2) /\ Len(S2) = Len(S) + 1 /\ S2[Len(S) + 1] = x
    BY <1>2, <1>3, AppendExtends
  <2>1. w = SendPendingOutput(v, status)
    BY <1>3 DEF SendInput, Saves, EndOK, ControlOK
  <2>2. /\ DOMAIN v = Fields /\ v.pending = Append(u.pending, x)
        /\ \A f \in Fields \ {"pending"} : v[f] = u[f]
    BY <1>2 DEF Fields
  <2> HIDE DEF v, S2, w
  <2>3. /\ v.events = u.events /\ v.out = u.out /\ v.last_acked = u.last_acked
        /\ v.last_received = u.last_received /\ v.state = u.state /\ v.magic = u.magic
        /\ v.next_send_seq = u.next_send_seq /\ v.next_recv_seq = u.next_recv_seq
        /\ v.roundtrips = u.roundtrips /\ v.remote_magic = u.remote_magic /\ v.open = u.open
    BY <2>2 DEF Fields
  <2>4. /\ IsList(v.pending) /\ Len(v.pending) = Len(u.pending) + 1
        /\ v.pending[Len(u.pending) + 1] = x
        /\ \A n \in 1 .. Len(u.pending) : v.pending[n] = u.pending[n]
    BY <1>2, <2>2, AppendList
  <2>5. Gone(S2, v.pending) = Gone(S, u.pending) /\ Gone(S, u.pending) \in 0 .. Len(S)
    BY <1>2, <2>0, <2>4 DEF Gone
  <2>6. \A n \in 1 .. Len(v.pending) : v.pending[n] = S2[Gone(S2, v.pending) + n]
    <3> SUFFICES ASSUME NEW n \in 1 .. Len(v.pending)
                 PROVE  v.pending[n] = S2[Gone(S, u.pending) + n]
      BY <2>5
    <3>1. CASE n = Len(u.pending) + 1
      <4>1. \A i, j \in Nat : (i - j) + (j + 1) = i + 1
        OBVIOUS
      <4>2. Gone(S, u.pending) + n = Len(S) + 1
        BY <1>2, <2>0, <3>1, <4>1 DEF Gone
      <4> QED BY <1>2, <2>0, <2>4, <3>1, <4>2
    <3>2. CASE n \in 1 .. Len(u.pending)
      <4>1. Gone(S, u.pending) + n \in 1 .. Len(S)
        BY <1>2, <2>0, <3>2 DEF Gone
      <4> QED BY <1>2, <2>0, <2>4, <3>2, <4>1 DEF Extends
    <3> QED BY <1>2, <2>4, <3>1, <3>2
  <2>7. v.last_acked = At(S2, Gone(S2, v.pending))
    BY <1>2, <2>0, <2>3, <2>5, BitOfMore
  <2>8. Acked(S2, a, v)
    BY <1>2, <2>0, <2>4, <2>5, <2>6, <2>7 DEF Acked, PendingOK
  <2>9. ControlOK(p, g, v)
    BY <2>2, <2>3 DEF EndOK, ControlOK, IsEndpoint
  <2>10. ToSet(v.out) = {}
    BY <2>3, NoList
  <2>11. EndOK(p, S2, a, T, h, b, g, v)
    BY <2>3, <2>8, <2>9, <2>10 DEF EndOK
  <2>12. Known(p, S2, a, T, h, b, g)
    BY <1>2, <2>0 DEF Known
  <2> DEFINE y == SendPendingOutput(v, status)
  <2>13. EndOK(p, S2, a, T, h, b, g, y) /\ y.state = v.state
    BY <2>11, <2>12, SendPendingKeeps
  <2> HIDE DEF y
  <2> QED BY <1>3, <2>1, <2>3, <2>13 DEF y, w, S2
<1>4. CASE u.state # "running"
  <2> DEFINE y == SendPendingOutput(u, status)
  <2>1. w = y \/ w = u
    BY <1>4 DEF SendInput, Saves
  <2>2. EndOK(p, S, a, T, h, b, g, y) /\ y.state = u.state
    BY SendPendingKeeps
  <2> HIDE DEF y, w
  <2> QED BY <1>4, <2>1, <2>2 DEF w
<1> QED BY <1>3, <1>4
-----------------------------------------------------------------------------
(* The ring of a spectator who has handled h of the inputs S: in every slot   *)
(* there is the last input that belongs there, or none has come for it.       *)
N == SPECTATOR_FRAME_BUFFER_SIZE
EmptyInput == [frame |-> NullFrame, bits |-> {}]

Holding(S, h, k, input) ==
    \/ k >= h /\ input = EmptyInput
    \/ \E f \in Nat : f < h /\ h - N <= f /\ f % N = k /\ input = S[f + 1]
RingOK(S, h, ring) ==
    ring = [k \in 0 .. N - 1 |-> ring[k]] /\ \A k \in 0 .. N - 1 : Holding(S, h, k, ring[k])

(* What remainders of frames tell of the frames.                              *)
LEMMA Remainders ==
  /\ N \in Nat \ {0}
  /\ \A f \in Nat : /\ f % N \in 0 .. N - 1 /\ f % N <= f
                    /\ f < N => f % N = f
                    /\ f >= N => (f - N) % N = f % N
  /\ \A e, f \in Nat : e % N = f % N /\ e < f => e + N <= f
<1>1. ASSUME NEW L \in Nat \ {0}, NEW q \in Int, NEW r \in 0 .. L - 1, NEW f \in Int, f = L * q + r
      PROVE  f % L = r
  BY <1>1
<1>2. ASSUME NEW L \in Nat \ {0}, NEW f \in Nat
      PROVE  /\ f % L \in 0 .. L - 1 /\ f \div L \in Nat
             /\ f = L * (f \div L) + (f % L)
  BY <1>2
<1>3. ASSUME NEW L \in Nat \ {0}, NEW q \in Nat
      PROVE  L * q \in Nat /\ L * q >= 0 /\ L * (q - 1) = L * q - L
             /\ L * (q + 1) = L * q + L
  BY <1>3
<1>4. ASSUME NEW L \in Nat \ {0}, NEW q \in Nat, NEW r \in Nat, q < r
      PROVE  L * q + L <= L * r
  <2>1. PICK d \in Nat : r = q + 1 + d
    <3>1. r - q - 1 \in Nat /\ r = q + 1 + (r - q - 1)
      BY <1>4
    <3> QED BY <3>1
  <2>2. L * (q + 1 + d) = L * q + L + L * d /\ L * d \in Nat /\ L * q \in Nat
    OBVIOUS
  <2> QED BY <2>1, <2>2
<1>5. N \in Nat \ {0}
  BY SpectatorAssumption DEF N
<1>6. ASSUME NEW f \in Nat
      PROVE  /\ f % N \in 0 .. N - 1 /\ f % N <= f
             /\ f < N => f % N = f
             /\ f >= N => (f - N) % N = f % N
  <2>1. f % N \in 0 .. N - 1 /\ f \div N \in Nat /\ f = N * (f \div N) + (f % N)
    BY <1>2, <1>5
  <2>2. N * (f \div N) \in Nat /\ N * ((f \div N) - 1) = N * (f \div N) - N
    BY <1>3, <1>5, <2>1
  <2>3. f % N <= f
    BY <2>1, <2>2
  <2>4. f < N => f % N = f
    <3>1. f < N => f \in 0 .. N - 1 /\ f = N * 0 + f
      BY <1>5
    <3> QED BY <1>1, <1>5, <3>1
  <2>5. (f - N) % N = f % N
    <3>1. f - N \in Int /\ (f \div N) - 1 \in Int
          /\ f - N = N * ((f \div N) - 1) + (f % N)
      BY <1>5, <2>1, <2>2
    <3>2. \A q, e \in Int, r \in 0 .. N - 1 : e = N * q + r => e % N = r
      BY <1>1, <1>5
    <3> QED BY <2>1, <3>1, <3>2
  <2> QED BY <2>1, <2>3, <2>4, <2>5
<1>7. ASSUME NEW e \in Nat, NEW f \in Nat, e % N = f % N, e < f
      PROVE  e + N <= f
  <2>1. /\ f % N \in 0 .. N - 1 /\ f \div N \in Nat /\ f = N * (f \div N) + (f % N)
        /\ e % N \in 0 .. N - 1 /\ e \div N \in Nat /\ e = N * (e \div N) + (e % N)
    BY <1>2, <1>5
  <2> DEFINE q == e \div N
             r == f \div N
             m == f % N
  <2>2. q \in Nat /\ r \in Nat /\ m \in Nat /\ N * q \in Nat /\ N * r \in Nat
        /\ e = N * q + m /\ f = N * r + m
    BY <1>3, <1>5, <1>7, <2>1
  <2> HIDE DEF q, r, m
  <2>3. q < r
    <3> SUFFICES ASSUME r <= q PROVE FALSE
      BY <2>2
    <3>1. r = q \/ N * r + N <= N * q
      BY <1>4, <1>5, <2>2
    <3> QED BY <1>5, <1>7, <2>2, <3>1
  <2>4. N * q + N <= N * r
    BY <1>4, <1>5, <2>2, <2>3
  <2> QED BY <1>5, <2>2, <2>4
<1> QED BY <1>5, <1>6, <1>7

(* An input more is stored.                                                   *)
LEMMA StoreKeeps ==
  ASSUME NEW S, SentOK(S), NEW h \in Nat, h < Len(S), NEW ring, RingOK(S, h, ring)
  PROVE  RingOK(S, h + 1, Store(ring, S[h + 1]))
<1> DEFINE x == S[h + 1]
           s == h % N
           w == Store(ring, x)
<1>1. /\ h + 1 \in 1 .. Len(S) /\ x.frame = h /\ N \in Nat \ {0} /\ s \in 0 .. N - 1 /\ s <= h
      /\ h < N => s = h
  <2>1. h + 1 \in 1 .. Len(S) /\ (h + 1) - 1 = h
    BY DEF SentOK
  <2> QED BY <2>1, Remainders DEF SentOK
<1>2. w = [ring EXCEPT ![s] = x]
  BY <1>1 DEF Store, Slot, N
<1> HIDE DEF x, s, w
<1>3. w = [k \in 0 .. N - 1 |-> w[k]] /\ \A k \in 0 .. N - 1 : w[k] = IF k = s THEN x ELSE ring[k]
  BY <1>1, <1>2 DEF RingOK
<1>4. ASSUME NEW k \in 0 .. N - 1 PROVE Holding(S, h + 1, k, w[k])
  <2>1. CASE k = s
    <3>1. h < h + 1 /\ (h + 1) - N <= h /\ h % N = k /\ w[k] = S[h + 1]
      BY <1>1, <1>3, <2>1 DEF s, x
    <3> QED BY <3>1 DEF Holding
  <2>2. CASE k # s
    <3>1. w[k] = ring[k] /\ Holding(S, h, k, ring[k])
      BY <1>3, <2>2 DEF RingOK
    <3>2. CASE k >= h /\ ring[k] = EmptyInput
      <4>1. k # h
        <5> SUFFICES ASSUME k = h PROVE FALSE
          OBVIOUS
        <5>1. h < N
          BY <1>1
        <5> QED BY <1>1, <2>2, <5>1
      <4>2. k >= h + 1
        BY <1>1, <3>2, <4>1
      <4> QED BY <3>1, <3>2, <4>2 DEF Holding
    <3>3. ASSUME NEW f \in Nat, f < h, h - N <= f, f % N = k, ring[k] = S[f + 1]
          PROVE  Holding(S, h + 1, k, w[k])
      <4>1. f # h - N
        <5> SUFFICES ASSUME f = h - N PROVE FALSE
          OBVIOUS
        <5>1. h >= N
          BY <1>1, <3>3
        <5>2. f % N = h % N
          BY <5>1, Remainders
        <5> QED BY <2>2, <3>3, <5>2 DEF s
      <4>2. f < h + 1 /\ (h + 1) - N <= f
        BY <1>1, <3>3, <4>1
      <4> QED BY <3>1, <3>3, <4>2 DEF Holding
    <3> QED BY <3>1, <3>2, <3>3 DEF Holding
  <2> QED BY <2>1, <2>2
<1> QED BY <1>3, <1>4 DEF RingOK, w, x

(* What SyncInput finds in the slot of the next frame q.                      *)
LEMMA NextInSlot ==
  ASSUME NEW S, SentOK(S), NEW h \in 0 .. Len(S), NEW ring, RingOK(S, h, ring), NEW q \in 0 .. h
  PROVE  LET input == ring[q % N]
         IN  /\ input.frame \in Int
             /\ input.frame < q <=> h = q
             /\ input.frame > q <=> h - q > N
             /\ input.frame = q => q < h /\ input = S[q + 1]
<1> DEFINE k == q % N
           input == ring[k]
<1>1. /\ N \in Nat \ {0} /\ q \in Nat /\ h \in Nat /\ Len(S) \in Nat /\ k \in 0 .. N - 1 /\ k <= q
  <2>1. q \in Nat /\ h \in Nat /\ Len(S) \in Nat
    BY DEF SentOK
  <2> QED BY <2>1, Remainders
<1>2. Holding(S, h, k, input)
  BY <1>1 DEF RingOK
<1>3. CASE k >= h /\ input = EmptyInput
  <2>1. k = q /\ h = q /\ input.frame = -1
    BY <1>1, <1>3 DEF EmptyInput, NullFrame
  <2> HIDE DEF k, input
  <2> QED BY <1>1, <2>1 DEF k, input
<1>4. ASSUME NEW f \in Nat, f < h, h - N <= f, f % N = k, input = S[f + 1]
      PROVE  /\ input.frame \in Int
             /\ input.frame < q <=> h = q
             /\ input.frame > q <=> h - q > N
             /\ input.frame = q => q < h /\ input = S[q + 1]
  <2>1. f + 1 \in 1 .. Len(S) /\ input.frame = f
    <3>1. f + 1 \in 1 .. Len(S) /\ (f + 1) - 1 = f
      BY <1>1, <1>4
    <3> QED BY <1>4, <3>1 DEF SentOK
  <2>2. f < q => f + N <= q
    BY <1>1, <1>4, Remainders
  <2>3. q < f => q + N <= f
    BY <1>1, <1>4, Remainders
  <2> HIDE DEF k, input
  <2>4. input.frame < q <=> h = q
    BY <1>1, <1>4, <2>1, <2>2
  <2>5. input.frame > q <=> h - q > N
    BY <1>1, <1>4, <2>1, <2>2, <2>3
  <2> QED BY <1>1, <1>4, <2>1, <2>4, <2>5
<1> HIDE DEF k, input
<1> QED BY <1>2, <1>3, <1>4 DEF Holding, k, input
-----------------------------------------------------------------------------
(* The events are handled.                                                    *)
IsHandling(s) ==
    DOMAIN s = {"u", "inputs", "synchronizing"} /\ s.synchronizing \in BOOLEAN

(* GetEvent takes all events: the inputs they bring are handled.              *)
LEMMA TakeEventsKeeps ==
  ASSUME NEW p, NEW S, NEW a, NEW T, NEW h, NEW b, NEW g, Known(p, S, a, T, h, b, g), NEW u,
         EndOK(p, S, a, T, h, b, g, u)
  PROVE  LET w == TakeEvents(u)
         IN  EndOK(p, S, a, T, g, b, g, w) /\ w.state = u.state /\ w.events = <<>>
<1> DEFINE w == TakeEvents(u)
<1>1. /\ DOMAIN w = Fields /\ w.events = <<>> /\ \A f \in Fields \ {"events"} : w[f] = u[f]
  BY DEF TakeEvents, EndOK, ControlOK, IsEndpoint, Fields
<1> HIDE DEF w
<1>2. /\ w.state = u.state /\ w.magic = u.magic /\ w.next_send_seq = u.next_send_seq
      /\ w.next_recv_seq = u.next_recv_seq /\ w.roundtrips = u.roundtrips
      /\ w.remote_magic = u.remote_magic /\ w.open = u.open /\ w.pending = u.pending
      /\ w.last_acked = u.last_acked /\ w.last_received = u.last_received /\ w.out = u.out
  BY <1>1 DEF Fields
<1>3. IsEndpoint(w) /\ \A n \in 1 .. Len(w.events) : FALSE
  BY <1>1, <1>2, NoList DEF EndOK, ControlOK, IsEndpoint
<1>4. ControlOK(p, g, w)
  BY <1>2, <1>3 DEF EndOK, ControlOK
<1>5. Brings(T, g, g, w.events)
  <2>1. g \in Nat
    BY DEF Known, SentOK
  <2> QED BY <1>1, <2>1, NoEvents
<1> QED BY <1>1, <1>2, <1>4, <1>5 DEF EndOK, Acked, w

(* The spectator acknowledges an input and stores it.                         *)
LEMMA ViewerHandles ==
  ASSUME NEW S, NEW g, NEW s, IsHandling(s),
         EndOK("spectator", <<>>, 0, S, g, g, g, s.u), SentOK(S), g \in Nat,
         NEW k \in Nat, RingOK(S, k, s.inputs), NEW event, NEW k2 \in Nat,
         IF event.type = "input"
         THEN k2 = k + 1 /\ k2 \in 1 .. Len(S) /\ event.input = S[k2]
         ELSE k2 = k
  PROVE  LET r == OnEvent("spectator", s, event)
         IN  /\ IsHandling(r) /\ EndOK("spectator", <<>>, 0, S, g, g, g, r.u)
             /\ RingOK(S, k2, r.inputs)
<1> DEFINE r == OnEvent("spectator", s, event)
<1>1. CASE event.type = "input"
  <2> DEFINE body == [type |-> "InputAck", ack |-> s.u.last_received.frame]
             x == SendMsg(s.u, body)
             y == Store(s.inputs, event.input)
  <2>1. r = [s EXCEPT !.u = SendInputAck(@), !.inputs = Store(@, event.input)]
    BY <1>1 DEF OnEvent
  <2>2. r = [s EXCEPT !.u = x, !.inputs = y]
    BY <2>1 DEF SendInputAck
  <2>3. body.type # "Input" /\ body.ack \in Int /\ body.ack < g
    <3>1. s.u.last_received.frame = g - 1
      BY DEF EndOK, At
    <3> QED BY <3>1
  <2> HIDE DEF body, r
  <2>4. EndOK("spectator", <<>>, 0, S, g, g, g, x)
    BY <2>3, SendKeeps
  <2>5. RingOK(S, k2, y)
    <3>1. k < Len(S) /\ event.input = S[k + 1] /\ k2 = k + 1 /\ Len(S) \in Nat
      BY <1>1 DEF SentOK
    <3> QED BY <3>1, StoreKeeps
  <2> HIDE DEF x, y
  <2>6. DOMAIN r = DOMAIN s /\ r.u = x /\ r.inputs = y /\ r.synchronizing = s.synchronizing
    BY <2>2 DEF IsHandling
  <2> QED BY <2>4, <2>5, <2>6 DEF IsHandling, r
<1>2. CASE event.type # "input"
  <2>1. r = s \/ r = [s EXCEPT !.synchronizing = FALSE]
    BY <1>2 DEF OnEvent
  <2> HIDE DEF r
  <2>2. /\ DOMAIN r = DOMAIN s /\ r.u = s.u /\ r.inputs = s.inputs
        /\ r.synchronizing \in BOOLEAN
    BY <2>1 DEF IsHandling
  <2> QED BY <1>2, <2>2 DEF IsHandling, r
<1> QED BY <1>1, <1>2

(* The host starts, or takes the spectator for gone.                          *)
LEMMA HostHandles ==
  ASSUME NEW S, NEW a, NEW s, IsHandling(s), EndOK("host", S, a, <<>>, 0, 0, 0, s.u),
         NEW event
  PROVE  LET r == OnEvent("host", s, event)
         IN  /\ IsHandling(r) /\ EndOK("host", S, a, <<>>, 0, 0, 0, r.u)
             /\ r.inputs = s.inputs /\ r.u.state \in {s.u.state, "disconnected"}
             /\ event.type # "synchronized" => r.synchronizing = s.synchronizing
<1> DEFINE r == OnEvent("host", s, event)
<1>1. CASE event.type = "disconnected"
  <2> DEFINE x == Disconnect(s.u)
  <2>1. r = [s EXCEPT !.u = x]
    BY <1>1 DEF OnEvent
  <2>2. /\ DOMAIN x = Fields /\ x.state = "disconnected"
        /\ \A f \in Fields \ {"state"} : x[f] = s.u[f]
    BY DEF Disconnect, EndOK, ControlOK, IsEndpoint, Fields
  <2> HIDE DEF x, r
  <2>3. /\ x.magic = s.u.magic /\ x.next_send_seq = s.u.next_send_seq
        /\ x.next_recv_seq = s.u.next_recv_seq /\ x.roundtrips = s.u.roundtrips
        /\ x.remote_magic = s.u.remote_magic /\ x.pending = s.u.pending
        /\ x.last_acked = s.u.last_acked /\ x.last_received = s.u.last_received
        /\ x.out = s.u.out /\ x.events = s.u.events
    BY <2>2 DEF Fields
  <2>4. IsEndpoint(x)
    BY <2>2, <2>3 DEF EndOK, ControlOK, IsEndpoint
  <2>5. ControlOK("host", 0, x)
    BY <2>2, <2>3, <2>4 DEF EndOK, ControlOK
  <2>6. EndOK("host", S, a, <<>>, 0, 0, 0, x)
    BY <2>3, <2>5 DEF EndOK, Acked
  <2>7. DOMAIN r = DOMAIN s /\ r.u = x /\ r.inputs = s.inputs /\ r.synchronizing = s.synchronizing
    BY <2>1 DEF IsHandling
  <2> QED BY <2>2, <2>6, <2>7 DEF IsHandling, r
<1>2. CASE event.type # "disconnected"
  <2>1. r = s \/ (event.type = "synchronized" /\ r = [s EXCEPT !.synchronizing = FALSE])
    BY <1>2 DEF OnEvent
  <2> HIDE DEF r
  <2>2. /\ DOMAIN r = DOMAIN s /\ r.u = s.u /\ r.inputs = s.inputs
        /\ r.synchronizing \in BOOLEAN
        /\ event.type # "synchronized" => r.synchronizing = s.synchronizing
    BY <2>1 DEF IsHandling
  <2> QED BY <2>2 DEF IsHandling, r
<1> QED BY <1>1, <1>2

(* The steps of EndPump's last part.                                          *)
First(p, u) == [u |-> TakeEvents(u), inputs |-> inputs, synchronizing |-> synchronizing[p]]
Done(p, u) ==
    LET done[n \in 0 .. Len(u.events)] ==
            IF n = 0 THEN First(p, u) ELSE OnEvent(p, done[n - 1], u.events[n])
    IN  done

(* There is such a function: one step can be added to the others.             *)
LEMMA DoneDoes ==
  ASSUME NEW p, NEW u, IsList(u.events)
  PROVE  LET f == Done(p, u)
         IN  /\ f[0] = First(p, u)
             /\ \A n \in 1 .. Len(u.events) : f[n] = OnEvent(p, f[n - 1], u.events[n])
<1> DEFINE start == First(p, u)
           E == u.events
           step(f, n) == IF n = 0 THEN start ELSE OnEvent(p, f[n - 1], E[n])
           P == {k \in Nat : \E f : f = [n \in 0 .. k |-> step(f, n)]}
           f == CHOOSE f : f = [n \in 0 .. Len(E) |-> step(f, n)]
<1>1. Len(E) \in Nat
  BY ListFacts
<1>2. 0 \in P
  <2> DEFINE d == [n \in 0 .. 0 |-> start]
  <2>1. d = [n \in 0 .. 0 |-> step(d, n)]
    <3>1. \A n \in 0 .. 0 : step(d, n) = start
      OBVIOUS
    <3> HIDE DEF step
    <3> QED BY <3>1
  <2> HIDE DEF step
  <2> QED BY <2>1
<1>3. ASSUME NEW k \in Nat, k \in P
      PROVE  k + 1 \in P
  <2>1. PICK d : d = [n \in 0 .. k |-> step(d, n)]
    BY <1>3
  <2> DEFINE x == OnEvent(p, d[k], E[k + 1])
             c == [n \in 0 .. k + 1 |-> IF n = k + 1 THEN x ELSE d[n]]
  <2>2. \A n \in 0 .. k + 1 : c[n] = IF n = k + 1 THEN x ELSE d[n]
    OBVIOUS
  <2>3. \A n \in 0 .. k : d[n] = step(d, n)
    <3> HIDE DEF step
    <3> QED BY <2>1
  <2>4. \A n \in 0 .. k : c[n] = d[n]
    <3> HIDE DEF c
    <3> QED BY <2>2
  <2>5. \A n \in 0 .. k + 1 : c[n] = step(c, n)
    <3> SUFFICES ASSUME NEW n \in 0 .. k + 1 PROVE c[n] = step(c, n)
      OBVIOUS
    <3> HIDE DEF c
    <3>1. CASE n = k + 1
      <4>1. n # 0 /\ n - 1 = k /\ k \in 0 .. k
        BY <3>1
      <4>2. step(c, n) = OnEvent(p, c[k], E[k + 1])
        BY <3>1, <4>1
      <4> QED BY <2>2, <2>4, <3>1, <4>1, <4>2
    <3>2. CASE n = 0
      BY <2>3, <2>4, <3>2
    <3>3. CASE n # 0 /\ n # k + 1
      <4>1. n \in 0 .. k /\ n - 1 \in 0 .. k
        BY <3>3
      <4>2. c[n] = d[n] /\ c[n - 1] = d[n - 1] /\ d[n] = step(d, n)
        BY <2>3, <2>4, <4>1
      <4> QED BY <3>3, <4>2
    <3> QED BY <3>1, <3>2, <3>3
  <2>6. c = [n \in 0 .. k + 1 |-> step(c, n)]
    <3> HIDE DEF step, x
    <3> QED BY <2>5
  <2> HIDE DEF c, step
  <2> QED BY <2>6
<1>4. Len(E) \in P
  <2> DEFINE n0 == Len(E)
  <2> HIDE DEF P
  <2>1. n0 \in Int /\ n0 \in 0 .. n0 /\ \A n \in Nat : n < n0 /\ n \in P => n + 1 \in P
    BY <1>1, <1>3
  <2> HIDE DEF n0
  <2>2. \A n \in 0 .. n0 : n \in P
    BY <1>2, <2>1, Induction
  <2> QED BY <2>1, <2>2 DEF n0
<1>5. f = [n \in 0 .. Len(E) |-> step(f, n)]
  <2> HIDE DEF step
  <2> QED BY <1>4
<1>6. Done(p, u) = f
  BY DEF Done
<1>7. \A n \in 0 .. Len(E) : f[n] = step(f, n)
  <2> HIDE DEF f, step
  <2> QED BY <1>5
<1>8. f[0] = start /\ \A n \in 1 .. Len(E) : f[n] = OnEvent(p, f[n - 1], E[n])
  <2> HIDE DEF f, start, E
  <2> QED BY <1>1, <1>7
<1> HIDE DEF f, start
<1> QED BY <1>6, <1>8 DEF start

(* The spectator handles all its events.                                      *)
LEMMA ViewerEvents ==
  ASSUME synchronizing \in [Players -> BOOLEAN], NEW S, NEW h, NEW g,
         Known("spectator", <<>>, 0, S, h, g, g), NEW u,
         EndOK("spectator", <<>>, 0, S, h, g, g, u), RingOK(S, h, inputs)
  PROVE  LET last == Done("spectator", u)[Len(u.events)]
         IN  /\ IsHandling(last) /\ EndOK("spectator", <<>>, 0, S, g, g, g, last.u)
             /\ RingOK(S, g, last.inputs)
<1> DEFINE f == Done("spectator", u)
           E == u.events
<1>1. /\ IsList(E) /\ Len(E) \in Nat /\ h \in Nat /\ g \in Nat /\ SentOK(S)
      /\ "spectator" \in Players
  BY ListFacts DEF EndOK, ControlOK, IsEndpoint, Known, SentOK
<1>2. /\ f[0] = First("spectator", u)
      /\ \A n \in 1 .. Len(E) : f[n] = OnEvent("spectator", f[n - 1], E[n])
  BY <1>1, DoneDoes
<1>3. PICK c \in [0 .. Len(E) -> Nat] : c[0] = h /\ c[Len(E)] = g /\ Counts(S, E, c)
  BY DEF EndOK, Brings
<1> HIDE DEF f, E
<1> DEFINE Fine(n) == /\ IsHandling(f[n]) /\ EndOK("spectator", <<>>, 0, S, g, g, g, f[n].u)
                      /\ RingOK(S, c[n], f[n].inputs)
           G == {n \in Nat : n > Len(E) \/ Fine(n)}
<1>4. Fine(0)
  <2> DEFINE w == TakeEvents(u)
  <2>1. EndOK("spectator", <<>>, 0, S, g, g, g, w)
    BY TakeEventsKeeps
  <2> HIDE DEF w
  <2>2. f[0] = [u |-> w, inputs |-> inputs, synchronizing |-> synchronizing["spectator"]]
    BY <1>2 DEF First, w
  <2>3. /\ DOMAIN f[0] = {"u", "inputs", "synchronizing"} /\ f[0].u = w
        /\ f[0].inputs = inputs /\ f[0].synchronizing \in BOOLEAN
    BY <1>1, <2>2
  <2> QED BY <1>3, <2>1, <2>3 DEF IsHandling
<1>5. ASSUME NEW n \in Nat, n < Len(E), Fine(n)
      PROVE  Fine(n + 1)
  <2>1. /\ n + 1 \in 1 .. Len(E) /\ (n + 1) - 1 = n /\ c[n] \in Nat /\ c[n + 1] \in Nat
    BY <1>1, <1>3, <1>5
  <2> DEFINE s == f[n]
             event == E[n + 1]
             k == c[n]
             k2 == c[n + 1]
  <2>2. f[n + 1] = OnEvent("spectator", s, event)
    BY <1>2, <2>1
  <2>3. IF event.type = "input"
        THEN k2 = k + 1 /\ k2 \in 1 .. Len(S) /\ event.input = S[k2]
        ELSE k2 = k
    BY <1>3, <2>1 DEF Counts
  <2>4. /\ IsHandling(s) /\ EndOK("spectator", <<>>, 0, S, g, g, g, s.u)
        /\ RingOK(S, k, s.inputs) /\ k \in Nat /\ k2 \in Nat
    BY <1>5, <2>1
  <2> HIDE DEF s, event, k, k2, Fine
  <2>5. LET r == OnEvent("spectator", s, event)
        IN  /\ IsHandling(r) /\ EndOK("spectator", <<>>, 0, S, g, g, g, r.u)
            /\ RingOK(S, k2, r.inputs)
    BY <1>1, <2>3, <2>4, ViewerHandles
  <2> QED BY <2>2, <2>5 DEF Fine, k2
<1> HIDE DEF Fine
<1>6. \A n \in 0 .. Len(E) : n \in G
  <2>1. 0 \in G /\ \A n \in Nat : n < Len(E) /\ n \in G => n + 1 \in G
    BY <1>1, <1>4, <1>5
  <2>2. Len(E) \in Int
    BY <1>1
  <2> HIDE DEF G
  <2> QED BY <2>1, <2>2, Induction
<1>7. Fine(Len(E))
  BY <1>1, <1>6
<1> QED BY <1>3, <1>7 DEF Fine, f, E

(* The host handles all its events.                                           *)
LEMMA HostEvents ==
  ASSUME synchronizing \in [Players -> BOOLEAN], NEW S, NEW a,
         Known("host", S, a, <<>>, 0, 0, 0), NEW u, EndOK("host", S, a, <<>>, 0, 0, 0, u)
  PROVE  LET last == Done("host", u)[Len(u.events)]
         IN  /\ IsHandling(last) /\ EndOK("host", S, a, <<>>, 0, 0, 0, last.u)
             /\ last.inputs = inputs /\ last.u.state \in {u.state, "disconnected"}
             /\ u.state = "syncing" => last.synchronizing = synchronizing["host"]
<1> DEFINE f == Done("host", u)
           E == u.events
<1>1. IsList(E) /\ Len(E) \in Nat /\ "host" \in Players
  BY ListFacts DEF EndOK, ControlOK, IsEndpoint, Known
<1>2. /\ f[0] = First("host", u)
      /\ \A n \in 1 .. Len(E) : f[n] = OnEvent("host", f[n - 1], E[n])
  BY <1>1, DoneDoes
<1>3. u.state = "syncing" => \A n \in 1 .. Len(E) : E[n].type # "synchronized"
  BY DEF EndOK, ControlOK
<1> HIDE DEF f, E
<1> DEFINE Fine(n) == /\ IsHandling(f[n]) /\ EndOK("host", S, a, <<>>, 0, 0, 0, f[n].u)
                      /\ f[n].inputs = inputs /\ f[n].u.state \in {u.state, "disconnected"}
                      /\ u.state = "syncing" => f[n].synchronizing = synchronizing["host"]
           G == {n \in Nat : n > Len(E) \/ Fine(n)}
<1>4. Fine(0)
  <2> DEFINE w == TakeEvents(u)
  <2>1. EndOK("host", S, a, <<>>, 0, 0, 0, w) /\ w.state = u.state
    BY TakeEventsKeeps
  <2> HIDE DEF w
  <2>2. f[0] = [u |-> w, inputs |-> inputs, synchronizing |-> synchronizing["host"]]
    BY <1>2 DEF First, w
  <2>3. /\ DOMAIN f[0] = {"u", "inputs", "synchronizing"} /\ f[0].u = w
        /\ f[0].inputs = inputs /\ f[0].synchronizing = synchronizing["host"]
        /\ f[0].synchronizing \in BOOLEAN
    BY <1>1, <2>2
  <2> QED BY <2>1, <2>3 DEF IsHandling
<1>5. ASSUME NEW n \in Nat, n < Len(E), Fine(n)
      PROVE  Fine(n + 1)
  <2>1. n + 1 \in 1 .. Len(E) /\ (n + 1) - 1 = n
    BY <1>1, <1>5
  <2> DEFINE s == f[n]
             event == E[n + 1]
  <2>2. f[n + 1] = OnEvent("host", s, event)
    BY <1>2, <2>1
  <2>3. u.state = "syncing" => event.type # "synchronized"
    BY <1>3, <2>1
  <2>4. /\ IsHandling(s) /\ EndOK("host", S, a, <<>>, 0, 0, 0, s.u)
        /\ s.inputs = inputs /\ s.u.state \in {u.state, "disconnected"}
        /\ u.state = "syncing" => s.synchronizing = synchronizing["host"]
    BY <1>5
  <2> HIDE DEF s, event, Fine
  <2>5. LET r == OnEvent("host", s, event)
        IN  /\ IsHandling(r) /\ EndOK("host", S, a, <<>>, 0, 0, 0, r.u)
            /\ r.inputs = s.inputs /\ r.u.state \in {s.u.state, "disconnected"}
            /\ event.type # "synchronized" => r.synchronizing = s.synchronizing
    <3>1. IsHandling(s) /\ EndOK("host", S, a, <<>>, 0, 0, 0, s.u)
      BY <2>4
    <3> QED BY ONLY <3>1, HostHandles
  <2> QED BY <2>2, <2>3, <2>4, <2>5 DEF Fine
<1> HIDE DEF Fine
<1>6. \A n \in 0 .. Len(E) : n \in G
  <2>1. 0 \in G /\ \A n \in Nat : n < Len(E) /\ n \in G => n + 1 \in G
    BY <1>1, <1>4, <1>5
  <2>2. Len(E) \in Int
    BY <1>1
  <2> HIDE DEF G
  <2> QED BY <2>1, <2>2, Induction
<1>7. Fine(Len(E))
  BY <1>1, <1>6
<1> QED BY <1>7 DEF Fine, f, E
-----------------------------------------------------------------------------
(* The inductive invariant.  The host has sent the inputs S; the spectator    *)
(* has received g of them and handled h.                                      *)
Shape ==
    /\ DOMAIN endpoint = Players /\ DOMAIN network = Players
    /\ synchronizing \in [Players -> BOOLEAN]
    /\ exited \in [Players -> BOOLEAN] /\ late \in [Players -> BOOLEAN]

HostOK(S, h) ==
    EndOK("host", S, h, <<>>, 0, 0, 0, endpoint["host"]) /\ endpoint["host"].out = <<>>

ViewerOK(S, h, g) ==
    /\ EndOK("spectator", <<>>, 0, S, h, h, g, endpoint["spectator"])
    /\ endpoint["spectator"].out = <<>>

PacketsOK(S, h) ==
    /\ \A m \in network["spectator"] : PacketOK("host", S, h, 0, m)
    /\ \A m \in network["host"] : PacketOK("spectator", <<>>, 0, h, m)

FedOK(S) ==
    /\ SentOK(fed) /\ Len(fed) <= Len(Feed) /\ Extends(S, fed)
    /\ endpoint["host"].state = "running" => Len(S) = Len(fed)
    /\ endpoint["host"].state = "syncing" => Len(fed) = 0 /\ synchronizing["host"]

PlayedOK(S, h) ==
    /\ RingOK(S, h, inputs)
    /\ played \in Seq(AnyInput) /\ Extends(played, S) /\ Len(played) <= h

Core(S, h, g) ==
    /\ SentOK(S) /\ g \in 0 .. Len(S) /\ h \in 0 .. g
    /\ HostOK(S, h) /\ ViewerOK(S, h, g) /\ PacketsOK(S, h) /\ FedOK(S) /\ PlayedOK(S, h)

IInv == Shape /\ \E S \in Seq(AnyInput), h, g \in Nat : Core(S, h, g)

(* The two ends.                                                              *)
LEMMA Ends ==
  /\ "host" \in Players /\ "spectator" \in Players
  /\ PeerOf("host") = "spectator" /\ PeerOf("spectator") = "host"
  /\ \A p \in Players : p = "host" \/ p = "spectator"
<1>1. Players = {"host", "spectator"}
  BY SpectatorAssumption
<1> QED BY <1>1 DEF PeerOf

(* No input is a stream.                                                      *)
LEMMA NoInputs == SentOK(<<>>) /\ Len(<<>>) = 0 /\ \A S : Len(S) \in Nat => Extends(<<>>, S)
<1>1. <<>> \in Seq(AnyInput) /\ Len(<<>>) = 0
  OBVIOUS
<1> QED BY <1>1 DEF SentOK, Extends

(* What has been sent goes to the network.                                    *)
LEMMA ClearOut ==
  ASSUME NEW p, NEW S, NEW a, NEW T, NEW h, NEW b, NEW g, NEW u,
         EndOK(p, S, a, T, h, b, g, u)
  PROVE  LET w == [u EXCEPT !.out = <<>>]
         IN  EndOK(p, S, a, T, h, b, g, w) /\ w.state = u.state /\ w.out = <<>>
<1> DEFINE w == [u EXCEPT !.out = <<>>]
<1>1. /\ DOMAIN w = Fields /\ w.out = <<>> /\ \A f \in Fields \ {"out"} : w[f] = u[f]
  BY DEF EndOK, ControlOK, IsEndpoint, Fields
<1> HIDE DEF w
<1>2. /\ w.state = u.state /\ w.magic = u.magic /\ w.next_send_seq = u.next_send_seq
      /\ w.next_recv_seq = u.next_recv_seq /\ w.roundtrips = u.roundtrips
      /\ w.remote_magic = u.remote_magic /\ w.open = u.open /\ w.pending = u.pending
      /\ w.last_acked = u.last_acked /\ w.last_received = u.last_received
      /\ w.events = u.events
  BY <1>1 DEF Fields
<1>3. IsEndpoint(w) /\ ToSet(w.out) = {}
  BY <1>1, <1>2, NoList DEF EndOK, ControlOK, IsEndpoint
<1>4. ControlOK(p, g, w)
  BY <1>2, <1>3 DEF EndOK, ControlOK
<1> QED BY <1>1, <1>2, <1>3, <1>4 DEF EndOK, Acked, w

(* What a step of one end leaves of both endpoints and of the network.        *)
LEMMA BecomesDoes ==
  ASSUME Shape, NEW p \in Players, NEW w, Becomes(p, w)
  PROVE  LET q == PeerOf(p)
         IN  /\ DOMAIN endpoint' = Players /\ DOMAIN network' = Players
             /\ endpoint'[p] = [w EXCEPT !.out = <<>>] /\ endpoint'[q] = endpoint[q]
             /\ network'[p] = network[p]
             /\ \A m \in network'[q] : m \in network[q] \/ m \in ToSet(w.out)
<1> DEFINE x == [w EXCEPT !.out = <<>>]
           q == PeerOf(p)
<1>1. q \in Players /\ q # p
  BY PeerOfPeer
<1>2. endpoint' = [endpoint EXCEPT ![p] = x]
  BY DEF Becomes
<1>3. PICK kept : /\ kept \subseteq network[q] \cup ToSet(w.out)
                  /\ network' = [network EXCEPT ![q] = kept]
  BY DEF Becomes, Transmit
<1> HIDE DEF x, q
<1>4. /\ DOMAIN endpoint' = Players /\ endpoint'[p] = x /\ endpoint'[q] = endpoint[q]
  BY <1>1, <1>2 DEF Shape
<1>5. DOMAIN network' = Players /\ network'[p] = network[p] /\ network'[q] = kept
  BY <1>1, <1>3 DEF Shape
<1> QED BY <1>3, <1>4, <1>5 DEF x, q

(* A step of the host, which may send more.                                   *)
LEMMA HostStep ==
  ASSUME Shape, NEW S, NEW h, NEW g, Core(S, h, g), NEW S2, SentOK(S2), Extends(S, S2),
         NEW w, EndOK("host", S2, h, <<>>, 0, 0, 0, w), Becomes("host", w),
         inputs' = inputs, played' = played
  PROVE  /\ DOMAIN endpoint' = Players /\ DOMAIN network' = Players
         /\ endpoint'["host"].state = w.state
         /\ g \in 0 .. Len(S2) /\ HostOK(S2, h)' /\ ViewerOK(S2, h, g)'
         /\ PacketsOK(S2, h)' /\ PlayedOK(S2, h)'
<1> DEFINE x == [w EXCEPT !.out = <<>>]
           v == endpoint["spectator"]
<1>1. /\ DOMAIN endpoint' = Players /\ DOMAIN network' = Players
      /\ endpoint'["host"] = x /\ endpoint'["spectator"] = v
      /\ network'["host"] = network["host"]
      /\ \A m \in network'["spectator"] : m \in network["spectator"] \/ m \in ToSet(w.out)
  BY BecomesDoes, Ends
<1>2. EndOK("host", S2, h, <<>>, 0, 0, 0, x) /\ x.state = w.state /\ x.out = <<>>
  BY ClearOut
<1> HIDE DEF x, v
<1>3. /\ SentOK(S) /\ Len(S) \in Nat /\ Len(S2) \in Nat /\ Len(S) <= Len(S2)
      /\ g \in 0 .. Len(S) /\ g \in 0 .. Len(S2) /\ h \in 0 .. g /\ h \in Nat
  BY DEF Core, SentOK, Extends
<1>4. HostOK(S2, h)'
  BY <1>1, <1>2 DEF HostOK
<1>5. ViewerOK(S2, h, g)'
  <2>1. EndOK("spectator", <<>>, 0, S, h, h, g, v) /\ v.out = <<>>
    BY DEF Core, ViewerOK, v
  <2>2. EndOK("spectator", <<>>, 0, S2, h, h, g, v)
    BY <1>3, <2>1, NoInputs, EndMore
  <2> QED BY <1>1, <2>1, <2>2 DEF ViewerOK
<1>6. PacketsOK(S2, h)'
  <2>1. \A m \in network'["spectator"] : PacketOK("host", S2, h, 0, m)
    <3> SUFFICES ASSUME NEW m \in network'["spectator"]
                 PROVE  PacketOK("host", S2, h, 0, m)
      OBVIOUS
    <3>1. CASE m \in network["spectator"]
      <4>1. PacketOK("host", S, h, 0, m)
        BY <3>1 DEF Core, PacketsOK
      <4> QED BY <1>3, <4>1, PacketMore
    <3>2. CASE m \in ToSet(w.out)
      BY <3>2 DEF EndOK
    <3> QED BY <1>1, <3>1, <3>2
  <2>2. \A m \in network'["host"] : PacketOK("spectator", <<>>, 0, h, m)
    BY <1>1 DEF Core, PacketsOK
  <2> QED BY <2>1, <2>2 DEF PacketsOK
<1>7. PlayedOK(S2, h)'
  <2>1. /\ RingOK(S, h, inputs) /\ played \in Seq(AnyInput) /\ Extends(played, S)
        /\ Len(played) <= h
    BY DEF Core, PlayedOK
  <2>2. \A n \in 1 .. Len(S) : S2[n] = S[n]
    BY DEF Extends
  <2>3. RingOK(S2, h, inputs)
    <3>1. \A f \in Nat : f < h => f + 1 \in 1 .. Len(S)
      BY <1>3
    <3>2. ASSUME NEW k \in 0 .. N - 1
          PROVE  Holding(S2, h, k, inputs[k])
      <4>1. Holding(S, h, k, inputs[k])
        BY <2>1, <3>2 DEF RingOK
      <4> QED BY <2>2, <3>1, <4>1 DEF Holding
    <3> QED BY <2>1, <3>2 DEF RingOK
  <2>4. Extends(played, S2)
    <3>1. Len(played) \in Nat /\ \A n \in 1 .. Len(played) : n \in 1 .. Len(S)
      BY <1>3, <2>1
    <3> QED BY <1>3, <2>1, <2>2, <3>1 DEF Extends
  <2> QED BY <2>1, <2>3, <2>4 DEF PlayedOK
<1> QED BY <1>1, <1>2, <1>3, <1>4, <1>5, <1>6, <1>7

(* A step of the spectator, who may receive and handle more.                  *)
LEMMA ViewerStep ==
  ASSUME Shape, NEW S, NEW h, NEW g, Core(S, h, g), NEW g2 \in 0 .. Len(S), NEW h2 \in 0 .. g2,
         h <= h2, NEW w, EndOK("spectator", <<>>, 0, S, h2, h2, g2, w),
         Becomes("spectator", w), RingOK(S, h2, inputs'), played' = played, fed' = fed
  PROVE  /\ DOMAIN endpoint' = Players /\ DOMAIN network' = Players
         /\ endpoint'["host"] = endpoint["host"]
         /\ HostOK(S, h2)' /\ ViewerOK(S, h2, g2)' /\ PacketsOK(S, h2)' /\ PlayedOK(S, h2)'
<1> DEFINE x == [w EXCEPT !.out = <<>>]
           u == endpoint["host"]
<1>1. /\ DOMAIN endpoint' = Players /\ DOMAIN network' = Players
      /\ endpoint'["spectator"] = x /\ endpoint'["host"] = u
      /\ network'["spectator"] = network["spectator"]
      /\ \A m \in network'["host"] : m \in network["host"] \/ m \in ToSet(w.out)
  BY BecomesDoes, Ends
<1>2. EndOK("spectator", <<>>, 0, S, h2, h2, g2, x) /\ x.out = <<>>
  BY ClearOut
<1> HIDE DEF x, u
<1>3. /\ SentOK(S) /\ Len(S) \in Nat /\ h \in Nat /\ h2 \in Nat /\ Extends(S, S)
      /\ Len(<<>>) = 0 /\ Extends(<<>>, <<>>)
  BY NoInputs DEF Core, SentOK, Extends
<1>4. ViewerOK(S, h2, g2)'
  BY <1>1, <1>2 DEF ViewerOK
<1>5. HostOK(S, h2)'
  <2>1. EndOK("host", S, h, <<>>, 0, 0, 0, u) /\ u.out = <<>>
    BY DEF Core, HostOK, u
  <2>2. EndOK("host", S, h2, <<>>, 0, 0, 0, u)
    BY <1>3, <2>1, EndMore
  <2> QED BY <1>1, <2>1, <2>2 DEF HostOK
<1>6. PacketsOK(S, h2)'
  <2>1. \A m \in network'["host"] : PacketOK("spectator", <<>>, 0, h2, m)
    <3> SUFFICES ASSUME NEW m \in network'["host"]
                 PROVE  PacketOK("spectator", <<>>, 0, h2, m)
      OBVIOUS
    <3>1. CASE m \in network["host"]
      <4>1. PacketOK("spectator", <<>>, 0, h, m)
        BY <3>1 DEF Core, PacketsOK
      <4> QED BY <1>3, <4>1, PacketMore
    <3>2. CASE m \in ToSet(w.out)
      BY <3>2 DEF EndOK
    <3> QED BY <1>1, <3>1, <3>2
  <2>2. \A m \in network'["spectator"] : PacketOK("host", S, h2, 0, m)
    <3> SUFFICES ASSUME NEW m \in network["spectator"]
                 PROVE  PacketOK("host", S, h2, 0, m)
      BY <1>1
    <3>1. PacketOK("host", S, h, 0, m)
      BY DEF Core, PacketsOK
    <3> QED BY <1>3, <3>1, PacketMore
  <2> QED BY <2>1, <2>2 DEF PacketsOK
<1>7. PlayedOK(S, h2)'
  <2>1. played \in Seq(AnyInput) /\ Extends(played, S) /\ Len(played) <= h /\ Len(played) \in Nat
    BY DEF Core, PlayedOK
  <2>2. Len(played) <= h2
    BY <1>3, <2>1
  <2> QED BY <2>1, <2>2 DEF PlayedOK
<1> QED BY <1>1, <1>4, <1>5, <1>6, <1>7 DEF u

(* What is said of the three streams.                                         *)
LEMMA CoreSays ==
  ASSUME NEW S, NEW h, NEW g, Core(S, h, g)
  PROVE  /\ SentOK(S) /\ Len(S) \in Nat /\ g \in 0 .. Len(S) /\ h \in 0 .. g
         /\ SentOK(fed) /\ Len(fed) \in Nat /\ Extends(S, fed) /\ Extends(S, S)
<1>1. SentOK(S) /\ g \in 0 .. Len(S) /\ h \in 0 .. g /\ SentOK(fed) /\ Extends(S, fed)
  BY DEF Core, FedOK
<1>2. S \in Seq(AnyInput) /\ fed \in Seq(AnyInput)
  BY <1>1 DEF SentOK
<1>3. Len(S) \in Nat /\ Len(fed) \in Nat
  BY <1>2
<1>4. Extends(S, S)
  BY <1>3 DEF Extends
<1> QED BY <1>1, <1>3, <1>4

(* The invariant, from its parts.                                             *)
LEMMA Again ==
  ASSUME NEW S, NEW h, NEW g, SentOK(S), g \in 0 .. Len(S), h \in 0 .. g,
         Shape', HostOK(S, h)', ViewerOK(S, h, g)', PacketsOK(S, h)', FedOK(S)', PlayedOK(S, h)'
  PROVE  IInv'
<1>1. S \in Seq(AnyInput) /\ h \in Nat /\ g \in Nat
  BY DEF SentOK
<1>2. Core(S, h, g)'
  BY DEF Core
<1> QED BY <1>1, <1>2 DEF IInv

(* A process ends.                                                            *)
LEMMA ExitKeeps ==
  ASSUME IInv, NEW p \in Players, Exit(p)
  PROVE  IInv'
<1>1. /\ exited' = [exited EXCEPT ![p] = TRUE] /\ endpoint' = endpoint /\ network' = network
      /\ synchronizing' = synchronizing /\ fed' = fed /\ inputs' = inputs
      /\ played' = played /\ late' = late
  BY DEF Exit
<1>2. PICK S \in Seq(AnyInput), h \in Nat, g \in Nat : Core(S, h, g)
  BY DEF IInv
<1>3. Shape'
  BY <1>1 DEF IInv, Shape
<1>4. /\ HostOK(S, h)' /\ ViewerOK(S, h, g)' /\ PacketsOK(S, h)' /\ FedOK(S)' /\ PlayedOK(S, h)'
  BY <1>1, <1>2 DEF Core, HostOK, ViewerOK, PacketsOK, FedOK, PlayedOK
<1> QED BY <1>2, <1>3, <1>4, Again DEF Core

(* The frame that is confirmed next is pushed.                                *)
LEMMA PushFrameKeeps ==
  ASSUME IInv, PushFrame
  PROVE  IInv'
<1> DEFINE x == [frame |-> Len(fed), bits |-> Feed[Len(fed) + 1]]
           u == endpoint["host"]
           status == Status("host", fed')
           w == SendInput(u, x, status)
<1>1. CASE Exit("host")
  BY <1>1, ExitKeeps, Ends
<1>2. CASE ~Exit("host")
  <2>1. /\ ~synchronizing["host"] /\ Len(fed) < Len(Feed) /\ fed' = Append(fed, x)
        /\ Becomes("host", w) /\ synchronizing' = synchronizing /\ inputs' = inputs
        /\ played' = played /\ exited' = exited /\ late' = late
    BY <1>2 DEF PushFrame
  <2>2. PICK S \in Seq(AnyInput), h \in Nat, g \in Nat : Core(S, h, g)
    BY DEF IInv
  <2> HIDE DEF w, status
  <2>3. /\ SentOK(S) /\ Len(S) \in Nat /\ g \in 0 .. Len(S) /\ h \in 0 .. g
        /\ EndOK("host", S, h, <<>>, 0, 0, 0, u) /\ u.out = <<>>
        /\ SentOK(fed) /\ Len(fed) \in Nat /\ Len(fed) < Len(Feed) /\ Extends(S, fed)
        /\ u.state = "running" => Len(S) = Len(fed)
        /\ u.state # "syncing"
    BY <2>1, <2>2 DEF Core, HostOK, FedOK, SentOK
  <2>4. x \in AnyInput /\ x.frame = Len(fed)
    <3>1. Feed \in Seq(Bits) /\ Len(fed) + 1 \in 1 .. Len(Feed)
      BY <2>3, SpectatorAssumption
    <3>2. Feed[Len(fed) + 1] \in Bits
      BY <3>1
    <3> QED BY <2>3, <3>2 DEF AnyInput
  <2>5. Known("host", S, h, <<>>, 0, 0, 0)
    BY <2>3, NoInputs, Ends DEF Known
  <2> DEFINE sent == IF u.state = "running" THEN Append(S, x) ELSE S
  <2>6. EndOK("host", sent, h, <<>>, 0, 0, 0, w) /\ w.state = u.state
    <3>1. u.state = "running" => x.frame = Len(S)
      BY <2>3, <2>4
    <3> HIDE DEF x, u
    <3> QED BY <2>3, <2>4, <2>5, <3>1, SendInputKeeps DEF w
  <2> HIDE DEF x, u
  <2>7. SentOK(fed') /\ Extends(fed, fed') /\ Len(fed') = Len(fed) + 1 /\ fed'[Len(fed) + 1] = x
    BY <2>1, <2>3, <2>4, AppendExtends
  <2>8. /\ SentOK(sent) /\ Extends(S, sent) /\ Extends(sent, fed') /\ Len(sent) \in Nat
        /\ u.state = "running" => Len(sent) = Len(fed')
    <3>1. CASE u.state = "running"
      <4>1. sent = Append(S, x) /\ x.frame = Len(S) /\ Len(S) = Len(fed)
        BY <2>3, <2>4, <3>1
      <4>2. SentOK(sent) /\ Extends(S, sent) /\ Len(sent) = Len(S) + 1 /\ sent[Len(S) + 1] = x
        BY <2>3, <2>4, <4>1, AppendExtends
      <4> HIDE DEF sent
      <4>3. \A n \in 1 .. Len(sent) : n \in 1 .. Len(S) \/ n = Len(S) + 1
        BY <2>3, <4>2
      <4>4. \A n \in 1 .. Len(sent) : fed'[n] = sent[n]
        BY <2>3, <2>7, <4>1, <4>2, <4>3 DEF Extends
      <4> QED BY <2>3, <2>7, <4>1, <4>2, <4>4 DEF Extends
    <3>2. CASE u.state # "running"
      <4>1. sent = S
        BY <3>2
      <4> QED BY <2>3, <2>7, <3>2, <4>1 DEF Extends
    <3> QED BY <3>1, <3>2
  <2> HIDE DEF sent
  <2>9. PICK S2 : S2 = sent
    OBVIOUS
  <2>10. /\ EndOK("host", S2, h, <<>>, 0, 0, 0, w)
         /\ SentOK(S2) /\ Extends(S, S2) /\ Extends(S2, fed')
         /\ u.state = "running" => Len(S2) = Len(fed')
    BY <2>6, <2>8, <2>9
  <2>11. /\ DOMAIN endpoint' = Players /\ DOMAIN network' = Players
        /\ endpoint'["host"].state = w.state
        /\ g \in 0 .. Len(S2) /\ HostOK(S2, h)' /\ ViewerOK(S2, h, g)'
        /\ PacketsOK(S2, h)' /\ PlayedOK(S2, h)'
    BY <2>1, <2>2, <2>10, HostStep DEF IInv
  <2>12. FedOK(S2)'
    <3>1. Len(fed') <= Len(Feed)
      <4>1. Len(Feed) \in Nat
        BY SpectatorAssumption
      <4> QED BY <2>3, <2>7, <4>1
    <3> QED BY <2>3, <2>6, <2>7, <2>10, <2>11, <3>1 DEF FedOK
  <2>13. Shape'
    BY <2>1, <2>11 DEF IInv, Shape
  <2> QED BY <2>3, <2>10, <2>11, <2>12, <2>13, Again
<1> QED BY <1>1, <1>2

(* A packet is read.                                                          *)
LEMMA ReceiveKeeps ==
  ASSUME IInv, NEW p \in Players, Receive(p)
  PROVE  IInv'
<1>1. CASE Exit(p)
  BY <1>1, ExitKeeps
<1>2. CASE ~Exit(p)
  <2>1. PICK m \in network[p], random \in Randoms :
           /\ Becomes(p, OnMsg(endpoint[p], m, random))
           /\ late' = [late EXCEPT ![p] = @ \/ Overtaken(endpoint[p], m)]
           /\ UNCHANGED <<synchronizing, fed, inputs, played, exited>>
    BY <1>2 DEF Receive
  <2>2. PICK S \in Seq(AnyInput), h \in Nat, g \in Nat : Core(S, h, g)
    BY DEF IInv
  <2> DEFINE w == OnMsg(endpoint[p], m, random)
  <2>3. /\ Becomes(p, w) /\ fed' = fed /\ inputs' = inputs /\ played' = played
        /\ synchronizing' = synchronizing
    BY <2>1
  <2>4. /\ synchronizing' \in [Players -> BOOLEAN] /\ exited' \in [Players -> BOOLEAN]
        /\ late' \in [Players -> BOOLEAN]
    <3>1. (late[p] \/ Overtaken(endpoint[p], m)) \in BOOLEAN
      OBVIOUS
    <3>2. late' \in [Players -> BOOLEAN]
      BY <2>1, <3>1 DEF IInv, Shape
    <3> QED BY <2>1, <3>2 DEF IInv, Shape
  <2>5. /\ SentOK(S) /\ Len(S) \in Nat /\ g \in 0 .. Len(S) /\ h \in 0 .. g
        /\ SentOK(fed) /\ Len(fed) \in Nat /\ Extends(S, fed) /\ Extends(S, S)
    BY <2>2, CoreSays
  <2> HIDE DEF w
  <2>6. CASE p = "host"
    <3> DEFINE u == endpoint["host"]
    <3>1. EndOK("host", S, h, <<>>, 0, 0, 0, u) /\ PacketOK("spectator", <<>>, 0, h, m)
      BY <2>1, <2>2, <2>6 DEF Core, HostOK, PacketsOK
    <3>2. Known("host", S, h, <<>>, 0, 0, 0)
      BY <2>5, NoInputs, Ends DEF Known
    <3> HIDE DEF u
    <3>3. PICK g2 \in 0 .. Len(<<>>) : EndOK("host", S, h, <<>>, 0, 0, g2, w) /\ Moves(u, w)
      BY <2>6, <3>1, <3>2, Ends, OnMsgKeeps DEF w, u
    <3>4. g2 = 0
      BY <3>3, NoInputs
    <3>5. EndOK("host", S, h, <<>>, 0, 0, 0, w)
      BY <3>3, <3>4
    <3>6. /\ DOMAIN endpoint' = Players /\ DOMAIN network' = Players
          /\ endpoint'["host"].state = w.state
          /\ HostOK(S, h)' /\ ViewerOK(S, h, g)' /\ PacketsOK(S, h)' /\ PlayedOK(S, h)'
      BY <2>2, <2>3, <2>5, <2>6, <3>5, HostStep DEF IInv
    <3>7. FedOK(S)'
      <4>1. /\ Len(fed) <= Len(Feed)
            /\ u.state = "running" => Len(S) = Len(fed)
            /\ u.state = "syncing" => Len(fed) = 0 /\ synchronizing["host"]
        BY <2>2 DEF Core, FedOK, u
      <4>2. Len(fed) = 0 => Len(S) = Len(fed)
        BY <2>5 DEF Extends
      <4> QED BY <2>3, <2>5, <3>3, <3>6, <4>1, <4>2 DEF FedOK, Moves
    <3>8. Shape'
      BY <2>4, <3>6 DEF Shape
    <3> QED BY <2>5, <3>6, <3>7, <3>8, Again
  <2>7. CASE p = "spectator"
    <3> DEFINE u == endpoint["spectator"]
    <3>1. EndOK("spectator", <<>>, 0, S, h, h, g, u) /\ PacketOK("host", S, h, 0, m)
      BY <2>1, <2>2, <2>7 DEF Core, ViewerOK, PacketsOK
    <3>2. Known("spectator", <<>>, 0, S, h, h, g)
      BY <2>5, NoInputs, Ends DEF Known
    <3> HIDE DEF u
    <3>3. PICK g2 \in g .. Len(S) : EndOK("spectator", <<>>, 0, S, h, h, g2, w)
      BY <2>7, <3>1, <3>2, Ends, OnMsgKeeps DEF w, u
    <3>4. g2 \in 0 .. Len(S) /\ h \in 0 .. g2 /\ h <= h
      BY <2>5
    <3>5. RingOK(S, h, inputs')
      BY <2>2, <2>3 DEF Core, PlayedOK
    <3>6. /\ DOMAIN endpoint' = Players /\ DOMAIN network' = Players
          /\ endpoint'["host"] = endpoint["host"]
          /\ HostOK(S, h)' /\ ViewerOK(S, h, g2)' /\ PacketsOK(S, h)' /\ PlayedOK(S, h)'
      BY <2>2, <2>3, <2>7, <3>3, <3>4, <3>5, ViewerStep DEF IInv
    <3>7. FedOK(S)'
      BY <2>2, <2>3, <3>6 DEF Core, FedOK
    <3>8. Shape'
      BY <2>4, <3>6 DEF Shape
    <3> QED BY <2>5, <3>4, <3>6, <3>7, <3>8, Again
  <2> QED BY <2>6, <2>7, Ends
<1> QED BY <1>1, <1>2

(* What EndPump leaves when all events are handled.                           *)
LEMMA EndPumpDoes ==
  ASSUME NEW p, NEW due, NEW random, EndPump(p, due, random), ~Exit(p)
  PROVE  LET u    == OnLoopPoll(endpoint[p], due, Status(p, fed), random)
             last == Done(p, u)[Len(u.events)]
         IN  /\ Becomes(p, last.u) /\ inputs' = last.inputs
             /\ synchronizing' = [synchronizing EXCEPT ![p] = last.synchronizing]
             /\ fed' = fed /\ played' = played /\ exited' = exited /\ late' = late
  BY DEF EndPump, Done, First

(* The spectator's timers and events.                                         *)
LEMMA ViewerPumpKeeps ==
  ASSUME IInv, NEW due, NEW random, EndPump("spectator", due, random)
  PROVE  IInv'
<1> DEFINE u == endpoint["spectator"]
           v == OnLoopPoll(u, due, Status("spectator", fed), random)
           last == Done("spectator", v)[Len(v.events)]
<1>1. CASE Exit("spectator")
  BY <1>1, ExitKeeps, Ends
<1>2. CASE ~Exit("spectator")
  <2>1. /\ Becomes("spectator", last.u) /\ inputs' = last.inputs
        /\ synchronizing' = [synchronizing EXCEPT !["spectator"] = last.synchronizing]
        /\ fed' = fed /\ played' = played /\ exited' = exited /\ late' = late
    BY <1>2, EndPumpDoes
  <2>2. PICK S \in Seq(AnyInput), h \in Nat, g \in Nat : Core(S, h, g)
    BY DEF IInv
  <2>3. /\ SentOK(S) /\ Len(S) \in Nat /\ g \in 0 .. Len(S) /\ g \in Nat /\ h \in 0 .. g /\ h \in Nat
        /\ Extends(S, S) /\ RingOK(S, h, inputs) /\ synchronizing \in [Players -> BOOLEAN]
    BY <2>2 DEF Core, PlayedOK, SentOK, Extends, IInv, Shape
  <2>4. Known("spectator", <<>>, 0, S, h, g, g)
    BY <2>3, NoInputs, Ends DEF Known
  <2>5. EndOK("spectator", <<>>, 0, S, h, g, g, v)
    <3>1. EndOK("spectator", <<>>, 0, S, h, h, g, u) /\ u.out = <<>>
      BY <2>2 DEF Core, ViewerOK
    <3> HIDE DEF u
    <3>2. EndOK("spectator", <<>>, 0, S, h, g, g, u)
      BY <2>3, <3>1, NoInputs, EndMore
    <3> QED BY <2>3, <2>4, <3>2, OnLoopPollKeeps
  <2> HIDE DEF u, v
  <2>6. /\ IsHandling(last) /\ EndOK("spectator", <<>>, 0, S, g, g, g, last.u)
        /\ RingOK(S, g, last.inputs)
    BY <2>3, <2>4, <2>5, ViewerEvents
  <2> HIDE DEF last
  <2> DEFINE w == last.u
  <2>7. EndOK("spectator", <<>>, 0, S, g, g, g, w) /\ Becomes("spectator", w)
    BY <2>1, <2>6
  <2>8. RingOK(S, g, inputs') /\ g \in 0 .. g /\ h <= g
    BY <2>1, <2>3, <2>6
  <2> HIDE DEF w
  <2>9. /\ DOMAIN endpoint' = Players /\ DOMAIN network' = Players
        /\ endpoint'["host"] = endpoint["host"]
        /\ HostOK(S, g)' /\ ViewerOK(S, g, g)' /\ PacketsOK(S, g)' /\ PlayedOK(S, g)'
    BY <2>1, <2>2, <2>3, <2>7, <2>8, ViewerStep DEF IInv
  <2>10. Shape' /\ synchronizing'["host"] = synchronizing["host"]
    BY <2>1, <2>3, <2>6, <2>9, Ends DEF IInv, Shape, IsHandling
  <2>11. FedOK(S)'
    BY <2>1, <2>2, <2>9, <2>10 DEF Core, FedOK
  <2> QED BY <2>3, <2>8, <2>9, <2>10, <2>11, Again
<1> QED BY <1>1, <1>2

(* The host's timers and events.                                              *)
LEMMA HostPumpKeeps ==
  ASSUME IInv, NEW due, NEW random, EndPump("host", due, random)
  PROVE  IInv'
<1> DEFINE u == endpoint["host"]
           v == OnLoopPoll(u, due, Status("host", fed), random)
           last == Done("host", v)[Len(v.events)]
<1>1. CASE Exit("host")
  BY <1>1, ExitKeeps, Ends
<1>2. CASE ~Exit("host")
  <2>1. /\ Becomes("host", last.u) /\ inputs' = last.inputs
        /\ synchronizing' = [synchronizing EXCEPT !["host"] = last.synchronizing]
        /\ fed' = fed /\ played' = played /\ exited' = exited /\ late' = late
    BY <1>2, EndPumpDoes
  <2>2. PICK S \in Seq(AnyInput), h \in Nat, g \in Nat : Core(S, h, g)
    BY DEF IInv
  <2>3. /\ SentOK(S) /\ Len(S) \in Nat /\ g \in 0 .. Len(S) /\ h \in 0 .. g
        /\ Extends(S, S) /\ synchronizing \in [Players -> BOOLEAN]
        /\ EndOK("host", S, h, <<>>, 0, 0, 0, u)
        /\ SentOK(fed) /\ Len(fed) <= Len(Feed) /\ Extends(S, fed)
        /\ u.state = "running" => Len(S) = Len(fed)
        /\ u.state = "syncing" => Len(fed) = 0 /\ synchronizing["host"]
    BY <2>2 DEF Core, HostOK, FedOK, SentOK, Extends, IInv, Shape
  <2>4. Known("host", S, h, <<>>, 0, 0, 0)
    BY <2>3, NoInputs, Ends DEF Known
  <2> HIDE DEF u
  <2>5. EndOK("host", S, h, <<>>, 0, 0, 0, v) /\ v.state = u.state
    BY <2>3, <2>4, OnLoopPollKeeps
  <2> HIDE DEF v
  <2>6. /\ IsHandling(last) /\ EndOK("host", S, h, <<>>, 0, 0, 0, last.u)
        /\ last.inputs = inputs /\ last.u.state \in {v.state, "disconnected"}
        /\ v.state = "syncing" => last.synchronizing = synchronizing["host"]
    BY <2>3, <2>4, <2>5, HostEvents
  <2> HIDE DEF last
  <2> DEFINE w == last.u
  <2>7. EndOK("host", S, h, <<>>, 0, 0, 0, w) /\ Becomes("host", w) /\ inputs' = inputs
    BY <2>1, <2>6
  <2> HIDE DEF w
  <2>8. /\ DOMAIN endpoint' = Players /\ DOMAIN network' = Players
        /\ endpoint'["host"].state = w.state
        /\ HostOK(S, h)' /\ ViewerOK(S, h, g)' /\ PacketsOK(S, h)' /\ PlayedOK(S, h)'
    BY <2>1, <2>2, <2>3, <2>7, HostStep DEF IInv
  <2>9. Shape' /\ synchronizing'["host"] = last.synchronizing
    BY <2>1, <2>3, <2>6, <2>8, Ends DEF IInv, Shape, IsHandling
  <2>10. FedOK(S)'
    <3>1. w.state \in {u.state, "disconnected"}
      BY <2>5, <2>6 DEF w
    <3>2. w.state = "syncing" => synchronizing'["host"] = synchronizing["host"]
      BY <2>5, <2>6, <2>9, <3>1
    <3> QED BY <2>1, <2>3, <2>8, <3>1, <3>2 DEF FedOK
  <2> QED BY <2>3, <2>8, <2>9, <2>10, Again
<1> QED BY <1>1, <1>2

(* The spectator plays a frame.                                               *)
LEMMA SyncInputKeeps ==
  ASSUME IInv, SyncInput
  PROVE  IInv'
<1> DEFINE q == next_input_to_send
           x == inputs[Slot(q)]
<1>1. /\ Outcome(x) = "ok" /\ played' = Append(played, x) /\ endpoint' = endpoint
      /\ network' = network /\ synchronizing' = synchronizing /\ fed' = fed
      /\ inputs' = inputs /\ exited' = exited /\ late' = late
  BY DEF SyncInput
<1>2. PICK S \in Seq(AnyInput), h \in Nat, g \in Nat : Core(S, h, g)
  BY DEF IInv
<1>3. /\ SentOK(S) /\ Len(S) \in Nat /\ g \in 0 .. Len(S) /\ h \in 0 .. g /\ h \in 0 .. Len(S)
      /\ RingOK(S, h, inputs) /\ played \in Seq(AnyInput) /\ Extends(played, S)
      /\ q = Len(played) /\ q \in Nat /\ q <= h
  BY <1>2 DEF Core, PlayedOK, SentOK, next_input_to_send
<1>4. /\ ~(x.frame < q) /\ ~(x.frame > q)
  BY <1>1 DEF Outcome
<1>5. /\ x.frame \in Int
      /\ x.frame < q <=> h = q
      /\ x.frame > q <=> h - q > N
      /\ x.frame = q => q < h /\ x = S[q + 1]
  <2>1. x = inputs[q % N]
    BY DEF Slot, N
  <2> HIDE DEF q, x
  <2>2. SentOK(S) /\ h \in 0 .. Len(S) /\ RingOK(S, h, inputs) /\ q \in 0 .. h
    BY <1>3
  <2> QED BY ONLY <2>1, <2>2, NextInSlot
<1> HIDE DEF q, x
<1>6. q < h /\ x = S[q + 1]
  <2>1. x.frame = q
    BY <1>3, <1>4, <1>5
  <2> QED BY <1>5, <2>1
<1>7. x \in AnyInput
  <2>1. q + 1 \in 1 .. Len(S)
    BY <1>3, <1>6
  <2> QED BY <1>3, <1>6, <2>1 DEF SentOK
<1>8. /\ played' \in Seq(AnyInput) /\ Len(played') = q + 1 /\ played'[q + 1] = x
      /\ \A n \in 1 .. q : played'[n] = played[n]
  BY <1>1, <1>3, <1>7, AppendProperties
<1>9. PlayedOK(S, h)'
  <2>1. \A n \in 1 .. Len(played') : n \in 1 .. q \/ n = q + 1
    BY <1>3, <1>8
  <2>2. \A n \in 1 .. Len(played') : S[n] = played'[n]
    BY <1>3, <1>6, <1>8, <2>1 DEF Extends
  <2>3. Len(played') <= h /\ Len(played') <= Len(S)
    BY <1>3, <1>6, <1>8
  <2> QED BY <1>1, <1>3, <1>8, <2>2, <2>3 DEF PlayedOK, Extends
<1>10. HostOK(S, h)' /\ ViewerOK(S, h, g)' /\ PacketsOK(S, h)' /\ FedOK(S)' /\ Shape'
  BY <1>1, <1>2 DEF Core, HostOK, ViewerOK, PacketsOK, FedOK, IInv, Shape
<1> QED BY <1>3, <1>9, <1>10, Again

(* Synchronize has sent one request.                                          *)
LEMMA StartedDoes ==
  ASSUME NEW p \in Players, NEW random, NEW players
  PROVE  LET u == Synchronize([InitEndpoint(Magic[p], players)
                                 EXCEPT !.next_send_seq = Unanswered[p]], random)
         IN  /\ EndOK(p, <<>>, 0, <<>>, 0, 0, 0, u) /\ u.state = "syncing" /\ u.events = <<>>
<1> DEFINE e == [InitEndpoint(Magic[p], players) EXCEPT !.next_send_seq = Unanswered[p]]
           c == [e EXCEPT !.random = random]
           body == [type |-> "SyncRequest", random |-> random]
           u == Synchronize(e, random)
<1>1. DOMAIN e = Fields
  BY DEF InitEndpoint, Fields
<1>2. /\ e.state = "syncing" /\ e.open = TRUE /\ e.magic = Magic[p] /\ e.remote_magic = 0
      /\ e.roundtrips = NUM_SYNC_PACKETS /\ e.next_send_seq = Unanswered[p]
      /\ e.next_recv_seq = 0 /\ e.pending = <<>>
      /\ e.last_acked = [frame |-> NullFrame, bits |-> {}]
      /\ e.last_received = [frame |-> NullFrame, bits |-> {}]
      /\ e.events = <<>> /\ e.out = <<>>
  BY DEF InitEndpoint
<1>3. u = SendMsg(c, body)
  BY DEF Synchronize, SendSyncRequest
<1> HIDE DEF e
<1>4. /\ 0 \in SequenceNumbers /\ Unanswered[p] \in SequenceNumbers
      /\ NUM_SYNC_PACKETS \in 0 .. NUM_SYNC_PACKETS /\ NUM_SYNC_PACKETS # 0
  BY UdpProtocolAssumption, LinkAssumption DEF SequenceNumbers
<1>5. ControlOK(p, 0, e)
  BY <1>1, <1>2, <1>4, NoList DEF ControlOK, IsEndpoint
<1>6. e.last_received = At(<<>>, 0)
  BY <1>2 DEF At, Bit, NullFrame
<1>7. Acked(<<>>, 0, e)
  <2>1. Gone(<<>>, <<>>) = 0
    BY NoList DEF Gone
  <2>2. e.last_acked = At(<<>>, 0)
    BY <1>2 DEF At, Bit, NullFrame
  <2> QED BY <1>2, <2>1, <2>2, NoList DEF Acked, PendingOK
<1>8. EndOK(p, <<>>, 0, <<>>, 0, 0, 0, e)
  BY <1>2, <1>5, <1>6, <1>7, NoList, NoEvents DEF EndOK
<1>9. Changes(e, c, OtherFields) /\ c.next_recv_seq \in SequenceNumbers /\ c.events = <<>>
  BY <1>1, <1>2, <1>4 DEF Changes, Fields, OtherFields
<1> HIDE DEF c
<1>10. EndOK(p, <<>>, 0, <<>>, 0, 0, 0, c) /\ c.state = "syncing"
  BY <1>2, <1>8, <1>9, OtherFieldsKeep
<1>11. /\ EndOK(p, <<>>, 0, <<>>, 0, 0, 0, u) /\ u.state = "syncing"
       /\ Changes(c, u, {"out", "next_send_seq"})
  BY <1>3, <1>10, SendKeeps
<1>12. u.events = <<>>
  BY <1>9, <1>11 DEF Changes, Fields
<1> HIDE DEF u
<1> QED BY <1>11, <1>12 DEF u, e

(* The invariant holds at the start.                                          *)
LEMMA InitDoes ==
  ASSUME Init
  PROVE  IInv
<1> DEFINE S == <<>>
<1>1. PICK random \in [Players -> Randoms] : InitLink(Started(random, {"host"}))
  BY DEF Init
<1> DEFINE initial == Started(random, {"host"})
<1>2. ASSUME NEW p \in Players
      PROVE  /\ EndOK(p, <<>>, 0, <<>>, 0, 0, 0, initial[p])
             /\ initial[p].state = "syncing" /\ initial[p].events = <<>>
  <2>1. initial[p] = Synchronize([InitEndpoint(Magic[p], {"host"})
                                    EXCEPT !.next_send_seq = Unanswered[p]], random[p])
    BY DEF Started
  <2> HIDE DEF initial
  <2> QED BY <2>1, StartedDoes
<1>3. InitLink(initial)
  BY <1>1
<1> HIDE DEF initial
<1>4. ASSUME NEW p \in Players
      PROVE  /\ EndOK(p, <<>>, 0, <<>>, 0, 0, 0, endpoint[p])
             /\ endpoint[p].state = "syncing" /\ endpoint[p].out = <<>>
             /\ \A m \in network[PeerOf(p)] : PacketOK(p, <<>>, 0, 0, m)
  <2> DEFINE u == initial[p]
             x == [u EXCEPT !.out = <<>>]
  <2>1. EndOK(p, <<>>, 0, <<>>, 0, 0, 0, u) /\ u.state = "syncing" /\ u.events = <<>>
    BY <1>2
  <2>2. endpoint[p] = [u EXCEPT !.out = <<>>, !.events = <<>>] /\ network[PeerOf(p)] = ToSet(u.out)
    BY <1>3, PeerOfPeer DEF InitLink
  <2> HIDE DEF u
  <2>3. endpoint[p] = x
    BY <2>1, <2>2 DEF EndOK, ControlOK, IsEndpoint, Fields
  <2>4. EndOK(p, <<>>, 0, <<>>, 0, 0, 0, x) /\ x.state = u.state /\ x.out = <<>>
    BY <2>1, ClearOut
  <2>5. \A m \in ToSet(u.out) : PacketOK(p, <<>>, 0, 0, m)
    BY <2>1 DEF EndOK
  <2> HIDE DEF x
  <2> QED BY <2>1, <2>2, <2>3, <2>4, <2>5
<1>5. /\ DOMAIN endpoint = Players /\ DOMAIN network = Players
  BY <1>3 DEF InitLink
<1>6. /\ synchronizing = [p \in Players |-> TRUE] /\ fed = <<>> /\ played = <<>>
      /\ inputs = [n \in 0 .. N - 1 |-> EmptyInput]
      /\ exited = [p \in Players |-> FALSE] /\ late = [p \in Players |-> FALSE]
  BY DEF Init, N, EmptyInput
<1>7. Shape
  BY <1>5, <1>6 DEF Shape
<1>8. HostOK(<<>>, 0) /\ ViewerOK(<<>>, 0, 0) /\ PacketsOK(<<>>, 0)
  BY <1>4, Ends DEF HostOK, ViewerOK, PacketsOK
<1>9. FedOK(<<>>)
  <2>1. Len(Feed) \in Nat
    BY SpectatorAssumption
  <2> QED BY <1>4, <1>6, <2>1, NoInputs, Ends DEF FedOK
<1>10. PlayedOK(<<>>, 0)
  <2>1. \A k \in 0 .. N - 1 : Holding(<<>>, 0, k, inputs[k])
    BY <1>6 DEF Holding
  <2>2. RingOK(<<>>, 0, inputs)
    BY <1>6, <2>1 DEF RingOK
  <2> QED BY <1>6, <2>2, NoInputs DEF PlayedOK, SentOK
<1>11. Core(<<>>, 0, 0)
  BY <1>8, <1>9, <1>10, NoInputs DEF Core
<1>12. <<>> \in Seq(AnyInput) /\ 0 \in Nat
  OBVIOUS
<1> QED BY <1>7, <1>11, <1>12 DEF IInv

(* Every step keeps the invariant.                                            *)
LEMMA StepInv ==
  ASSUME IInv, [Next]_vars
  PROVE  IInv'
<1>1. CASE PushFrame
  BY <1>1, PushFrameKeeps
<1>2. CASE SyncInput
  BY <1>2, SyncInputKeeps
<1>3. ASSUME NEW p \in Players, Receive(p)
      PROVE  IInv'
  BY <1>3, ReceiveKeeps
<1>4. ASSUME NEW p \in Players, NEW due \in DueTimers[p] \cup {{}}, NEW random \in Randoms,
             EndPump(p, due, random)
      PROVE  IInv'
  BY <1>4, Ends, HostPumpKeeps, ViewerPumpKeeps
<1>5. CASE UNCHANGED vars
  BY <1>5 DEF vars, IInv, Shape, Core, HostOK, ViewerOK, PacketsOK, FedOK, PlayedOK
<1> QED BY <1>1, <1>2, <1>3, <1>4, <1>5 DEF Next

THEOREM Invariant == Spec => []IInv
<1>1. Init => IInv
  BY InitDoes
<1>2. IInv /\ [Next]_vars => IInv'
  BY StepInv
<1> QED BY <1>1, <1>2, PTL DEF Spec
-----------------------------------------------------------------------------
(* What the invariant says of the state.                                      *)

(* The type invariant.                                                        *)
LEMMA TypeFollows ==
  ASSUME IInv
  PROVE  TypeOK
<1>1. PICK S \in Seq(AnyInput), h \in Nat, g \in Nat : Core(S, h, g)
  BY DEF IInv
<1>2. /\ SentOK(S) /\ Len(S) \in Nat /\ h \in 0 .. Len(S) /\ SentOK(fed) /\ Len(fed) \in Nat
      /\ Len(fed) <= Len(Feed) /\ Len(Feed) \in Nat /\ Extends(S, fed) /\ RingOK(S, h, inputs)
  BY <1>1, SpectatorAssumption DEF Core, FedOK, PlayedOK, SentOK
<1>3. \A n \in 1 .. Len(fed) : fed[n] \in GameInputs
  <2> SUFFICES ASSUME NEW n \in 1 .. Len(fed)
               PROVE  fed[n] \in GameInputs
    OBVIOUS
  <2>1. fed[n] \in AnyInput /\ fed[n].frame = n - 1
    BY <1>2 DEF SentOK
  <2>2. n - 1 \in 0 .. Len(Feed) - 1
    BY <1>2
  <2> QED BY <2>1, <2>2 DEF AnyInput, GameInputs
<1>4. ToSet(fed) \subseteq GameInputs
  <2>1. \A x \in ToSet(fed) : \E n \in 1 .. Len(fed) : x = fed[n]
    BY <1>2 DEF ToSet, SentOK
  <2> QED BY <1>3, <2>1
<1>5. Range(inputs) \subseteq GameInputs
  <2>1. ASSUME NEW k \in 0 .. N - 1
        PROVE  inputs[k] \in GameInputs
    <3>1. Holding(S, h, k, inputs[k])
      BY <1>2 DEF RingOK
    <3>2. EmptyInput \in GameInputs
      BY DEF EmptyInput, GameInputs, Bits
    <3>3. ASSUME NEW f \in Nat, f < h, inputs[k] = S[f + 1]
          PROVE  inputs[k] \in GameInputs
      <4>1. f + 1 \in 1 .. Len(S) /\ f + 1 \in 1 .. Len(fed)
        BY <1>2, <3>3 DEF Extends
      <4>2. S[f + 1] = fed[f + 1]
        BY <1>2, <4>1 DEF Extends
      <4> QED BY <1>3, <3>3, <4>1, <4>2
    <3> QED BY <3>1, <3>2, <3>3 DEF Holding
  <2>2. DOMAIN inputs = 0 .. N - 1
    BY <1>2 DEF RingOK
  <2>3. \A x \in Range(inputs) : \E k \in DOMAIN inputs : x = inputs[k]
    BY DEF Range
  <2> QED BY <2>1, <2>2, <2>3
<1>6. LinkTypeOK
  <2> SUFFICES ASSUME NEW p \in Players
               PROVE  /\ endpoint[p].state \in {"syncing", "running", "disconnected"}
                      /\ {endpoint[p].next_send_seq, endpoint[p].next_recv_seq}
                            \subseteq 0 .. SEQUENCE_NUMBERS - 1
                      /\ endpoint[p].roundtrips \in 0 .. NUM_SYNC_PACKETS
                      /\ endpoint[p].remote_magic \in {0, Magic[PeerOf(p)]}
                      /\ \A m \in network[p] : m.magic = Magic[PeerOf(p)]
    BY DEF LinkTypeOK
  <2>1. \E k : ControlOK(p, k, endpoint[p])
    <3>1. ControlOK("host", 0, endpoint["host"]) /\ ControlOK("spectator", g, endpoint["spectator"])
      BY <1>1 DEF Core, HostOK, ViewerOK, EndOK
    <3> QED BY <3>1, Ends
  <2>2. \A m \in network[p] : m.magic = Magic[PeerOf(p)]
    <3>1. /\ \A m \in network["spectator"] : m.magic = Magic["host"]
          /\ \A m \in network["host"] : m.magic = Magic["spectator"]
      BY <1>1 DEF Core, PacketsOK, PacketOK
    <3> QED BY <3>1, Ends
  <2> QED BY <2>1, <2>2 DEF ControlOK, SequenceNumbers
<1>7. {synchronizing, exited, late} \subseteq [Players -> BOOLEAN]
  BY DEF IInv, Shape
<1> QED BY <1>4, <1>5, <1>6, <1>7 DEF TypeOK

(* What has been played is what has been fed, from frame 0 on.                *)
LEMMA PlaysFollows ==
  ASSUME IInv
  PROVE  PlaysTheFeed
<1>1. PICK S \in Seq(AnyInput), h \in Nat, g \in Nat : Core(S, h, g)
  BY DEF IInv
<1>2. /\ Len(S) \in Nat /\ played \in Seq(AnyInput) /\ Len(played) \in Nat
      /\ fed \in Seq(AnyInput) /\ Len(fed) \in Nat /\ Extends(played, S) /\ Extends(S, fed)
  BY <1>1 DEF Core, PlayedOK, FedOK, SentOK
<1>3. Len(played) <= Len(S) /\ Len(S) <= Len(fed) /\ Len(played) <= Len(fed)
  BY <1>2 DEF Extends
<1>4. \A n \in 1 .. Len(played) : fed[n] = played[n]
  <2>1. \A n \in 1 .. Len(played) : n \in 1 .. Len(S)
    BY <1>2, <1>3
  <2> QED BY <1>2, <2>1 DEF Extends
<1>5. SubSeq(played, 1, Len(played)) = SubSeq(fed, 1, Len(played))
  BY <1>2, <1>3, <1>4
<1> QED BY <1>3, <1>5 DEF PlaysTheFeed, IsPrefix

(* The last input handled is the h-th.                                        *)
LEMMA LastHandledIs ==
  ASSUME NEW S, NEW h, NEW g, Core(S, h, g)
  PROVE  LastHandled = h - 1
<1> DEFINE u == endpoint["spectator"]
           queued == {n \in DOMAIN u.events : u.events[n].type = "input"}
<1>1. /\ IsList(u.events) /\ Brings(S, h, g, u.events) /\ u.last_received = At(S, g)
      /\ h \in Nat /\ g \in Nat
  BY DEF Core, ViewerOK, EndOK, ControlOK, IsEndpoint, SentOK
<1>2. Cardinality(queued) = g - h
  <2> HIDE DEF u
  <2> QED BY <1>1, BringsAsMany
<1>3. u.last_received.frame = g - 1
  BY <1>1 DEF At
<1>4. LastHandled = u.last_received.frame - Cardinality(queued)
  BY DEF LastHandled
<1> HIDE DEF u, queued
<1> QED BY <1>1, <1>2, <1>3, <1>4

(* What SyncInput says.                                                       *)
LEMMA OutcomeFollows ==
  ASSUME IInv
  PROVE  OutcomeIsRight
<1> DEFINE q == next_input_to_send
           x == inputs[Slot(q)]
           o == Outcome(x)
<1>1. PICK S \in Seq(AnyInput), h \in Nat, g \in Nat : Core(S, h, g)
  BY DEF IInv
<1>2. /\ SentOK(S) /\ h \in 0 .. Len(S) /\ RingOK(S, h, inputs)
      /\ q = Len(played) /\ q \in 0 .. h /\ q \in Nat
  BY <1>1 DEF Core, PlayedOK, SentOK, next_input_to_send
<1>3. LastHandled = h - 1
  BY <1>1, LastHandledIs
<1>4. x.frame \in Int /\ (x.frame < q <=> h = q) /\ (x.frame > q <=> h - q > N)
  <2>1. x = inputs[q % N]
    BY DEF Slot, N
  <2> HIDE DEF q, x
  <2> QED BY <1>2, <2>1, NextInSlot
<1>5. /\ o = "prediction_threshold" <=> x.frame < q
      /\ o = "general_failure" <=> ~(x.frame < q) /\ x.frame > q
  BY DEF Outcome
<1>6. N \in Nat \ {0}
  BY SpectatorAssumption DEF N
<1> HIDE DEF q, x, o
<1>7. /\ o = "prediction_threshold" <=> (h - 1) - q < 0
      /\ o = "general_failure" <=> (h - 1) - q >= N
  <2>1. h = q <=> (h - 1) - q < 0
    BY <1>2
  <2>2. h - q > N <=> (h - 1) - q >= N
    BY <1>1, <1>2, <1>6
  <2>3. x.frame > q => ~(x.frame < q)
    BY <1>2, <1>4
  <2> QED BY <1>4, <1>5, <2>1, <2>2, <2>3
<1> QED BY <1>3, <1>7 DEF OutcomeIsRight, q, x, o, N

(* What the host keeps.                                                       *)
LEMMA KeptFollows ==
  ASSUME IInv
  PROVE  FeedIsKept
<1> DEFINE u == endpoint["host"]
<1>1. PICK S \in Seq(AnyInput), h \in Nat, g \in Nat : Core(S, h, g)
  BY DEF IInv
<1>2. LastHandled = h - 1
  BY <1>1, LastHandledIs
<1> SUFFICES ASSUME u.state = "running", NEW n \in DOMAIN fed
             PROVE  fed[n].frame <= LastHandled \/ fed[n] \in ToSet(u.pending)
  BY DEF FeedIsKept
<1>3. /\ PendingOK(S, u.pending, u.last_acked)
      /\ Gone(S, u.pending) = 0 \/ Gone(S, u.pending) < h
  BY <1>1 DEF Core, HostOK, EndOK, Acked
<1>4. /\ Len(S) = Len(fed) /\ SentOK(fed) /\ Extends(S, fed) /\ Len(S) \in Nat
      /\ n \in 1 .. Len(S) /\ fed[n].frame = n - 1
  BY <1>1 DEF Core, FedOK, SentOK
<1>5. fed[n] = S[n]
  BY <1>4 DEF Extends
<1> DEFINE P == u.pending
           k == Gone(S, P)
<1>6. /\ IsList(P) /\ Len(P) \in Nat /\ Len(P) <= Len(S) /\ DOMAIN P = 1 .. Len(P)
      /\ \A i \in 1 .. Len(P) : P[i] = S[k + i]
  BY <1>3, ListFacts DEF PendingOK
<1>7. k = Len(S) - Len(P) /\ k \in Nat /\ (k = 0 \/ k < h)
  BY <1>3, <1>4, <1>6 DEF Gone
<1> HIDE DEF u, P, k
<1>8. CASE n <= k
  <2>1. n - 1 <= h - 1
    BY <1>4, <1>7, <1>8
  <2> QED BY <1>2, <1>4, <2>1
<1>9. CASE n > k
  <2>1. n - k \in 1 .. Len(P) /\ k + (n - k) = n
    BY <1>4, <1>6, <1>7, <1>9
  <2>2. P[n - k] = S[n]
    BY <1>6, <2>1
  <2>3. fed[n] \in ToSet(P)
    BY <1>5, <1>6, <2>1, <2>2 DEF ToSet
  <2> QED BY <2>3 DEF P
<1> QED BY <1>4, <1>7, <1>8, <1>9

(* The type invariant.                                                        *)
THEOREM TypeCorrect == Spec => []TypeOK
<1>1. IInv => TypeOK
  BY TypeFollows
<1> QED BY <1>1, Invariant, PTL

(* The spectator plays the inputs the host pushed, frame by frame, whatever   *)
(* packets are lost, come late or come again (SyncInput, OnInput,             *)
(* SendPendingOutput).  The disconnect flags are not among them.              *)
THEOREM FeedIsPlayed == Spec => []PlaysTheFeed
<1>1. IInv => PlaysTheFeed
  BY PlaysFollows
<1> QED BY <1>1, Invariant, PTL

(* SyncInput waits if and only if the frame has not come, and fails if and    *)
(* only if the spectator is a whole buffer behind.                            *)
THEOREM SyncInputIsRight == Spec => []OutcomeIsRight
<1>1. IInv => OutcomeIsRight
  BY OutcomeFollows
<1> QED BY <1>1, Invariant, PTL

(* The host keeps what a connected spectator has not handled (OnInputAck).    *)
THEOREM HostKeepsTheFeed == Spec => []FeedIsKept
<1>1. IInv => FeedIsKept
  BY KeptFollows
<1> QED BY <1>1, Invariant, PTL
=============================================================================
