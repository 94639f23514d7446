----------------------------- MODULE InputStream -----------------------------
(***************************************************************************)
(* What a connection promises to the backends at its two ends: the inputs   *)
(* one peer hands to its endpoint come out at the other in the same order,  *)
(* each once and with the same bits, though at any time and several at      *)
(* once.  Endpoints implements it over a network that loses, duplicates and *)
(* reorders packets.                                                        *)
(***************************************************************************)
EXTENDS Naturals, Sequences, SequencesExt

CONSTANTS Peers, Inputs, PeerOf(_)

VARIABLES sent, delivered

TypeOK == sent \in [Peers -> Seq(Inputs)] /\ delivered \in [Peers -> Seq(Inputs)]

Init ==
    /\ sent = [p \in Peers |-> <<>>]
    /\ delivered = [p \in Peers |-> <<>>]

Send(p) ==
    /\ \E input \in Inputs : sent' = [sent EXCEPT ![p] = Append(@, input)]
    /\ UNCHANGED delivered

(* What p has been given grows, and stays a prefix of what its peer sent.    *)
Deliver(p) ==
    /\ \E n \in Len(delivered[p]) + 1 .. Len(sent[PeerOf(p)]) :
          delivered' = [delivered EXCEPT ![p] = SubSeq(sent[PeerOf(p)], 1, n)]
    /\ UNCHANGED sent

Next == \E p \in Peers : Send(p) \/ Deliver(p)

Spec == Init /\ [][Next]_<<sent, delivered>>
=============================================================================
