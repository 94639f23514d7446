----------------------------- MODULE InputCodec ------------------------------
(***************************************************************************)
(* The bits of an Input packet: bitvector.cpp, and the loops of             *)
(* UdpProtocol::SendPendingOutput and OnInput that write and read it.  A    *)
(* bit vector is the sequence of the bits written, and what is read is      *)
(* dropped from it.  A frame is the buttons that turn on and those that     *)
(* turn off, as in UdpProtocol.                                             *)
(***************************************************************************)
EXTENDS Integers, Sequences, FiniteSets, SequencesExt

CONSTANTS
    ButtonNumbers,          \* the numbers of the bits of an input
    BITVECTOR_NIBBLE_SIZE   \* 8 in the code

Changes == {c \in [on : SUBSET ButtonNumbers, off : SUBSET ButtonNumbers] :
               c.on \cap c.off = {}}

(* Mutant: the highest bit first.                                            *)
WriteNibbletReversed(n) ==
    [i \in 1 .. BITVECTOR_NIBBLE_SIZE |-> (n \div 2^(BITVECTOR_NIBBLE_SIZE - i)) % 2]

WriteNibblet(n) == [i \in 1 .. BITVECTOR_NIBBLE_SIZE |-> (n \div 2^(i - 1)) % 2]
ReadNibblet(bits) ==
    FoldLeft(+, 0, [i \in 1 .. BITVECTOR_NIBBLE_SIZE |-> bits[i] * 2^(i - 1)])

WriteButton(change, button) ==
    <<1, IF button \in change.on THEN 1 ELSE 0>> \o WriteNibblet(button)
WriteFrame(change) ==
    LET buttons == SetToSortSeq(change.on \cup change.off, <)
    IN  FlattenSeq([i \in DOMAIN buttons |-> WriteButton(change, buttons[i])]) \o <<0>>
Write(changes) == FlattenSeq([i \in DOMAIN changes |-> WriteFrame(changes[i])])

NoChange == [on |-> {}, off |-> {}]

(* The frames in bits, after what has been read of the one at hand.          *)
RECURSIVE ReadFrames(_, _)
ReadFrames(bits, change) ==
    IF bits = <<>> THEN <<>>
    ELSE IF bits[1] = 0 THEN <<change>> \o ReadFrames(Tail(bits), NoChange)
    ELSE LET button == ReadNibblet(SubSeq(bits, 3, Len(bits)))
             rest   == SubSeq(bits, 3 + BITVECTOR_NIBBLE_SIZE, Len(bits))
         IN  ReadFrames(rest, IF bits[2] = 1
                              THEN [change EXCEPT !.on = @ \cup {button}]
                              ELSE [change EXCEPT !.off = @ \cup {button}])

RoundTrips(changes) == ReadFrames(Write(changes), NoChange) = changes
ShortPacketsRoundTrip == \A changes \in BoundedSeq(Changes, 2) : RoundTrips(changes)
=============================================================================
