----------------------------- MODULE InputTimeline -----------------------------
(***************************************************************************)
(* What an input queue promises its Sync object, without ring, cursors or   *)
(* counters: a log of the inputs that have arrived, and the input the       *)
(* simulation played in each frame.  A frame is played with its logged      *)
(* input, or with a repetition of the last logged one; nothing is played    *)
(* while a played frame contradicts the log; a rollback returns to the      *)
(* first contradiction or before it.                                        *)
(***************************************************************************)
EXTENDS Integers

CONSTANTS Bits, NoBits,
          MaxFrame          \* bound: frames 0 .. MaxFrame - 1

VARIABLES arrived,          \* frames 0 .. arrived - 1 have arrived ...
          log,              \* ... with these inputs
          framecount,       \* frames 0 .. framecount - 1 have been played ...
          played            \* ... with these inputs

vars == <<arrived, log, framecount, played>>

NoFrame == -1

Mispredicted == {f \in 0 .. framecount - 1 : f < arrived /\ log[f] # played[f]}

(* f is the frame a rollback has to reach; NoFrame when all is consistent.   *)
IsFirstMispredicted(f) ==
    \/ f = NoFrame /\ Mispredicted = {}
    \/ f \in Mispredicted /\ \A g \in Mispredicted : f <= g

LastBits == IF arrived = 0 THEN NoBits ELSE log[arrived - 1]

Init ==
    /\ arrived = 0 /\ log = [f \in {} |-> NoBits]
    /\ framecount = 0 /\ played = [f \in {} |-> NoBits]

(* An input arrives for frame `upto'; skipped frames repeat the last input.  *)
Arrive(upto, bits) ==
    /\ upto >= arrived
    /\ arrived' = upto + 1
    /\ log' = [f \in 0 .. upto |-> IF f < arrived THEN log[f]
                                   ELSE IF f < upto THEN LastBits ELSE bits]
    /\ UNCHANGED <<framecount, played>>

Play ==
    /\ Mispredicted = {}
    /\ framecount' = framecount + 1
    /\ played' = [f \in 0 .. framecount |->
                    IF f < framecount THEN played[f]
                    ELSE IF f < arrived THEN log[f] ELSE LastBits]
    /\ UNCHANGED <<arrived, log>>

Rollback(to) ==
    /\ \A f \in Mispredicted : to <= f
    /\ framecount' = to
    /\ played' = [f \in 0 .. to - 1 |-> played[f]]
    /\ UNCHANGED <<arrived, log>>

Next == \/ \E upto \in 0 .. MaxFrame - 1, bits \in Bits : Arrive(upto, bits)
        \/ Play
        \/ \E to \in 0 .. framecount - 1 : Rollback(to)

Spec == Init /\ [][Next]_vars
=============================================================================
