------------------------------ MODULE TimeSync -------------------------------
(***************************************************************************)
(* timesync.cpp: how many frames the application is told to wait for a      *)
(* player that is behind.  A frame advantage is how far the other player is *)
(* ahead.  The averages are fractions over the window, which single         *)
(* precision represents closely enough for the rounding.                    *)
(***************************************************************************)
EXTENDS Integers, Sequences, SequencesExt

CONSTANTS
    FRAME_WINDOW_SIZE,      \* 40 in the code
    MIN_FRAME_ADVANTAGE,    \* 3 in the code
    MAX_FRAME_ADVANTAGE,    \* 9 in the code
    Advantages              \* the frame advantages considered

InitTimeSync ==
    LET zeros == [i \in 0 .. FRAME_WINDOW_SIZE - 1 |-> 0]
    IN  [local |-> zeros, remote |-> zeros]

(* Mutant: only the local advantage is remembered by frame.                  *)
AdvanceFrameSlot(ts, frame, advantage, radvantage) ==
    [ts EXCEPT !.local[frame % FRAME_WINDOW_SIZE] = advantage,
               !.remote[0] = radvantage]

AdvanceFrame(ts, frame, advantage, radvantage) ==
    [ts EXCEPT !.local[frame % FRAME_WINDOW_SIZE] = advantage,
               !.remote[frame % FRAME_WINDOW_SIZE] = radvantage]

Total(window) ==
    FoldLeft(+, 0, [i \in 1 .. FRAME_WINDOW_SIZE |-> window[i - 1]])

(* Half the difference of the averages, rounded, in the limits; the caller   *)
(* does not ask for idle input.                                              *)
RecommendFrameWaitDuration(ts) ==
    LET rift  == Total(ts.remote) - Total(ts.local)
        sleep == (rift + FRAME_WINDOW_SIZE) \div (2 * FRAME_WINDOW_SIZE)
    IN  IF rift <= 0 \/ sleep < MIN_FRAME_ADVANTAGE THEN 0
        ELSE IF sleep > MAX_FRAME_ADVANTAGE THEN MAX_FRAME_ADVANTAGE ELSE sleep

(* The window after a player has sent these frames, the first one of which   *)
(* its frame delay decides.                                                  *)
After(first, advantages) ==
    FoldLeft(LAMBDA ts, i : AdvanceFrame(ts, first + i, advantages[i][1], advantages[i][2]),
             InitTimeSync, [i \in DOMAIN advantages |-> i])

(* A wait is recommended exactly when the last window shows that the player  *)
(* is at least MIN_FRAME_ADVANTAGE frames ahead, and waiting that long does   *)
(* not put it behind by more than half a frame.                              *)
WaitClosesRiftFrom(first) ==
    \A seen \in [1 .. FRAME_WINDOW_SIZE + 1 -> Advantages \X Advantages] :
        LET Seen(i)  == Total([n \in 0 .. FRAME_WINDOW_SIZE - 1 |-> seen[n + 2][i]])
            wait     == RecommendFrameWaitDuration(After(first, seen))
            waiting  == FRAME_WINDOW_SIZE * wait
        IN  /\ wait # 0 => /\ wait \in MIN_FRAME_ADVANTAGE .. MAX_FRAME_ADVANTAGE
                           /\ Seen(1) + waiting <= Seen(2) - waiting + FRAME_WINDOW_SIZE
            /\ wait = 0 => Seen(2) - Seen(1) < 2 * FRAME_WINDOW_SIZE * MIN_FRAME_ADVANTAGE

WaitsFrom == [first \in 0 .. 1 |-> WaitClosesRiftFrom(first)]
=============================================================================
