------------------------------- MODULE SyncTest -------------------------------
(***************************************************************************)
(* The sync-test session (backends/synctest.cpp) and the application that   *)
(* plays in it: every _check_distance frames the session goes back to the   *)
(* last verified frame, has the application play the frames again and       *)
(* compares what it saves with what it had saved.                           *)
(*                                                                         *)
(* An input is the set of the bits that are on.  The application's state is *)
(* the inputs it was played with; a frame in Leaks also shows whether it is *)
(* played again, as one does that reads state outside of what is saved.     *)
(* Equal checksums stand for equal states.  The log files are left out.     *)
(***************************************************************************)
EXTENDS Sync, Sequences, SequencesExt

CONSTANTS
    Buttons,                \* the bits of all players' inputs
    CheckDistances,         \* the check distances an application may ask for
    SAVED_FRAMES,           \* size of the ring _saved_frames, 32 in the code
    LeakSets,               \* the sets of frames that may leak
    MaxFrame                \* bound: frames 0 .. MaxFrame - 1

ASSUME SyncTestAssumption ==
    /\ CheckDistances \subseteq Nat
    /\ SAVED_FRAMES \in Nat /\ SAVED_FRAMES > MAX_PREDICTION_FRAMES + 2
    /\ LeakSets \subseteq SUBSET Nat
    /\ MaxFrame \in Nat

VARIABLES
    sync,                   \* _sync
    game,                   \* the application's state
    check_distance, last_verified, rollingback, running, current_input,
    saved_frames,
    leaks,                  \* the frames that leak
    log,                    \* history: the inputs added for each frame
    exited                  \* a sync error was raised, or an ASSERT failed

vars == <<sync, game, check_distance, last_verified, rollingback, running,
          current_input, saved_frames, leaks, log, exited>>

Init ==
    /\ sync = InitSync
    /\ game = <<>>
    /\ check_distance \in CheckDistances
    /\ last_verified = 0
    /\ rollingback = FALSE
    /\ running = FALSE
    /\ current_input = {}
    /\ saved_frames = <<>>
    /\ leaks \in LeakSets
    /\ log = <<{}>>
    /\ exited = FALSE
-----------------------------------------------------------------------------
(* The first DoPoll announces that the session runs.                         *)
DoPoll ==
    /\ ~running
    /\ running' = TRUE
    /\ UNCHANGED <<sync, game, check_distance, last_verified, rollingback,
                   current_input, saved_frames, leaks, log, exited>>

(* AddLocalInput, of any player: between two frames.                         *)
AddLocalInputBits(bits) ==
    /\ running /\ ~rollingback /\ ~exited
    /\ current_input' = current_input \cup bits
    /\ log' = [log EXCEPT ![Len(log)] = @ \cup bits]
    /\ UNCHANGED <<sync, game, check_distance, last_verified, rollingback,
                   running, saved_frames, leaks, exited>>

(* What the application's update makes of an input.                          *)
Played(input) ==
    Append(game, [input |-> input, again |-> rollingback /\ Len(game) \in leaks])

(* Mutant: the bits of a frame stay on in the next.                          *)
EraseNothing(input) == input

Erase(input) == {}

CanLoad(s, frame) == FindSavedFrameIndexAsserts(s, frame) /\ LoadFrameAsserts(s, frame)

(* SyncInput, the application's update and IncrementFrame in the original    *)
(* run, up to the first callback of a verification.                          *)
PlayFrame ==
    LET start  == IF sync.framecount = 0 THEN SaveCurrentFrame(sync, game) ELSE sync
        played == Played(current_input)
        next   == IncrementFrame(start, played)
        info   == [frame |-> next.framecount, input |-> current_input,
                   state |-> LastSaved(next).state]
        verify == next.framecount - last_verified = check_distance
    IN  /\ running /\ ~rollingback /\ ~exited /\ sync.framecount < MaxFrame
        /\ current_input' = Erase(current_input)
        /\ IF \/ Len(saved_frames) = SAVED_FRAMES - 1
              \/ verify /\ ~CanLoad(next, last_verified)
           THEN /\ exited' = TRUE
                /\ UNCHANGED <<sync, game, rollingback, saved_frames, log>>
           ELSE /\ sync' = IF verify THEN LoadFrame(next, last_verified) ELSE next
                /\ game' = IF verify THEN LoadedGame(next, last_verified, played)
                           ELSE played
                /\ saved_frames' = Append(saved_frames, info)
                /\ rollingback' = verify
                /\ log' = Append(log, {})
                /\ UNCHANGED exited
        /\ UNCHANGED <<check_distance, last_verified, running, leaks>>

(* Mutant: the replay takes the input of the last frame saved.               *)
ReplayInputLast == Last(saved_frames).input

ReplayInput == Head(saved_frames).input

(* Mutant: only the number of the frame is compared.                         *)
MatchesNumber(info, s) == info.frame = s.framecount

Matches(info, s) == info.frame = s.framecount /\ info.state = LastSaved(s).state

(* advance_frame, once for every saved frame, and the comparison after it.   *)
ReplayFrame ==
    LET info == Head(saved_frames)
        next == IncrementFrame(sync, Played(ReplayInput))
        done == Len(saved_frames) = 1
    IN  /\ rollingback /\ ~exited
        /\ game' = Played(ReplayInput)
        /\ sync' = next
        /\ current_input' = Erase(current_input)
        /\ IF Matches(info, next)
           THEN /\ saved_frames' = Tail(saved_frames)
                /\ last_verified' = IF done THEN info.frame ELSE last_verified
                /\ rollingback' = ~done
                /\ UNCHANGED exited
           ELSE /\ exited' = TRUE
                /\ UNCHANGED <<saved_frames, last_verified, rollingback>>
        /\ UNCHANGED <<check_distance, running, leaks, log>>

Next ==
    \/ DoPoll
    \/ \E bits \in SUBSET Buttons : AddLocalInputBits(bits)
    \/ PlayFrame
    \/ ReplayFrame

Spec == Init /\ [][Next]_vars
-----------------------------------------------------------------------------
TypeOK ==
    /\ game \in Seq([input : SUBSET Buttons, again : BOOLEAN])
    /\ Len(game) = sync.framecount
    /\ last_verified \in 0 .. sync.framecount
    /\ {rollingback, running, exited} \subseteq BOOLEAN
    /\ current_input \subseteq Buttons
    /\ Len(saved_frames) < SAVED_FRAMES

(* The distances whose frames fit the ring of saved states.                  *)
Sound == check_distance \in 1 .. MAX_PREDICTION_FRAMES + 1

(* An application whose frames depend on nothing but the state it saves and  *)
(* its input is never failed, whatever players press: the session replays    *)
(* each frame with that frame's input from the right state (IncrementFrame,  *)
(* SyncInput, Sync::LoadFrame).                                              *)
OnlyDivergenceIsRaised == exited /\ Sound => leaks # {}

(* A frame that plays differently the second time is found by the time       *)
(* check_distance more frames have been played: every frame is verified.     *)
DivergenceIsFound ==
    \A f \in leaks :
        Sound /\ ~rollingback /\ Len(log) - 1 >= f + check_distance => exited

(* The verification leaves no trace: outside of it the application has been  *)
(* played every frame once, with the bits added for that frame, all players' *)
(* and no older ones; and within it, with a prefix of these.                 *)
SimulationUndisturbed ==
    /\ \A n \in DOMAIN game : game[n].input = log[n]
    /\ ~rollingback /\ ~exited => Len(game) = Len(log) - 1
=============================================================================
