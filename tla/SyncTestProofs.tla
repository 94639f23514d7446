---------------------------- MODULE SyncTestProofs ----------------------------
(***************************************************************************)
(* Theorems about SyncTest, for every check distance, whatever the ring     *)
(* sizes, the buttons, the frames that leak and the number of frames.  The  *)
(* argument: until the session exits, all that is kept of the game -- the   *)
(* application's state, the ring of Sync and _saved_frames -- is what the   *)
(* first run of the frames, in which nothing leaks, had there.              *)
(***************************************************************************)
EXTENDS SyncTest, SyncProofs, SequenceTheorems

USE SyncAssumption, SyncTestAssumption

Moves == [input : SUBSET Buttons, again : BOOLEAN]
Infos == [frame : Nat, input : SUBSET Buttons, state : Seq(Moves)]
SavedGames == Seq(Moves) \cup {NewGame}

Top == Len(log) - 1                     \* the frames played for the first time
Verified == Top - Len(saved_frames)     \* the frames played twice, or before them

(* The state after the first n frames of the original run.                    *)
Original(inputs, n) == [m \in 1 .. n |-> [input |-> inputs[m], again |-> FALSE]]

Types ==
    /\ sync \in SyncType(SavedGames, {InitSync.queues})
    /\ game \in Seq(Moves)
    /\ check_distance \in Nat
    /\ last_verified \in Nat
    /\ {rollingback, running, exited} \subseteq BOOLEAN
    /\ current_input \in SUBSET Buttons
    /\ saved_frames \in Seq(Infos) /\ Len(saved_frames) < SAVED_FRAMES
    /\ leaks \in SUBSET Nat
    /\ log \in Seq(SUBSET Buttons) /\ Len(log) > 0

(* What holds of the game even after the session has failed.                  *)
GameInv ==
    /\ Len(game) = sync.framecount /\ Len(game) <= Top
    /\ last_verified <= sync.framecount
    /\ \A n \in 1 .. Len(game) : game[n].input = log[n]

(* Where the session is between the last verified frame and the next.         *)
ProgressInv ==
    /\ current_input = log[Top + 1]
    /\ IF rollingback
       THEN Len(game) = Verified /\ saved_frames # <<>> /\ current_input = {}
       ELSE /\ Len(game) = Top /\ last_verified = Verified
            /\ check_distance > 0 => Len(saved_frames) < check_distance
    /\ \A f \in leaks : f >= Verified

(* All that is kept is from the original run.                                 *)
KeptInv ==
    /\ game = Original(log, Len(game))
    /\ \A i \in 1 .. Len(saved_frames) :
          saved_frames[i] = [frame |-> Verified + i, input |-> log[Verified + i],
                             state |-> Original(log, Verified + i)]
    /\ IF Top = 0 THEN sync = InitSync
       ELSE /\ RingInv(sync, Top)
            /\ \A f \in Kept(Top) :
                  sync.saved[f % RingSize].state = Original(log, f)

IInv ==
    /\ Types
    /\ GameInv
    /\ ~exited => ProgressInv /\ KeptInv
    /\ OnlyDivergenceIsRaised
-----------------------------------------------------------------------------
(* The original run.                                                          *)

LEMMA OriginalType ==
  ASSUME NEW inputs \in Seq(SUBSET Buttons), NEW n \in Nat, n <= Len(inputs)
  PROVE  Original(inputs, n) \in Seq(Moves) /\ Len(Original(inputs, n)) = n
<1>1. \A m \in 1 .. n : inputs[m] \in SUBSET Buttons
  BY ElementOfSeq
<1>2. \A m \in 1 .. n : [input |-> inputs[m], again |-> FALSE] \in Moves
  BY <1>1 DEF Moves
<1>3. Original(inputs, n) \in [1 .. n -> Moves]
  BY <1>2 DEF Original
<1> QED BY <1>3, LenProperties

(* A longer list of inputs has the same first states.                         *)
LEMMA OriginalSame ==
  ASSUME NEW inputs, NEW others, NEW n \in Nat,
         \A m \in 1 .. n : inputs[m] = others[m]
  PROVE  Original(inputs, n) = Original(others, n)
  BY DEF Original

(* What the application's update makes of the original state and its input.   *)
LEMMA OriginalNext ==
  ASSUME NEW inputs \in Seq(SUBSET Buttons), NEW n \in Nat, n < Len(inputs),
         NEW b \in BOOLEAN
  PROVE  Append(Original(inputs, n), [input |-> inputs[n + 1], again |-> b])
           = Original(inputs, n + 1)  <=>  ~b
<1> DEFINE old == Original(inputs, n)
           move == [input |-> inputs[n + 1], again |-> b]
           new == Append(old, move)
           next == Original(inputs, n + 1)
<1>1. old \in Seq(Moves) /\ Len(old) = n
  BY OriginalType
<1>2. next \in Seq(Moves) /\ Len(next) = n + 1
  <2>1. n + 1 \in Nat /\ n + 1 <= Len(inputs)
    BY LenProperties
  <2> QED BY <2>1, OriginalType
<1>3. move \in Moves
  <2>1. n + 1 \in 1 .. Len(inputs)
    BY LenProperties
  <2> QED BY <2>1, ElementOfSeq DEF Moves
<1>4. /\ \A m \in 1 .. n : old[m] = [input |-> inputs[m], again |-> FALSE]
      /\ \A m \in 1 .. n + 1 : next[m] = [input |-> inputs[m], again |-> FALSE]
  BY DEF Original
<1>5. move = [input |-> inputs[n + 1], again |-> FALSE] <=> ~b
  <2>1. move.again = b
    OBVIOUS
  <2> QED BY <2>1
<1> HIDE DEF old, move, next
<1>6. /\ new \in Seq(Moves) /\ Len(new) = n + 1 /\ new[n + 1] = move
      /\ \A m \in 1 .. n : new[m] = old[m]
  BY <1>1, <1>3, AppendProperties
<1> HIDE DEF new
<1>7. CASE ~b
  <2>1. ASSUME NEW m \in 1 .. n + 1 PROVE new[m] = next[m]
    <3>1. CASE m = n + 1
      BY <1>4, <1>5, <1>6, <1>7, <3>1
    <3>2. CASE m # n + 1
      <4>1. m \in 1 .. n
        BY <3>2
      <4> QED BY <1>4, <1>6, <4>1
    <3> QED BY <3>1, <3>2
  <2>2. new = next
    BY <1>2, <1>6, <2>1, SeqEqual
  <2> QED BY <1>7, <2>2 DEF new, old, move, next
<1>8. CASE b
  <2>1. n + 1 \in 1 .. n + 1
    OBVIOUS
  <2>2. new[n + 1] # next[n + 1]
    BY <1>4, <1>5, <1>6, <1>8, <2>1
  <2> QED BY <1>8, <2>2 DEF new, old, move, next
<1> QED BY <1>7, <1>8
-----------------------------------------------------------------------------
(* The inductive invariant.                                                   *)

LEMMA InitSyncType ==
  /\ InitSync \in SyncType(SavedGames, {InitSync.queues})
  /\ InitSync.framecount = 0 /\ InitSync.head = 0
  /\ \A slot \in SaveSlots : InitSync.saved[slot].frame = 0
<1>1. 0 \in SaveSlots /\ NullFrame \in Frames /\ NewGame \in SavedGames
  BY RingSizeType DEF Frames, NullFrame, SavedGames
<1> DEFINE slot0 == [frame |-> 0, full |-> FALSE, state |-> NewGame]
<1>2. slot0 \in [frame : Nat, full : BOOLEAN, state : SavedGames]
  BY <1>1
<1> HIDE DEF slot0
<1>3. [slot \in SaveSlots |-> slot0]
        \in [SaveSlots -> [frame : Nat, full : BOOLEAN, state : SavedGames]]
  BY <1>2
<1>4. /\ InitSync.framecount = 0 /\ InitSync.head = 0
      /\ InitSync.saved = [slot \in SaveSlots |-> slot0]
      /\ InitSync = [framecount |-> 0, last_confirmed_frame |-> NullFrame, head |-> 0,
                     saved |-> [slot \in SaveSlots |-> slot0],
                     queues |-> InitSync.queues]
  BY DEF InitSync, slot0
<1>5. \A slot \in SaveSlots : InitSync.saved[slot].frame = 0
  BY <1>4 DEF slot0
<1> QED BY <1>1, <1>3, <1>4, <1>5 DEF SyncType

(* The numbers the invariant is about.                                        *)
LEMMA Counts ==
  ASSUME Types
  PROVE  /\ Top \in Nat /\ Len(saved_frames) \in Nat /\ Verified \in Int
         /\ Len(game) \in Nat /\ sync.framecount \in Nat
         /\ Top + 1 = Len(log) /\ Top + 1 \in 1 .. Len(log)
  BY LenProperties DEF Types, Top, Verified, SyncType

LEMMA InitIInv == Init => IInv
<1> SUFFICES ASSUME Init PROVE IInv
  OBVIOUS
<1>1. log = <<{}>> /\ Len(log) = 1 /\ log[1] = {} /\ Top = 0
  BY DEF Init, Top
<1>2. /\ game = <<>> /\ saved_frames = <<>> /\ Len(saved_frames) = 0 /\ Len(game) = 0
      /\ Verified = 0
  <2>1. game = <<>> /\ saved_frames = <<>>
    BY DEF Init
  <2>2. Len(saved_frames) = 0 /\ Len(game) = 0
    BY <2>1, EmptySeq
  <2>3. Verified = 0
    BY <1>1, <2>2 DEF Verified
  <2> QED BY <2>1, <2>2, <2>3
<1>3. Types
  <2>1. {} \in SUBSET Buttons
    OBVIOUS
  <2>2. log \in Seq(SUBSET Buttons)
    BY <1>1, <2>1
  <2>3. check_distance \in Nat /\ leaks \in SUBSET Nat
    BY DEF Init
  <2>4. game \in Seq(Moves) /\ saved_frames \in Seq(Infos)
    BY <1>2, EmptySeq
  <2>5. {rollingback, running, exited} \subseteq BOOLEAN
    BY DEF Init
  <2>6. Len(saved_frames) < SAVED_FRAMES /\ Len(log) > 0
    BY <1>1, <1>2
  <2>7. /\ sync \in SyncType(SavedGames, {InitSync.queues})
        /\ last_verified \in Nat /\ current_input \in SUBSET Buttons
    BY InitSyncType DEF Init
  <2> QED BY <2>2, <2>3, <2>4, <2>5, <2>6, <2>7 DEF Types
<1>4. GameInv
  BY <1>1, <1>2, InitSyncType DEF Init, GameInv
<1>5. ProgressInv
  <2>1. \A f \in leaks : f >= 0
    BY <1>3 DEF Types
  <2> QED BY <1>1, <1>2, <1>3, <2>1 DEF Init, ProgressInv, Types
<1>6. KeptInv
  <2>1. Original(log, 0) = <<>>
    BY DEF Original
  <2> QED BY <1>1, <1>2, <2>1 DEF Init, KeptInv
<1> QED BY <1>3, <1>4, <1>5, <1>6 DEF Init, IInv, OnlyDivergenceIsRaised

(* AddLocalInput changes only the frame that has not been played yet.         *)
LEMMA AddLocalInputStep ==
  ASSUME IInv, NEW bits \in SUBSET Buttons, AddLocalInputBits(bits)
  PROVE  IInv'
<1> USE DEF IInv
<1>1. /\ ~exited /\ ~rollingback /\ ProgressInv /\ KeptInv
      /\ UNCHANGED <<sync, game, check_distance, last_verified, rollingback,
                     running, saved_frames, leaks, exited>>
  BY DEF AddLocalInputBits
<1>2. /\ Len(log') = Len(log) /\ log' \in Seq(SUBSET Buttons)
      /\ log'[Top + 1] = log[Top + 1] \cup bits
      /\ \A m \in 1 .. Top : log'[m] = log[m]
  <2>1. log' = [log EXCEPT ![Len(log)] = @ \cup bits]
    BY DEF AddLocalInputBits
  <2>2. log \in Seq(SUBSET Buttons) /\ Len(log) \in 1 .. Len(log) /\ Len(log) \in Nat
    BY Counts DEF Types
  <2>3. log[Len(log)] \cup bits \in SUBSET Buttons
    BY <2>2, ElementOfSeq
  <2> DEFINE new == log[Len(log)] \cup bits
  <2>4. log' = [log EXCEPT ![Len(log)] = new]
    BY <2>1
  <2> HIDE DEF new
  <2>5. /\ log' \in Seq(SUBSET Buttons) /\ Len(log') = Len(log)
        /\ \A i \in 1 .. Len(log) : log'[i] = IF i = Len(log) THEN new ELSE log[i]
    BY <2>2, <2>3, <2>4, ExceptSeq DEF new
  <2> QED BY <2>2, <2>5, Counts DEF new, Top
<1>3. Top' = Top /\ Verified' = Verified /\ Top \in Nat
  BY <1>1, <1>2, Counts DEF Top, Verified
<1>4. Types'
  <2>1. current_input' \in SUBSET Buttons
    BY DEF AddLocalInputBits, Types
  <2> QED BY <1>1, <1>2, <2>1 DEF Types
<1>5. GameInv'
  <2>1. Len(game) <= Top /\ Len(game) \in Nat
    BY <1>3, Counts DEF GameInv
  <2> QED BY <1>1, <1>2, <1>3, <2>1 DEF GameInv
<1>6. ProgressInv'
  <2>1. current_input' = log'[Top' + 1]
    BY <1>1, <1>2, <1>3 DEF AddLocalInputBits, ProgressInv
  <2> QED BY <1>1, <1>2, <1>3, <2>1 DEF ProgressInv
<1>7. \A n \in Nat : n <= Top => Original(log', n) = Original(log, n)
  <2> SUFFICES ASSUME NEW n \in Nat, n <= Top
               PROVE  Original(log', n) = Original(log, n)
    OBVIOUS
  <2>1. \A m \in 1 .. n : log'[m] = log[m]
    BY <1>2, <1>3
  <2> QED BY <2>1, OriginalSame
<1>8. KeptInv'
  <2>1. game' = Original(log', Len(game'))
    BY <1>1, <1>3, <1>7, Counts DEF KeptInv, GameInv
  <2>2. ASSUME NEW i \in 1 .. Len(saved_frames')
        PROVE  saved_frames'[i] = [frame |-> Verified' + i, input |-> log'[Verified' + i],
                                   state |-> Original(log', Verified' + i)]
    <3>1. Verified + i \in Nat /\ Verified + i <= Top /\ Verified + i \in 1 .. Top
      BY <1>1, <1>3, Counts DEF ProgressInv, Verified, Types
    <3> QED BY <1>1, <1>2, <1>3, <1>7, <3>1 DEF KeptInv
  <2>3. IF Top' = 0 THEN sync' = InitSync
        ELSE /\ RingInv(sync', Top')
             /\ \A f \in Kept(Top') :
                   sync'.saved[f % RingSize].state = Original(log', f)
    <3>1. \A f \in Kept(Top) : f \in Nat /\ f <= Top
      BY DEF Kept
    <3> QED BY <1>1, <1>3, <1>7, <3>1 DEF KeptInv
  <2> QED BY <2>1, <2>2, <2>3 DEF KeptInv
<1>9. OnlyDivergenceIsRaised'
  BY <1>1 DEF OnlyDivergenceIsRaised
<1> QED BY <1>4, <1>5, <1>6, <1>8, <1>9
-----------------------------------------------------------------------------
(* PlayFrame.                                                                 *)

(* Played appends one move, whose input is known.                             *)
LEMMA PlayedType ==
  ASSUME Types, GameInv, NEW input \in SUBSET Buttons,
         Len(game) + 1 \in 1 .. Len(log) => input = log[Len(game) + 1]
  PROVE  /\ Played(input) \in Seq(Moves) /\ Len(Played(input)) = Len(game) + 1
         /\ Len(game) + 1 <= Len(log) =>
              \A n \in 1 .. Len(game) + 1 : Played(input)[n].input = log[n]
<1> DEFINE move == [input |-> input, again |-> rollingback /\ Len(game) \in leaks]
<1>1. move \in Moves
  BY DEF Moves, Types
<1>2. game \in Seq(Moves) /\ Len(game) \in Nat
  BY Counts DEF Types
<1>3. Played(input) = Append(game, move)
  BY DEF Played
<1>4. move.input = input
  OBVIOUS
<1> HIDE DEF move
<1>5. /\ Played(input) \in Seq(Moves) /\ Len(Played(input)) = Len(game) + 1
      /\ Played(input)[Len(game) + 1] = move
      /\ \A n \in 1 .. Len(game) : Played(input)[n] = game[n]
  BY <1>1, <1>2, <1>3, AppendProperties
<1>6. ASSUME Len(game) + 1 <= Len(log), NEW n \in 1 .. Len(game) + 1
      PROVE  Played(input)[n].input = log[n]
  <2>1. CASE n = Len(game) + 1
    <3>1. Len(game) + 1 \in 1 .. Len(log)
      BY <1>2, <1>6, Counts
    <3> QED BY <1>4, <1>5, <2>1, <3>1
  <2>2. CASE n # Len(game) + 1
    <3>1. n \in 1 .. Len(game)
      BY <1>2, <2>2
    <3> QED BY <1>5, <3>1 DEF GameInv
  <2> QED BY <2>1, <2>2
<1> QED BY <1>5, <1>6

(* The ring in the original run, once the frame before the first is saved.    *)
LEMMA StartRing ==
  ASSUME IInv, ~exited, ~rollingback
  PROVE  LET start == IF sync.framecount = 0 THEN SaveCurrentFrame(sync, game) ELSE sync
         IN  /\ start \in SyncType(SavedGames, {InitSync.queues})
             /\ RingInv(start, Top)
             /\ start.framecount = Top
             /\ \A f \in Kept(Top) : start.saved[f % RingSize].state = Original(log, f)
<1> USE DEF IInv
<1>1. Top \in Nat /\ Len(game) = Top /\ sync.framecount = Top
  BY Counts DEF ProgressInv, GameInv
<1>2. CASE Top # 0
  BY <1>1, <1>2 DEF KeptInv, Types
<1>3. CASE Top = 0
  <2>1. sync = InitSync /\ game = Original(log, 0) /\ game \in SavedGames
    BY <1>1, <1>3 DEF KeptInv, Types, SavedGames
  <2> DEFINE start == SaveCurrentFrame(sync, game)
  <2>2. /\ start \in SyncType(SavedGames, {InitSync.queues})
        /\ RingInv(start, 0) /\ start.framecount = 0
        /\ start.saved[0] = [frame |-> 0, full |-> TRUE, state |-> game]
    BY <2>1, InitSyncType, FirstSave
  <2>3. ASSUME NEW f \in Kept(0) PROVE start.saved[f % RingSize].state = Original(log, f)
    <3>1. f = 0 /\ 0 \in SaveSlots
      BY RingSizeType DEF Kept
    <3>2. f % RingSize = 0
      BY <3>1, SlotOfSmall
    <3> QED BY <2>1, <2>2, <3>1, <3>2
  <2> QED BY <1>1, <1>3, <2>2, <2>3
<1> QED BY <1>2, <1>3

(* The frame played next and the ring after it has been saved.                *)
LEMMA PlayRing ==
  ASSUME IInv, ~exited, ~rollingback
  PROVE  LET start  == IF sync.framecount = 0 THEN SaveCurrentFrame(sync, game) ELSE sync
             played == Played(current_input)
             next   == IncrementFrame(start, played)
         IN  /\ played = Original(log, Top + 1)
             /\ played \in Seq(Moves) /\ Len(played) = Top + 1
             /\ next \in SyncType(SavedGames, {InitSync.queues})
             /\ RingInv(next, Top + 1)
             /\ next.framecount = Top + 1
             /\ LastSaved(next).state = Original(log, Top + 1)
             /\ \A f \in Kept(Top + 1) :
                   next.saved[f % RingSize].state = Original(log, f)
<1> USE DEF IInv
<1> DEFINE start  == IF sync.framecount = 0 THEN SaveCurrentFrame(sync, game) ELSE sync
           played == Played(current_input)
           next   == IncrementFrame(start, played)
           n      == Top + 1
<1>1. /\ Top \in Nat /\ n \in Nat /\ n \in 1 .. Len(log) /\ n = Len(log)
      /\ Top < Len(log) /\ Len(game) = Top
      /\ log \in Seq(SUBSET Buttons)
      /\ current_input = log[n] /\ current_input \in SUBSET Buttons
  BY Counts DEF ProgressInv, Types
<1>2. played = Original(log, n)
  <2>1. played = Append(Original(log, Top), [input |-> log[n], again |-> FALSE])
    BY <1>1 DEF Played, KeptInv
  <2>2. Append(Original(log, Top), [input |-> log[Top + 1], again |-> FALSE])
          = Original(log, Top + 1) <=> ~FALSE
    <3> FALSE \in BOOLEAN
      OBVIOUS
    <3> QED BY <1>1, OriginalNext
  <2> QED BY <2>1, <2>2
<1>3. played \in Seq(Moves) /\ Len(played) = n
  BY <1>1, PlayedType
<1>4. /\ start \in SyncType(SavedGames, {InitSync.queues})
      /\ RingInv(start, Top) /\ start.framecount = Top
      /\ \A f \in Kept(Top) : start.saved[f % RingSize].state = Original(log, f)
  BY StartRing
<1>5. played \in SavedGames
  BY <1>3 DEF SavedGames
<1> HIDE DEF start, played
<1>6. /\ next \in SyncType(SavedGames, {InitSync.queues})
      /\ RingInv(next, n) /\ next.framecount = n
      /\ next.saved[n % RingSize] = [frame |-> n, full |-> TRUE, state |-> played]
      /\ \A f \in Kept(n) \ {n} :
            f \in Kept(Top) /\ next.saved[f % RingSize] = start.saved[f % RingSize]
      /\ LastSaved(next) = [frame |-> n, full |-> TRUE, state |-> played]
  <2>1. n = IF start.framecount = Top THEN Top + 1 ELSE Top
    BY <1>4
  <2> HIDE DEF n
  <2> QED BY <1>1, <1>4, <1>5, <2>1, IncrementKeepsRing
<1>7. ASSUME NEW f \in Kept(n) PROVE next.saved[f % RingSize].state = Original(log, f)
  BY <1>2, <1>4, <1>6
<1> QED BY <1>2, <1>3, <1>6, <1>7 DEF start, played

(* Going back to the last verified frame works if and only if the ring of    *)
(* saved states is not shorter than the check distance.                       *)
LEMMA CanLoadVerified ==
  ASSUME NEW s \in SyncType(SavedGames, {InitSync.queues}), NEW top \in Nat,
         RingInv(s, top), s.framecount = top, NEW f \in Nat, f < top
  PROVE  CanLoad(s, f) <=> f \in Kept(top)
<1>1. CASE f \in Kept(top)
  BY <1>1, FrameIsFound DEF CanLoad
<1>2. CASE f \notin Kept(top)
  <2>1. f \in Int
    OBVIOUS
  <2>2. ~FindSavedFrameIndexAsserts(s, f)
    BY <1>2, <2>1, FrameIsLost
  <2> QED BY <1>2, <2>2 DEF CanLoad
<1> QED BY <1>1, <1>2

LEMMA PlayFrameStep == ASSUME IInv, PlayFrame PROVE IInv'
<1> USE DEF IInv
<1> DEFINE start  == IF sync.framecount = 0 THEN SaveCurrentFrame(sync, game) ELSE sync
           played == Played(current_input)
           next   == IncrementFrame(start, played)
           n      == Top + 1
           info   == [frame |-> next.framecount, input |-> current_input,
                      state |-> LastSaved(next).state]
           verify == next.framecount - last_verified = check_distance
           failed == \/ Len(saved_frames) = SAVED_FRAMES - 1
                     \/ verify /\ ~CanLoad(next, last_verified)
<1>1. /\ ~exited /\ ~rollingback /\ ProgressInv /\ KeptInv
      /\ UNCHANGED <<check_distance, last_verified, running, leaks>>
      /\ current_input' = {}
  BY DEF PlayFrame, Erase
<1>2. /\ Top \in Nat /\ n \in Nat /\ n \in 1 .. Len(log) /\ n = Len(log)
      /\ Len(game) = Top /\ Len(saved_frames) \in Nat
      /\ current_input = log[n] /\ current_input \in SUBSET Buttons
      /\ last_verified \in Nat /\ last_verified = Top - Len(saved_frames)
      /\ check_distance \in Nat
      /\ check_distance > 0 => Len(saved_frames) < check_distance
      /\ log \in Seq(SUBSET Buttons)
  BY <1>1, Counts DEF ProgressInv, Types, Verified
<1>3. /\ played = Original(log, n)
      /\ played \in Seq(Moves) /\ Len(played) = n
      /\ next \in SyncType(SavedGames, {InitSync.queues})
      /\ RingInv(next, n) /\ next.framecount = n
      /\ LastSaved(next).state = Original(log, n)
      /\ \A f \in Kept(n) : next.saved[f % RingSize].state = Original(log, f)
  BY <1>1, PlayRing
<1>4. info = [frame |-> n, input |-> log[n], state |-> Original(log, n)]
  BY <1>2, <1>3
<1>5. verify <=> n - last_verified = check_distance
  BY <1>3
<1>6. verify => check_distance > 0
  BY <1>2, <1>5
<1>7. CanLoad(next, last_verified) <=> last_verified \in Kept(n)
  <2>1. last_verified < n
    BY <1>2
  <2> HIDE DEF next, n
  <2> QED BY <1>2, <1>3, <2>1, CanLoadVerified
<1>8. IF failed
      THEN exited' = TRUE /\ UNCHANGED <<sync, game, rollingback, saved_frames, log>>
      ELSE /\ sync' = IF verify THEN LoadFrame(next, last_verified) ELSE next
           /\ game' = IF verify THEN LoadedGame(next, last_verified, played) ELSE played
           /\ saved_frames' = Append(saved_frames, info)
           /\ rollingback' = verify
           /\ log' = Append(log, {})
           /\ UNCHANGED exited
  BY DEF PlayFrame
<1> HIDE DEF start, played, next, info
<1>9. CASE failed
  <2>1. exited' = TRUE /\ UNCHANGED <<sync, game, rollingback, saved_frames, log>>
    BY <1>8, <1>9
  <2>2. Types'
    BY <1>1, <2>1 DEF Types
  <2>3. GameInv'
    BY <1>1, <2>1 DEF GameInv, Top
  <2>4. ~Sound
    <3> SUFFICES ASSUME Sound PROVE FALSE
      OBVIOUS
    <3>1. check_distance > 0 /\ check_distance < RingSize
      BY <1>2 DEF Sound, RingSize
    <3>2. Len(saved_frames) # SAVED_FRAMES - 1
      <4> DEFINE k == Len(saved_frames)
      <4>1. k \in Nat /\ k < check_distance /\ check_distance \in Nat
        BY <1>2, <3>1
      <4> HIDE DEF k
      <4> QED BY <3>1, <4>1 DEF RingSize, k
    <3>3. verify /\ last_verified \notin Kept(n)
      BY <1>7, <1>9, <3>2
    <3>4. n - last_verified = check_distance
      BY <1>5, <3>3
    <3>5. last_verified \in Kept(n)
      BY <1>2, <3>1, <3>4 DEF Kept
    <3> QED BY <3>3, <3>5
  <2>5. OnlyDivergenceIsRaised'
    BY <1>1, <2>4 DEF OnlyDivergenceIsRaised, Sound
  <2> QED BY <2>1, <2>2, <2>3, <2>5
<1>10. CASE ~failed
  <2>1. /\ sync' = IF verify THEN LoadFrame(next, last_verified) ELSE next
        /\ game' = IF verify THEN LoadedGame(next, last_verified, played) ELSE played
        /\ saved_frames' = Append(saved_frames, info)
        /\ rollingback' = verify
        /\ log' = Append(log, {})
        /\ UNCHANGED exited
        /\ Len(saved_frames) # SAVED_FRAMES - 1
    BY <1>8, <1>10
  <2>2. verify => last_verified \in Kept(n) /\ last_verified # n
    BY <1>2, <1>7, <1>10
  <2> HIDE DEF failed
  <2>3. /\ log' \in Seq(SUBSET Buttons) /\ Len(log') = n + 1 /\ log'[n + 1] = {}
        /\ \A m \in 1 .. n : log'[m] = log[m]
        /\ Top' = n
    <3>1. {} \in SUBSET Buttons
      OBVIOUS
    <3>2. /\ log' \in Seq(SUBSET Buttons) /\ Len(log') = n + 1 /\ log'[n + 1] = {}
          /\ \A m \in 1 .. n : log'[m] = log[m]
      BY <1>2, <2>1, <3>1, AppendProperties
    <3> QED BY <1>2, <3>2 DEF Top
  <2>4. \A f \in Nat : f <= n => Original(log', f) = Original(log, f)
    <3> SUFFICES ASSUME NEW f \in Nat, f <= n
                 PROVE  Original(log', f) = Original(log, f)
      OBVIOUS
    <3>1. \A m \in 1 .. f : log'[m] = log[m]
      BY <1>2, <2>3
    <3> QED BY <3>1, OriginalSame
  <2>5. \A f \in Kept(n) : f \in Nat /\ f <= n
    BY DEF Kept
  (* The ring and the game, after the load if there is one.                   *)
  <2> DEFINE frame == IF verify THEN last_verified ELSE n
  <2>6. /\ sync' \in SyncType(SavedGames, {InitSync.queues})
        /\ RingInv(sync', n) /\ sync'.framecount = frame
        /\ sync'.saved = next.saved
        /\ game' = Original(log, frame)
    <3>1. CASE verify
      <4>1. last_verified \in Kept(n)
        BY <2>2, <3>1
      <4>2. /\ LoadFrame(next, last_verified) \in SyncType(SavedGames, {InitSync.queues})
            /\ RingInv(LoadFrame(next, last_verified), n)
            /\ LoadFrame(next, last_verified).framecount = last_verified
            /\ LoadFrame(next, last_verified).saved = next.saved
            /\ last_verified # next.framecount =>
                 LoadedGame(next, last_verified, played)
                   = next.saved[last_verified % RingSize].state
        <5>1. /\ next \in SyncType(SavedGames, {InitSync.queues})
              /\ RingInv(next, n) /\ n \in Nat
          BY <1>2, <1>3
        <5> HIDE DEF n
        <5> QED BY <4>1, <5>1, LoadKeepsRing
      <4>3. LoadedGame(next, last_verified, played) = Original(log, last_verified)
        BY <1>3, <2>2, <3>1, <4>1, <4>2
      <4> QED BY <2>1, <3>1, <4>2, <4>3
    <3>2. CASE ~verify
      BY <1>3, <2>1, <3>2
    <3> QED BY <3>1, <3>2
  <2>7. frame \in Nat /\ frame <= n /\ last_verified <= frame
    BY <1>2
  <2>8. game' \in Seq(Moves) /\ Len(game') = frame
    <3>1. frame <= Len(log)
      BY <1>2, <2>7
    <3> HIDE DEF frame
    <3> QED BY <1>2, <2>6, <2>7, <3>1, OriginalType
  <2>9. /\ saved_frames' \in Seq(Infos)
        /\ Len(saved_frames') = Len(saved_frames) + 1
        /\ saved_frames'[Len(saved_frames) + 1] = info
        /\ \A i \in 1 .. Len(saved_frames) : saved_frames'[i] = saved_frames[i]
    <3>1. info \in Infos
      <4>1. Original(log, n) \in Seq(Moves)
        BY <1>3
      <4> HIDE DEF n
      <4> QED BY <1>2, <1>4, <4>1 DEF Infos
    <3>2. saved_frames \in Seq(Infos)
      BY DEF Types
    <3> QED BY <2>1, <3>1, <3>2, AppendProperties
  <2>10. Verified' = last_verified
    BY <1>2, <2>3, <2>9 DEF Verified
  <2>11. Types'
    <3>1. Len(saved_frames') < SAVED_FRAMES
      <4>1. /\ Len(saved_frames) \in Nat /\ Len(saved_frames) < SAVED_FRAMES
            /\ Len(saved_frames) # SAVED_FRAMES - 1
        BY <1>2, <2>1 DEF Types
      <4> QED BY <2>9, <4>1
    <3>2. {rollingback', running', exited'} \subseteq BOOLEAN
      BY <1>1, <2>1 DEF Types
    <3>3. Len(log') > 0
      BY <1>2, <2>3
    <3>4. current_input' \in SUBSET Buttons
      BY <1>1
    <3> HIDE DEF n, verify, frame
    <3> QED BY <1>1, <2>3, <2>6, <2>8, <2>9, <3>1, <3>2, <3>3, <3>4 DEF Types
  <2>12. GameInv'
    <3>1. ASSUME NEW m \in 1 .. Len(game') PROVE game'[m].input = log'[m]
      <4>1. m \in 1 .. frame /\ m \in 1 .. n
        BY <1>2, <2>7, <2>8, <3>1
      <4>2. game'[m].input = log[m]
        BY <2>6, <4>1 DEF Original
      <4> QED BY <2>3, <4>1, <4>2
    <3> HIDE DEF n, verify, frame
    <3> QED BY <1>1, <2>3, <2>6, <2>7, <2>8, <3>1 DEF GameInv
  <2>13. ProgressInv'
    <3>1. current_input' = log'[Top' + 1]
      BY <1>1, <2>3
    <3>2. \A f \in leaks' : f >= Verified'
      BY <1>1, <2>10, <1>2 DEF ProgressInv, Verified
    <3>3. CASE verify
      <4>1. saved_frames' # <<>>
        BY <1>2, <2>9, EmptySeq
      <4> QED BY <1>1, <2>1, <2>8, <2>10, <3>1, <3>2, <3>3, <4>1 DEF ProgressInv
    <3>4. CASE ~verify
      <4>1. Len(game') = Top' /\ last_verified' = Verified'
        BY <1>1, <2>3, <2>8, <2>10, <3>4
      <4>2. check_distance' > 0 => Len(saved_frames') < check_distance'
        <5>1. n - last_verified # check_distance
          BY <1>5, <3>4
        <5>2. /\ Len(saved_frames) \in Nat /\ check_distance \in Nat
              /\ check_distance > 0 => Len(saved_frames) < check_distance
              /\ n - last_verified = Len(saved_frames) + 1
          BY <1>2
        <5> QED BY <1>1, <2>9, <5>1, <5>2
      <4> QED BY <2>1, <3>1, <3>2, <3>4, <4>1, <4>2 DEF ProgressInv
    <3> QED BY <3>3, <3>4
  <2>14. KeptInv'
    <3>1. game' = Original(log', Len(game'))
      BY <2>4, <2>6, <2>7, <2>8
    <3>2. ASSUME NEW i \in 1 .. Len(saved_frames')
          PROVE  saved_frames'[i] = [frame |-> Verified' + i, input |-> log'[Verified' + i],
                                     state |-> Original(log', Verified' + i)]
      <4> DEFINE f == last_verified + i
      <4>1. f \in Nat /\ f <= n /\ f \in 1 .. n
        BY <1>2, <2>9
      <4>2. saved_frames'[i] = [frame |-> f, input |-> log[f], state |-> Original(log, f)]
        <5>1. CASE i = Len(saved_frames) + 1
          <6>1. f = n
            BY <1>2, <5>1
          <6> QED BY <1>4, <2>9, <5>1, <6>1
        <5>2. CASE i # Len(saved_frames) + 1
          <6>1. i \in 1 .. Len(saved_frames)
            BY <1>2, <2>9, <5>2
          <6>2. Verified + i = f
            BY <1>2 DEF Verified
          <6> QED BY <1>1, <2>9, <6>1, <6>2 DEF KeptInv
        <5> QED BY <5>1, <5>2
      <4>3. Verified' + i = f /\ log'[f] = log[f] /\ Original(log', f) = Original(log, f)
        BY <2>3, <2>4, <2>10, <4>1
      <4> HIDE DEF f
      <4> QED BY <4>2, <4>3
    <3>3. RingInv(sync', Top')
      BY <2>3, <2>6
    <3>4. ASSUME NEW f \in Kept(Top')
          PROVE  sync'.saved[f % RingSize].state = Original(log', f)
      BY <1>3, <2>3, <2>4, <2>5, <2>6, <3>4
    <3>5. Top' # 0
      BY <1>2, <2>3
    <3> QED BY <3>1, <3>2, <3>3, <3>4, <3>5 DEF KeptInv
  <2>15. OnlyDivergenceIsRaised'
    BY <1>1, <2>1 DEF OnlyDivergenceIsRaised, Sound
  <2> QED BY <2>11, <2>12, <2>13, <2>14, <2>15
<1> QED BY <1>9, <1>10
-----------------------------------------------------------------------------
(* ReplayFrame.                                                               *)

LEMMA ReplayFrameStep == ASSUME IInv, ReplayFrame PROVE IInv'
<1> USE DEF IInv
<1> DEFINE info   == Head(saved_frames)
           played == Played(ReplayInput)
           next   == IncrementFrame(sync, played)
           old    == Len(game)
           n      == old + 1
           done   == Len(saved_frames) = 1
           again  == old \in leaks
<1>1. /\ ~exited /\ rollingback /\ ProgressInv /\ KeptInv
      /\ UNCHANGED <<check_distance, running, leaks, log>>
      /\ current_input' = {}
      /\ game' = played /\ sync' = next
      /\ IF Matches(info, next)
         THEN /\ saved_frames' = Tail(saved_frames)
              /\ last_verified' = IF done THEN info.frame ELSE last_verified
              /\ rollingback' = ~done
              /\ UNCHANGED exited
         ELSE /\ exited' = TRUE
              /\ UNCHANGED <<saved_frames, last_verified, rollingback>>
  BY DEF ReplayFrame, Erase
<1>2. /\ Top \in Nat /\ old \in Nat /\ n \in Nat /\ Top + 1 = Len(log)
      /\ old = Verified /\ old = Top - Len(saved_frames) /\ sync.framecount = old
      /\ Len(saved_frames) \in Nat \ {0} /\ saved_frames \in Seq(Infos)
      /\ old < Top /\ n \in 1 .. Len(log) /\ n <= Top
      /\ log \in Seq(SUBSET Buttons)
      /\ leaks' = leaks /\ log' = log /\ Top' = Top
  <2>1. Len(saved_frames) # 0
    BY <1>1, Counts, EmptySeq DEF ProgressInv, Types
  <2> QED BY <1>1, <2>1, Counts DEF ProgressInv, GameInv, Types, Verified, Top
<1>3. info = [frame |-> n, input |-> log[n], state |-> Original(log, n)]
  <2>1. info = saved_frames[1] /\ 1 \in 1 .. Len(saved_frames)
    BY <1>2
  <2> QED BY <1>1, <1>2, <2>1 DEF KeptInv
<1>4. ReplayInput = log[n] /\ log[n] \in SUBSET Buttons
  BY <1>2, <1>3, ElementOfSeq DEF ReplayInput
<1>5. /\ played \in Seq(Moves) /\ Len(played) = n
      /\ \A m \in 1 .. n : played[m].input = log[m]
  BY <1>2, <1>4, PlayedType
<1>6. played = Original(log, n) <=> ~again
  <2>1. played = Append(Original(log, old), [input |-> log[n], again |-> again])
    BY <1>1, <1>4 DEF Played, KeptInv
  <2>2. again \in BOOLEAN /\ old < Len(log)
    BY <1>2
  <2> HIDE DEF again, old, played
  <2> QED BY <1>2, <2>1, <2>2, OriginalNext
<1>7. RingInv(sync, Top)
  BY <1>1, <1>2 DEF KeptInv
<1>8. /\ next \in SyncType(SavedGames, {InitSync.queues})
      /\ RingInv(next, Top) /\ next.framecount = n
      /\ next.saved[n % RingSize] = [frame |-> n, full |-> TRUE, state |-> played]
      /\ \A f \in Kept(Top) \ {n} :
            f \in Kept(Top) /\ next.saved[f % RingSize] = sync.saved[f % RingSize]
      /\ LastSaved(next) = [frame |-> n, full |-> TRUE, state |-> played]
  <2>1. Top = IF sync.framecount = Top THEN Top + 1 ELSE Top
    BY <1>2
  <2>2. sync \in SyncType(SavedGames, {InitSync.queues}) /\ played \in SavedGames
    BY <1>5 DEF Types, SavedGames
  <2>3. n = sync.framecount + 1
    BY <1>2
  <2> HIDE DEF played, n
  <2> QED BY <1>2, <1>7, <2>1, <2>2, <2>3, IncrementKeepsRing
<1>9. Matches(info, next) <=> ~again
  BY <1>3, <1>6, <1>8 DEF Matches
<1> HIDE DEF info, played, next
<1>10. GameInv' /\ Types'
  <2>1. CASE ~again
    <3>1. /\ saved_frames' = Tail(saved_frames)
          /\ last_verified' = IF done THEN n ELSE last_verified
          /\ rollingback' = ~done
          /\ exited' = exited
      BY <1>1, <1>3, <1>9, <2>1
    <3>2. saved_frames' \in Seq(Infos) /\ Len(saved_frames') < SAVED_FRAMES
      BY <1>2, <3>1, HeadTailProperties, EmptySeq DEF Types
    <3>3. last_verified' \in Nat /\ last_verified' <= n
      BY <1>2, <3>1 DEF Types, GameInv
    <3>4. {rollingback', running', exited'} \subseteq BOOLEAN
      BY <1>1, <3>1 DEF Types
    <3>5. GameInv'
      BY <1>1, <1>2, <1>5, <1>8, <3>3 DEF GameInv
    <3>6. current_input' \in SUBSET Buttons
      BY <1>1
    <3>7. Types'
      BY <1>1, <1>5, <1>8, <3>2, <3>3, <3>4, <3>6 DEF Types
    <3> QED BY <3>5, <3>7
  <2>2. CASE again
    <3>1. exited' = TRUE /\ UNCHANGED <<saved_frames, last_verified, rollingback>>
      BY <1>1, <1>9, <2>2
    <3>2. last_verified' \in Nat /\ last_verified' <= n
      BY <1>2, <3>1 DEF Types, GameInv
    <3>3. GameInv'
      BY <1>1, <1>2, <1>5, <1>8, <3>2 DEF GameInv
    <3>4. {rollingback', running', exited'} \subseteq BOOLEAN
      BY <1>1, <3>1 DEF Types
    <3>5. current_input' \in SUBSET Buttons
      BY <1>1
    <3>6. Types'
      BY <1>1, <1>5, <1>8, <3>1, <3>4, <3>5 DEF Types
    <3> QED BY <3>3, <3>6
  <2> QED BY <2>1, <2>2
<1>11. OnlyDivergenceIsRaised'
  <2>1. CASE again
    BY <1>1, <2>1 DEF OnlyDivergenceIsRaised
  <2>2. CASE ~again
    BY <1>1, <1>9, <2>2 DEF OnlyDivergenceIsRaised, Sound
  <2> QED BY <2>1, <2>2
<1>12. ASSUME ~exited' PROVE ProgressInv' /\ KeptInv'
  <2>1. /\ ~again
        /\ saved_frames' = Tail(saved_frames)
        /\ last_verified' = IF done THEN n ELSE last_verified
        /\ rollingback' = ~done
    BY <1>1, <1>3, <1>9, <1>12
  <2>2. game' = Original(log, n) /\ Len(game') = n
    BY <1>1, <1>5, <1>6, <2>1
  <2>3. /\ Len(saved_frames') = Len(saved_frames) - 1
        /\ \A i \in 1 .. Len(saved_frames') : saved_frames'[i] = saved_frames[i + 1]
    BY <1>2, <2>1, HeadTailProperties, EmptySeq
  <2>4. Verified' = n
    BY <1>2, <2>3 DEF Verified
  <2>5. ProgressInv'
    <3>1. ASSUME NEW f \in leaks' PROVE f >= Verified'
      <4>1. f \in Nat /\ f >= old /\ f # old
        BY <1>1, <1>2, <2>1, <3>1 DEF ProgressInv, Types
      <4> QED BY <1>2, <2>4, <4>1
    <3>2. current_input' = log'[Top' + 1]
      BY <1>1, <1>2, <2>1 DEF ProgressInv
    <3>3. CASE done
      <4>1. Len(game') = Top' /\ last_verified' = Verified' /\ Len(saved_frames') = 0
        BY <1>2, <2>1, <2>2, <2>3, <2>4, <3>3
      <4> QED BY <2>1, <3>1, <3>2, <3>3, <4>1 DEF ProgressInv
    <3>4. CASE ~done
      <4>1. saved_frames' # <<>>
        BY <1>2, <2>3, <3>4, EmptySeq
      <4> QED BY <1>1, <2>1, <2>2, <2>4, <3>1, <3>2, <3>4, <4>1 DEF ProgressInv
    <3> QED BY <3>3, <3>4
  <2>6. KeptInv'
    <3>1. ASSUME NEW i \in 1 .. Len(saved_frames')
          PROVE  saved_frames'[i] = [frame |-> Verified' + i, input |-> log'[Verified' + i],
                                     state |-> Original(log', Verified' + i)]
      <4>1. /\ i + 1 \in 1 .. Len(saved_frames) /\ Verified' + i = Verified + (i + 1)
        BY <1>2, <2>3, <2>4
      <4>2. saved_frames[i + 1] = [frame |-> Verified + (i + 1),
                                   input |-> log[Verified + (i + 1)],
                                   state |-> Original(log, Verified + (i + 1))]
        BY <1>1, <4>1 DEF KeptInv
      <4> QED BY <1>2, <2>3, <4>1, <4>2
    <3>2. ASSUME NEW f \in Kept(Top')
          PROVE  sync'.saved[f % RingSize].state = Original(log', f)
      <4>1. CASE f = n
        BY <1>1, <1>2, <1>8, <2>2, <4>1
      <4>2. CASE f # n
        <5>1. f \in Kept(Top) /\ Top # 0
          BY <1>2, <3>2
        <5>2. sync.saved[f % RingSize].state = Original(log, f)
          BY <1>1, <5>1 DEF KeptInv
        <5>3. next.saved[f % RingSize] = sync.saved[f % RingSize]
          BY <1>8, <4>2, <5>1
        <5> QED BY <1>1, <1>2, <5>2, <5>3
      <4> QED BY <4>1, <4>2
    <3> QED BY <1>1, <1>2, <1>8, <2>2, <3>1, <3>2 DEF KeptInv
  <2> QED BY <2>5, <2>6
<1> QED BY <1>10, <1>11, <1>12
-----------------------------------------------------------------------------
LEMMA NextIInv == IInv /\ [Next]_vars => IInv'
<1> SUFFICES ASSUME IInv, [Next]_vars PROVE IInv'
  OBVIOUS
<1>1. CASE DoPoll
  <2>1. running' = TRUE
    BY <1>1 DEF DoPoll
  <2>2. UNCHANGED <<sync, game, check_distance, last_verified, rollingback,
                    current_input, saved_frames, leaks, log, exited>>
    BY <1>1 DEF DoPoll
  <2>3. Types'
    BY <2>1, <2>2 DEF IInv, Types
  <2> QED BY <2>2, <2>3
      DEF IInv, GameInv, ProgressInv, KeptInv, OnlyDivergenceIsRaised, Sound, Top, Verified
<1>2. CASE \E bits \in SUBSET Buttons : AddLocalInputBits(bits)
  BY <1>2, AddLocalInputStep
<1>3. CASE PlayFrame
  BY <1>3, PlayFrameStep
<1>4. CASE ReplayFrame
  BY <1>4, ReplayFrameStep
<1>5. CASE UNCHANGED vars
  BY <1>5 DEF vars, IInv, Types, GameInv, ProgressInv, KeptInv, OnlyDivergenceIsRaised,
              Sound, Top, Verified
<1> QED BY <1>1, <1>2, <1>3, <1>4, <1>5 DEF Next

LEMMA Invariant == Spec => []IInv
  BY InitIInv, NextIInv, PTL DEF Spec

(* Every reachable state of the session is well typed.                        *)
THEOREM TypeCorrect == Spec => []TypeOK
<1>1. IInv => TypeOK
  BY Counts DEF IInv, Types, GameInv, TypeOK, Moves
<1> QED BY <1>1, Invariant, PTL

(* A session whose check distance fits the ring of saved states never fails  *)
(* an application whose frames depend on nothing but the state it saves and  *)
(* its input.                                                                 *)
THEOREM OnlyDivergence == Spec => []OnlyDivergenceIsRaised
<1>1. IInv => OnlyDivergenceIsRaised
  BY DEF IInv
<1> QED BY <1>1, Invariant, PTL

(* A frame that plays differently the second time is found as soon as        *)
(* check_distance more frames have been played.                               *)
THEOREM DivergenceFound == Spec => []DivergenceIsFound
<1>1. IInv => DivergenceIsFound
  <2> SUFFICES ASSUME IInv, NEW f \in leaks, Sound, ~rollingback, ~exited,
                      Len(log) - 1 >= f + check_distance
               PROVE  FALSE
    BY DEF DivergenceIsFound
  <2>1. f \in Nat /\ check_distance \in Nat /\ check_distance > 0
    BY DEF IInv, Types, Sound
  <2>2. f >= Top - Len(saved_frames) /\ Len(saved_frames) < check_distance
    BY <2>1 DEF IInv, ProgressInv, Verified
  <2> QED BY <2>1, <2>2, Counts DEF IInv, Top
<1> QED BY <1>1, Invariant, PTL

(* The application is played every frame with the bits added for that frame, *)
(* and outside of a verification it stands at the last one.                   *)
THEOREM Undisturbed == Spec => []SimulationUndisturbed
<1>1. IInv => SimulationUndisturbed
  <2> SUFFICES ASSUME IInv PROVE SimulationUndisturbed
    OBVIOUS
  <2>1. DOMAIN game = 1 .. Len(game)
    BY LenProperties DEF IInv, Types
  <2> QED BY <2>1 DEF IInv, GameInv, ProgressInv, SimulationUndisturbed, Top
<1> QED BY <1>1, Invariant, PTL
=============================================================================
