------------------------------ MODULE SyncProofs ------------------------------
(***************************************************************************)
(* What the member functions of a Sync do.  First its ring of saved states: *)
(* whatever is saved and loaded, frame f stands in slot f modulo the ring's *)
(* size, and the ring has the last MAX_PREDICTION_FRAMES + 2 of the frames  *)
(* that were ever simulated.  Then the queues, the ring and the game state  *)
(* together, for any game g, connect status st and log lg of the inputs     *)
(* added.                                                                   *)
(***************************************************************************)
EXTENDS Sync, InputQueueProofs

USE SyncAssumption, InputQueueAssumption

RingSize == MAX_PREDICTION_FRAMES + 2

(* States and Queues are sets that have the game's states and the queues.     *)
SyncType(States, Queues) ==
    [framecount : Nat, last_confirmed_frame : Frames, head : SaveSlots,
     saved : [SaveSlots -> [frame : Nat, full : BOOLEAN, state : States]],
     queues : Queues]

(* The frames the ring holds when the last one ever simulated is top.         *)
Kept(top) == {f \in 0 .. top : top - f < RingSize}

RingInv(s, top) ==
    /\ s.framecount \in Kept(top)
    /\ s.head = (s.framecount + 1) % RingSize
    /\ \A f \in Kept(top) :
          s.saved[f % RingSize].frame = f /\ s.saved[f % RingSize].full
    /\ \A slot \in SaveSlots : slot > top => s.saved[slot].frame = 0
-----------------------------------------------------------------------------
LEMMA RingSizeType == /\ RingSize \in Nat \ {0} /\ RingSize > 2
                      /\ SaveSlots = 0 .. RingSize - 1
  BY DEF RingSize, SaveSlots

LEMMA SlotType == ASSUME NEW f \in Int PROVE f % RingSize \in SaveSlots
<1> HIDE DEF RingSize
<1> QED BY RingSizeType, ModRange

LEMMA SlotOfSmall == ASSUME NEW f \in SaveSlots PROVE f % RingSize = f
<1>1. f = RingSize * 0 + f /\ f \in 0 .. RingSize - 1 /\ f \in Int
  BY RingSizeType
<1> QED BY <1>1, RingSizeType, ModUnique

(* The slot after that of a frame is the one of the next frame.               *)
LEMMA SlotOfNext ==
  ASSUME NEW f \in Int
  PROVE  NextSlot(f % RingSize) = (f + 1) % RingSize
<1>1. RingSize \in Nat \ {0} /\ 1 \in Int
  BY RingSizeType
<1>2. ((f % RingSize) + 1) % RingSize = (f + 1) % RingSize
  BY <1>1, ModAdd
<1> QED BY <1>2 DEF NextSlot, RingSize

(* The slot before that of a frame, as GetLastSavedFrame looks it up.         *)
LEMMA SlotBefore ==
  ASSUME NEW f \in Nat
  PROVE  (IF (f + 1) % RingSize = 0 THEN MAX_PREDICTION_FRAMES + 1
          ELSE ((f + 1) % RingSize) - 1) = f % RingSize
<1> DEFINE r == f % RingSize
<1> f \in Int /\ 1 \in Int /\ RingSize \in Nat \ {0}
  BY RingSizeType
<1>1. r \in 0 .. RingSize - 1
  BY SlotType, RingSizeType
<1>2. (f + 1) % RingSize = (r + 1) % RingSize
  BY ModAdd
<1>3. CASE r = RingSize - 1
  <2>1. r + 1 = RingSize * 1 + 0 /\ 0 \in 0 .. RingSize - 1 /\ r + 1 \in Int
    BY <1>3, RingSizeType
  <2>2. (r + 1) % RingSize = 0
    <3> DEFINE a == r + 1
    <3> HIDE DEF a, r
    <3>1. a % RingSize = 0
      BY <2>1, RingSizeType, ModUnique DEF a
    <3> QED BY <3>1 DEF a
  <2> QED BY <1>2, <1>3, <2>2 DEF RingSize
<1>4. CASE r # RingSize - 1
  <2>1. r + 1 \in SaveSlots
    BY <1>1, <1>4, RingSizeType
  <2>2. (r + 1) % RingSize = r + 1
    <3> HIDE DEF r
    <3> QED BY <2>1, SlotOfSmall
  <2> HIDE DEF r
  <2> QED BY <1>1, <1>2, <2>2, RingSizeType DEF r
<1> QED BY <1>3, <1>4

(* Frames the ring holds together do not share a slot.                        *)
LEMMA SlotsDiffer ==
  ASSUME NEW f \in Int, NEW g \in Int, f - g < RingSize, g - f < RingSize, f # g
  PROVE  f % RingSize # g % RingSize
  BY RingSizeType, ModInjective

(* Every slot of a ring that is full belongs to a frame it holds.             *)
LEMMA SlotIsKept ==
  ASSUME NEW top \in Nat, NEW slot \in SaveSlots, slot <= top
  PROVE  \E f \in Kept(top) : f % RingSize = slot
<1> DEFINE d == (top - slot) % RingSize
           f == top - d
<1>1. d \in 0 .. RingSize - 1 /\ d <= top - slot
  <2> DEFINE a == top - slot
  <2>1. a \in Nat /\ a \in Int
    BY RingSizeType
  <2>2. a % RingSize \in 0 .. RingSize - 1 /\ a % RingSize <= a
    <3> HIDE DEF a
    <3>1. a % RingSize \in 0 .. RingSize - 1
      BY <2>1, RingSizeType, ModRange
    <3>2. CASE a < RingSize
      <4>1. a \in SaveSlots
        BY <2>1, <3>2, RingSizeType
      <4>2. a % RingSize = a
        BY <4>1, SlotOfSmall
      <4> QED BY <2>1, <3>1, <4>2
    <3>3. CASE a >= RingSize
      BY <2>1, <3>1, <3>3, RingSizeType
    <3> QED BY <2>1, <3>2, <3>3, RingSizeType
  <2> QED BY <2>2
<1>2. f \in Kept(top)
  <2> HIDE DEF d
  <2>1. slot \in Nat
    BY RingSizeType
  <2>2. f \in 0 .. top /\ top - f < RingSize
    BY <1>1, <2>1, RingSizeType
  <2> QED BY <2>2 DEF Kept
<1>3. f % RingSize = slot
  <2> DEFINE a == top - slot
             k == a \div RingSize
  <2>1. a \in Int /\ k \in Int /\ a = RingSize * k + d
    BY RingSizeType, ModDiv
  <2>2. f = RingSize * k + slot
    <3> DEFINE p == RingSize * k
    <3>1. p \in Int
      BY <2>1, RingSizeType
    <3> HIDE DEF p, d
    <3> QED BY <1>1, <2>1, <3>1, RingSizeType DEF p
  <2>3. f \in Int /\ slot \in 0 .. RingSize - 1
    BY <1>2, RingSizeType DEF Kept
  <2> HIDE DEF f, k
  <2> QED BY <2>1, <2>2, <2>3, RingSizeType, ModUnique
<1> QED BY <1>2, <1>3
-----------------------------------------------------------------------------
(* A frame the ring holds is found in its slot.                               *)
LEMMA FrameIsFound ==
  ASSUME NEW States, NEW Queues, NEW s \in SyncType(States, Queues),
         NEW top \in Nat, RingInv(s, top), NEW f \in Kept(top)
  PROVE  /\ FindSavedFrameIndexAsserts(s, f)
         /\ FindSavedFrameIndex(s, f) = f % RingSize
         /\ LoadFrameAsserts(s, f)
<1> DEFINE slot == f % RingSize
<1>1. f \in 0 .. top /\ top - f < RingSize /\ f \in Int
  BY DEF Kept
<1>2. /\ slot \in SavedAt(s, f) /\ s.saved[slot].full
      /\ slot \in SaveSlots /\ slot \in Nat /\ slot < RingSize
  <2>1. slot \in SaveSlots
    BY <1>1, SlotType
  <2> HIDE DEF slot
  <2>2. slot \in Nat /\ slot < RingSize
    BY <2>1, RingSizeType
  <2> QED BY <2>1, <2>2 DEF RingInv, SavedAt, slot
<1>3. ASSUME NEW other \in SavedAt(s, f), other < slot PROVE FALSE
  <2>1. other \in SaveSlots /\ s.saved[other].frame = f
    BY DEF SavedAt
  <2>2. other < RingSize /\ other \in Nat
    BY <2>1, RingSizeType
  <2>3. CASE other > top
    <3>1. f = 0
      BY <2>1, <2>3 DEF RingInv
    <3>2. 0 \in SaveSlots
      BY RingSizeType
    <3>3. slot = 0
      BY <3>1, <3>2, SlotOfSmall
    <3> QED BY <1>3, <2>2, <3>3
  <2>4. CASE other <= top
    <3>1. PICK g \in Kept(top) : g % RingSize = other
      BY <2>1, <2>4, SlotIsKept
    <3>2. g = f
      BY <2>1, <3>1 DEF RingInv
    <3> QED BY <1>3, <2>2, <3>1, <3>2
  <2> QED BY <2>2, <2>3, <2>4
<1>4. \A other \in SavedAt(s, f) : other \in Int /\ slot <= other
  <2>1. SavedAt(s, f) \subseteq Int
    BY RingSizeType DEF SavedAt
  <2> HIDE DEF slot
  <2> QED BY <1>2, <1>3, <2>1
<1>5. FindSavedFrameIndex(s, f) = slot
  <2> HIDE DEF slot
  <2>1. \A other \in SavedAt(s, f) :
          (\A third \in SavedAt(s, f) : other <= third) => other = slot
    BY <1>2, <1>4
  <2> QED BY <1>2, <1>4, <2>1 DEF FindSavedFrameIndex
<1> QED BY <1>2, <1>5 DEF FindSavedFrameIndexAsserts, LoadFrameAsserts

(* A frame that it has lost is not.                                           *)
LEMMA FrameIsLost ==
  ASSUME NEW States, NEW Queues, NEW s \in SyncType(States, Queues),
         NEW top \in Nat, RingInv(s, top), NEW f \in Int, f < top, f \notin Kept(top)
  PROVE  ~FindSavedFrameIndexAsserts(s, f)
<1> SUFFICES ASSUME NEW slot \in SaveSlots, s.saved[slot].frame = f PROVE FALSE
  BY DEF FindSavedFrameIndexAsserts, SavedAt
<1>1. f \in Nat
  BY DEF SyncType
<1>2. top - f >= RingSize
  BY <1>1, RingSizeType DEF Kept
<1>3. slot <= top
  BY <1>1, <1>2, RingSizeType
<1>4. PICK g \in Kept(top) : g % RingSize = slot
  BY <1>3, SlotIsKept
<1>5. g = f
  BY <1>4 DEF RingInv
<1> QED BY <1>4, <1>5

(* LoadFrame goes back to a frame the ring holds and leaves the ring.         *)
LEMMA LoadKeepsRing ==
  ASSUME NEW States, NEW Queues, NEW s \in SyncType(States, Queues),
         NEW top \in Nat, RingInv(s, top), NEW f \in Kept(top)
  PROVE  /\ LoadFrame(s, f) \in SyncType(States, Queues)
         /\ RingInv(LoadFrame(s, f), top)
         /\ LoadFrame(s, f).framecount = f
         /\ LoadFrame(s, f).saved = s.saved
         /\ LoadFrame(s, f).queues = s.queues
         /\ LoadFrame(s, f).last_confirmed_frame = s.last_confirmed_frame
         /\ \A game : f # s.framecount =>
               LoadedGame(s, f, game) = s.saved[f % RingSize].state
<1> DEFINE t == LoadFrame(s, f)
<1>1. f \in 0 .. top /\ f \in Nat /\ f \in Int /\ f + 1 \in Int
  BY DEF Kept
<1>2. CASE f = s.framecount
  BY <1>1, <1>2 DEF LoadFrame
<1>3. CASE f # s.framecount
  <2>1. t = [s EXCEPT !.framecount = f, !.head = (f + 1) % RingSize]
    <3>1. FindSavedFrameIndex(s, f) = f % RingSize
      BY FrameIsFound
    <3>2. s.saved[f % RingSize].frame = f
      BY DEF RingInv
    <3>3. NextSlot(f % RingSize) = (f + 1) % RingSize
      BY <1>1, SlotOfNext
    <3> QED BY <1>3, <3>1, <3>2, <3>3 DEF LoadFrame
  <2>2. (f + 1) % RingSize \in SaveSlots
    BY <1>1, SlotType
  <2>3. /\ t \in SyncType(States, Queues) /\ t.framecount = f
        /\ t.head = (f + 1) % RingSize /\ t.saved = s.saved
        /\ t.queues = s.queues
        /\ t.last_confirmed_frame = s.last_confirmed_frame
    BY <1>1, <2>1, <2>2 DEF SyncType
  <2>4. \A game : LoadedGame(s, f, game) = s.saved[f % RingSize].state
    BY <1>3, FrameIsFound DEF LoadedGame
  <2> HIDE DEF t
  <2>5. RingInv(t, top)
    BY <1>1, <2>3 DEF RingInv
  <2> QED BY <2>3, <2>4, <2>5 DEF t
<1> QED BY <1>2, <1>3

(* IncrementFrame saves the next frame in its slot; every other frame that    *)
(* the ring still holds stays as it was.                                      *)
LEMMA IncrementKeepsRing ==
  ASSUME NEW States, NEW Queues, NEW s \in SyncType(States, Queues),
         NEW top \in Nat, RingInv(s, top), NEW game \in States,
         NEW last \in Nat,
         last = IF s.framecount = top THEN top + 1 ELSE top
  PROVE  LET t == IncrementFrame(s, game)
             n == s.framecount + 1
         IN  /\ t \in SyncType(States, Queues)
             /\ RingInv(t, last)
             /\ t.framecount = n
             /\ t.saved[n % RingSize] = [frame |-> n, full |-> TRUE, state |-> game]
             /\ \A f \in Kept(last) \ {n} :
                   f \in Kept(top) /\ t.saved[f % RingSize] = s.saved[f % RingSize]
             /\ LastSaved(t) = [frame |-> n, full |-> TRUE, state |-> game]
             /\ t.queues = s.queues
             /\ t.last_confirmed_frame = s.last_confirmed_frame
<1> DEFINE t == IncrementFrame(s, game)
           n == s.framecount + 1
           new == [frame |-> n, full |-> TRUE, state |-> game]
<1>1. /\ n \in Nat /\ n \in Int /\ s.framecount \in Nat /\ s.framecount <= top
      /\ n <= last /\ n \in Kept(last)
  BY RingSizeType DEF RingInv, Kept
<1>2. n % RingSize \in SaveSlots /\ (n + 1) % RingSize \in SaveSlots
  BY <1>1, SlotType
<1>3. s.head = n % RingSize /\ NextSlot(s.head) = (n + 1) % RingSize
  BY <1>1, SlotOfNext DEF RingInv
<1>4. t = [s EXCEPT !.framecount = n, !.saved[n % RingSize] = new,
                    !.head = (n + 1) % RingSize]
  <2>1. t = [[s EXCEPT !.framecount = n]
               EXCEPT !.saved[s.head] = new, !.head = NextSlot(s.head)]
    BY DEF IncrementFrame, SaveCurrentFrame, SyncType
  <2> QED BY <1>3, <2>1 DEF SyncType
<1>5. /\ t.framecount = n /\ t.head = (n + 1) % RingSize
      /\ t.saved = [s.saved EXCEPT ![n % RingSize] = new]
      /\ t.queues = s.queues
      /\ t.last_confirmed_frame = s.last_confirmed_frame
  BY <1>4 DEF SyncType
<1>6. new \in [frame : Nat, full : BOOLEAN, state : States]
  BY <1>1
<1>7. t \in SyncType(States, Queues)
  <2>1. s.saved \in [SaveSlots -> [frame : Nat, full : BOOLEAN, state : States]]
    BY DEF SyncType
  <2>2. t.saved \in [SaveSlots -> [frame : Nat, full : BOOLEAN, state : States]]
    <3> HIDE DEF new
    <3> QED BY <1>5, <1>6, <2>1
  <2> QED BY <1>1, <1>2, <1>4, <2>2 DEF SyncType
<1>8. /\ t.saved[n % RingSize] = new
      /\ \A slot \in SaveSlots : slot # n % RingSize => t.saved[slot] = s.saved[slot]
  <2>1. DOMAIN s.saved = SaveSlots
    BY DEF SyncType
  <2> HIDE DEF new
  <2> QED BY <1>2, <1>5, <2>1
<1>9. ASSUME NEW f \in Kept(last), f # n
      PROVE  f \in Kept(top) /\ t.saved[f % RingSize] = s.saved[f % RingSize]
  <2>1. f \in Nat /\ f \in Int /\ f <= last /\ last - f < RingSize
    BY <1>9 DEF Kept
  <2>2. f \in Kept(top)
    BY <1>1, <1>9, <2>1, RingSizeType DEF Kept
  <2>3. f % RingSize # n % RingSize
    <3>1. f - n < RingSize /\ n - f < RingSize
      BY <1>1, <2>1, <2>2, RingSizeType DEF Kept
    <3> QED BY <1>1, <1>9, <2>1, <3>1, SlotsDiffer
  <2>4. f % RingSize \in SaveSlots
    BY <2>1, SlotType
  <2> QED BY <1>8, <2>2, <2>3, <2>4
<1>10. LastSaved(t) = new
  BY <1>1, <1>5, <1>8, SlotBefore DEF LastSaved
<1>11. RingInv(t, last)
  <2>1. t.framecount \in Kept(last)
    BY <1>1, <1>5
  <2>2. ASSUME NEW f \in Kept(last)
        PROVE  t.saved[f % RingSize].frame = f /\ t.saved[f % RingSize].full
    <3>1. CASE f = n
      BY <1>8, <3>1
    <3>2. CASE f # n
      BY <1>9, <3>2 DEF RingInv
    <3> QED BY <3>1, <3>2
  <2>3. ASSUME NEW slot \in SaveSlots, slot > last PROVE t.saved[slot].frame = 0
    <3>1. slot > top /\ slot # n /\ n \in SaveSlots
      BY <1>1, <2>3, RingSizeType
    <3>2. slot # n % RingSize
      BY <3>1, SlotOfSmall
    <3> QED BY <1>8, <3>1, <3>2 DEF RingInv
  <2> HIDE DEF t
  <2> QED BY <1>5, <2>1, <2>2, <2>3 DEF RingInv
<1> QED BY <1>5, <1>7, <1>8, <1>9, <1>10, <1>11

(* The first save, before the first frame.                                    *)
LEMMA FirstSave ==
  ASSUME NEW States, NEW Queues, NEW s \in SyncType(States, Queues),
         s.framecount = 0, s.head = 0,
         \A slot \in SaveSlots : s.saved[slot].frame = 0,
         NEW game \in States
  PROVE  LET t == SaveCurrentFrame(s, game)
         IN  /\ t \in SyncType(States, Queues)
             /\ RingInv(t, 0)
             /\ t.framecount = 0
             /\ t.saved[0] = [frame |-> 0, full |-> TRUE, state |-> game]
             /\ t.queues = s.queues
             /\ t.last_confirmed_frame = s.last_confirmed_frame
<1> DEFINE t == SaveCurrentFrame(s, game)
           new == [frame |-> 0, full |-> TRUE, state |-> game]
<1>1. 0 \in SaveSlots /\ 1 \in SaveSlots
  BY RingSizeType
<1>2. 0 % RingSize = 0 /\ (0 + 1) % RingSize = 1
  BY <1>1, SlotOfSmall
<1>3. NextSlot(0) = 1
  BY <1>2, SlotOfNext
<1>4. t = [s EXCEPT !.saved[0] = new, !.head = 1]
  BY <1>3 DEF SaveCurrentFrame, SyncType
<1>5. /\ t.framecount = 0 /\ t.head = 1
      /\ t.saved = [s.saved EXCEPT ![0] = new]
      /\ t.queues = s.queues
      /\ t.last_confirmed_frame = s.last_confirmed_frame
  BY <1>4 DEF SyncType
<1>6. s.saved \in [SaveSlots -> [frame : Nat, full : BOOLEAN, state : States]]
  BY DEF SyncType
<1>7. new \in [frame : Nat, full : BOOLEAN, state : States]
  OBVIOUS
<1>8. /\ t.saved \in [SaveSlots -> [frame : Nat, full : BOOLEAN, state : States]]
      /\ t.saved[0] = new
      /\ \A slot \in SaveSlots : slot # 0 => t.saved[slot] = s.saved[slot]
  <2> HIDE DEF new
  <2> QED BY <1>1, <1>5, <1>6, <1>7
<1>9. t \in SyncType(States, Queues)
  BY <1>1, <1>4, <1>8 DEF SyncType
<1>10. RingInv(t, 0)
  <2>1. Kept(0) = {0}
    BY RingSizeType DEF Kept
  <2> HIDE DEF t
  <2> QED BY <1>1, <1>2, <1>5, <1>8, <2>1, RingSizeType DEF RingInv
<1> QED BY <1>5, <1>8, <1>9, <1>10
-----------------------------------------------------------------------------
(* The queues, the ring and the game state of a session.                      *)

Connected(st) == {i \in Players : ~st[i].disconnected}
Column(g, i)  == [f \in DOMAIN g |-> g[f][i]]

(* A queue of a player who is connected is one under its contract, up to the  *)
(* last frame its peer has sent; no queue knows of a misprediction to come.   *)
QueuesInv(s, g, st, lg) ==
    \A i \in Players :
        /\ s.queues[i].first_incorrect_frame < s.framecount
        /\ i \in Connected(st) =>
             /\ QueueInv(s.queues[i], s.framecount, lg[i], Column(g, i))
             /\ st[i].last_frame = s.queues[i].last_added_frame

(* Between rollbacks the last frame simulated is the last one requested.      *)
Settled(s, st) ==
    \A i \in Connected(st) :
        s.queues[i].last_frame_requested = s.framecount - 1

(* When top is the last frame ever simulated, the ring holds the states of    *)
(* the current history up to the current frame.                               *)
StatesInv(s, g, top) ==
    /\ RingInv(s, top)
    /\ \A f \in Kept(top) :
          f <= s.framecount =>
             s.saved[f % RingSize].state = [n \in 0 .. f - 1 |-> g[n]]

(* The last frame ever simulated, after the current one has been.             *)
TopAfter(s, top) == IF s.framecount = top THEN top + 1 ELSE top

(* Before the first save.                                                     *)
Untouched(s) ==
    s.head = 0 /\ \A slot \in SaveSlots : s.saved[slot].frame = 0

(* The inputs added for each player, frame by frame.                          *)
Logs(s, lg) ==
    /\ DOMAIN lg = Players
    /\ \A i \in Players : lg[i] \in [0 .. Arrivals(s.queues[i]) - 1 -> Bits]

(* No call from s to t has added an input.                                    *)
SameArrivals(s, t) ==
    \A i \in Players :
        /\ t.queues[i].last_added_frame = s.queues[i].last_added_frame
        /\ t.queues[i].frame_delay = s.queues[i].frame_delay

(* The games g and h do not differ before frame n.                            *)
SameBefore(n, g, h) == \A f \in 0 .. n - 1 : h[f] = g[f]

(* The queues of t have given out the inputs of h up to the frame before n.   *)
Requested(t, n, st, lg, h) ==
    /\ \A i \in Players : t.queues[i].first_incorrect_frame < n
    /\ \A i \in Connected(st) :
          /\ QueueInv(t.queues[i], n, lg[i], Column(h, i))
          /\ st[i].last_frame = t.queues[i].last_added_frame
          /\ t.queues[i].last_frame_requested = n - 1
-----------------------------------------------------------------------------
(* A player less.                                                             *)
LEMMA FewerConnected ==
  ASSUME NEW s, NEW g, NEW st, NEW lg, NEW new,
         \A i \in Connected(new) : i \in Connected(st) /\ new[i] = st[i]
  PROVE  /\ QueuesInv(s, g, st, lg) => QueuesInv(s, g, new, lg)
         /\ Settled(s, st) => Settled(s, new)
  BY DEF QueuesInv, Settled

(* SynchronizeInputs and the application's step.                              *)
LEMMA AdvanceGameType ==
  ASSUME NEW States, NEW s \in SyncType(States, [Players -> QueueType]),
         NEW st, NEW g \in [0 .. s.framecount - 1 -> Vectors]
  PROVE  /\ AdvanceGame(s, st, g) \in [0 .. s.framecount -> Vectors]
         /\ SameBefore(s.framecount, g, AdvanceGame(s, st, g))
         /\ AdvanceGame(s, st, g)[s.framecount] = SynchronizedInputs(s, st)
<1>1. s.framecount \in Nat /\ s.queues \in [Players -> QueueType]
  BY DEF SyncType
<1>2. SynchronizedInputs(s, st) \in Vectors
  <2>1. \A i \in Players : GetInputBits(s.queues[i], s.framecount) \in Bits
    BY <1>1, GetInputType
  <2> QED BY <2>1 DEF SynchronizedInputs, Vectors
<1> QED BY <1>1, <1>2 DEF AdvanceGame, SameBefore

LEMMA SynchronizeKeeps ==
  ASSUME NEW States, NEW s \in SyncType(States, [Players -> QueueType]),
         NEW st, NEW lg, NEW g \in [0 .. s.framecount - 1 -> Vectors],
         QueuesInv(s, g, st, lg), SynchronizeInputsAsserts(s, st)
  PROVE  LET t == SynchronizeInputs(s, st)
         IN  /\ t \in SyncType(States, [Players -> QueueType])
             /\ t.framecount = s.framecount /\ t.head = s.head
             /\ t.saved = s.saved
             /\ t.last_confirmed_frame = s.last_confirmed_frame
             /\ SameArrivals(s, t)
             /\ Requested(t, s.framecount + 1, st, lg, AdvanceGame(s, st, g))
<1> DEFINE t == SynchronizeInputs(s, st)
           h == AdvanceGame(s, st, g)
           k == s.framecount
           new(i) == IF i \in Absent(st, k) THEN s.queues[i]
                     ELSE GetInput(s.queues[i], k)
<1>1. k \in Nat /\ s.queues \in [Players -> QueueType]
  BY DEF SyncType
<1>2. /\ t.framecount = k /\ t.head = s.head /\ t.saved = s.saved
      /\ t.last_confirmed_frame = s.last_confirmed_frame
      /\ t.queues = [i \in Players |-> new(i)]
  BY <1>1 DEF SynchronizeInputs, SyncType
<1>3. ASSUME NEW i \in Players
      PROVE  /\ t.queues[i] = new(i) /\ new(i) \in QueueType
             /\ new(i).first_incorrect_frame = s.queues[i].first_incorrect_frame
             /\ new(i).last_added_frame = s.queues[i].last_added_frame
             /\ new(i).frame_delay = s.queues[i].frame_delay
  <2>1. s.queues[i] \in QueueType
    BY <1>1
  <2>2. t.queues[i] = new(i)
    BY <1>2
  <2>3. LET y == GetInput(s.queues[i], k)
        IN  /\ y \in QueueType
            /\ y.first_incorrect_frame = s.queues[i].first_incorrect_frame
            /\ y.last_added_frame = s.queues[i].last_added_frame
            /\ y.frame_delay = s.queues[i].frame_delay
    <3>1. GetInput(s.queues[i], k).frame_delay = s.queues[i].frame_delay
      BY <2>1 DEF GetInput, QueueType
    <3> QED BY <1>1, <2>1, <3>1, GetInputType, GetInputFields DEF SameInputs
  <2> QED BY <2>1, <2>2, <2>3
<1>4. t \in SyncType(States, [Players -> QueueType])
  <2>1. [i \in Players |-> new(i)] \in [Players -> QueueType]
    BY <1>3
  <2> HIDE DEF new
  <2>2. [s EXCEPT !.queues = [i \in Players |-> new(i)]]
          \in SyncType(States, [Players -> QueueType])
    BY <2>1 DEF SyncType
  <2>3. t = [s EXCEPT !.queues = [i \in Players |-> new(i)]]
    BY <1>1 DEF SynchronizeInputs, SyncType, new
  <2> QED BY <2>2, <2>3
<1>5. ASSUME NEW i \in Players PROVE t.queues[i].first_incorrect_frame < k + 1
  <2>1. s.queues[i].first_incorrect_frame < k /\ s.queues[i] \in QueueType
    BY <1>1 DEF QueuesInv
  <2>2. s.queues[i].first_incorrect_frame \in Nat \cup {-1}
    BY <2>1 DEF QueueType, Frames, NullFrame
  <2> QED BY <1>1, <1>3, <2>1, <2>2
<1>6. ASSUME NEW i \in Connected(st)
      PROVE  /\ QueueInv(t.queues[i], k + 1, lg[i], Column(h, i))
             /\ st[i].last_frame = t.queues[i].last_added_frame
             /\ t.queues[i].last_frame_requested = k
  <2> DEFINE x == s.queues[i]
             p == Column(g, i)
             r == Column(h, i)
  <2>1. /\ i \in Players /\ i \notin Absent(st, k) /\ x \in QueueType
        /\ QueueInv(x, k, lg[i], p) /\ st[i].last_frame = x.last_added_frame
    BY <1>1 DEF Connected, Absent, QueuesInv
  <2>2. GetInputAsserts(x, k)
    BY <2>1 DEF SynchronizeInputsAsserts
  <2>3. x.first_incorrect_frame = NullFrame /\ Oldest(x) <= k
    <3>1. x.first_incorrect_frame = NullFrame
      BY <2>2 DEF GetInputAsserts
    <3>2. GetInputAsserts(x, k) <=> Oldest(x) <= k
      <4> HIDE DEF x, p, k
      <4> QED BY <2>1, <3>1, GetInputAssertsFollow
    <3> QED BY <2>2, <3>1, <3>2
  <2>4. /\ h \in [0 .. k -> Vectors] /\ \A f \in 0 .. k - 1 : h[f] = g[f]
        /\ h[k] = SynchronizedInputs(s, st)
    <3>1. h \in [0 .. k -> Vectors] /\ SameBefore(k, g, h)
      BY AdvanceGameType
    <3>2. h[k] = SynchronizedInputs(s, st)
      BY AdvanceGameType
    <3> HIDE DEF h, k
    <3> QED BY <3>1, <3>2 DEF SameBefore
  <2>5. \A f \in 0 .. k - 1 : r[f] = p[f]
    <3> HIDE DEF h, k
    <3>1. DOMAIN h = 0 .. k /\ DOMAIN g = 0 .. k - 1
      BY <2>4 DEF k
    <3> QED BY <1>1, <2>4, <3>1 DEF Column
  <2>6. r[k] = GetInputBits(x, k)
    <3>1. SynchronizedInputs(s, st)[i] = GetInputBits(x, k)
      BY <2>1 DEF SynchronizedInputs
    <3> HIDE DEF h, k
    <3>2. DOMAIN h = 0 .. k /\ k \in 0 .. k
      BY <1>1, <2>4
    <3> QED BY <2>4, <3>1, <3>2 DEF Column
  <2>7. QueueInv(GetInput(x, k), k + 1, lg[i], r)
    <3> HIDE DEF x, p, r, k
    <3> QED BY <2>1, <2>3, <2>5, <2>6, GetInputKeeps
  <2>8. t.queues[i] = GetInput(x, k)
    BY <1>3, <2>1
  <2>9. GetInput(x, k).last_frame_requested = k
    BY <1>1, <2>1, GetInputFields
  <2>10. t.queues[i].last_added_frame = x.last_added_frame
    BY <1>3, <2>1
  <2> QED BY <2>1, <2>7, <2>8, <2>9, <2>10
<1>7. SameArrivals(s, t)
  BY <1>3 DEF SameArrivals
<1>8. (k + 1) - 1 = k
  BY <1>1
<1>9. Requested(t, k + 1, st, lg, h)
  <2> HIDE DEF t, h, k
  <2> QED BY <1>5, <1>6, <1>8 DEF Requested
<1> QED BY <1>2, <1>4, <1>7, <1>9

(* A frame simulated, at the top of the history or in a rollback.             *)
LEMMA SimulateKeeps ==
  ASSUME NEW States, NEW s \in SyncType(States, [Players -> QueueType]),
         NEW st, NEW lg, NEW g \in [0 .. s.framecount - 1 -> Vectors],
         QueuesInv(s, g, st, lg), SynchronizeInputsAsserts(s, st),
         NEW top \in Nat, StatesInv(s, g, top),
         AdvanceGame(s, st, g) \in States
  PROVE  LET h == AdvanceGame(s, st, g)
             t == IncrementFrame(SynchronizeInputs(s, st), h)
         IN  /\ t \in SyncType(States, [Players -> QueueType])
             /\ t.framecount = s.framecount + 1
             /\ t.last_confirmed_frame = s.last_confirmed_frame
             /\ SameArrivals(s, t)
             /\ QueuesInv(t, h, st, lg) /\ Settled(t, st)
             /\ StatesInv(t, h, TopAfter(s, top))
<1> DEFINE u == SynchronizeInputs(s, st)
           last == TopAfter(s, top)
           h == AdvanceGame(s, st, g)
           t == IncrementFrame(u, h)
           n == s.framecount + 1
           Queues == [Players -> QueueType]
<1>1. /\ u \in SyncType(States, [Players -> QueueType])
      /\ u.framecount = s.framecount /\ u.head = s.head
      /\ u.saved = s.saved
      /\ u.last_confirmed_frame = s.last_confirmed_frame
      /\ SameArrivals(s, u)
      /\ Requested(u, n, st, lg, h)
  BY SynchronizeKeeps
<1>2. RingInv(u, top)
  BY <1>1 DEF StatesInv, RingInv
<1> HIDE DEF u
<1>0. /\ h \in States /\ last \in Nat
      /\ last = IF s.framecount = top THEN top + 1 ELSE top
  BY DEF TopAfter
<1> HIDE DEF h, last
<1>3. /\ t \in SyncType(States, Queues)
      /\ RingInv(t, last)
      /\ t.framecount = n
      /\ t.saved[n % RingSize] = [frame |-> n, full |-> TRUE, state |-> h]
      /\ \A f \in Kept(last) \ {n} :
            f \in Kept(top) /\ t.saved[f % RingSize] = s.saved[f % RingSize]
      /\ t.queues = u.queues
      /\ t.last_confirmed_frame = s.last_confirmed_frame
  <2> HIDE DEF Queues, t
  <2>1. last = IF u.framecount = top THEN top + 1 ELSE top
    BY <1>0, <1>1
  <2> USE DEF t
  <2>2. LET m == u.framecount + 1
        IN  /\ t \in SyncType(States, Queues)
            /\ RingInv(t, last)
            /\ t.framecount = m
            /\ t.saved[m % RingSize] = [frame |-> m, full |-> TRUE, state |-> h]
            /\ \A f \in Kept(last) \ {m} :
                  f \in Kept(top) /\ t.saved[f % RingSize] = u.saved[f % RingSize]
            /\ t.queues = u.queues
            /\ t.last_confirmed_frame = u.last_confirmed_frame
    BY <1>0, <1>1, <1>2, <2>1, IncrementKeepsRing DEF Queues
  <2> QED BY <1>1, <2>2
<1> HIDE DEF t
<1>4. QueuesInv(t, h, st, lg) /\ Settled(t, st) /\ SameArrivals(s, t)
  <2>1. QueuesInv(t, h, st, lg)
    BY <1>1, <1>3 DEF QueuesInv, Requested
  <2>2. Settled(t, st)
    BY <1>1, <1>3 DEF Settled, Requested
  <2>3. SameArrivals(s, t)
    BY <1>1, <1>3 DEF SameArrivals
  <2> QED BY <2>1, <2>2, <2>3
<1>5. StatesInv(t, h, last)
  <2>1. s.framecount \in Nat /\ n - 1 = s.framecount
    BY DEF SyncType
  <2>2. /\ h = [m \in 0 .. n - 1 |-> h[m]]
        /\ \A f \in 0 .. s.framecount - 1 : h[f] = g[f]
    <3>1. h \in [0 .. s.framecount -> Vectors] /\ SameBefore(s.framecount, g, h)
      BY AdvanceGameType DEF h
    <3> QED BY <2>1, <3>1 DEF SameBefore
  <2> SUFFICES ASSUME NEW f \in Kept(last), f <= n
               PROVE  t.saved[f % RingSize].state = [m \in 0 .. f - 1 |-> h[m]]
    BY <1>3 DEF StatesInv
  <2>3. CASE f = n
    <3>1. t.saved[f % RingSize].state = h
      BY <1>3, <2>3
    <3> QED BY <2>2, <2>3, <3>1
  <2>4. CASE f # n
    <3>1. f \in Kept(top) /\ t.saved[f % RingSize] = s.saved[f % RingSize]
      BY <1>3, <2>4
    <3>2. f \in Nat /\ f <= s.framecount
      BY <2>1, <2>4 DEF Kept
    <3>3. t.saved[f % RingSize].state = [m \in 0 .. f - 1 |-> g[m]]
      BY <3>1, <3>2 DEF StatesInv
    <3>4. \A m \in 0 .. f - 1 : h[m] = g[m]
      <4> SUFFICES ASSUME NEW m \in 0 .. f - 1 PROVE h[m] = g[m]
        OBVIOUS
      <4>1. m \in 0 .. s.framecount - 1
        BY <2>1, <3>2
      <4> QED BY <2>2, <4>1
    <3> QED BY <3>3, <3>4
  <2> QED BY <2>3, <2>4
<1> QED BY <1>3, <1>4, <1>5 DEF t, u, h, last

(* LoadFrame and ResetPrediction: a rollback to a frame the ring holds.       *)
LEMMA LoadKeeps ==
  ASSUME NEW States, NEW s \in SyncType(States, [Players -> QueueType]),
         NEW st, NEW lg, NEW g \in [0 .. s.framecount - 1 -> Vectors],
         QueuesInv(s, g, st, lg), StatesInv(s, g, s.framecount),
         NEW frame \in Frames, frame < s.framecount,
         FindSavedFrameIndexAsserts(s, frame), ResetPredictionsAsserts(s, frame)
  PROVE  LET t == ResetPredictions(LoadFrame(s, frame))
             h == LoadedGame(s, frame, g)
         IN  /\ t \in SyncType(States, [Players -> QueueType])
             /\ frame \in Nat /\ t.framecount = frame
             /\ t.last_confirmed_frame = s.last_confirmed_frame
             /\ h \in [0 .. frame - 1 -> Vectors] /\ SameBefore(frame, g, h)
             /\ t.queues = [i \in Players |-> ResetPrediction(s.queues[i])]
             /\ SameArrivals(s, t)
             /\ QueuesInv(t, h, st, lg)
             /\ StatesInv(t, h, s.framecount)
<1> DEFINE u == LoadFrame(s, frame)
           t == ResetPredictions(u)
           h == LoadedGame(s, frame, g)
           n == s.framecount
           Queues == [Players -> QueueType]
<1>1. n \in Nat /\ s.queues \in [Players -> QueueType] /\ RingInv(s, n)
  BY DEF SyncType, StatesInv
<1>2. frame \in Kept(n) /\ frame \in Nat /\ frame \in Int
  <2>1. frame \in Int
    BY DEF Frames, NullFrame
  <2>2. frame \in Kept(n)
    <3> HIDE DEF n
    <3>1. frame < n
      BY DEF n
    <3> QED BY <1>1, <2>1, <3>1, FrameIsLost
  <2> QED BY <2>1, <2>2 DEF Kept
<1>3. /\ u \in SyncType(States, Queues)
      /\ RingInv(u, n)
      /\ u.framecount = frame
      /\ u.saved = s.saved
      /\ u.queues = s.queues
      /\ u.last_confirmed_frame = s.last_confirmed_frame
      /\ h = s.saved[frame % RingSize].state
  <2>1. frame # s.framecount
    BY <1>1, <1>2
  <2> HIDE DEF n, Queues
  <2>2. /\ u \in SyncType(States, Queues)
        /\ RingInv(u, n)
        /\ u.framecount = frame
        /\ u.saved = s.saved
        /\ u.queues = s.queues
        /\ u.last_confirmed_frame = s.last_confirmed_frame
        /\ \A game : frame # s.framecount =>
              LoadedGame(s, frame, game) = s.saved[frame % RingSize].state
    BY <1>1, <1>2, LoadKeepsRing DEF Queues
  <2> QED BY <2>1, <2>2
<1>4. h = [m \in 0 .. frame - 1 |-> g[m]] /\ h \in [0 .. frame - 1 -> Vectors]
  <2>1. frame <= s.framecount
    BY <1>1, <1>2
  <2>2. h = [m \in 0 .. frame - 1 |-> g[m]]
    BY <1>2, <1>3, <2>1 DEF StatesInv
  <2>3. \A m \in 0 .. frame - 1 : g[m] \in Vectors
    BY <1>1, <1>2, <2>1
  <2> HIDE DEF h
  <2> QED BY <2>2, <2>3
<1> HIDE DEF h, u
<1>5. /\ t.framecount = frame /\ t.head = u.head /\ t.saved = s.saved
      /\ t.last_confirmed_frame = s.last_confirmed_frame
      /\ t.queues = [i \in Players |-> ResetPrediction(s.queues[i])]
      /\ t \in SyncType(States, Queues)
  <2> DEFINE reset == [i \in Players |-> ResetPrediction(s.queues[i])]
  <2>1. reset \in Queues
    BY <1>1, ResetType
  <2>2. t = [u EXCEPT !.queues = reset]
    BY <1>3 DEF ResetPredictions, SyncType
  <2> HIDE DEF reset, t
  <2>3. /\ t.framecount = frame /\ t.head = u.head /\ t.saved = s.saved
        /\ t.last_confirmed_frame = s.last_confirmed_frame
        /\ t.queues = reset
        /\ t \in SyncType(States, Queues)
    BY <1>3, <2>1, <2>2 DEF SyncType
  <2> QED BY <2>3 DEF reset
<1> HIDE DEF t
<1>6. ASSUME NEW i \in Players
      PROVE  /\ s.queues[i] \in QueueType
             /\ t.queues[i] = ResetPrediction(s.queues[i])
             /\ t.queues[i].first_incorrect_frame = NullFrame
             /\ t.queues[i].last_added_frame = s.queues[i].last_added_frame
             /\ t.queues[i].frame_delay = s.queues[i].frame_delay
  <2>1. s.queues[i] \in QueueType /\ t.queues[i] = ResetPrediction(s.queues[i])
    BY <1>1, <1>5
  <2> QED BY <2>1 DEF ResetPrediction, QueueType
<1>7. SameArrivals(s, t)
  BY <1>6 DEF SameArrivals
<1>8. QueuesInv(t, h, st, lg)
  <2>1. ASSUME NEW i \in Players
        PROVE  t.queues[i].first_incorrect_frame < t.framecount
    BY <1>2, <1>5, <1>6 DEF NullFrame
  <2>2. ASSUME NEW i \in Connected(st)
        PROVE  /\ QueueInv(t.queues[i], t.framecount, lg[i], Column(h, i))
               /\ st[i].last_frame = t.queues[i].last_added_frame
    <3> DEFINE x == s.queues[i]
               p == Column(g, i)
               r == Column(h, i)
    <3>1. /\ i \in Players /\ QueueInv(x, n, lg[i], p)
          /\ st[i].last_frame = x.last_added_frame
      BY DEF Connected, QueuesInv
    <3>2. ResetPredictionAsserts(x, frame)
      BY <3>1 DEF ResetPredictionsAsserts
    <3>3. \A f \in 0 .. frame - 1 : r[f] = p[f]
      <4>1. DOMAIN h = 0 .. frame - 1 /\ DOMAIN g = 0 .. n - 1
        BY <1>4
      <4>2. \A f \in 0 .. frame - 1 : f \in 0 .. n - 1 /\ h[f] = g[f]
        BY <1>1, <1>2, <1>4
      <4> QED BY <4>1, <4>2 DEF Column
    <3>4. frame \in 0 .. n
      BY <1>1, <1>2
    <3>5. QueueInv(ResetPrediction(x), frame, lg[i], r)
      <4> HIDE DEF x, p, r, n
      <4> QED BY <3>1, <3>2, <3>3, <3>4, ResetKeeps
    <3> QED BY <1>5, <1>6, <3>1, <3>5
  <2> QED BY <2>1, <2>2 DEF QueuesInv
<1>9. StatesInv(t, h, n)
  <2>1. RingInv(t, n)
    BY <1>3, <1>5 DEF RingInv
  <2> SUFFICES ASSUME NEW f \in Kept(n), f <= frame
               PROVE  t.saved[f % RingSize].state = [m \in 0 .. f - 1 |-> h[m]]
    BY <1>5, <2>1 DEF StatesInv
  <2>2. f \in Nat /\ f <= n
    BY <1>1, <1>2 DEF Kept
  <2>3. t.saved[f % RingSize].state = [m \in 0 .. f - 1 |-> g[m]]
    BY <1>5, <2>2 DEF StatesInv
  <2>4. \A m \in 0 .. f - 1 : h[m] = g[m]
    <3> SUFFICES ASSUME NEW m \in 0 .. f - 1 PROVE h[m] = g[m]
      OBVIOUS
    <3>1. m \in 0 .. frame - 1
      BY <1>2, <2>2
    <3> QED BY <1>4, <3>1
  <2> QED BY <2>3, <2>4
<1>10. SameBefore(frame, g, h)
  BY <1>4 DEF SameBefore
<1> QED BY <1>2, <1>4, <1>5, <1>7, <1>8, <1>9, <1>10 DEF t, h, u

LEMMA SameArrivalsLogs ==
  ASSUME NEW s, NEW t, NEW lg, SameArrivals(s, t), Logs(s, lg)
  PROVE  Logs(t, lg)
  BY DEF SameArrivals, Logs, Arrivals

(* An input is added for player k: the Sync t, the connect status st2 and the *)
(* history lg2 that it leaves.                                                *)
Adds(s, st, lg, k, frame, bits, t, st2, lg2) ==
    LET target == TargetFrame(s.queues[k], frame)
    IN  /\ AddInputAsserts(s.queues[k], frame)
        /\ t.framecount = s.framecount
        /\ t.queues = [s.queues EXCEPT ![k] = AddInput(@, frame, bits)]
        /\ st2 = IF target = NullFrame THEN st
                 ELSE [st EXCEPT ![k].last_frame = target]
        /\ lg2 = IF target = NullFrame THEN lg
                 ELSE [lg EXCEPT ![k] =
                         LogAfter(s.queues[k], bits, target, lg[k])]

SameDelays(s, t) ==
    \A i \in Players : t.queues[i].frame_delay = s.queues[i].frame_delay

(* The same players are connected, and none has sent fewer frames.            *)
NoneBehind(st, st2) ==
    \A i \in Players : /\ st2[i].disconnected = st[i].disconnected
                       /\ st2[i].last_frame >= st[i].last_frame

(* An input for a player who is connected, between rollbacks.                 *)
LEMMA AddKeepsQueues ==
  ASSUME NEW States, NEW s \in SyncType(States, [Players -> QueueType]),
         NEW st \in [Players -> Status], NEW lg,
         NEW g \in [0 .. s.framecount - 1 -> Vectors],
         QueuesInv(s, g, st, lg), Settled(s, st), Logs(s, lg),
         NEW k \in Connected(st), NEW frame \in Nat, NEW bits \in Bits,
         NEW t, NEW st2, NEW lg2, Adds(s, st, lg, k, frame, bits, t, st2, lg2)
  PROVE  /\ t.queues \in [Players -> QueueType] /\ st2 \in [Players -> Status]
         /\ QueuesInv(t, g, st2, lg2) /\ Settled(t, st2) /\ Logs(t, lg2)
         /\ SameDelays(s, t) /\ NoneBehind(st, st2)
<1> DEFINE target == TargetFrame(s.queues[k], frame)
<1>0. /\ AddInputAsserts(s.queues[k], frame)
      /\ t.framecount = s.framecount
      /\ t.queues = [s.queues EXCEPT ![k] = AddInput(@, frame, bits)]
      /\ st2 = IF target = NullFrame THEN st
               ELSE [st EXCEPT ![k].last_frame = target]
      /\ lg2 = IF target = NullFrame THEN lg
               ELSE [lg EXCEPT ![k] =
                       LogAfter(s.queues[k], bits, target, lg[k])]
  BY DEF Adds
<1> USE <1>0
<1> DEFINE x == s.queues[k]
           y == AddInput(x, frame, bits)
           n == s.framecount
           p == Column(g, k)
<1>1. /\ n \in Nat /\ s.queues \in [Players -> QueueType] /\ k \in Players
      /\ x \in QueueType /\ y \in QueueType /\ ~st[k].disconnected
  <2>1. n \in Nat /\ s.queues \in [Players -> QueueType] /\ k \in Players
    BY DEF SyncType, Connected
  <2>2. x \in QueueType /\ ~st[k].disconnected
    BY <2>1 DEF Connected
  <2> HIDE DEF x
  <2> QED BY <2>1, <2>2, AddInputType DEF x
<1>2. /\ t.queues \in [Players -> QueueType] /\ t.queues[k] = y
      /\ \A i \in Players : i # k => t.queues[i] = s.queues[i]
  <2> HIDE DEF y
  <2>1. t.queues = [s.queues EXCEPT ![k] = y]
    BY DEF y
  <2> QED BY <1>1, <2>1
<1>3. /\ QueueInv(x, n, lg[k], p) /\ st[k].last_frame = x.last_added_frame
      /\ x.first_incorrect_frame < n /\ x.last_frame_requested = n - 1
  BY <1>1 DEF QueuesInv, Settled
<1>4. y.frame_delay = x.frame_delay
  BY <1>1 DEF AddInput, AddDelayedInputs, QueueType
<1>5. \A i \in Players : t.queues[i].frame_delay = s.queues[i].frame_delay
  BY <1>2, <1>4
<1>6. CASE target = NullFrame
  <2>1. SameInputs(x, y) /\ SamePrediction(x, y)
    BY <1>1, <1>6, DroppedInputFields
  <2>2. QueueInv(y, n, lg[k], p)
    <3> HIDE DEF x, y, n, p
    <3> QED BY <1>1, <1>3, <2>1, SameKeeps
  <2>3. /\ y.first_incorrect_frame < n /\ y.last_frame_requested = n - 1
        /\ y.last_added_frame = x.last_added_frame
    BY <1>3, <2>1 DEF SameInputs, SamePrediction
  <2> HIDE DEF x, y, p
  <2>4. QueuesInv(t, g, st, lg)
    BY <1>1, <1>2, <1>3, <2>2, <2>3 DEF QueuesInv, p, x
  <2>5. Settled(t, st)
    BY <1>1, <1>2, <2>3 DEF Settled, Connected
  <2>6. Logs(t, lg)
    BY <1>1, <1>2, <2>3 DEF Logs, Arrivals, x
  <2>7. \A i \in Players : st[i].last_frame \in Int
    BY DEF Status, Frames, NullFrame
  <2> QED BY <1>2, <1>5, <1>6, <2>4, <2>5, <2>6, <2>7 DEF SameDelays, NoneBehind
<1>7. CASE target # NullFrame
  <2> DEFINE m == LogAfter(x, bits, target, lg[k])
  <2>1. x.length + target - ExpectedFrame(x) + 1 <= L
    BY <1>1, <1>7 DEF AddInputAsserts, L
  <2>2. /\ QueueInv(y, n, m, p)
        /\ target \in Nat /\ target >= Arrivals(x)
        /\ Arrivals(y) = target + 1
        /\ y.last_frame_requested = x.last_frame_requested
        /\ y.first_incorrect_frame \in {x.first_incorrect_frame, target}
    <3> HIDE DEF x, n, p
    <3> QED BY <1>3, <1>7, <2>1, AddKeeps DEF x
  <2>3. /\ y.last_added_frame = target
        /\ m \in [0 .. Arrivals(y) - 1 -> Bits]
        /\ target > st[k].last_frame
        /\ y.last_frame_requested = n - 1
    <3> HIDE DEF x, y, m, p
    <3>1. y.last_added_frame \in Int /\ x.last_added_frame \in Int
      BY <1>1 DEF QueueType, Frames, NullFrame
    <3>2. m \in [0 .. Arrivals(y) - 1 -> Bits]
      BY <2>2 DEF QueueInv
    <3> QED BY <1>3, <2>2, <3>1, <3>2 DEF Arrivals
  <2>4. y.first_incorrect_frame < n
    <3> HIDE DEF x, y, m, p
    <3>1. y.first_incorrect_frame # NullFrame
             => y.first_incorrect_frame \in 0 .. n - 1
      BY <2>2 DEF QueueInv, Consistent, Contradicted
    <3> QED BY <1>1, <3>1 DEF NullFrame
  <2>5. /\ st2 \in [Players -> Status] /\ st2[k].last_frame = target
        /\ st2[k].disconnected = st[k].disconnected
        /\ \A i \in Players : i # k => st2[i] = st[i]
    <3>1. st2 = [st EXCEPT ![k].last_frame = target]
      BY <1>7
    <3>2. target \in Frames
      BY <2>2 DEF Frames
    <3> QED BY <1>1, <3>1, <3>2 DEF Status
  <2>6. /\ lg2[k] = m /\ DOMAIN lg2 = Players
        /\ \A i \in Players : i # k => lg2[i] = lg[i]
    <3> HIDE DEF m
    <3>1. lg2 = [lg EXCEPT ![k] = m]
      BY <1>7 DEF m
    <3>2. DOMAIN lg = Players
      BY DEF Logs
    <3> QED BY <1>1, <3>1, <3>2
  <2> HIDE DEF x, y, m, p
  <2>7. \A i \in Players : i \in Connected(st2) <=> i \in Connected(st)
    BY <2>5 DEF Connected
  <2>8. QueuesInv(t, g, st2, lg2)
    <3> SUFFICES ASSUME NEW i \in Players
                 PROVE  /\ t.queues[i].first_incorrect_frame < n
                        /\ i \in Connected(st2) =>
                             /\ QueueInv(t.queues[i], n, lg2[i], Column(g, i))
                             /\ st2[i].last_frame = t.queues[i].last_added_frame
      BY DEF QueuesInv
    <3>1. CASE i = k
      BY <1>2, <2>2, <2>3, <2>4, <2>5, <2>6, <3>1 DEF p
    <3>2. CASE i # k
      BY <1>2, <2>5, <2>6, <2>7, <3>2 DEF QueuesInv
    <3> QED BY <3>1, <3>2
  <2>9. Settled(t, st2)
    <3> SUFFICES ASSUME NEW i \in Connected(st2)
                 PROVE  t.queues[i].last_frame_requested = n - 1
      BY DEF Settled
    <3>1. i \in Players /\ i \in Connected(st)
      BY <2>7 DEF Connected
    <3> QED BY <1>2, <2>3, <3>1 DEF Settled
  <2>10. Logs(t, lg2)
    <3>1. \A i \in Players : lg2[i] \in [0 .. Arrivals(t.queues[i]) - 1 -> Bits]
      BY <1>2, <2>3, <2>6 DEF Logs
    <3> QED BY <2>6, <3>1 DEF Logs
  <2>11. \A i \in Players : st[i].last_frame \in Int /\ st2[i].last_frame \in Int
    BY <2>5 DEF Status, Frames, NullFrame
  <2>12. \A i \in Players : /\ st2[i].disconnected = st[i].disconnected
                            /\ st2[i].last_frame >= st[i].last_frame
    BY <2>3, <2>5, <2>11
  <2> QED BY <1>2, <1>5, <2>5, <2>8, <2>9, <2>10, <2>12 DEF SameDelays, NoneBehind
<1> QED BY <1>6, <1>7

(* AddLocalInput saves the state before the first frame.                      *)
LEMMA AddLocalKeepsStates ==
  ASSUME NEW States, NEW s \in SyncType(States, [Players -> QueueType]),
         NEW g \in [0 .. s.framecount - 1 -> Vectors], g \in States,
         IF s.framecount = 0 THEN Untouched(s) ELSE StatesInv(s, g, s.framecount),
         NEW k \in Players, NEW bits \in Bits
  PROVE  LET t == AddLocalInput(s, k, bits, g)
         IN  /\ t \in SyncType(States, [Players -> QueueType])
             /\ t.framecount = s.framecount
             /\ t.last_confirmed_frame = s.last_confirmed_frame
             /\ t.queues = [s.queues EXCEPT ![k] = AddInput(@, s.framecount, bits)]
             /\ StatesInv(t, g, s.framecount)
<1> DEFINE start == IF s.framecount = 0 THEN SaveCurrentFrame(s, g) ELSE s
           t == AddLocalInput(s, k, bits, g)
           Queues == [Players -> QueueType]
           qs == [s.queues EXCEPT ![k] = AddInput(@, s.framecount, bits)]
<1>1. s.framecount \in Nat /\ s.queues \in Queues
  BY DEF SyncType
<1>2. /\ start \in SyncType(States, Queues) /\ start.queues = s.queues
      /\ start.framecount = s.framecount
      /\ start.last_confirmed_frame = s.last_confirmed_frame
      /\ StatesInv(start, g, s.framecount)
  <2>1. CASE s.framecount = 0
    <3> HIDE DEF Queues
    <3>1. LET u == SaveCurrentFrame(s, g)
          IN  /\ u \in SyncType(States, Queues)
              /\ RingInv(u, 0)
              /\ u.framecount = 0
              /\ u.saved[0] = [frame |-> 0, full |-> TRUE, state |-> g]
              /\ u.queues = s.queues
              /\ u.last_confirmed_frame = s.last_confirmed_frame
      BY <2>1, FirstSave DEF Untouched, Queues
    <3>2. /\ start \in SyncType(States, Queues)
          /\ RingInv(start, 0)
          /\ start.framecount = 0
          /\ start.saved[0] = [frame |-> 0, full |-> TRUE, state |-> g]
          /\ start.queues = s.queues
          /\ start.last_confirmed_frame = s.last_confirmed_frame
      BY <2>1, <3>1
    <3> HIDE DEF start
    <3>3. Kept(0) = {0} /\ 0 % RingSize = 0
      <4>1. Kept(0) = {0}
        BY RingSizeType DEF Kept
      <4>2. 0 \in SaveSlots
        BY RingSizeType
      <4> QED BY <4>1, <4>2, SlotOfSmall
    <3>4. g = [n \in 0 .. 0 - 1 |-> g[n]]
      BY <2>1
    <3> QED BY <2>1, <3>2, <3>3, <3>4 DEF StatesInv
  <2>2. CASE s.framecount # 0
    BY <2>2
  <2> QED BY <2>1, <2>2
<1> HIDE DEF start
<1>3. /\ t.queues = qs /\ t.framecount = start.framecount /\ t.head = start.head
      /\ t.saved = start.saved
      /\ t.last_confirmed_frame = start.last_confirmed_frame
      /\ t \in SyncType(States, Queues)
  <2>1. AddInput(s.queues[k], s.framecount, bits) \in QueueType
    BY <1>1, AddInputType
  <2>2. qs \in Queues
    BY <1>1, <2>1
  <2>3. t = [start EXCEPT !.queues[k] = AddInput(@, s.framecount, bits)]
    BY DEF AddLocalInput, start
  <2>4. t = [start EXCEPT !.queues = qs]
    <3>1. [start EXCEPT !.queues[k] = AddInput(@, s.framecount, bits)]
            = [start EXCEPT !.queues =
                 [start.queues EXCEPT ![k] = AddInput(@, s.framecount, bits)]]
      BY <1>2 DEF SyncType
    <3> QED BY <1>2, <2>3, <3>1
  <2> HIDE DEF t, qs
  <2> QED BY <1>2, <2>2, <2>4 DEF SyncType
<1> HIDE DEF t, qs
<1>4. StatesInv(t, g, s.framecount)
  BY <1>2, <1>3 DEF StatesInv, RingInv
<1> QED BY <1>2, <1>3, <1>4 DEF t, qs

(* SetLastConfirmedFrame at a frame that every player who is connected has     *)
(* sent.                                                                      *)
LEMMA ConfirmKeeps ==
  ASSUME NEW States, NEW s \in SyncType(States, [Players -> QueueType]),
         NEW st, NEW lg, NEW g \in [0 .. s.framecount - 1 -> Vectors],
         QueuesInv(s, g, st, lg), Settled(s, st),
         NEW frame \in Nat, \A i \in Connected(st) : frame <= st[i].last_frame,
         SetLastConfirmedFrameAsserts(s, frame)
  PROVE  LET t == SetLastConfirmedFrame(s, frame)
         IN  /\ t \in SyncType(States, [Players -> QueueType])
             /\ t.framecount = s.framecount /\ t.last_confirmed_frame = frame
             /\ t.head = s.head /\ t.saved = s.saved
             /\ SameArrivals(s, t)
             /\ QueuesInv(t, g, st, lg) /\ Settled(t, st)
<1> DEFINE t == SetLastConfirmedFrame(s, frame)
           n == s.framecount
           Queues == [Players -> QueueType]
           new(i) == IF frame = 0 THEN s.queues[i]
                     ELSE DiscardConfirmedFrames(s.queues[i], frame - 1)
<1>1. n \in Nat /\ s.queues \in Queues /\ frame \in Frames
  BY DEF SyncType, Frames
<1>2. ASSUME NEW i \in Players
      PROVE  /\ new(i) \in QueueType
             /\ new(i).first_incorrect_frame = s.queues[i].first_incorrect_frame
             /\ new(i).last_frame_requested = s.queues[i].last_frame_requested
             /\ new(i).last_added_frame = s.queues[i].last_added_frame
             /\ new(i).frame_delay = s.queues[i].frame_delay
  <2>1. s.queues[i] \in QueueType
    BY <1>1
  <2>2. CASE frame = 0
    BY <2>1, <2>2
  <2>3. CASE frame # 0
    <3> DEFINE x == s.queues[i]
               y == DiscardConfirmedFrames(x, frame - 1)
    <3>1. frame - 1 \in Nat
      BY <2>3
    <3>2. /\ y \in QueueType /\ Discarded(x, DiscardTo(x, frame - 1), y)
          /\ SamePrediction(x, y)
      <4> DEFINE f == frame - 1
      <4> HIDE DEF f
      <4>1. f \in Nat
        BY <3>1 DEF f
      <4>2. /\ DiscardConfirmedFrames(x, f) \in QueueType
            /\ Discarded(x, DiscardTo(x, f), DiscardConfirmedFrames(x, f))
            /\ SamePrediction(x, DiscardConfirmedFrames(x, f))
        BY <2>1, <4>1, DiscardType, DiscardFields
      <4> QED BY <4>2 DEF f
    <3>3. y.frame_delay = x.frame_delay
      BY <2>1 DEF DiscardConfirmedFrames, QueueType
    <3>4. new(i) = y
      BY <2>3
    <3> HIDE DEF x, y, new
    <3> QED BY <3>2, <3>3, <3>4 DEF Discarded, SamePrediction, x
  <2> QED BY <2>2, <2>3
<1>3. /\ t.framecount = n /\ t.last_confirmed_frame = frame
      /\ t.head = s.head /\ t.saved = s.saved
      /\ \A i \in Players : t.queues[i] = new(i)
      /\ t \in SyncType(States, Queues)
  <2> DEFINE qs == [i \in Players |-> new(i)]
  <2>1. qs \in Queues
    BY <1>2
  <2>2. t = [s EXCEPT !.last_confirmed_frame = frame, !.queues = qs]
    <3>1. CASE frame = 0
      <4>1. qs = s.queues
        BY <1>1, <3>1
      <4>2. t = [s EXCEPT !.last_confirmed_frame = frame, !.queues = s.queues]
        BY <3>1 DEF SetLastConfirmedFrame, SyncType
      <4> HIDE DEF t, qs
      <4> QED BY <4>1, <4>2
    <3>2. CASE frame # 0
      <4>1. ~(frame <= 0)
        BY <3>2
      <4>2. t = [s EXCEPT !.last_confirmed_frame = frame,
                          !.queues = [i \in Players |->
                             DiscardConfirmedFrames(@[i], frame - 1)]]
        BY <4>1 DEF SetLastConfirmedFrame
      <4>3. t = [s EXCEPT !.last_confirmed_frame = frame,
                          !.queues = [i \in Players |->
                             DiscardConfirmedFrames(s.queues[i], frame - 1)]]
        BY <4>2 DEF SyncType
      <4>4. qs = [i \in Players |-> DiscardConfirmedFrames(s.queues[i], frame - 1)]
        BY <3>2
      <4> HIDE DEF t, qs
      <4> QED BY <4>3, <4>4
    <3> QED BY <3>1, <3>2
  <2>3. \A i \in Players : qs[i] = new(i)
    OBVIOUS
  <2> HIDE DEF t, qs
  <2>4. /\ t.framecount = n /\ t.last_confirmed_frame = frame
        /\ t.head = s.head /\ t.saved = s.saved /\ t.queues = qs
        /\ t \in SyncType(States, Queues)
    BY <1>1, <2>1, <2>2 DEF SyncType
  <2> QED BY <2>3, <2>4
<1>4. ASSUME NEW i \in Connected(st)
      PROVE  QueueInv(new(i), n, lg[i], Column(g, i))
  <2> DEFINE x == s.queues[i]
             p == Column(g, i)
             f == frame - 1
  <2>1. /\ i \in Players /\ QueueInv(x, n, lg[i], p)
        /\ frame <= x.last_added_frame
    BY DEF Connected, QueuesInv
  <2>2. CASE frame = 0
    BY <2>1, <2>2
  <2>3. CASE frame # 0
    <3>1. x.last_added_frame \in Int
      BY <1>1, <2>1 DEF QueueType, Frames, NullFrame
    <3>2. f \in Nat /\ f < x.last_added_frame
      <4> HIDE DEF x
      <4> QED BY <2>1, <2>3, <3>1
    <3>3. DiscardConfirmedFramesAsserts(x, f)
      BY <2>1, <2>3 DEF SetLastConfirmedFrameAsserts
    <3>4. new(i) = DiscardConfirmedFrames(x, f)
      BY <2>3
    <3> HIDE DEF x, p, f, n, new
    <3>5. DiscardConfirmedFramesAsserts(x, f) <=> DiscardTo(x, f) >= Oldest(x) - 1
      BY <2>1, <3>2, DiscardAssertsFollow
    <3>6. QueueInv(DiscardConfirmedFrames(x, f), n, lg[i], p)
      BY <2>1, <3>2, <3>3, <3>5, DiscardKeeps
    <3> QED BY <3>4, <3>6 DEF n, p
  <2> QED BY <2>2, <2>3
<1> HIDE DEF new, t
<1>5. SameArrivals(s, t)
  BY <1>2, <1>3 DEF SameArrivals
<1>6. QueuesInv(t, g, st, lg)
  BY <1>2, <1>3, <1>4 DEF QueuesInv
<1>7. Settled(t, st)
  BY <1>2, <1>3 DEF Settled, Connected
<1> QED BY <1>3, <1>5, <1>6, <1>7 DEF t
=============================================================================
