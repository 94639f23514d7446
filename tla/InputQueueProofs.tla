--------------------------- MODULE InputQueueProofs ---------------------------
(***************************************************************************)
(* What the member functions of one input queue do, for a ring of any       *)
(* length and any set of inputs.  QueueInv ties a queue to the log of the   *)
(* inputs added to it and to the inputs that were played; each function     *)
(* keeps it when the function's ASSERTs hold.  The argument rests on two    *)
(* facts: frame f lives in slot f modulo the ring's length whatever cursor  *)
(* put it there, and all the frames beyond the log were played with the     *)
(* last input of the log, so that a prediction started now agrees with      *)
(* every one of them.                                                       *)
(***************************************************************************)
EXTENDS InputQueue, FiniteSets, FiniteSetTheorems, WellFoundedInduction, TLAPS
-----------------------------------------------------------------------------
(* Slots of a ring of L slots.                                                *)

(* A remainder is a slot.                                                     *)
LEMMA ModRange == ASSUME NEW L \in Nat \ {0}, NEW a \in Int
                  PROVE  a % L \in 0 .. L - 1
  OBVIOUS

(* The remainder of a division is determined by its range.                    *)
LEMMA ModUnique ==
  ASSUME NEW L \in Nat \ {0}, NEW a \in Int, NEW k \in Int,
         NEW r \in 0 .. L - 1, a = L * k + r
  PROVE  a % L = r
  OBVIOUS

LEMMA ModDiv ==
  ASSUME NEW L \in Nat \ {0}, NEW a \in Int
  PROVE  a \div L \in Int /\ a = L * (a \div L) + (a % L)
  OBVIOUS

(* Frames less than a ring apart have different slots.                        *)
LEMMA ModInjective ==
  ASSUME NEW L \in Nat \ {0}, NEW a \in Int, NEW b \in Int,
         a % L = b % L, a - b < L, b - a < L
  PROVE  a = b
<1> DEFINE d == a \div L - b \div L
<1>1. a - b = L * d
  BY ModDiv
<1>2. d \in Int
  BY ModDiv
<1> HIDE DEF d
<1>3. CASE d >= 1
  <2>1. L * d >= L
    BY <1>2, <1>3
  <2> QED BY <2>1, <1>1
<1>4. CASE d <= -1
  <2>1. L * d <= -L
    BY <1>2, <1>4
  <2> QED BY <2>1, <1>1
<1>5. CASE d = 0
  BY <1>1, <1>5
<1> QED BY <1>2, <1>3, <1>4, <1>5

(* Moving a cursor by b slots.                                                *)
LEMMA ModAdd ==
  ASSUME NEW L \in Nat \ {0}, NEW a \in Int, NEW b \in Int
  PROVE  ((a % L) + b) % L = (a + b) % L
<1> DEFINE m == (a % L) + b
           k == m \div L
           j == a \div L
           r == m % L
<1>1. /\ m \in Int /\ k \in Int /\ j \in Int /\ r \in 0 .. L - 1
      /\ m = L * k + r
      /\ a = L * j + (a % L)
  BY ModDiv, ModRange
<1>2. a + b = L * j + m
  BY <1>1, ModRange
<1>3. a + b = L * (j + k) + r
  <2> HIDE DEF m, k, j, r
  <2>1. L * (j + k) = L * j + L * k
    BY <1>1
  <2> QED BY <2>1, <1>1, <1>2
<1>4. (a + b) % L = r
  <2> DEFINE c == a + b
             t == j + k
  <2>1. c \in Int /\ t \in Int /\ c = L * t + r /\ r \in 0 .. L - 1
    BY <1>1, <1>3
  <2> HIDE DEF c, t, r
  <2>2. c % L = r
    BY <2>1, ModUnique
  <2> QED BY <2>2 DEF c
<1> QED BY <1>4
-----------------------------------------------------------------------------
(* Least elements.                                                            *)

(* Every set of natural numbers that is not empty has a least element.        *)
LEMMA LeastNatural ==
  ASSUME NEW S \in SUBSET Nat, S # {}
  PROVE  \E n \in S : \A m \in S : n <= m
<1> DEFINE R == {pair \in Nat \X Nat : pair[1] < pair[2]}
<1>1. IsWellFoundedOn(R, Nat)
  BY NatLessThanWellFounded, Zenon DEF OpToRel
<1>2. PICK n \in S : \A m \in S : <<m, n>> \notin R
  <2> HIDE DEF R
  <2> QED BY <1>1, WFMin
<1>3. \A m \in S : m < n => <<m, n>> \in R
  <2> SUFFICES ASSUME NEW m \in S, m < n PROVE <<m, n>> \in R
    OBVIOUS
  <2>1. <<m, n>> \in Nat \X Nat /\ <<m, n>>[1] < <<m, n>>[2]
    OBVIOUS
  <2> QED BY <2>1
<1>4. \A m \in S : ~ (m < n) => n <= m
  OBVIOUS
<1> QED BY <1>2, <1>3, <1>4

(* A set of integers with a lower bound has a least element.                  *)
LEMMA LeastInteger ==
  ASSUME NEW S \in SUBSET Int, S # {}, NEW low \in Int, \A n \in S : low <= n
  PROVE  \E n \in S : \A m \in S : n <= m
<1> DEFINE T == {n - low : n \in S}
<1>1. T \in SUBSET Nat /\ T # {}
  <2>1. \A n \in S : n - low \in Nat
    OBVIOUS
  <2> QED BY <2>1
<1>2. PICK t \in T : \A u \in T : t <= u
  <2> HIDE DEF T
  <2> QED BY <1>1, LeastNatural
<1>3. PICK n \in S : t = n - low
  BY <1>2
<1>4. ASSUME NEW m \in S PROVE n <= m
  <2>1. m - low \in T
    OBVIOUS
  <2>2. n - low <= m - low /\ n \in Int /\ m \in Int
    BY <1>2, <1>3, <2>1
  <2> QED BY <2>2
<1> QED BY <1>4
-----------------------------------------------------------------------------
USE InputQueueAssumption

L == INPUT_QUEUE_LENGTH
-----------------------------------------------------------------------------
(* Types.                                                                     *)

LEMMA InitQueueType == InitQueue \in QueueType
  BY DEF InitQueue, QueueType, Slots, Frames, NullFrame, GameInput

LEMMA LastInputType ==
  ASSUME NEW x \in QueueType
  PROVE  /\ LastInput(x) \in GameInput
         /\ ExpectedFrame(x) \in Nat
<1>1. PreviousSlot(x.head) \in Slots
  BY DEF QueueType, PreviousSlot, Slots
<1>2. LastInput(x) \in GameInput
  BY <1>1 DEF QueueType, LastInput
<1>3. LastInput(x).frame \in Nat \cup {-1}
  BY <1>2 DEF GameInput, Frames, NullFrame
<1> QED BY <1>2, <1>3 DEF ExpectedFrame

LEMMA TargetType ==
  ASSUME NEW x \in QueueType, NEW frame \in Nat,
         TargetFrame(x, frame) # NullFrame
  PROVE  /\ TargetFrame(x, frame) \in Nat
         /\ TargetFrame(x, frame) >= ExpectedFrame(x)
  BY LastInputType DEF TargetFrame, QueueType

LEMMA FirstIncorrectType ==
  ASSUME NEW x \in QueueType, NEW bits \in Bits, NEW target \in Nat
  PROVE  FirstIncorrectOf(x, bits, target) \in Frames
  BY LastInputType DEF FirstIncorrectOf, QueueType, Frames, NullFrame

LEMMA AddDelayedInputsType ==
  ASSUME NEW x \in QueueType, NEW bits \in Bits, NEW target \in Nat,
         target >= ExpectedFrame(x)
  PROVE  AddDelayedInputs(x, bits, target) \in QueueType
<1> DEFINE first     == ExpectedFrame(x)
           count     == target - first + 1
           offset(s) == (s - x.head) % INPUT_QUEUE_LENGTH
           ring      == [s \in Slots |->
               IF offset(s) < count
               THEN [frame |-> first + offset(s),
                     bits  |-> DelayedBits(x, bits, target, first + offset(s))]
               ELSE x.inputs[s]]
           predicted == IF \/ ~Predicting(x)
                  \/ /\ FirstIncorrectOf(x, bits, target) = NullFrame
                     /\ x.last_frame_requested \in first .. target
               THEN NullFrame
               ELSE target + 1
<1>1. ring \in [Slots -> GameInput]
  <2> SUFFICES ASSUME NEW s \in Slots PROVE ring[s] \in GameInput
    OBVIOUS
  <2>1. offset(s) \in Nat
    BY ModRange DEF Slots, QueueType
  <2>2. DelayedBits(x, bits, target, first + offset(s)) \in Bits
    BY LastInputType DEF DelayedBits, GameInput
  <2>3. first \in Nat
    BY LastInputType
  <2> HIDE DEF offset, first
  <2> QED BY <2>1, <2>2, <2>3 DEF GameInput, Frames, QueueType
<1>2. x.head \in Int /\ count \in Int /\ x.length + count \in Int
  BY LastInputType DEF Slots, QueueType
<1>3. (x.head + count) % INPUT_QUEUE_LENGTH \in Slots
  <2> DEFINE c == x.head + count
  <2>1. c \in Int
    BY <1>2
  <2> HIDE DEF c
  <2>2. c % INPUT_QUEUE_LENGTH \in 0 .. INPUT_QUEUE_LENGTH - 1
    BY <2>1, ModRange
  <2> QED BY <2>2 DEF Slots, c
<1> DEFINE head       == (x.head + count) % INPUT_QUEUE_LENGTH
           length     == x.length + count
           incorrect  == FirstIncorrectOf(x, bits, target)
           prediction == [frame |-> predicted, bits |-> x.prediction.bits]
<1>4. /\ head \in Slots /\ length \in Int
      /\ prediction \in GameInput /\ incorrect \in Frames /\ target \in Frames
  BY <1>2, <1>3, FirstIncorrectType DEF Frames, GameInput, QueueType
<1>5. AddDelayedInputs(x, bits, target) =
        [x EXCEPT !.inputs = ring,
                  !.head = head,
                  !.length = length,
                  !.first_frame = FALSE,
                  !.last_added_frame = target,
                  !.first_incorrect_frame = incorrect,
                  !.prediction = prediction]
  BY DEF AddDelayedInputs
<1> HIDE DEF ring, count, prediction, head, length, incorrect
<1> QED BY ZenonT(60), <1>1, <1>4, <1>5 DEF QueueType

LEMMA AddInputType ==
  ASSUME NEW x \in QueueType, NEW bits \in Bits, NEW frame \in Nat
  PROVE  AddInput(x, frame, bits) \in QueueType
<1> DEFINE user == [x EXCEPT !.last_user_added_frame = frame]
<1>1. user \in QueueType
  BY DEF QueueType, Frames
<1>2. /\ ExpectedFrame(user) = ExpectedFrame(x)
      /\ TargetFrame(user, frame) = TargetFrame(x, frame)
  BY DEF ExpectedFrame, TargetFrame, LastInput, QueueType
<1> HIDE DEF user
<1>3. CASE TargetFrame(x, frame) = NullFrame
  BY <1>1, <1>3 DEF AddInput, user
<1>4. CASE TargetFrame(x, frame) # NullFrame
  <2>1. AddDelayedInputs(user, bits, TargetFrame(x, frame)) \in QueueType
    BY <1>1, <1>2, <1>4, TargetType, AddDelayedInputsType
  <2> QED BY <2>1, <1>4 DEF AddInput, user
<1> QED BY <1>3, <1>4

LEMMA GetInputType ==
  ASSUME NEW x \in QueueType, NEW f \in Nat
  PROVE  /\ GetInput(x, f) \in QueueType
         /\ GetInputBits(x, f) \in Bits
<1> DEFINE base == IF f = 0 \/ x.last_added_frame = NullFrame
                   THEN [frame |-> x.prediction.frame, bits |-> NoBits]
                   ELSE LastInput(x)
<1>1. base \in GameInput
  BY LastInputType DEF QueueType, GameInput
<1>2. [frame |-> base.frame + 1, bits |-> base.bits] \in GameInput
  BY <1>1 DEF GameInput, Frames, NullFrame
<1> HIDE DEF base
<1>3. GetInput(x, f) \in QueueType
  BY <1>2 DEF GetInput, QueueType, Frames, base
<1>4. x.inputs[(f - TailFrame(x) + x.tail) % INPUT_QUEUE_LENGTH].bits \in Bits
  <2>1. f - TailFrame(x) + x.tail \in Int
    BY DEF QueueType, TailFrame, GameInput, Frames, NullFrame, Slots
  <2>2. (f - TailFrame(x) + x.tail) % INPUT_QUEUE_LENGTH \in Slots
    BY <2>1, ModRange DEF Slots
  <2> QED BY <2>2 DEF QueueType, GameInput
<1> QED BY <1>3, <1>4 DEF GetInputBits, QueueType, GameInput

LEMMA DiscardType ==
  ASSUME NEW x \in QueueType, NEW f \in Nat
  PROVE  DiscardConfirmedFrames(x, f) \in QueueType
<1> DEFINE to     == DiscardTo(x, f)
           offset == to - TailFrame(x) + 1
<1>1. to \in Int /\ offset \in Int
  BY DEF DiscardTo, TailFrame, QueueType, GameInput, Frames, NullFrame
<1> HIDE DEF offset
<1>2. (x.tail + offset) % INPUT_QUEUE_LENGTH \in Slots
  <2> DEFINE c == x.tail + offset
  <2>1. c \in Int
    BY <1>1 DEF Slots, QueueType
  <2> HIDE DEF c
  <2>2. c % INPUT_QUEUE_LENGTH \in 0 .. INPUT_QUEUE_LENGTH - 1
    BY <2>1, ModRange
  <2> QED BY <2>2 DEF Slots, c
<1>3. x.length - offset \in Int
  BY <1>1 DEF QueueType
<1> HIDE DEF to
<1> QED BY <1>1, <1>2, <1>3 DEF DiscardConfirmedFrames, QueueType, offset, to

LEMMA ResetType ==
  ASSUME NEW x \in QueueType
  PROVE  ResetPrediction(x) \in QueueType
  BY DEF ResetPrediction, QueueType, Frames, GameInput
-----------------------------------------------------------------------------
(* What the operations leave in each field they change.                       *)

(* y is x after inputs for all frames from the expected one to target.        *)
Added(x, bits, target, y) ==
    LET first     == ExpectedFrame(x)
        count     == target - first + 1
        incorrect == FirstIncorrectOf(x, bits, target)
    IN  /\ y.tail = x.tail
        /\ y.head = (x.head + count) % INPUT_QUEUE_LENGTH
        /\ y.length = x.length + count
        /\ y.first_frame = FALSE
        /\ y.last_added_frame = target
        /\ y.first_incorrect_frame = incorrect
        /\ y.last_frame_requested = x.last_frame_requested
        /\ y.prediction =
             [frame |-> IF \/ ~Predicting(x)
                           \/ /\ incorrect = NullFrame
                              /\ x.last_frame_requested \in first .. target
                        THEN NullFrame
                        ELSE target + 1,
              bits |-> x.prediction.bits]
        /\ \A s \in Slots :
             LET offset == (s - x.head) % INPUT_QUEUE_LENGTH
             IN  y.inputs[s] =
                   IF offset < count
                   THEN [frame |-> first + offset,
                         bits  |-> DelayedBits(x, bits, target, first + offset)]
                   ELSE x.inputs[s]

(* y agrees with x in the fields that hold the inputs.                        *)
SameInputs(x, y) ==
    /\ y.tail = x.tail /\ y.head = x.head /\ y.length = x.length
    /\ y.first_frame = x.first_frame
    /\ y.last_added_frame = x.last_added_frame
    /\ y.inputs = x.inputs

(* y agrees with x in the fields that hold the prediction.                    *)
SamePrediction(x, y) ==
    /\ y.first_incorrect_frame = x.first_incorrect_frame
    /\ y.last_frame_requested = x.last_frame_requested
    /\ y.prediction = x.prediction

LEMMA AddInputFields ==
  ASSUME NEW x \in QueueType, NEW bits \in Bits, NEW frame \in Nat,
         NEW target, target = TargetFrame(x, frame), target # NullFrame
  PROVE  Added(x, bits, target, AddInput(x, frame, bits))
<1> DEFINE user == [x EXCEPT !.last_user_added_frame = frame]
<1>1. user \in QueueType
  BY DEF QueueType, Frames
<1>2. /\ user.head = x.head /\ user.tail = x.tail /\ user.length = x.length
      /\ user.inputs = x.inputs /\ user.prediction = x.prediction
      /\ user.last_frame_requested = x.last_frame_requested
      /\ user.first_incorrect_frame = x.first_incorrect_frame
      /\ user.first_frame = x.first_frame
  BY DEF QueueType
<1>3. AddInput(x, frame, bits) = AddDelayedInputs(user, bits, target)
  BY DEF AddInput
<1> HIDE DEF user
<1>4. /\ LastInput(user) = LastInput(x)
      /\ ExpectedFrame(user) = ExpectedFrame(x)
      /\ Predicting(user) <=> Predicting(x)
  BY <1>2 DEF LastInput, ExpectedFrame, Predicting
<1>5. \A f : DelayedBits(user, bits, target, f) = DelayedBits(x, bits, target, f)
  BY <1>4 DEF DelayedBits
<1>6. FirstIncorrectOf(user, bits, target) = FirstIncorrectOf(x, bits, target)
  BY <1>2, <1>4, <1>5 DEF FirstIncorrectOf
<1> DEFINE first     == ExpectedFrame(x)
           count     == target - first + 1
           incorrect == FirstIncorrectOf(x, bits, target)
           offset(s) == (s - x.head) % INPUT_QUEUE_LENGTH
           ring      == [s \in Slots |->
               IF offset(s) < count
               THEN [frame |-> first + offset(s),
                     bits  |-> DelayedBits(x, bits, target, first + offset(s))]
               ELSE x.inputs[s]]
           head      == (x.head + count) % INPUT_QUEUE_LENGTH
           length    == x.length + count
           prediction ==
               [frame |-> IF \/ ~Predicting(x)
                             \/ /\ incorrect = NullFrame
                                /\ x.last_frame_requested \in first .. target
                          THEN NullFrame
                          ELSE target + 1,
                bits  |-> x.prediction.bits]
<1>7. AddDelayedInputs(user, bits, target) =
        [user EXCEPT !.inputs = ring, !.head = head, !.length = length,
                     !.first_frame = FALSE, !.last_added_frame = target,
                     !.first_incorrect_frame = incorrect,
                     !.prediction = prediction]
  <2>1. ring = [s \in Slots |->
               IF (s - user.head) % INPUT_QUEUE_LENGTH
                    < target - ExpectedFrame(user) + 1
               THEN [frame |-> ExpectedFrame(user)
                                 + ((s - user.head) % INPUT_QUEUE_LENGTH),
                     bits  |-> DelayedBits(user, bits, target,
                                 ExpectedFrame(user)
                                 + ((s - user.head) % INPUT_QUEUE_LENGTH))]
               ELSE user.inputs[s]]
    BY <1>2, <1>4, <1>5
  <2>2. prediction =
          [frame |-> IF \/ ~Predicting(user)
                        \/ /\ FirstIncorrectOf(user, bits, target) = NullFrame
                           /\ user.last_frame_requested
                                \in ExpectedFrame(user) .. target
                     THEN NullFrame
                     ELSE target + 1,
           bits  |-> user.prediction.bits]
    BY <1>2, <1>4, <1>6
  <2>3. head = (user.head + (target - ExpectedFrame(user) + 1)) % INPUT_QUEUE_LENGTH
    BY <1>2, <1>4
  <2>4. length = user.length + (target - ExpectedFrame(user) + 1)
    BY <1>2, <1>4
  <2> HIDE DEF ring, head, length, prediction
  <2> QED BY <2>1, <2>2, <2>3, <2>4, <1>6 DEF AddDelayedInputs
<1>8. \A s \in Slots : ring[s] =
        IF offset(s) < count
        THEN [frame |-> first + offset(s),
              bits  |-> DelayedBits(x, bits, target, first + offset(s))]
        ELSE x.inputs[s]
  OBVIOUS
<1>9. LET y == AddInput(x, frame, bits)
      IN  /\ y.tail = x.tail /\ y.head = head /\ y.length = length
          /\ y.first_frame = FALSE /\ y.last_added_frame = target
          /\ y.first_incorrect_frame = incorrect
          /\ y.last_frame_requested = x.last_frame_requested
          /\ y.prediction = prediction /\ y.inputs = ring
  <2> HIDE DEF ring, head, length, incorrect, prediction
  <2> QED BY <1>1, <1>2, <1>3, <1>7 DEF QueueType
<1> HIDE DEF ring
<1> QED BY <1>8, <1>9 DEF Added

LEMMA DroppedInputFields ==
  ASSUME NEW x \in QueueType, NEW bits \in Bits, NEW frame \in Nat,
         TargetFrame(x, frame) = NullFrame
  PROVE  /\ SameInputs(x, AddInput(x, frame, bits))
         /\ SamePrediction(x, AddInput(x, frame, bits))
  BY DEF AddInput, QueueType, SameInputs, SamePrediction

LEMMA GetInputFields ==
  ASSUME NEW x \in QueueType, NEW f \in Nat
  PROVE  /\ SameInputs(x, GetInput(x, f))
         /\ GetInput(x, f).first_incorrect_frame = x.first_incorrect_frame
         /\ GetInput(x, f).last_frame_requested = f
  BY DEF GetInput, QueueType, SameInputs

LEMMA ResetFields ==
  ASSUME NEW x \in QueueType
  PROVE  /\ SameInputs(x, ResetPrediction(x))
         /\ ResetPrediction(x).first_incorrect_frame = NullFrame
         /\ ResetPrediction(x).last_frame_requested = NullFrame
         /\ ResetPrediction(x).prediction.frame = NullFrame
  BY DEF ResetPrediction, QueueType, SameInputs

(* y is x without the frames up to `to', of which some are to stay.            *)
Discarded(x, to, y) ==
    LET offset == to - TailFrame(x) + 1
    IN  /\ y.head = x.head
        /\ y.first_frame = x.first_frame
        /\ y.last_added_frame = x.last_added_frame
        /\ y.inputs = x.inputs
        /\ to < x.last_added_frame =>
             /\ y.tail = (x.tail + offset) % INPUT_QUEUE_LENGTH
             /\ y.length = x.length - offset

LEMMA DiscardFields ==
  ASSUME NEW x \in QueueType, NEW f \in Nat
  PROVE  /\ Discarded(x, DiscardTo(x, f), DiscardConfirmedFrames(x, f))
         /\ SamePrediction(x, DiscardConfirmedFrames(x, f))
<1>1. DiscardTo(x, f) \in Int /\ x.last_added_frame \in Int
  BY DEF DiscardTo, QueueType, Frames, NullFrame
<1> HIDE DEF DiscardTo
<1> QED BY <1>1 DEF DiscardConfirmedFrames, QueueType, Discarded, SamePrediction

LEMMA DelayFields ==
  ASSUME NEW x \in QueueType, NEW delay \in Nat
  PROVE  /\ SetFrameDelay(x, delay) \in QueueType
         /\ SameInputs(x, SetFrameDelay(x, delay))
         /\ SamePrediction(x, SetFrameDelay(x, delay))
  BY DEF SetFrameDelay, QueueType, SameInputs, SamePrediction
-----------------------------------------------------------------------------
(* More slot arithmetic.                                                      *)

LEMMA LengthType == L \in Nat \ {0}
  BY InputQueueAssumption DEF L

(* Adding to a slot.                                                          *)
LEMMA AddSlots ==
  ASSUME NEW a \in Int, NEW b \in Int
  PROVE  /\ (b + (a % L)) % L = (a + b) % L
         /\ ((a % L) + b) % L = (a + b) % L
<1>1. ((a % L) + b) % L = (a + b) % L
  BY ModAdd, LengthType
<1>2. a % L \in Int
  BY ModRange, LengthType
<1> HIDE DEF L
<1>3. b + (a % L) = (a % L) + b
  BY <1>2
<1> QED BY <1>1, <1>3

(* How far slot f % L is ahead of slot a % L.                                 *)
LEMMA SlotOffset ==
  ASSUME NEW f \in Int, NEW a \in Int
  PROVE  ((f % L) - (a % L)) % L = (f - a) % L
<1> DEFINE d == f - a
           j == a \div L
           k == d \div L
           r == d % L
           b == -(a % L)
           c == f + b
           t == j + k
<1>1. /\ d \in Int /\ j \in Int /\ k \in Int /\ r \in 0 .. L - 1 /\ b \in Int
      /\ c \in Int /\ t \in Int
  BY ModDiv, ModRange, LengthType
<1>2. d = L * k + r /\ a = L * j + (a % L)
  BY <1>1, ModDiv, LengthType
<1>3. c = L * t + r
  <2> DEFINE lj == L * j
             lk == L * k
             m  == a % L
  <2>1. lj \in Int /\ lk \in Int /\ m \in Int
    BY <1>1, LengthType, ModRange
  <2>2. L * t = lj + lk
    BY <1>1, LengthType
  <2>3. d = lk + r /\ a = lj + m /\ c = f + (-m) /\ d = f - a
    BY <1>2
  <2> HIDE DEF lj, lk, m, c, d, r, t
  <2>4. c = lj + lk + r
    BY <1>1, <2>1, <2>3
  <2> QED BY <2>2, <2>4
<1>4. c % L = r
  <2> HIDE DEF c, t, r
  <2> QED BY <1>1, <1>3, ModUnique, LengthType
<1>5. ((f % L) + b) % L = c % L
  <2> HIDE DEF b
  <2> QED BY <1>1, AddSlots DEF c
<1>6. (f % L) - (a % L) = (f % L) + b
  BY ModRange, LengthType
<1> QED BY <1>4, <1>5, <1>6

(* A remainder of a frame within one ring's length of zero.                   *)
LEMMA ModNear ==
  ASSUME NEW a \in Int
  PROVE  /\ a \in 0 .. L - 1 => a % L = a
         /\ a \in -L .. -1 => a % L = a + L
<1>1. ASSUME a \in 0 .. L - 1 PROVE a % L = a
  <2>1. a = L * 0 + a
    BY LengthType
  <2> QED BY <1>1, <2>1, ModUnique, LengthType
<1>2. ASSUME a \in -L .. -1 PROVE a % L = a + L
  <2> DEFINE r == a + L
             k == -1
  <2>1. r \in 0 .. L - 1 /\ k \in Int
    BY <1>2, LengthType
  <2>2. a = L * k + r
    BY <1>2, LengthType
  <2> HIDE DEF r, k
  <2>3. a % L = r
    BY <2>1, <2>2, ModUnique, LengthType
  <2> QED BY <2>3 DEF r
<1> QED BY <1>1, <1>2

(* PREVIOUS_FRAME steps back one frame.                                       *)
LEMMA PreviousSlotFrame ==
  ASSUME NEW a \in Nat \ {0}
  PROVE  PreviousSlot(a % L) = (a - 1) % L
<1>1. a % L \in 0 .. L - 1
  BY ModRange, LengthType
<1>2. ((a % L) + (-1)) % L = (a + (-1)) % L
  BY AddSlots
<1>3. a + (-1) = a - 1
  OBVIOUS
<1> DEFINE s == a % L
<1>4. (s + (-1)) % L = PreviousSlot(s)
  <2> HIDE DEF s
  <2> SUFFICES ASSUME s \in 0 .. L - 1 PROVE (s + (-1)) % L = PreviousSlot(s)
    BY <1>1 DEF s
  <2>1. CASE s = 0
    BY <2>1, ModNear, LengthType DEF PreviousSlot, L
  <2>2. CASE s # 0
    <3>1. s + (-1) \in 0 .. L - 1 /\ s + (-1) = s - 1
      BY <2>2, LengthType
    <3> QED BY <2>2, <3>1, ModNear DEF PreviousSlot
  <2> QED BY <2>1, <2>2
<1> QED BY <1>2, <1>3, <1>4
-----------------------------------------------------------------------------
(* The invariant of a queue x to which the inputs l were added, frame by      *)
(* frame, and from which the simulation has received the inputs p for the     *)
(* frames before n.                                                           *)

Arrivals(x) == x.last_added_frame + 1
Oldest(x)   == Arrivals(x) - x.length     \* the oldest frame not discarded
LastBits(x, l) == IF Arrivals(x) = 0 THEN NoBits ELSE l[Arrivals(x) - 1]

(* The frames of the ring stand at their number modulo its length.            *)
Ring(x, l) ==
    /\ x.head = Arrivals(x) % L
    /\ x.tail = Oldest(x) % L
    /\ x.length \in 0 .. L
    /\ x.length <= Arrivals(x)
    /\ x.length = 0 <=> Arrivals(x) = 0
    /\ x.first_frame <=> Arrivals(x) = 0
    /\ Arrivals(x) = 0 => x.inputs = InitQueue.inputs
    /\ \A f \in Oldest(x) .. Arrivals(x) - 1 :
          HasConfirmed(x, f) /\ ConfirmedBits(x, f) = l[f]

Contradicted(x, n, l, p) ==
    {f \in 0 .. n - 1 : f < Arrivals(x) /\ l[f] # p[f]}

(* While no misprediction is known, frames beyond the log were played with    *)
(* the input a prediction started now would give, and the queue is in         *)
(* prediction mode exactly when a frame beyond the log was requested last.    *)
(* The misprediction that is known is the first.                              *)
Consistent(x, n, l, p) ==
    /\ x.last_frame_requested \in {NullFrame, n - 1}
    /\ x.first_incorrect_frame = NullFrame =>
         /\ Contradicted(x, n, l, p) = {}
         /\ \A f \in Arrivals(x) .. n - 1 : p[f] = LastBits(x, l)
         /\ IF x.last_frame_requested >= Arrivals(x)
            THEN x.prediction = [frame |-> Arrivals(x), bits |-> LastBits(x, l)]
            ELSE ~Predicting(x)
    /\ x.first_incorrect_frame # NullFrame =>
         /\ x.first_incorrect_frame \in Contradicted(x, n, l, p)
         /\ \A g \in Contradicted(x, n, l, p) : x.first_incorrect_frame <= g
         /\ x.prediction.frame = Arrivals(x)
         /\ x.last_frame_requested = n - 1

QueueInv(x, n, l, p) ==
    /\ x \in QueueType /\ n \in Nat /\ l \in [0 .. Arrivals(x) - 1 -> Bits]
    /\ Ring(x, l)
    /\ Consistent(x, n, l, p)
-----------------------------------------------------------------------------
(* Reading the ring.                                                          *)

LEMMA Numbers ==
  ASSUME NEW x \in QueueType, NEW l, Ring(x, l)
  PROVE  /\ Arrivals(x) \in Nat /\ Oldest(x) \in Nat /\ x.length \in Nat
         /\ Oldest(x) <= Arrivals(x) /\ x.last_added_frame = Arrivals(x) - 1
         /\ Arrivals(x) > 0 => Oldest(x) < Arrivals(x)
         /\ Arrivals(x) = 0 => Oldest(x) = 0
         /\ Arrivals(x) - Oldest(x) = x.length /\ x.length <= L
         /\ x.frame_delay \in Nat
         /\ x.last_frame_requested \in Nat \cup {-1}
         /\ x.first_incorrect_frame \in Nat \cup {-1}
  BY DEF QueueType, Ring, Arrivals, Oldest, Frames, NullFrame, L

LEMMA SlotRead ==
  ASSUME NEW x \in QueueType, NEW l, Ring(x, l), NEW f \in Oldest(x) .. Arrivals(x) - 1
  PROVE  x.inputs[f % L].frame = f /\ x.inputs[f % L].bits = l[f]
  BY DEF Ring, HasConfirmed, ConfirmedBits, L

(* The newest input is the last of the log.                                   *)
LEMMA LastRead ==
  ASSUME NEW x \in QueueType, NEW l, Ring(x, l)
  PROVE  /\ LastInput(x).bits = LastBits(x, l)
         /\ Arrivals(x) > 0 => LastInput(x).frame = Arrivals(x) - 1
         /\ ExpectedFrame(x) = Arrivals(x)
<1>1. CASE Arrivals(x) = 0
  <2>1. PreviousSlot(x.head) \in Slots
    BY InputQueueAssumption DEF PreviousSlot, QueueType, Slots
  <2>2. LastInput(x).bits = NoBits
    BY <1>1, <2>1 DEF LastInput, Ring, InitQueue
  <2> QED BY <1>1, <2>2 DEF LastBits, ExpectedFrame, Ring
<1>2. CASE Arrivals(x) > 0
  <2>1. PreviousSlot(x.head) = (Arrivals(x) - 1) % L
    BY <1>2, Numbers, PreviousSlotFrame DEF Ring
  <2>2. Arrivals(x) - 1 \in Oldest(x) .. Arrivals(x) - 1
    BY <1>2, Numbers
  <2>3. LastInput(x).frame = Arrivals(x) - 1 /\ LastInput(x).bits = l[Arrivals(x) - 1]
    BY <2>1, <2>2, SlotRead DEF LastInput
  <2>4. Arrivals(x) # 0 /\ Arrivals(x) \in Nat
    BY <1>2, Numbers
  <2>5. ExpectedFrame(x) = Arrivals(x)
    <3>1. ~x.first_frame
      BY <2>4 DEF Ring
    <3> QED BY <2>3, <2>4, <3>1 DEF ExpectedFrame
  <2> QED BY <2>3, <2>4, <2>5 DEF LastBits
<1> QED BY <1>1, <1>2, Numbers

(* The tail slot holds the oldest frame, so a read at an offset from the tail *)
(* finds the frame.                                                           *)
LEMMA TailRead ==
  ASSUME NEW x \in QueueType, NEW l, Ring(x, l)
  PROVE  /\ TailFrame(x) = Oldest(x)
         /\ \A f \in Int : InQueue(x, f) <=> f < Arrivals(x)
         /\ \A f \in Int : (f - TailFrame(x) + x.tail) % INPUT_QUEUE_LENGTH = f % L
<1>1. TailFrame(x) = Oldest(x)
  <2>1. CASE Arrivals(x) = 0
    <3>1. x.tail \in Slots
      BY DEF QueueType
    <3> QED BY <2>1, <3>1, Numbers DEF TailFrame, Ring, InitQueue
  <2>2. CASE Arrivals(x) > 0
    <3>1. Oldest(x) \in Oldest(x) .. Arrivals(x) - 1
      BY <2>2, Numbers
    <3> QED BY <3>1, SlotRead DEF TailFrame, Ring
  <2> QED BY <2>1, <2>2, Numbers
<1>2. ASSUME NEW f \in Int
      PROVE  (f - TailFrame(x) + x.tail) % INPUT_QUEUE_LENGTH = f % L
  <2>1. x.tail = Oldest(x) % L
    BY DEF Ring
  <2>2. /\ f - Oldest(x) \in Int /\ Oldest(x) \in Int
        /\ Oldest(x) + (f - Oldest(x)) = f
    BY Numbers
  <2>3. ((f - Oldest(x)) + (Oldest(x) % L)) % L = (Oldest(x) + (f - Oldest(x))) % L
    BY <2>2, AddSlots
  <2> QED BY <1>1, <2>1, <2>2, <2>3 DEF L
<1>3. \A f \in Int : InQueue(x, f) <=> f < Arrivals(x)
  BY <1>1, Numbers DEF InQueue
<1> QED BY <1>1, <1>2, <1>3

LEMMA ContradictedDef ==
  ASSUME NEW x, NEW n, NEW l, NEW p
  PROVE  \A f : f \in Contradicted(x, n, l, p) <=>
                  f \in 0 .. n - 1 /\ f < Arrivals(x) /\ l[f] # p[f]
  BY DEF Contradicted

LEMMA LastBitsType ==
  ASSUME NEW x \in QueueType, NEW l \in [0 .. Arrivals(x) - 1 -> Bits]
  PROVE  LastBits(x, l) \in Bits
<1>1. Arrivals(x) \in Nat
  BY DEF QueueType, Frames, NullFrame, Arrivals
<1> QED BY <1>1 DEF LastBits

LEMMA QueueInvInit ==
  ASSUME NEW delay \in Nat, NEW x \in {InitQueue, SetFrameDelay(InitQueue, delay)},
         NEW p
  PROVE  /\ Arrivals(x) = 0 /\ Oldest(x) = 0
         /\ QueueInv(x, 0, [f \in {} |-> NoBits], p)
<1> DEFINE l == [f \in {} |-> NoBits]
<1>1. x \in QueueType
  BY InitQueueType, DelayFields
<1>2. /\ Arrivals(x) = 0 /\ Oldest(x) = 0 /\ x.length = 0
      /\ x.head = 0 /\ x.tail = 0 /\ x.first_frame /\ x.inputs = InitQueue.inputs
      /\ x.first_incorrect_frame = NullFrame /\ x.last_frame_requested = NullFrame
      /\ x.prediction.frame = NullFrame
  BY DEF InitQueue, SetFrameDelay, Arrivals, Oldest, NullFrame
<1>3. l \in [0 .. Arrivals(x) - 1 -> Bits]
  BY <1>2
<1> HIDE DEF l
<1>4. 0 % L = 0
  BY ModNear, LengthType
<1>5. Ring(x, l)
  BY <1>2, <1>4, LengthType DEF Ring
<1>6. Consistent(x, 0, l, p)
  BY <1>2 DEF Consistent, Contradicted, NullFrame, Predicting
<1> QED BY <1>1, <1>2, <1>3, <1>5, <1>6 DEF QueueInv, l
-----------------------------------------------------------------------------
(* A call that leaves the ring alone.                                         *)
LEMMA SameRing ==
  ASSUME NEW x, NEW y, NEW l, SameInputs(x, y)
  PROVE  /\ Arrivals(y) = Arrivals(x) /\ Oldest(y) = Oldest(x)
         /\ LastBits(y, l) = LastBits(x, l)
         /\ Ring(x, l) => Ring(y, l)
<1>1. Arrivals(y) = Arrivals(x) /\ Oldest(y) = Oldest(x)
  BY DEF SameInputs, Arrivals, Oldest
<1>2. LastBits(y, l) = LastBits(x, l)
  BY <1>1 DEF LastBits
<1>3. Ring(x, l) => Ring(y, l)
  BY <1>1 DEF SameInputs, Ring, HasConfirmed, ConfirmedBits
<1> QED BY <1>1, <1>2, <1>3

(* A change to a field the invariant does not speak of: a new frame delay, a  *)
(* dropped input; or none, with the same inputs played.                       *)
LEMMA SameKeeps ==
  ASSUME NEW x, NEW y \in QueueType, NEW n, NEW l, NEW p, NEW r,
         QueueInv(x, n, l, p), SameInputs(x, y), SamePrediction(x, y),
         \A f \in 0 .. n - 1 : r[f] = p[f]
  PROVE  QueueInv(y, n, l, r)
<1>1. /\ Arrivals(y) = Arrivals(x) /\ LastBits(y, l) = LastBits(x, l)
      /\ Ring(y, l) /\ Contradicted(y, n, l, r) = Contradicted(x, n, l, r)
  <2>1. Ring(x, l)
    BY DEF QueueInv
  <2>2. Arrivals(y) = Arrivals(x) /\ LastBits(y, l) = LastBits(x, l) /\ Ring(y, l)
    BY <2>1, SameRing
  <2> QED BY <2>2 DEF Contradicted
<1>2. Contradicted(x, n, l, r) = Contradicted(x, n, l, p)
  BY DEF Contradicted
<1>3. \A f \in Arrivals(x) .. n - 1 : r[f] = p[f]
  BY Numbers DEF QueueInv
<1>4. Consistent(y, n, l, r)
  BY <1>1, <1>2, <1>3 DEF QueueInv, Consistent, SamePrediction, Predicting
<1> QED BY <1>1, <1>4 DEF QueueInv
-----------------------------------------------------------------------------
(* A frame requested.                                                         *)

LEMMA PredictionNow ==
  ASSUME NEW x, NEW n, NEW l, NEW p, QueueInv(x, n, l, p),
         x.first_incorrect_frame = NullFrame
  PROVE  /\ Predicting(x) => /\ n > Arrivals(x)
                             /\ x.prediction = [frame |-> Arrivals(x),
                                                bits  |-> LastBits(x, l)]
         /\ ~Predicting(x) => x.prediction.frame = NullFrame
  BY Numbers DEF QueueInv, Consistent, Predicting, NullFrame

(* The input the queue gives out, and the prediction it is left with.         *)
LEMMA RequestedBits ==
  ASSUME NEW x, NEW n, NEW l, NEW p, QueueInv(x, n, l, p),
         x.first_incorrect_frame = NullFrame, Oldest(x) <= n
  PROVE  /\ n < Arrivals(x) =>
              /\ GetInputBits(x, n) = l[n]
              /\ GetInput(x, n).prediction = x.prediction
              /\ ~Predicting(x)
         /\ n >= Arrivals(x) =>
              /\ GetInputBits(x, n) = LastBits(x, l)
              /\ GetInput(x, n).prediction =
                   [frame |-> Arrivals(x), bits |-> LastBits(x, l)]
<1>1. /\ Ring(x, l) /\ n \in Nat /\ Arrivals(x) \in Nat /\ x \in QueueType
  BY Numbers DEF QueueInv
<1>2. InQueue(x, n) <=> n < Arrivals(x)
  BY <1>1, TailRead
<1>3. GetInput(x, n).prediction =
        IF ~Predicting(x) /\ ~InQueue(x, n)
        THEN IF n = 0 \/ x.last_added_frame = NullFrame
             THEN [frame |-> x.prediction.frame + 1, bits |-> NoBits]
             ELSE [frame |-> LastInput(x).frame + 1, bits |-> LastInput(x).bits]
        ELSE x.prediction
  BY <1>1 DEF GetInput, QueueType
<1>4. CASE n < Arrivals(x)
  <2>1. ~Predicting(x)
    <3>1. Predicting(x) => n > Arrivals(x)
      BY PredictionNow
    <3> QED BY <1>1, <1>4, <3>1
  <2>2. n \in Oldest(x) .. Arrivals(x) - 1
    BY <1>1, <1>4, Numbers
  <2>3. (n - TailFrame(x) + x.tail) % INPUT_QUEUE_LENGTH = n % L
    BY <1>1, TailRead
  <2>4. GetInputBits(x, n) = l[n]
    BY <1>1, <1>2, <1>4, <2>1, <2>2, <2>3, SlotRead DEF GetInputBits
  <2> QED BY <1>1, <1>2, <1>3, <1>4, <2>1, <2>4
<1>5. CASE n >= Arrivals(x)
  <2>1. ~InQueue(x, n)
    BY <1>1, <1>2, <1>5
  <2>2. GetInputBits(x, n) = GetInput(x, n).prediction.bits
    BY <2>1 DEF GetInputBits
  <2>3. CASE Predicting(x)
    BY <1>1, <1>3, <1>5, <2>2, <2>3, PredictionNow
  <2>4. CASE ~Predicting(x)
    <3>1. CASE Arrivals(x) = 0
      <4>1. x.last_added_frame = NullFrame
        BY <1>1, <3>1, Numbers DEF NullFrame
      <4>2. GetInput(x, n).prediction =
              [frame |-> x.prediction.frame + 1, bits |-> NoBits]
        BY <1>3, <2>1, <2>4, <4>1
      <4>3. x.prediction.frame = NullFrame
        BY <1>1, <2>4, PredictionNow
      <4> QED BY <1>1, <1>5, <2>2, <3>1, <4>2, <4>3 DEF NullFrame, LastBits
    <3>2. CASE Arrivals(x) > 0
      <4>1. n # 0 /\ x.last_added_frame # NullFrame
        BY <1>1, <1>5, <3>2, Numbers DEF NullFrame
      <4>2. GetInput(x, n).prediction =
              [frame |-> LastInput(x).frame + 1, bits |-> LastInput(x).bits]
        BY <1>3, <2>1, <2>4, <4>1
      <4> QED BY <1>1, <1>5, <2>2, <3>2, <4>2, LastRead
    <3> QED BY <1>1, <3>1, <3>2
  <2> QED BY <2>3, <2>4
<1> QED BY <1>1, <1>4, <1>5

LEMMA GetInputKeeps ==
  ASSUME NEW x, NEW n, NEW l, NEW p, NEW r, QueueInv(x, n, l, p),
         x.first_incorrect_frame = NullFrame, Oldest(x) <= n,
         \A f \in 0 .. n - 1 : r[f] = p[f], r[n] = GetInputBits(x, n)
  PROVE  /\ QueueInv(GetInput(x, n), n + 1, l, r)
         /\ r[n] = IF n < Arrivals(x) THEN l[n] ELSE LastBits(x, l)
<1> DEFINE y == GetInput(x, n)
<1>1. /\ Ring(x, l) /\ x \in QueueType /\ n \in Nat /\ Arrivals(x) \in Nat
      /\ n + 1 \in Nat
  BY Numbers DEF QueueInv
<1>2. /\ SameInputs(x, y) /\ y \in QueueType
      /\ y.first_incorrect_frame = NullFrame /\ y.last_frame_requested = n
  BY <1>1, GetInputFields, GetInputType
<1>3. /\ n < Arrivals(x) => /\ r[n] = l[n] /\ y.prediction = x.prediction
                            /\ ~Predicting(x)
      /\ n >= Arrivals(x) => /\ r[n] = LastBits(x, l)
                             /\ y.prediction = [frame |-> Arrivals(x),
                                                bits  |-> LastBits(x, l)]
  BY RequestedBits
<1> HIDE DEF y
<1>4. /\ Arrivals(y) = Arrivals(x) /\ LastBits(y, l) = LastBits(x, l) /\ Ring(y, l)
  BY <1>1, <1>2, SameRing
<1>5. /\ \A f \in 0 .. n - 1 : f < Arrivals(x) => l[f] = p[f]
      /\ \A f \in Arrivals(x) .. n - 1 : p[f] = LastBits(x, l)
  BY ContradictedDef DEF QueueInv, Consistent
<1>6. Contradicted(y, n + 1, l, r) = {}
  <2>1. \A f \in 0 .. n : f < Arrivals(x) => l[f] = r[f]
    BY <1>1, <1>3, <1>5
  <2>2. (n + 1) - 1 = n
    BY <1>1
  <2>3. \A f : f \in Contradicted(y, n + 1, l, r) => FALSE
    BY <1>4, <2>1, <2>2 DEF Contradicted
  <2> QED BY <2>3
<1>7. \A f \in Arrivals(x) .. n : r[f] = LastBits(x, l)
  BY <1>1, <1>3, <1>5
<1>8. n >= Arrivals(x) \/ ~Predicting(y)
  BY <1>1, <1>3 DEF Predicting
<1>9. Consistent(y, n + 1, l, r)
  <2>1. (n + 1) - 1 = n
    BY <1>1
  <2>2. IF n >= Arrivals(x)
        THEN y.prediction = [frame |-> Arrivals(x), bits |-> LastBits(x, l)]
        ELSE ~Predicting(y)
    BY <1>3, <1>8
  <2> QED BY <1>2, <1>4, <1>6, <1>7, <2>1, <2>2 DEF Consistent
<1>10. n < Arrivals(x) \/ n >= Arrivals(x)
  BY <1>1
<1> QED BY <1>1, <1>2, <1>3, <1>4, <1>9, <1>10 DEF QueueInv, y
-----------------------------------------------------------------------------
(* A rollback.                                                                *)

LEMMA ResetKeeps ==
  ASSUME NEW x, NEW n, NEW l, NEW p, NEW r, QueueInv(x, n, l, p),
         NEW k \in 0 .. n, ResetPredictionAsserts(x, k),
         \A f \in 0 .. k - 1 : r[f] = p[f]
  PROVE  QueueInv(ResetPrediction(x), k, l, r)
<1> DEFINE y == ResetPrediction(x)
<1>1. /\ Ring(x, l) /\ x \in QueueType /\ n \in Nat /\ k \in Nat /\ k <= n
      /\ Arrivals(x) \in Nat
  BY Numbers DEF QueueInv
<1>2. /\ SameInputs(x, y) /\ y \in QueueType
      /\ y.first_incorrect_frame = NullFrame
      /\ y.last_frame_requested = NullFrame
      /\ y.prediction.frame = NullFrame
  BY <1>1, ResetFields, ResetType
<1> HIDE DEF y
<1>3. /\ Arrivals(y) = Arrivals(x) /\ LastBits(y, l) = LastBits(x, l) /\ Ring(y, l)
  BY <1>1, <1>2, SameRing
<1>4. \A g \in Contradicted(x, n, l, p) : k <= g
  BY <1>1, ContradictedDef, Numbers
     DEF QueueInv, Consistent, ResetPredictionAsserts, NullFrame
<1>5. Contradicted(y, k, l, r) = {}
  <2>1. \A f : f \in Contradicted(y, k, l, r) =>
                 f \in 0 .. k - 1 /\ f < Arrivals(x) /\ l[f] # p[f]
    BY <1>3, ContradictedDef
  <2>2. \A f : f \in Contradicted(y, k, l, r) =>
                 f \in Contradicted(x, n, l, p) /\ f < k
    BY <1>1, <2>1, ContradictedDef
  <2>3. \A f : f \in Contradicted(y, k, l, r) => FALSE
    BY <1>1, <1>4, <2>1, <2>2
  <2> QED BY <2>3
<1>6. \A f \in Arrivals(x) .. k - 1 : r[f] = LastBits(x, l)
  <2>1. CASE x.first_incorrect_frame = NullFrame
    BY <1>1, <2>1 DEF QueueInv, Consistent
  <2>2. CASE x.first_incorrect_frame # NullFrame
    <3>1. x.first_incorrect_frame \in Contradicted(x, n, l, p)
      BY <2>2 DEF QueueInv, Consistent
    <3>2. k < Arrivals(x)
      BY <1>1, <1>4, <3>1, ContradictedDef
    <3> QED BY <1>1, <3>2
  <2> QED BY <2>1, <2>2
<1>7. ~(y.last_frame_requested >= Arrivals(x)) /\ ~Predicting(y)
  BY <1>1, <1>2 DEF NullFrame, Predicting
<1>8. Consistent(y, k, l, r)
  BY <1>2, <1>3, <1>5, <1>6, <1>7 DEF Consistent
<1> QED BY <1>1, <1>2, <1>3, <1>8 DEF QueueInv, y
-----------------------------------------------------------------------------
(* Frames discarded.                                                          *)

(* The ring alone, which also outlives the contract of its queue.             *)
LEMMA DiscardKeepsRing ==
  ASSUME NEW x \in QueueType, NEW l, Ring(x, l),
         NEW f \in Nat, DiscardTo(x, f) < x.last_added_frame,
         DiscardTo(x, f) >= Oldest(x) - 1
  PROVE  LET y == DiscardConfirmedFrames(x, f)
         IN  /\ y \in QueueType /\ Ring(y, l) /\ SamePrediction(x, y)
             /\ Arrivals(y) = Arrivals(x)
             /\ Oldest(y) = DiscardTo(x, f) + 1
<1> DEFINE y == DiscardConfirmedFrames(x, f)
           k == DiscardTo(x, f)
<1>1. Arrivals(x) \in Nat /\ Oldest(x) \in Nat
  BY Numbers
<1>2. /\ k \in Int /\ k < Arrivals(x) - 1 /\ k >= Oldest(x) - 1
      /\ k < x.last_added_frame
  BY <1>1, Numbers DEF DiscardTo, NullFrame
<1>3. Discarded(x, k, y) /\ SamePrediction(x, y) /\ y \in QueueType
  BY <1>1, DiscardFields, DiscardType
<1> HIDE DEF k, y
<1>4. /\ Arrivals(y) = Arrivals(x)
      /\ y.head = x.head /\ y.first_frame = x.first_frame /\ y.inputs = x.inputs
      /\ y.tail = (x.tail + (k - Oldest(x) + 1)) % L
      /\ y.length = x.length - (k - Oldest(x) + 1)
  BY <1>1, <1>2, <1>3, TailRead DEF Discarded, Arrivals, L
<1>5. Oldest(y) = k + 1
  BY <1>1, <1>2, <1>4, Numbers DEF Oldest
<1>6. y.tail = (k + 1) % L
  <2>1. x.tail = Oldest(x) % L
    BY <1>1 DEF Ring
  <2>2. ((Oldest(x) % L) + (k - Oldest(x) + 1)) % L
          = (Oldest(x) + (k - Oldest(x) + 1)) % L
    <3> DEFINE a == Oldest(x)
               b == k - Oldest(x) + 1
    <3>1. a \in Int /\ b \in Int
      BY <1>1, <1>2
    <3> HIDE DEF a, b
    <3>2. ((a % L) + b) % L = (a + b) % L
      BY <3>1, AddSlots
    <3> QED BY <3>2 DEF a, b
  <2>3. Oldest(x) + (k - Oldest(x) + 1) = k + 1
    BY <1>1, <1>2
  <2> QED BY <1>4, <2>1, <2>2, <2>3
<1>7. /\ y.length \in 0 .. L /\ y.length <= Arrivals(x)
      /\ y.length # 0 /\ Arrivals(x) # 0
  <2>1. /\ x.length \in Nat /\ x.length <= L /\ x.length = Arrivals(x) - Oldest(x)
        /\ L \in Nat
    BY <1>1, Numbers, LengthType
  <2> HIDE DEF L
  <2> QED BY <1>1, <1>2, <1>4, <2>1
<1>8. \A g \in k + 1 .. Arrivals(x) - 1 : HasConfirmed(y, g) /\ ConfirmedBits(y, g) = l[g]
  <2>1. \A g \in k + 1 .. Arrivals(x) - 1 : g \in Oldest(x) .. Arrivals(x) - 1
    BY <1>1, <1>2
  <2> QED BY <1>1, <1>4, <2>1 DEF Ring, HasConfirmed, ConfirmedBits
<1>9. Ring(y, l)
  BY <1>1, <1>4, <1>5, <1>6, <1>7, <1>8 DEF Ring
<1> QED BY <1>3, <1>4, <1>5, <1>9 DEF y, k

LEMMA DiscardKeeps ==
  ASSUME NEW x, NEW n, NEW l, NEW p, QueueInv(x, n, l, p),
         NEW f \in Nat, f < x.last_added_frame, DiscardTo(x, f) >= Oldest(x) - 1
  PROVE  LET y == DiscardConfirmedFrames(x, f)
         IN  /\ QueueInv(y, n, l, p) /\ SamePrediction(x, y)
             /\ Arrivals(y) = Arrivals(x)
             /\ Oldest(y) = DiscardTo(x, f) + 1
<1> DEFINE y == DiscardConfirmedFrames(x, f)
           k == DiscardTo(x, f)
<1>1. Ring(x, l) /\ x \in QueueType /\ n \in Nat
  BY DEF QueueInv
<1>2. k < x.last_added_frame
  BY <1>1, Numbers DEF DiscardTo, NullFrame
<1>3. /\ y \in QueueType /\ Ring(y, l) /\ SamePrediction(x, y)
      /\ Arrivals(y) = Arrivals(x) /\ Oldest(y) = k + 1
  BY <1>1, <1>2, DiscardKeepsRing
<1> HIDE DEF k, y
<1>4. LastBits(y, l) = LastBits(x, l) /\ Contradicted(y, n, l, p) = Contradicted(x, n, l, p)
  BY <1>3 DEF LastBits, Contradicted
<1>5. Consistent(y, n, l, p)
  BY <1>3, <1>4 DEF QueueInv, Consistent, SamePrediction, Predicting
<1>6. l \in [0 .. Arrivals(y) - 1 -> Bits]
  BY <1>3 DEF QueueInv
<1> QED BY <1>1, <1>3, <1>5, <1>6 DEF QueueInv, y, k
-----------------------------------------------------------------------------
(* An input added.                                                            *)

(* The log after the frames up to target have been added.                     *)
LogAfter(x, bits, target, l) ==
    [f \in 0 .. target |-> IF f <= x.last_added_frame THEN l[f]
                           ELSE DelayedBits(x, bits, target, f)]

LEMMA LogAfterType ==
  ASSUME NEW x \in QueueType, NEW bits \in Bits, NEW target \in Nat,
         NEW l \in [0 .. Arrivals(x) - 1 -> Bits]
  PROVE  LogAfter(x, bits, target, l) \in [0 .. target -> Bits]
<1>1. \A f : DelayedBits(x, bits, target, f) \in Bits
  BY LastInputType DEF DelayedBits, GameInput
<1>2. \A f \in 0 .. target : f <= x.last_added_frame => f \in 0 .. Arrivals(x) - 1
  BY DEF Arrivals, QueueType, Frames, NullFrame
<1> QED BY <1>1, <1>2 DEF LogAfter

(* The ring after the frames have been written.                               *)
LEMMA AddedRing ==
  ASSUME NEW x \in QueueType, NEW y, NEW l, Ring(x, l),
         NEW bits \in Bits, NEW target \in Nat, target >= Arrivals(x),
         x.length + target - Arrivals(x) + 1 <= L,
         Added(x, bits, target, y)
  PROVE  /\ Ring(y, LogAfter(x, bits, target, l))
         /\ Arrivals(y) = target + 1 /\ Oldest(y) = Oldest(x)
<1>1. /\ Arrivals(x) \in Nat /\ Oldest(x) \in Nat /\ Oldest(x) <= Arrivals(x)
      /\ x.length = Arrivals(x) - Oldest(x) /\ x.last_added_frame = Arrivals(x) - 1
      /\ ExpectedFrame(x) = Arrivals(x)
      /\ L \in Nat \ {0}
  BY Numbers, LastRead, LengthType
<1> DEFINE a == Arrivals(x)
           count == target - a + 1
           m == LogAfter(x, bits, target, l)
<1>2. count \in Nat \ {0} /\ x.length + count <= L
  BY <1>1, Numbers
<1>3. /\ y.tail = x.tail /\ y.head = (x.head + count) % L
      /\ y.length = x.length + count
      /\ ~y.first_frame /\ y.last_added_frame = target
  BY <1>1 DEF Added, L
<1>4. \A s \in Slots :
        y.inputs[s] =
          IF (s - x.head) % L < count
          THEN [frame |-> a + ((s - x.head) % L),
                bits  |-> DelayedBits(x, bits, target, a + ((s - x.head) % L))]
          ELSE x.inputs[s]
  BY <1>1 DEF Added, L
<1>5. Arrivals(y) = target + 1 /\ Oldest(y) = Oldest(x)
  <2>1. Arrivals(y) = target + 1
    BY <1>3 DEF Arrivals
  <2>2. Oldest(y) = Arrivals(y) - y.length
    BY DEF Oldest
  <2>3. y.length = a - Oldest(x) + (target - a + 1)
    BY <1>1, <1>3
  <2> DEFINE length == a - Oldest(x) + (target - a + 1)
  <2>4. (target + 1) - length = Oldest(x)
    BY <1>1
  <2> HIDE DEF length
  <2>5. Oldest(y) = (target + 1) - length
    BY <2>1, <2>2, <2>3 DEF length
  <2> QED BY <2>1, <2>4, <2>5
<1>6. \A f \in 0 .. target : m[f] = IF f < a THEN l[f] ELSE DelayedBits(x, bits, target, f)
  BY <1>1 DEF LogAfter
<1> HIDE DEF count, m, a
<1> USE DEF a
<1>7. ASSUME NEW f \in Oldest(x) .. target
      PROVE  HasConfirmed(y, f) /\ ConfirmedBits(y, f) = m[f]
  <2> DEFINE s == f % L
             d == f - a
  <2>1. s \in Slots /\ d \in Int /\ f \in Int /\ f \in 0 .. target
    BY <1>1, ModRange DEF Slots, L
  <2>2. (s - x.head) % L = d % L
    <3>1. x.head = a % L
      BY <1>1 DEF Ring
    <3>2. f \in Int /\ a \in Int
      BY <1>1, <2>1
    <3>3. ((f % L) - (a % L)) % L = (f - a) % L
      BY <3>2, SlotOffset
    <3> QED BY <3>1, <3>3
  <2>3. CASE f >= a
    <3>1. d \in 0 .. L - 1 /\ d < count
      BY <1>1, <1>2, <2>3, Numbers DEF count
    <3>2. (s - x.head) % L = d
      BY <2>2, <3>1, ModNear
    <3>3. a + d = f
      BY <1>1
    <3> HIDE DEF d, s
    <3>4. y.inputs[s] = [frame |-> f, bits |-> DelayedBits(x, bits, target, f)]
      BY <1>4, <2>1, <3>1, <3>2, <3>3
    <3>5. m[f] = DelayedBits(x, bits, target, f)
      BY <1>1, <1>6, <2>1, <2>3
    <3> QED BY <3>4, <3>5 DEF HasConfirmed, ConfirmedBits, s, L
  <2>4. CASE f < a
    <3>1. d \in -L .. -1 /\ d + L >= count
      BY <1>1, <1>2, <2>4 DEF count
    <3>2. (s - x.head) % L = d + L
      BY <2>2, <3>1, ModNear
    <3>3. ~((s - x.head) % L < count)
      BY <1>1, <1>2, <2>1, <3>1, <3>2
    <3> HIDE DEF d, s
    <3>4. y.inputs[s] = x.inputs[s]
      BY <1>4, <2>1, <3>3
    <3>5. x.inputs[s].frame = f /\ x.inputs[s].bits = l[f]
      BY <1>1, <2>4, SlotRead DEF s
    <3>6. m[f] = l[f]
      BY <1>1, <1>6, <2>1, <2>4
    <3> QED BY <3>4, <3>5, <3>6 DEF HasConfirmed, ConfirmedBits, s, L
  <2> QED BY <1>1, <2>3, <2>4
<1>8. y.head = (target + 1) % L
  <2>1. x.head = a % L
    BY <1>1 DEF Ring
  <2>2. ((a % L) + count) % L = (a + count) % L
    <3>1. a \in Int /\ count \in Int
      BY <1>1, <1>2
    <3> QED BY <3>1, AddSlots
  <2>3. a + count = target + 1
    BY <1>1 DEF count
  <2> QED BY <1>3, <2>1, <2>2, <2>3
<1>9. /\ y.length \in 0 .. L /\ y.length # 0 /\ y.length <= target + 1
      /\ target + 1 # 0 /\ (target + 1) - 1 = target
  BY <1>1, <1>2, <1>3, Numbers DEF count
<1>10. y.tail = Oldest(x) % L
  BY <1>1, <1>3 DEF Ring
<1>11. Ring(y, m)
  BY <1>3, <1>5, <1>7, <1>8, <1>9, <1>10 DEF Ring
<1> QED BY <1>5, <1>11 DEF m

(* What AddInput finds when it compares the new frames with the prediction.   *)
LEMMA ComparedFrames ==
  ASSUME NEW x, NEW n, NEW l, NEW p, QueueInv(x, n, l, p),
         x.last_frame_requested = n - 1,
         NEW bits \in Bits, NEW target \in Nat, target >= Arrivals(x),
         x.first_incorrect_frame = NullFrame
  PROVE  FirstIncorrectOf(x, bits, target) =
           IF target < n /\ bits # LastBits(x, l) THEN target ELSE NullFrame
<1>1. /\ Ring(x, l) /\ x \in QueueType /\ n \in Nat
  BY DEF QueueInv
<1>2. /\ ExpectedFrame(x) = Arrivals(x) /\ Arrivals(x) \in Nat
      /\ LastInput(x).bits = LastBits(x, l)
  BY <1>1, Numbers, LastRead
<1>3. CASE ~Predicting(x)
  <2>1. n <= Arrivals(x)
    BY <1>1, <1>2, <1>3 DEF QueueInv, Consistent, Predicting, NullFrame
  <2> QED BY <1>1, <1>2, <1>3, <2>1 DEF FirstIncorrectOf
<1>4. CASE Predicting(x)
  <2>1. n > Arrivals(x) /\ x.prediction.bits = LastBits(x, l)
    <3>1. Predicting(x) => /\ n > Arrivals(x)
                           /\ x.prediction = [frame |-> Arrivals(x),
                                              bits  |-> LastBits(x, l)]
      BY PredictionNow
    <3> QED BY <1>4, <3>1
  <2>2. \A f : DelayedBits(x, bits, target, f) # x.prediction.bits
                 <=> f = target /\ bits # LastBits(x, l)
    BY <1>2, <2>1 DEF DelayedBits
  <2>3. x.last_frame_requested \notin Arrivals(x) .. target - 1 <=> target < n
    BY <1>1, <1>2, <2>1
  <2> QED BY <1>1, <1>2, <1>4, <2>1, <2>2, <2>3 DEF FirstIncorrectOf
<1> QED BY <1>3, <1>4

(* After the last frame requested is the last one played, an input added      *)
(* finds the misprediction that it causes, if it does.                        *)
LEMMA AddKeeps ==
  ASSUME NEW x, NEW n, NEW l, NEW p, QueueInv(x, n, l, p),
         x.last_frame_requested = n - 1,
         NEW frame \in Nat, NEW bits \in Bits,
         NEW target, target = TargetFrame(x, frame), target # NullFrame,
         x.length + target - ExpectedFrame(x) + 1 <= L
  PROVE  LET y == AddInput(x, frame, bits)
             m == LogAfter(x, bits, target, l)
         IN  /\ QueueInv(y, n, m, p)
             /\ target \in Nat /\ target >= Arrivals(x)
             /\ Arrivals(y) = target + 1 /\ Oldest(y) = Oldest(x)
             /\ y.last_frame_requested = x.last_frame_requested
             /\ m = [f \in 0 .. target |-> IF f < Arrivals(x) THEN l[f]
                                           ELSE IF f < target THEN LastBits(x, l)
                                           ELSE bits]
             /\ y.first_incorrect_frame \in {x.first_incorrect_frame, target}
<1> DEFINE y == AddInput(x, frame, bits)
           m == LogAfter(x, bits, target, l)
           a == Arrivals(x)
           last == LastBits(x, l)
<1>1. /\ Ring(x, l) /\ x \in QueueType /\ n \in Nat
      /\ l \in [0 .. Arrivals(x) - 1 -> Bits]
  BY DEF QueueInv
<1>2. /\ a \in Nat /\ x.last_added_frame = a - 1
      /\ ExpectedFrame(x) = a
      /\ LastInput(x).bits = last
      /\ x.first_incorrect_frame \in Nat \cup {-1}
      /\ x.length \in Nat
  BY <1>1, Numbers, LastRead
<1>3. target \in Nat /\ target >= a
  BY <1>1, <1>2, TargetType
<1>4. x.length + target - a + 1 <= L
  BY <1>2
<1>5. Added(x, bits, target, y) /\ y \in QueueType
  BY <1>1, AddInputFields, AddInputType
<1>6. m \in [0 .. target -> Bits]
  BY <1>1, <1>3, LogAfterType
<1>7. m = [f \in 0 .. target |-> IF f < a THEN l[f]
                                 ELSE IF f < target THEN last ELSE bits]
  <2>1. \A f \in 0 .. target :
          /\ f <= x.last_added_frame <=> f < a
          /\ DelayedBits(x, bits, target, f) = IF f < target THEN last ELSE bits
    BY <1>2, <1>3 DEF DelayedBits
  <2> HIDE DEF a, last
  <2> QED BY <2>1 DEF LogAfter
<1> HIDE DEF y
<1>8. Ring(y, m) /\ Arrivals(y) = target + 1 /\ Oldest(y) = Oldest(x)
  BY <1>1, <1>3, <1>4, <1>5, AddedRing
<1> HIDE DEF m, a, last
<1>9. LastBits(y, m) = bits
  <2>1. target \in 0 .. target /\ ~(target < a) /\ ~(target < target)
    BY <1>2, <1>3
  <2>2. m[target] = bits
    BY <1>7, <2>1
  <2>3. (target + 1) - 1 = target /\ target + 1 # 0
    BY <1>3
  <2> QED BY <1>8, <2>2, <2>3 DEF LastBits
<1>10. /\ y.last_frame_requested = n - 1
       /\ y.first_incorrect_frame = FirstIncorrectOf(x, bits, target)
       /\ y.prediction =
            [frame |-> IF \/ ~Predicting(x)
                          \/ /\ y.first_incorrect_frame = NullFrame
                             /\ x.last_frame_requested \in a .. target
                       THEN NullFrame
                       ELSE target + 1,
             bits |-> x.prediction.bits]
  BY <1>2, <1>5 DEF Added
<1>11. \A f : f \in Contradicted(y, n, m, p) <=>
                 f \in 0 .. n - 1 /\ f <= target /\ m[f] # p[f]
  BY <1>1, <1>3, <1>8 DEF Contradicted
<1>12. \A f \in 0 .. n - 1 : f < a => m[f] = l[f]
  BY <1>1, <1>2, <1>3, <1>7
<1>13. ASSUME x.first_incorrect_frame # NullFrame
       PROVE  /\ Consistent(y, n, m, p)
              /\ y.first_incorrect_frame = x.first_incorrect_frame
  <2> DEFINE fi == x.first_incorrect_frame
  <2>1. y.first_incorrect_frame = fi
    BY <1>10, <1>13 DEF FirstIncorrectOf
  <2>2. /\ fi \in Contradicted(x, n, l, p)
        /\ \A g \in Contradicted(x, n, l, p) : fi <= g
        /\ Predicting(x)
    BY <1>2, <1>13 DEF QueueInv, Consistent, Predicting, NullFrame, a
  <2>3. \A f : f \in Contradicted(x, n, l, p) <=> f \in 0 .. n - 1 /\ f < a /\ l[f] # p[f]
    BY ContradictedDef DEF a
  <2>4. fi \in Contradicted(y, n, m, p)
    <3>1. fi \in 0 .. n - 1 /\ fi < a /\ l[fi] # p[fi]
      BY <2>2, <2>3
    <3>2. fi <= target /\ m[fi] = l[fi]
      BY <1>2, <1>3, <1>12, <3>1
    <3> QED BY <1>11, <3>1, <3>2
  <2>5. \A g \in Contradicted(y, n, m, p) : fi <= g
    <3> SUFFICES ASSUME NEW g \in Contradicted(y, n, m, p) PROVE fi <= g
      OBVIOUS
    <3>1. g \in 0 .. n - 1 /\ g <= target /\ m[g] # p[g]
      BY <1>11
    <3>2. CASE g < a
      BY <1>12, <2>2, <2>3, <3>1, <3>2
    <3>3. CASE ~(g < a)
      BY <1>1, <1>2, <2>2, <2>3, <3>1, <3>3
    <3> QED BY <3>2, <3>3
  <2>6. y.prediction.frame = Arrivals(y)
    BY <1>8, <1>10, <1>13, <2>1, <2>2
  <2> QED BY <1>10, <1>13, <2>1, <2>4, <2>5, <2>6 DEF Consistent
<1>14. ASSUME x.first_incorrect_frame = NullFrame
       PROVE  /\ Consistent(y, n, m, p)
              /\ y.first_incorrect_frame \in {NullFrame, target}
  <2>1. y.first_incorrect_frame =
          IF target < n /\ bits # last THEN target ELSE NullFrame
    BY <1>3, <1>10, <1>14, ComparedFrames DEF a, last
  <2>2. /\ \A f \in 0 .. n - 1 : f < a => l[f] = p[f]
        /\ \A f \in a .. n - 1 : p[f] = last
    BY <1>14, ContradictedDef DEF QueueInv, Consistent, a, last
  <2>3. \A f : f \in Contradicted(y, n, m, p) <=>
                 f = target /\ target < n /\ bits # last
    <3>1. ASSUME NEW f \in 0 .. n - 1, f <= target
          PROVE  m[f] # p[f] <=> f = target /\ bits # last
      <4>1. CASE f < a
        BY <1>2, <1>3, <1>12, <2>2, <4>1
      <4>2. CASE f >= a
        <5>1. p[f] = last
          BY <1>1, <1>2, <2>2, <4>2
        <5>2. m[f] = IF f < target THEN last ELSE bits
          BY <1>1, <1>2, <1>3, <1>7, <3>1, <4>2
        <5> QED BY <1>3, <3>1, <5>1, <5>2
      <4> QED BY <1>1, <1>2, <4>1, <4>2
    <3> QED BY <1>1, <1>3, <1>11, <3>1
  <2>4. CASE y.first_incorrect_frame = NullFrame
    <3>1. target < n => bits = last
      BY <1>3, <2>1, <2>4 DEF NullFrame
    <3>2. \A f \in target + 1 .. n - 1 : p[f] = bits
      BY SMTT(60), <1>1, <1>2, <1>3, <2>2, <3>1
    <3>3. IF n - 1 >= target + 1
          THEN y.prediction = [frame |-> target + 1, bits |-> bits]
          ELSE y.prediction.frame = NullFrame
      <4>1. CASE n - 1 < a
        <5>1. ~Predicting(x)
          <6>1. Predicting(x) => n > Arrivals(x)
            BY <1>14, PredictionNow
          <6> QED BY <1>1, <1>2, <4>1, <6>1 DEF a
        <5>2. y.prediction.frame = NullFrame
          BY <1>10, <5>1
        <5> QED BY <1>1, <1>2, <1>3, <4>1, <5>2
      <4>2. CASE n - 1 >= a
        <5>1. Predicting(x) /\ x.prediction.bits = last
          BY <1>1, <1>2, <1>14, <4>2
             DEF QueueInv, Consistent, Predicting, NullFrame, a, last
        <5>2. CASE n - 1 <= target
          <6>1. x.last_frame_requested \in a .. target
            BY <1>1, <1>2, <1>3, <4>2, <5>2
          <6>2. y.prediction.frame = NullFrame
            BY <1>10, <2>4, <6>1
          <6> QED BY <1>1, <1>3, <5>2, <6>2
        <5>3. CASE n - 1 > target
          <6>1. x.last_frame_requested \notin a .. target
            BY <1>1, <1>2, <1>3, <5>3
          <6>2. y.prediction = [frame |-> target + 1, bits |-> x.prediction.bits]
            BY <1>10, <5>1, <6>1
          <6>3. target < n
            BY <1>1, <1>3, <5>3
          <6> QED BY <1>1, <1>3, <3>1, <5>1, <5>3, <6>2, <6>3
        <5> QED BY <1>1, <1>3, <5>2, <5>3
      <4> QED BY <1>1, <1>2, <4>1, <4>2
    <3>4. Contradicted(y, n, m, p) = {}
      BY <1>3, <2>1, <2>3, <2>4 DEF NullFrame
    <3>5. IF y.last_frame_requested >= Arrivals(y)
          THEN y.prediction = [frame |-> Arrivals(y), bits |-> LastBits(y, m)]
          ELSE ~Predicting(y)
      BY <1>8, <1>9, <1>10, <3>3 DEF Predicting
    <3> QED BY <1>8, <1>9, <1>10, <2>4, <3>2, <3>4, <3>5 DEF Consistent
  <2>5. CASE y.first_incorrect_frame # NullFrame
    <3>1. /\ target < n /\ y.first_incorrect_frame = target /\ bits # last
      BY <2>1, <2>5
    <3>2. Predicting(x)
      BY <1>1, <1>2, <1>3, <1>14, <3>1
         DEF QueueInv, Consistent, Predicting, NullFrame, a
    <3>3. y.prediction.frame = Arrivals(y)
      BY <1>8, <1>10, <2>5, <3>2
    <3>4. /\ target \in Contradicted(y, n, m, p)
          /\ \A g \in Contradicted(y, n, m, p) : target <= g
      BY <1>3, <2>3, <3>1
    <3> QED BY <1>10, <2>5, <3>1, <3>3, <3>4 DEF Consistent
  <2> QED BY <2>1, <2>4, <2>5
<1>15. Consistent(y, n, m, p) /\ y.first_incorrect_frame \in {x.first_incorrect_frame, target}
  BY <1>13, <1>14
<1>16. m \in [0 .. Arrivals(y) - 1 -> Bits]
  <2>1. (target + 1) - 1 = target
    BY <1>3
  <2> QED BY <1>6, <1>8, <2>1
<1> QED BY <1>1, <1>3, <1>5, <1>7, <1>8, <1>10, <1>15, <1>16 DEF QueueInv, y, m, a, last
-----------------------------------------------------------------------------
(* The ASSERTs that the invariant implies.                                    *)

LEMMA AddAssertsFollow ==
  ASSUME NEW x, NEW n, NEW l, NEW p, QueueInv(x, n, l, p), NEW frame \in Nat
  PROVE  /\ ExpectedFrame(x) = x.last_added_frame + 1
         /\ Predicting(x) => ExpectedFrame(x) = x.prediction.frame
<1>1. x \in QueueType /\ Ring(x, l)
  BY DEF QueueInv
<1>2. ExpectedFrame(x) = Arrivals(x)
  BY <1>1, LastRead
<1> QED BY <1>2 DEF QueueInv, Consistent, Predicting, Arrivals

LEMMA GetInputAssertsFollow ==
  ASSUME NEW x, NEW n, NEW l, NEW p, QueueInv(x, n, l, p),
         x.first_incorrect_frame = NullFrame
  PROVE  GetInputAsserts(x, n) <=> Oldest(x) <= n
<1>1. /\ x \in QueueType /\ Ring(x, l) /\ n \in Nat /\ n \in Int
  BY DEF QueueInv
<1>2. /\ TailFrame(x) = Oldest(x)
      /\ InQueue(x, n) <=> n < Arrivals(x)
      /\ (n - TailFrame(x) + x.tail) % INPUT_QUEUE_LENGTH = n % L
      /\ Arrivals(x) \in Nat /\ Oldest(x) \in Nat
  BY <1>1, TailRead, Numbers
<1>3. GetInputAsserts(x, n) => Oldest(x) <= n
  BY <1>1, <1>2 DEF GetInputAsserts
<1>4. ASSUME Oldest(x) <= n PROVE GetInputAsserts(x, n)
  <2>1. /\ n < Arrivals(x) => ~Predicting(x)
        /\ n >= Arrivals(x) => GetInput(x, n).prediction.frame >= 0
    <3>1. n < Arrivals(x) => ~Predicting(x)
      BY <1>4, RequestedBits
    <3>2. n >= Arrivals(x) => GetInput(x, n).prediction =
                                [frame |-> Arrivals(x), bits |-> LastBits(x, l)]
      BY <1>4, RequestedBits
    <3> QED BY <1>2, <3>1, <3>2
  <2>2. n < Arrivals(x) => x.inputs[n % L].frame = n
    BY <1>1, <1>2, <1>4, SlotRead
  <2>3. n < Arrivals(x) \/ n >= Arrivals(x)
    BY <1>1, <1>2
  <2> QED BY <1>1, <1>2, <1>4, <2>1, <2>2, <2>3 DEF GetInputAsserts
<1> QED BY <1>3, <1>4

LEMMA DiscardAssertsRing ==
  ASSUME NEW x \in QueueType, NEW l, Ring(x, l),
         NEW f \in Nat, DiscardTo(x, f) < x.last_added_frame
  PROVE  DiscardConfirmedFramesAsserts(x, f) <=> DiscardTo(x, f) >= Oldest(x) - 1
<1> DEFINE k == DiscardTo(x, f)
<1>1. /\ TailFrame(x) = Oldest(x) /\ Arrivals(x) \in Nat /\ Oldest(x) \in Nat
      /\ x.length = Arrivals(x) - Oldest(x) /\ x.last_added_frame = Arrivals(x) - 1
  BY Numbers, TailRead
<1>2. /\ k \in Int /\ k < x.last_added_frame
  BY <1>1, Numbers DEF DiscardTo, NullFrame
<1>3. Discarded(x, k, DiscardConfirmedFrames(x, f))
  BY DiscardFields
<1> HIDE DEF k
<1>4. DiscardConfirmedFrames(x, f).length = x.length - (k - Oldest(x) + 1)
  BY <1>1, <1>2, <1>3 DEF Discarded
<1> QED BY <1>1, <1>2, <1>4 DEF DiscardConfirmedFramesAsserts, k

LEMMA DiscardAssertsFollow ==
  ASSUME NEW x, NEW n, NEW l, NEW p, QueueInv(x, n, l, p),
         NEW f \in Nat, f < x.last_added_frame
  PROVE  DiscardConfirmedFramesAsserts(x, f) <=> DiscardTo(x, f) >= Oldest(x) - 1
<1>1. x \in QueueType /\ Ring(x, l)
  BY DEF QueueInv
<1>2. DiscardTo(x, f) < x.last_added_frame
  BY <1>1, Numbers DEF DiscardTo, NullFrame
<1> QED BY <1>1, <1>2, DiscardAssertsRing
=============================================================================
