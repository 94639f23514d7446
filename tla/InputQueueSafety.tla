--------------------------- MODULE InputQueueSafety ---------------------------
(***************************************************************************)
(* Theorems about InputQueueClient, for a ring of any length, any set of    *)
(* inputs, any set of frame delays and any number of frames: its inductive  *)
(* invariant, what follows from it, and that the queue implements           *)
(* InputTimeline.  The lemmas about the queue's functions are those of      *)
(* InputQueueProofs.                                                        *)
(***************************************************************************)
EXTENDS InputQueueClient, InputQueueProofs

USE InputQueueAssumption, ClientAssumption
-----------------------------------------------------------------------------
(* Typing is inductive on its own.                                            *)

LEMMA TypeInit == Init => TypeOK
<1> SUFFICES ASSUME Init PROVE TypeOK
  OBVIOUS
<1>1. q \in QueueType /\ Arrived = 0 /\ framecount = 0
  BY InitQueueType DEF Init, InitQueue, Arrived, NullFrame
<1>2. log \in [0 .. Arrived - 1 -> Bits] /\ played \in [0 .. framecount - 1 -> Bits]
  BY <1>1 DEF Init
<1> QED BY <1>1, <1>2 DEF TypeOK

LEMMA UserFrameType ==
  ASSUME TypeOK, NEW frame, CanAdd(frame)
  PROVE  frame \in Nat
  BY DEF TypeOK, QueueType, CanAdd, NextUserFrames, Frames, NullFrame

LEMMA TypeStep == TypeOK /\ [Next]_vars => TypeOK'
<1> SUFFICES ASSUME TypeOK, [Next]_vars PROVE TypeOK'
  OBVIOUS
<1> USE DEF TypeOK
<1>0. Arrived \in Nat /\ q.last_added_frame = Arrived - 1
  BY DEF Arrived, QueueType, Frames, NullFrame
<1>1. ASSUME NEW frame \in 0 .. MaxFrame, NEW bits \in Bits, Add(frame, bits)
      PROVE  TypeOK'
  <2> DEFINE target == TargetFrame(q, frame)
  <2>1. frame \in Nat /\ q' \in QueueType
    BY <1>1, UserFrameType, AddInputType DEF Add
  <2>2. CASE target = NullFrame
    <3>1. Arrived' = Arrived
      BY <1>1, <2>1, <2>2, DroppedInputFields DEF Add, Arrived, SameInputs
    <3>2. log' = log /\ framecount' = framecount /\ played' = played
      BY <1>1, <2>2 DEF Add
    <3> QED BY <2>1, <3>1, <3>2
  <2>3. CASE target # NullFrame
    <3>1. Arrived' - 1 = target /\ target \in Nat
      <4>1. AddInput(q, frame, bits).last_added_frame = target
        <5>1. Added(q, bits, target, AddInput(q, frame, bits))
          BY <2>1, <2>3, AddInputFields
        <5> QED BY <5>1 DEF Added
      <4>2. target \in Nat
        BY <2>1, <2>3, TargetType
      <4> HIDE DEF target
      <4> QED BY <1>1, <4>1, <4>2 DEF Add, Arrived
    <3>2. log' = LogAfter(q, bits, target, log)
      BY <1>1, <2>3 DEF Add, LogAfter
    <3> HIDE DEF target
    <3>3. log' \in [0 .. target -> Bits]
      BY <3>1, <3>2, LogAfterType DEF Arrived, Arrivals
    <3> QED BY <1>1, <2>1, <3>1, <3>3 DEF Add
  <2> QED BY <2>2, <2>3
<1>2. CASE Request
  <2>1. /\ q' \in QueueType /\ GetInputBits(q, framecount) \in Bits
        /\ Arrived' = Arrived
    BY <1>2, GetInputType, GetInputFields DEF Request, Arrived, SameInputs
  <2>2. played' \in [0 .. framecount -> Bits]
    BY <1>2, <2>1 DEF Request
  <2> QED BY <1>2, <2>1, <2>2 DEF Request
<1>3. ASSUME NEW to \in 0 .. framecount - 1, Rollback(to)
      PROVE  TypeOK'
  <2>1. q' \in QueueType /\ Arrived' = Arrived
    BY <1>3, ResetType, ResetFields DEF Rollback, Arrived, SameInputs
  <2>2. played' \in [0 .. to - 1 -> Bits]
    BY <1>3 DEF Rollback
  <2> QED BY <1>3, <2>1, <2>2 DEF Rollback
<1>4. ASSUME NEW f \in 0 .. q.last_added_frame, Discard(f)
      PROVE  TypeOK'
  <2>1. f \in Nat
    BY <1>0
  <2>2. q' \in QueueType /\ Arrived' = Arrived
    BY <1>4, <2>1, DiscardType, DiscardFields DEF Discard, Arrived, Discarded
  <2> QED BY <1>4, <2>2 DEF Discard
<1>5. ASSUME NEW delay \in FrameDelays, ChangeDelay(delay)
      PROVE  TypeOK'
  BY <1>5, DelayFields DEF ChangeDelay, Arrived, SameInputs
<1>6. CASE UNCHANGED vars
  BY <1>6 DEF vars, Arrived
<1> QED BY <1>1, <1>2, <1>3, <1>4, <1>5, <1>6 DEF Next

(* Every field of the queue, the frame counter and the two histories keep     *)
(* their types: no cursor leaves the ring, no frame number goes below Null.   *)
THEOREM TypeCorrect == Spec => []TypeOK
  BY TypeInit, TypeStep, PTL DEF Spec
-----------------------------------------------------------------------------
(* The invariant in the terms of InputQueueProofs, in both states of a step.  *)

ClientInv ==
    /\ played \in [0 .. framecount - 1 -> Bits]
    /\ QueueInv(q, framecount, log, played)
    /\ Floor <= framecount
    /\ q.first_incorrect_frame # NullFrame => q.first_incorrect_frame >= Floor

LEMMA SameNames ==
  /\ Arrived = Arrivals(q) /\ Floor = Oldest(q)
  /\ Timeline!LastBits = LastBits(q, log)
  /\ Timeline!Mispredicted = Contradicted(q, framecount, log, played)
  BY DEF Arrived, Arrivals, Floor, Oldest, Timeline!LastBits, LastBits,
     Timeline!Mispredicted, Contradicted

LEMMA SameNamesNext ==
  /\ Arrived' = Arrivals(q') /\ Floor' = Oldest(q')
  /\ Timeline!LastBits' = LastBits(q', log')
  /\ Timeline!Mispredicted' = Contradicted(q', framecount', log', played')
  BY DEF Arrived, Arrivals, Floor, Oldest, Timeline!LastBits, LastBits,
     Timeline!Mispredicted, Contradicted

LEMMA SameInvariant == IInv <=> ClientInv
<1>1. TypeOK <=> /\ q \in QueueType /\ framecount \in Nat
                 /\ log \in [0 .. Arrivals(q) - 1 -> Bits]
                 /\ played \in [0 .. framecount - 1 -> Bits]
  BY SameNames DEF TypeOK
<1>2. RingInv <=> Ring(q, log)
  BY SameNames DEF RingInv, Ring, ConfirmedAvailable, L
<1>3. ASSUME TypeOK
      PROVE  PredictionInv /\ MispredictionCaught <=>
               /\ Consistent(q, framecount, log, played)
               /\ Floor <= framecount
               /\ q.first_incorrect_frame # NullFrame =>
                    q.first_incorrect_frame >= Floor
  <2>1. \A f \in Contradicted(q, framecount, log, played) : f \in Nat
    BY DEF Contradicted
  <2>2. MispredictionCaught <=>
          /\ q.first_incorrect_frame = NullFrame =>
               Contradicted(q, framecount, log, played) = {}
          /\ q.first_incorrect_frame # NullFrame =>
               /\ q.first_incorrect_frame \in Contradicted(q, framecount, log, played)
               /\ \A g \in Contradicted(q, framecount, log, played) :
                     q.first_incorrect_frame <= g
    BY <2>1, SameNames DEF MispredictionCaught, Timeline!IsFirstMispredicted,
       Timeline!NoFrame, NullFrame
  <2>3. PredictionInv <=>
          /\ Floor <= framecount
          /\ q.last_frame_requested \in {NullFrame, framecount - 1}
          /\ q.first_incorrect_frame = NullFrame =>
               /\ \A f \in Arrivals(q) .. framecount - 1 : played[f] = LastBits(q, log)
               /\ IF q.last_frame_requested >= Arrivals(q)
                  THEN q.prediction = [frame |-> Arrivals(q), bits |-> LastBits(q, log)]
                  ELSE ~Predicting(q)
          /\ q.first_incorrect_frame # NullFrame =>
               /\ q.prediction.frame = Arrivals(q)
               /\ q.last_frame_requested = framecount - 1
               /\ q.first_incorrect_frame >= Floor
    BY SameNames DEF PredictionInv
  <2> QED BY <2>2, <2>3 DEF Consistent
<1>4. IInv => TypeOK
  BY DEF IInv
<1>5. ClientInv => TypeOK
  BY <1>1 DEF ClientInv, QueueInv
<1> QED BY <1>1, <1>2, <1>3, <1>4, <1>5 DEF IInv, ClientInv, QueueInv
-----------------------------------------------------------------------------
(* The invariant holds initially and every step keeps it and is a step, or a  *)
(* stutter, of the timeline.                                                  *)

LEMMA IInvInit == Init => ClientInv
<1> SUFFICES ASSUME Init PROVE ClientInv
  OBVIOUS
<1>1. /\ q \in {InitQueue, SetFrameDelay(InitQueue, 0)}
      /\ log = [f \in {} |-> NoBits] /\ framecount = 0
  BY DEF Init
<1>2. /\ Arrivals(q) = 0 /\ Oldest(q) = 0
      /\ QueueInv(q, framecount, log, played)
      /\ q.first_incorrect_frame = NullFrame
  BY <1>1, QueueInvInit DEF Init, InitQueue
<1>3. TypeOK
  BY TypeInit
<1> QED BY <1>2, <1>3, SameNames DEF ClientInv, TypeOK

LEMMA RequestStep == ClientInv /\ Request => ClientInv' /\ Timeline!Play
<1> SUFFICES ASSUME ClientInv, Request PROVE ClientInv' /\ Timeline!Play
  OBVIOUS
<1>1. /\ QueueInv(q, framecount, log, played) /\ framecount \in Nat
      /\ q.first_incorrect_frame = NullFrame /\ Oldest(q) <= framecount
      /\ q \in QueueType
  BY SameNames DEF ClientInv, QueueInv, Request, CanRequest
<1>2. /\ q' = GetInput(q, framecount) /\ framecount' = framecount + 1
      /\ log' = log
      /\ played' = [f \in 0 .. framecount |->
                      IF f < framecount THEN played[f]
                      ELSE GetInputBits(q, framecount)]
  BY DEF Request
<1>3. /\ \A f \in 0 .. framecount - 1 : played'[f] = played[f]
      /\ played'[framecount] = GetInputBits(q, framecount)
  BY <1>1, <1>2
<1>4. /\ QueueInv(q', framecount', log', played')
      /\ played'[framecount] = IF framecount < Arrivals(q) THEN log[framecount]
                               ELSE LastBits(q, log)
  <2>1. /\ QueueInv(GetInput(q, framecount), framecount + 1, log, played')
        /\ played'[framecount] = IF framecount < Arrivals(q) THEN log[framecount]
                                 ELSE LastBits(q, log)
    BY <1>1, <1>3, GetInputKeeps
  <2> QED BY <1>2, <2>1
<1>5. SameInputs(q, q') /\ q'.first_incorrect_frame = NullFrame
  BY <1>1, <1>2, GetInputFields
<1>6. Oldest(q') = Oldest(q) /\ Arrivals(q') = Arrivals(q)
  BY <1>5 DEF SameInputs, Oldest, Arrivals
<1>7. played' \in [0 .. framecount' - 1 -> Bits]
  <2>1. GetInputBits(q, framecount) \in Bits
    BY <1>1, GetInputType
  <2>2. framecount' - 1 = framecount
    BY <1>1, <1>2
  <2> QED BY <1>1, <1>2, <2>1, <2>2 DEF ClientInv
<1>8. Floor' <= framecount'
  <2>1. Oldest(q) \in Nat
    BY <1>1, Numbers DEF QueueInv
  <2> QED BY <1>1, <1>2, <1>6, <2>1, SameNamesNext
<1>9. Timeline!Mispredicted = {}
  BY <1>1, SameNames DEF QueueInv, Consistent
<1>10. played' = [f \in 0 .. framecount |->
                    IF f < framecount THEN played[f]
                    ELSE IF f < Arrived THEN log[f] ELSE Timeline!LastBits]
  <2>1. \A f \in 0 .. framecount : ~(f < framecount) => f = framecount
    BY <1>1
  <2> QED BY <1>1, <1>2, <1>3, <1>4, <2>1, SameNames
<1>11. Timeline!Play
  BY <1>2, <1>6, <1>9, <1>10, SameNames, SameNamesNext DEF Timeline!Play
<1> QED BY <1>4, <1>5, <1>7, <1>8, <1>11 DEF ClientInv

LEMMA RollbackStep ==
  ASSUME ClientInv, NEW to \in 0 .. framecount - 1, Rollback(to)
  PROVE  ClientInv' /\ Timeline!Rollback(to)
<1>1. /\ QueueInv(q, framecount, log, played) /\ framecount \in Nat
      /\ q \in QueueType /\ Ring(q, log)
      /\ Oldest(q) <= to /\ ResetPredictionAsserts(q, to)
      /\ to \in Nat /\ to \in 0 .. framecount
  BY SameNames DEF ClientInv, QueueInv, Rollback, CanReset, ResetPredictionAsserts
<1>2. /\ q' = ResetPrediction(q) /\ framecount' = to /\ log' = log
      /\ played' = [f \in 0 .. to - 1 |-> played[f]]
  BY DEF Rollback
<1>3. QueueInv(q', to, log, played')
  <2>1. \A f \in 0 .. to - 1 : played'[f] = played[f]
    BY <1>2
  <2> QED BY <1>1, <1>2, <2>1, ResetKeeps
<1>4. SameInputs(q, q') /\ q'.first_incorrect_frame = NullFrame
  BY <1>1, <1>2, ResetFields
<1>5. Oldest(q') = Oldest(q) /\ Arrivals(q') = Arrivals(q)
  BY <1>4 DEF SameInputs, Oldest, Arrivals
<1>6. \A g \in Timeline!Mispredicted : to <= g
  <2>1. \A g \in Contradicted(q, framecount, log, played) :
          g \in Nat /\ q.first_incorrect_frame # NullFrame
                    /\ q.first_incorrect_frame <= g
    BY <1>1 DEF QueueInv, Consistent, Contradicted
  <2>2. q.first_incorrect_frame \in Nat \cup {-1}
    BY <1>1, Numbers
  <2> QED BY <1>1, <2>1, <2>2, SameNames DEF ResetPredictionAsserts, NullFrame
<1>7. Timeline!Rollback(to)
  BY <1>2, <1>5, <1>6, SameNames, SameNamesNext DEF Timeline!Rollback
<1>8. played' \in [0 .. framecount' - 1 -> Bits]
  BY <1>1, <1>2 DEF ClientInv
<1> QED BY <1>1, <1>2, <1>3, <1>4, <1>5, <1>7, <1>8, SameNamesNext DEF ClientInv

LEMMA DiscardStep ==
  ASSUME ClientInv, NEW f \in 0 .. q.last_added_frame, Discard(f)
  PROVE  ClientInv' /\ UNCHANGED Timeline!vars
<1>1. /\ QueueInv(q, framecount, log, played) /\ framecount \in Nat
      /\ q \in QueueType /\ Ring(q, log)
      /\ q.first_incorrect_frame = NullFrame
      /\ q.last_frame_requested = framecount - 1 /\ framecount > 0
      /\ f \in Nat /\ f \in 0 .. q.last_added_frame - 1 /\ f >= Oldest(q) - 1
      /\ Oldest(q) <= framecount
  BY SameNames DEF ClientInv, QueueInv, Discard, CanDiscard, Settled
<1>2. /\ q' = DiscardConfirmedFrames(q, f) /\ framecount' = framecount
      /\ log' = log /\ played' = played
  BY DEF Discard
<1>3. Arrivals(q) \in Nat /\ Oldest(q) \in Nat /\ q.last_added_frame = Arrivals(q) - 1
  BY <1>1, Numbers
<1>4. /\ f < q.last_added_frame /\ DiscardTo(q, f) >= Oldest(q) - 1
      /\ DiscardTo(q, f) + 1 <= framecount
  BY <1>1, <1>3 DEF DiscardTo, NullFrame
<1>5. /\ QueueInv(q', framecount, log, played) /\ SamePrediction(q, q')
      /\ Arrivals(q') = Arrivals(q) /\ Oldest(q') = DiscardTo(q, f) + 1
  BY <1>1, <1>2, <1>4, DiscardKeeps
<1> QED BY <1>1, <1>2, <1>4, <1>5, SameNames, SameNamesNext
        DEF ClientInv, SamePrediction, Timeline!vars

LEMMA SameStep ==
  ASSUME ClientInv, q' \in QueueType, SameInputs(q, q'), SamePrediction(q, q'),
         log' = log, framecount' = framecount, played' = played
  PROVE  ClientInv' /\ UNCHANGED Timeline!vars
<1>1. QueueInv(q', framecount, log, played)
  BY SameKeeps DEF ClientInv
<1>2. Oldest(q') = Oldest(q) /\ Arrivals(q') = Arrivals(q)
  BY DEF SameInputs, Oldest, Arrivals
<1> QED BY <1>1, <1>2, SameNames, SameNamesNext
        DEF ClientInv, SamePrediction, Timeline!vars

LEMMA AddStep ==
  ASSUME ClientInv, NEW frame \in Nat, NEW bits \in Bits, Add(frame, bits),
         TargetFrame(q, frame) # NullFrame
  PROVE  ClientInv' /\ Timeline!Arrive(TargetFrame(q, frame), bits)
<1> DEFINE target == TargetFrame(q, frame)
<1>1. /\ QueueInv(q, framecount, log, played) /\ framecount \in Nat
      /\ q \in QueueType /\ Ring(q, log) /\ Oldest(q) <= framecount
      /\ q.last_frame_requested = framecount - 1
      /\ q.length + target - ExpectedFrame(q) + 1 <= L
  BY SameNames DEF ClientInv, QueueInv, Add, CanAdd, Settled, L
<1>2. /\ q' = AddInput(q, frame, bits) /\ framecount' = framecount
      /\ log' = LogAfter(q, bits, target, log) /\ played' = played
  BY DEF Add, LogAfter
<1> HIDE DEF target
<1>3. target = TargetFrame(q, frame) /\ target # NullFrame
  BY DEF target
<1>4. /\ QueueInv(q', framecount, log', played)
      /\ target \in Nat /\ target >= Arrivals(q)
      /\ Arrivals(q') = target + 1 /\ Oldest(q') = Oldest(q)
      /\ q'.first_incorrect_frame \in {q.first_incorrect_frame, target}
      /\ log' = [f \in 0 .. target |-> IF f < Arrivals(q) THEN log[f]
                                       ELSE IF f < target THEN LastBits(q, log)
                                       ELSE bits]
  BY <1>1, <1>2, <1>3, AddKeeps
<1>5. Oldest(q) <= target /\ Oldest(q) \in Nat
  BY <1>1, <1>4, Numbers
<1>6. ClientInv'
  BY <1>1, <1>2, <1>4, <1>5, SameNames, SameNamesNext DEF ClientInv
<1>7. Timeline!Arrive(target, bits)
  BY <1>2, <1>4, SameNames, SameNamesNext DEF Timeline!Arrive
<1> QED BY <1>6, <1>7 DEF target

LEMMA NextStep ==
  ClientInv /\ [Next]_vars => ClientInv' /\ [Timeline!Next]_(Timeline!vars)
<1> SUFFICES ASSUME ClientInv, [Next]_vars
             PROVE  ClientInv' /\ [Timeline!Next]_(Timeline!vars)
  OBVIOUS
<1>1. TypeOK /\ q \in QueueType
  BY SameInvariant DEF IInv, TypeOK
<1>2. ASSUME NEW frame \in 0 .. MaxFrame, NEW bits \in Bits, Add(frame, bits)
      PROVE  ClientInv' /\ [Timeline!Next]_(Timeline!vars)
  <2>1. frame \in Nat /\ q' \in QueueType
    BY <1>1, <1>2, UserFrameType, AddInputType DEF Add
  <2>2. CASE TargetFrame(q, frame) = NullFrame
    <3>1. SameInputs(q, q') /\ SamePrediction(q, q')
      BY <1>1, <1>2, <2>1, <2>2, DroppedInputFields DEF Add
    <3>2. log' = log /\ framecount' = framecount /\ played' = played
      BY <1>2, <2>2 DEF Add
    <3> QED BY <2>1, <3>1, <3>2, SameStep
  <2>3. CASE TargetFrame(q, frame) # NullFrame
    <3>1. ClientInv' /\ Timeline!Arrive(TargetFrame(q, frame), bits)
      BY <1>2, <2>1, <2>3, AddStep
    <3>2. TargetFrame(q, frame) \in Nat /\ TargetFrame(q, frame) < MaxFrame
      BY <1>1, <1>2, <2>1, <2>3, TargetType DEF Add, CanAdd, TargetFrame
    <3>3. TargetFrame(q, frame) \in 0 .. MaxFrame - 1
      BY <3>2, ClientAssumption
    <3> QED BY <3>1, <3>3 DEF Timeline!Next
  <2> QED BY <2>2, <2>3
<1>3. CASE Request
  BY <1>3, RequestStep DEF Timeline!Next
<1>4. ASSUME NEW to \in 0 .. framecount - 1, Rollback(to)
      PROVE  ClientInv' /\ [Timeline!Next]_(Timeline!vars)
  BY <1>4, RollbackStep DEF Timeline!Next
<1>5. ASSUME NEW f \in 0 .. q.last_added_frame, Discard(f)
      PROVE  ClientInv' /\ [Timeline!Next]_(Timeline!vars)
  BY <1>5, DiscardStep
<1>6. ASSUME NEW delay \in FrameDelays, ChangeDelay(delay)
      PROVE  ClientInv' /\ [Timeline!Next]_(Timeline!vars)
  <2>1. delay \in Nat
    BY ClientAssumption
  <2>2. q' \in QueueType /\ SameInputs(q, q') /\ SamePrediction(q, q')
    BY <1>1, <1>6, <2>1, DelayFields DEF ChangeDelay
  <2>3. log' = log /\ framecount' = framecount /\ played' = played
    BY <1>6 DEF ChangeDelay
  <2> QED BY <2>2, <2>3, SameStep
<1>7. CASE UNCHANGED vars
  <2>1. q' \in QueueType /\ SameInputs(q, q') /\ SamePrediction(q, q')
    BY <1>1, <1>7 DEF vars, SameInputs, SamePrediction
  <2>2. log' = log /\ framecount' = framecount /\ played' = played
    BY <1>7 DEF vars
  <2> QED BY <2>1, <2>2, SameStep
<1> QED BY <1>2, <1>3, <1>4, <1>5, <1>6, <1>7 DEF Next

(* The inductive invariant holds in every reachable state.                    *)
THEOREM Invariant == Spec => []IInv
<1>1. Spec => []ClientInv
  BY NextStep, IInvInit, PTL DEF Spec
<1> QED BY <1>1, SameInvariant, PTL

(* Whatever arrives, is requested, rolled back, discarded or delayed, the     *)
(* queue reports the first frame that was simulated with a wrong input, and   *)
(* none when there is none.                                                   *)
THEOREM MispredictionIsCaught == Spec => []MispredictionCaught
<1>1. IInv => MispredictionCaught
  BY DEF IInv
<1> QED BY <1>1, Invariant, PTL

(* GetConfirmedInput finds every input that arrived and was not discarded,    *)
(* however often the ring has wrapped around.                                 *)
THEOREM ConfirmedIsAvailable == Spec => []ConfirmedAvailable
<1>1. IInv => ConfirmedAvailable
  BY DEF IInv, RingInv
<1> QED BY <1>1, Invariant, PTL

(* The invariant implies every ASSERT of a call that keeps the contract.      *)
LEMMA AssertsFollow == IInv => AssertsHold
<1> SUFFICES ASSUME IInv PROVE AssertsHold
  OBVIOUS
<1>1. /\ QueueInv(q, framecount, log, played) /\ Oldest(q) <= framecount
      /\ q \in QueueType /\ Ring(q, log) /\ framecount \in Nat /\ TypeOK
  BY SameInvariant, SameNames DEF ClientInv, QueueInv, IInv
<1>2. /\ Arrivals(q) \in Nat /\ Oldest(q) \in Nat
      /\ q.last_added_frame = Arrivals(q) - 1
  BY <1>1, Numbers
<1>3. ASSUME NEW frame \in NextUserFrames, CanAdd(frame)
      PROVE  AddInputAsserts(q, frame)
  <2>1. q.last_user_added_frame = NullFrame \/ frame = q.last_user_added_frame + 1
    BY <1>3 DEF NextUserFrames
  <2>2. /\ ExpectedFrame(q) = q.last_added_frame + 1
        /\ Predicting(q) => ExpectedFrame(q) = q.prediction.frame
    <3>1. frame \in Nat
      BY <1>1, <1>3, UserFrameType
    <3> QED BY <1>1, <3>1, AddAssertsFollow
  <2> QED BY <1>3, <2>1, <2>2 DEF AddInputAsserts, CanAdd
<1>4. ASSUME CanRequest PROVE GetInputAsserts(q, framecount)
  BY <1>1, <1>4, GetInputAssertsFollow DEF CanRequest
<1>5. ASSUME NEW to \in 0 .. framecount - 1, CanReset(to)
      PROVE  ResetPredictionAsserts(q, to)
  BY <1>5 DEF CanReset, ResetPredictionAsserts
<1>6. ASSUME NEW f \in 0 .. q.last_added_frame, CanDiscard(f)
      PROVE  DiscardConfirmedFramesAsserts(q, f)
  <2>1. f \in Nat /\ f < q.last_added_frame /\ DiscardTo(q, f) >= Oldest(q) - 1
    BY <1>1, <1>2, <1>6, SameNames DEF DiscardTo, CanDiscard, Settled, NullFrame
  <2> QED BY <1>1, <2>1, DiscardAssertsFollow
<1> QED BY <1>3, <1>4, <1>5, <1>6 DEF AssertsHold

(* No ASSERT of the queue ends the process while Sync keeps its contract.     *)
THEOREM AssertsNeverFire == Spec => []AssertsHold
  BY Invariant, AssertsFollow, PTL

(* The queue, ring and prediction and all, implements the unbounded log.      *)
THEOREM Refinement == Spec => ImplementsTimeline
<1>1. Init => Timeline!Init
  BY DEF Init, Timeline!Init, InitQueue, Arrived, NullFrame
<1>2. IInv /\ [Next]_vars => [Timeline!Next]_(Timeline!vars)
  BY NextStep, SameInvariant
<1> QED BY <1>1, <1>2, Invariant, PTL DEF Spec, ImplementsTimeline, Timeline!Spec
=============================================================================
