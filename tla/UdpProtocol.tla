----------------------------- MODULE UdpProtocol -----------------------------
(***************************************************************************)
(* One endpoint of a connection (network/udp_proto.cpp) as a record and its *)
(* member functions as operators on it; OpAsserts(u, ...) holds when no     *)
(* ASSERT of Op fires.                                                      *)
(*                                                                         *)
(* out is _send_queue, which PumpSendQueue hands to the socket in the call  *)
(* that filled it, and events is _event_queue.  An input is the set of the  *)
(* bits that are on; a frame in a packet is the set of bits that turn on    *)
(* and the set that turn off, relative to the frame before it (InputCodec   *)
(* has the bit string).  Clocks are abstracted: a timer is an argument.     *)
(* Statistics, the frame advantage (TimeSync has it) and _last_sent_input,  *)
(* which only the log reads, are left out.                                  *)
(***************************************************************************)
EXTENDS Integers, Sequences, FiniteSets, SequencesExt

CONSTANTS
    Buttons,                \* the bits of an input
    NUM_SYNC_PACKETS,       \* 5 in the code
    Randoms,                \* what rand() & 0xFFFF returns
    SEQUENCE_NUMBERS,       \* 2^16 in the code
    RING_SIZE               \* 64 in the code

ASSUME UdpProtocolAssumption ==
    /\ NUM_SYNC_PACKETS \in Nat \ {0}
    /\ SEQUENCE_NUMBERS \in Nat \ {0, 1}
    /\ RING_SIZE \in Nat \ {0, 1}

NullFrame == -1
Bits == SUBSET Buttons
MAX_SEQ_DISTANCE == SEQUENCE_NUMBERS \div 2

(* The constructor, Init and Synchronize up to its first SyncRequest.        *)
InitEndpoint(magic, players) ==
    [state |-> "syncing", open |-> TRUE,
     magic |-> magic, remote_magic |-> 0,
     roundtrips |-> NUM_SYNC_PACKETS, random |-> 0, connected |-> FALSE,
     next_send_seq |-> 0, next_recv_seq |-> 0,
     pending |-> <<>>,
     last_acked |-> [frame |-> NullFrame, bits |-> {}],
     last_received |-> [frame |-> NullFrame, bits |-> {}],
     peer_status |-> [i \in players |-> [disconnected |-> FALSE,
                                         last_frame |-> NullFrame]],
     notify_sent |-> FALSE, disconnect_event_sent |-> FALSE,
     events |-> <<>>, out |-> <<>>]
-----------------------------------------------------------------------------
(* RingBuffer: push fails when RING_SIZE - 1 elements are in it, so that is  *)
(* the most a ring can hold after any number of pushes.                      *)
PushAsserts(ring) == Len(ring) # RING_SIZE - 1
Holds(ring) == Len(ring) <= RING_SIZE - 1

QueueEvent(u, event) == [u EXCEPT !.events = Append(@, event)]

SendMsg(u, body) ==
    [u EXCEPT !.out = Append(@, [magic |-> u.magic, seq |-> u.next_send_seq,
                                 body |-> body]),
              !.next_send_seq = (@ + 1) % SEQUENCE_NUMBERS]

SendSyncRequest(u, random) ==
    SendMsg([u EXCEPT !.random = random],
            [type |-> "SyncRequest", random |-> random])

Synchronize(u, random) == SendSyncRequest(u, random)

-----------------------------------------------------------------------------
(* Inputs.                                                                   *)

Difference(last, current) == [on |-> current \ last, off |-> last \ current]

Encode(u) ==
    [n \in DOMAIN u.pending |->
        Difference(IF n = 1 THEN u.last_acked.bits ELSE u.pending[n - 1].bits,
                   u.pending[n].bits)]

(* status is _local_connect_status, shared with the backend.                 *)
InputMsg(u, status) ==
    [type |-> "Input",
     start |-> IF u.pending = <<>> THEN 0 ELSE u.pending[1].frame,
     frames |-> Encode(u),
     ack |-> u.last_received.frame,
     disconnect_requested |-> u.state = "disconnected",
     status |-> status]

SendPendingOutput(u, status) == SendMsg(u, InputMsg(u, status))
SendPendingOutputAsserts(u) ==
    u.pending # <<>> => \/ u.last_acked.frame = NullFrame
                        \/ u.last_acked.frame + 1 = u.pending[1].frame

(* Mutant: an endpoint that is disconnected goes on saving inputs.           *)
SavesAlways(u) == TRUE

(* Which endpoint saves the input for later, to be acknowledged.             *)
Saves(u) == u.state = "running"

SendInput(u, input, status) ==
    IF ~u.open THEN u
    ELSE SendPendingOutput(IF Saves(u)
                           THEN [u EXCEPT !.pending = Append(@, input)] ELSE u,
                           status)
SendInputAsserts(u) ==
    u.open => /\ Saves(u) => PushAsserts(u.pending)
              /\ SendPendingOutputAsserts(u)

SendInputAck(u) ==
    SendMsg(u, [type |-> "InputAck", ack |-> u.last_received.frame])

Disconnect(u) == [u EXCEPT !.state = "disconnected"]

(* GetEvent until there is none.                                             *)
TakeEvents(u) == [u EXCEPT !.events = <<>>]

-----------------------------------------------------------------------------
(* The message handlers.  random is the next SyncRequest's.                  *)

OnSyncRequestHandled(u, p) == u.remote_magic \in {0, p.magic}
OnSyncRequest(u, p) ==
    IF OnSyncRequestHandled(u, p)
    THEN SendMsg(u, [type |-> "SyncReply", random |-> p.body.random])
    ELSE u

OnSyncReplyHandled(u, p) ==
    IF u.state = "syncing" THEN p.body.random = u.random
    ELSE p.magic = u.remote_magic

(* Mutant: a reply that comes after the handshake counts as well.            *)
OnSyncReplyLate(u, p, random) ==
    IF p.body.random # u.random THEN u
    ELSE IF u.roundtrips = 1
    THEN QueueEvent([u EXCEPT !.roundtrips = 0, !.state = "running",
                              !.connected = TRUE, !.remote_magic = p.magic],
                    [type |-> "synchronized"])
    ELSE SendSyncRequest([u EXCEPT !.roundtrips = @ - 1], random)

OnSyncReply(u, p, random) ==
    LET met == IF u.connected THEN u
               ELSE QueueEvent([u EXCEPT !.connected = TRUE], [type |-> "connected"])
        one == [met EXCEPT !.roundtrips = @ - 1]
    IN  IF u.state # "syncing" \/ p.body.random # u.random THEN u
        ELSE IF one.roundtrips = 0
        THEN QueueEvent([one EXCEPT !.state = "running",
                                    !.last_received.frame = NullFrame,
                                    !.remote_magic = p.magic],
                        [type |-> "synchronized"])
        ELSE SendSyncRequest(QueueEvent(one, [type |-> "synchronizing"]), random)

(* Mutant: every packet that requests the disconnect queues the event.       *)
HearDisconnectAgain(u) ==
    IF u.state # "disconnected" THEN QueueEvent(u, [type |-> "disconnected"]) ELSE u

(* OnInput's first part: a requested disconnect, or the peer's own status.   *)
HearDisconnect(u) ==
    IF u.state # "disconnected" /\ ~u.disconnect_event_sent
    THEN QueueEvent([u EXCEPT !.disconnect_event_sent = TRUE],
                    [type |-> "disconnected"])
    ELSE u

Max2(a, b) == IF a > b THEN a ELSE b
Min2(a, b) == IF a < b THEN a ELSE b

MergeStatus(old, new) ==
    [i \in DOMAIN old |->
        [disconnected |-> old[i].disconnected \/ new[i].disconnected,
         last_frame   |-> Max2(old[i].last_frame, new[i].last_frame)]]
MergeStatusAsserts(old, new) ==
    \A i \in DOMAIN old : new[i].last_frame >= old[i].last_frame

HearStatus(u, msg) ==
    IF msg.disconnect_requested THEN HearDisconnect(u)
    ELSE [u EXCEPT !.peer_status = MergeStatus(@, msg.status)]

(* Its second part: the frames after the last one received.  Before the      *)
(* first packet with inputs any frame is the next one.                       *)
Base(u, msg) ==
    IF u.last_received.frame < 0 THEN msg.start - 1 ELSE u.last_received.frame

(* Mutant: the frames that were received before are decoded once more.       *)
SkippedNone(u, msg) == 0

Skipped(u, msg) == Base(u, msg) + 1 - msg.start

Decode(u, msg) ==
    LET skip == Skipped(u, msg)
        received[n \in 0 .. Len(msg.frames) - skip] ==
            IF n = 0 THEN [frame |-> Base(u, msg), bits |-> u.last_received.bits]
            ELSE LET before == received[n - 1]
                     change == msg.frames[skip + n]
                 IN  [frame |-> before.frame + 1,
                      bits  |-> (before.bits \cup change.on) \ change.off]
    IN  [n \in 1 .. Len(msg.frames) - skip |-> received[n]]

HearInputs(u, msg) ==
    LET inputs == IF msg.frames = <<>> THEN <<>> ELSE Decode(u, msg)
    IN  IF inputs = <<>> THEN u
        ELSE [u EXCEPT !.last_received = inputs[Len(inputs)],
                       !.events = @ \o [n \in DOMAIN inputs |->
                                          [type |-> "input", input |-> inputs[n]]]]
HearInputsAsserts(u, msg) ==
    msg.frames # <<>> => msg.start <= Base(u, msg) + 1

(* The inputs at the front of the pending output that are older than frame.  *)
OlderThan(u, frame) ==
    SubSeq(u.pending, 1, Max({n \in 0 .. Len(u.pending) :
                                 \A k \in 1 .. n : u.pending[k].frame < frame}))

(* Mutant: the input that comes after the acknowledged one goes as well.     *)
AcknowledgedAndNext(u, ack) == OlderThan(u, ack + 2)

(* Its last part, and OnInputAck.  The frame acknowledged last is kept: the  *)
(* next one is encoded relative to the one before it.                        *)
Acknowledged(u, ack) == OlderThan(u, ack)

DropAcknowledged(u, ack) ==
    LET gone == Acknowledged(u, ack)
    IN  IF gone = <<>> THEN u
        ELSE [u EXCEPT !.last_acked = gone[Len(gone)],
                       !.pending = SubSeq(@, Len(gone) + 1, Len(@))]

OnInput(u, msg) == DropAcknowledged(HearInputs(HearStatus(u, msg), msg), msg.ack)
OnInputAsserts(u, msg) ==
    /\ ~msg.disconnect_requested => MergeStatusAsserts(u.peer_status, msg.status)
    /\ HearInputsAsserts(u, msg)

-----------------------------------------------------------------------------
(* OnMsg: the filter, the handler, and the end of an interruption.  The      *)
(* asserts of the handler hold before it is run.                             *)

IsSync(p) == p.body.type \in {"SyncRequest", "SyncReply"}

(* Mutant: there is no filter.                                               *)
InOrderNever(u, p) == TRUE

InOrder(u, p) ==
    (p.seq - u.next_recv_seq) % SEQUENCE_NUMBERS <= MAX_SEQ_DISTANCE

Accepts(u, p) == IsSync(p) \/ (p.magic = u.remote_magic /\ InOrder(u, p))

Handle(u, p, random) ==
    CASE p.body.type = "SyncRequest"   -> OnSyncRequest(u, p)
      [] p.body.type = "SyncReply"     -> OnSyncReply(u, p, random)
      [] p.body.type = "Input"         -> OnInput(u, p.body)
      [] p.body.type = "InputAck"      -> DropAcknowledged(u, p.body.ack)
      [] p.body.type = "QualityReport" -> SendMsg(u, [type |-> "QualityReply"])
      [] OTHER                         -> u

Handled(u, p) ==
    CASE p.body.type = "SyncRequest" -> OnSyncRequestHandled(u, p)
      [] p.body.type = "SyncReply"   -> OnSyncReplyHandled(u, p)
      [] OTHER                       -> TRUE

(* Mutants: an interruption that was announced is never taken back, and it   *)
(* is taken back without an event.                                           *)
ResumeNever(u, handled) == u
ResumeSilently(u, handled) == IF handled THEN [u EXCEPT !.notify_sent = FALSE] ELSE u

Resume(u, handled) ==
    IF handled /\ u.notify_sent /\ u.state = "running"
    THEN QueueEvent([u EXCEPT !.notify_sent = FALSE], [type |-> "resumed"])
    ELSE u

OnMsg(u, p, random) ==
    IF ~Accepts(u, p) THEN u
    ELSE Resume(Handle([u EXCEPT !.next_recv_seq = p.seq], p, random), Handled(u, p))
OnMsgAsserts(u, p, random) ==
    /\ p.body.type = "Input" /\ Accepts(u, p) => OnInputAsserts(u, p.body)
    /\ Holds(OnMsg(u, p, random).events)

-----------------------------------------------------------------------------
(* OnLoopPoll.  due holds the timers that have run out: "retry" for          *)
(* SYNC_RETRY_INTERVAL and RUNNING_RETRY_INTERVAL, "quality", "keep_alive",  *)
(* "interrupted" and "timeout" for the two disconnect timers, "shutdown".    *)
(* Sending anything puts off the keep-alive.                                 *)

(* Mutant: the timeout is noted but not reported.                            *)
TimedOutSilently(u) == [u EXCEPT !.disconnect_event_sent = TRUE]

Interrupted(u) == QueueEvent([u EXCEPT !.notify_sent = TRUE], [type |-> "interrupted"])
TimedOut(u) == QueueEvent([u EXCEPT !.disconnect_event_sent = TRUE],
                          [type |-> "disconnected"])

PollRunning(u, due, status) ==
    LET retried   == IF "retry" \in due THEN SendPendingOutput(u, status) ELSE u
        reported  == IF "quality" \in due
                     THEN SendMsg(retried, [type |-> "QualityReport"]) ELSE retried
        alive     == IF "keep_alive" \in due /\ reported.out = <<>>
                     THEN SendMsg(reported, [type |-> "KeepAlive"]) ELSE reported
        announced == IF "interrupted" \in due /\ ~alive.notify_sent
                     THEN Interrupted(alive) ELSE alive
    IN  IF "timeout" \in due /\ ~announced.disconnect_event_sent
        THEN TimedOut(announced) ELSE announced

OnLoopPoll(u, due, status, random) ==
    CASE ~u.open              -> u
      [] u.state = "syncing"  -> IF "retry" \in due THEN SendSyncRequest(u, random) ELSE u
      [] u.state = "running"  -> PollRunning(u, due, status)
      [] OTHER                -> IF "shutdown" \in due THEN [u EXCEPT !.open = FALSE] ELSE u
=============================================================================
