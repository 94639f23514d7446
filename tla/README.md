# linux-ggpo in TLA+

A verification project for the rollback networking library in this repository
(`src/lib/ggpo`) and the VectorWar application that drives it
(`src/apps/vectorwar`). The modules are translated from the C++ source; every
definition that stands for code is listed with its lines in `PROJECT.json`
under `map`. Paths below are relative to the `src/` directory of the repository.

## The system

Each player of a game runs the same deterministic simulation. A peer sends its
inputs to the others and does not wait for theirs: a frame whose remote input
has not arrived is simulated with a prediction (the last input repeated), and
when the real input turns out to be different the peer loads the state it had
saved before that frame and simulates again. Everything runs on one thread; the
concurrency is between peers, and between the callbacks and the stages of
`DoPoll`.

| component | state | operations | what makes it correct |
|---|---|---|---|
| `InputQueue` | ring of 128 inputs, cursors, current prediction, first incorrect frame | `AddInput`, `GetInput`, `GetConfirmedInput`, `DiscardConfirmedFrames`, `ResetPrediction` | every misprediction is reported, at its first frame; confirmed inputs stay readable; no ASSERT fires |
| `Sync` | frame counter, ring of saved states, one queue per player | add inputs, `SynchronizeInputs`, `IncrementFrame`, `CheckSimulation`/`AdjustSimulation`, `SetLastConfirmedFrame` | a rollback finds the right state; calls to the queues keep their contract |
| `Peer2PeerBackend` | connect status per player, endpoints, spectators, next spectator frame | `AddLocalInput`, `SyncInput`, `IncrementFrame`, `DoPoll`, `DisconnectPlayer`, event handlers | the simulation is the one the known inputs produce; peers agree on where a player left; spectators see only final frames |
| `UdpProtocol` | sync handshake, pending output, acknowledged and received inputs, sequence numbers, peer connect status, timers | handshake, `SendInput`, `OnInput`, acks, keep-alives, disconnect | inputs are delivered in order, once, and decode to what was sent, over a network that loses, repeats and reorders |
| `SpectatorBackend` | ring of 64 inputs, next frame to simulate | `SyncInput`, host events | frames are simulated in order, or the failure is reported |
| `SyncTestBackend` | saved frames and checksums | `IncrementFrame` with its verification loop | replays what it saved |
| `TimeSync` | windows of frame advantages and inputs | `advance_frame`, `recommend_frame_wait_duration` | at most one peer is told to wait, by a bounded amount |
| `BitVector` | bit stream | set, clear, nibble writes and reads | what is written is read back |
| `Udp`, `Poll`, `RingBuffer`, logging, platform | sockets, registered sinks, fixed rings | I/O | capacity |
| VectorWar | game state, connection states, frame loop | callbacks, `VectorWar_RunFrame` | calls the library in the documented order |

Components interact by direct calls downwards (application → API → backend →
`Sync` → `InputQueue`; backend → endpoint → socket), by events that endpoints
queue and the backend takes out after each `Pump`, by callbacks upwards
(`advance_frame`, `save_game_state`, `load_game_state`, `on_event`), and by one
piece of shared state: `_local_connect_status`, written by the backend, read by
`Sync` and copied into every input packet.

What is hard in this code: the order in which inputs, disconnects and reports of
other peers reach the backend, and the batch in which they do; rollbacks that
start at four different places; a checked value (`_last_confirmed_frame`,
`_first_incorrect_frame`) that is used after something else has changed;
rings with fixed capacity. The full list, each with its line and with
the property that watches it or the reason why none does yet, is `hazards` in
`PROJECT.json`.

## Modules

| module | what it is |
|---|---|
| `InputQueue` | `input_queue.cpp` as operators on a queue record. `AddInput` adds the frames of the padding loop in one step; `OpAsserts` says when no ASSERT of `Op` fires |
| `InputQueueLoop` | `AddInput` statement by statement, with the loop as a recursion: the reference that `InputQueue!AddInput` is compared with |
| `InputQueueClient` | a state machine: one queue under the calls `Sync` makes, with the contract as guards and the history of inputs added and played; the inductive invariant |
| `InputTimeline` | what a queue promises: an unbounded log of inputs, a simulation that plays them or the last one known, rollbacks to before the first wrong frame |
| `InputQueueProofs`, `InputQueueSafety` | lemmas about numbers and about the operators of the queue, and the theorems about the queue |
| `Sync`, `SyncProofs` | `sync.cpp` as operators on a record with the frame counter, the ring of saved states and the queues; lemmas about them |
| `Peer2Peer`, `Peer2PeerProofs` | a state machine: `p2p.cpp` with its `Sync`, the VectorWar loop, and the endpoints as environment; the theorems about its queues, saved states and confirmed frames, those about what it plays and tells the spectators, which ASSERTs can end it, and how it calls its queues |
| `UdpProtocol` | `udp_proto.cpp` as operators on an endpoint record: handshake, inputs, acknowledgements, the sequence filter, timers |
| `Connection`, `Link` | the two ends of a connection; two endpoints and the network between them |
| `Session` | the parameters of a two-player session |
| `Endpoints` | a state machine: two players, their endpoints, and what backend and VectorWar do around one (sending inputs behind the barrier, events, disconnects, the connection state shown); fairness and liveness |
| `EndpointsProofs` | the theorems about `Endpoints`, with the lemmas about the operators of `UdpProtocol` |
| `InputStream` | what a connection promises: the inputs come out in order, once, as they were |
| `InputFlow`, `InputFlowProofs` | the frame numbers of two players alone (sent, received, acknowledged, in flight), and the theorems about them |
| `InputCodec` | the bits of a packet (`bitvector.cpp` and the loops that use it), written and read |
| `TimeSync` | `timesync.cpp` as operators on the windows |
| `Spectator`, `SpectatorProofs` | a state machine: `spectator.cpp`, its endpoint, and the host that feeds it; the theorems about it |
| `SyncTest`, `SyncTestProofs` | a state machine: `synctest.cpp` over `Sync`, with an application that may depend on more than its saved state; the theorems about it |
| `Gossip` | a state machine: three or more players who exchange their connect status (`PollNPlayers`) over endpoints, and may crash |
| `MC...` | model-checking instances; `MCEndpoints` also states what `InputCodec` and `TimeSync` are checked for |

A game state is modelled as the history of input vectors that produced it: the
application is deterministic, so two equal histories are equal states, and a
saved state of the wrong history is seen as such. An input is an element of
`Bits`; `Gone` is the erased input together with its disconnect flag.

In `Peer2Peer`, `pc` is the position of the thread: the application, a stage of
`DoPoll` (`pump`, `events`, `check`, `poll`, `confirm`), or a rollback
(`replay`), which resumes whoever called it. One step handles one event, polls
one player, simulates one frame, pushes one frame to the spectators. A failed
ASSERT logs and calls `exit(0)` (`types.h:57`): `pc` becomes the name of the
function it stands in, and nothing follows. The actions are the application's
calls (`AddLocal`, `AdvanceFrame`, `Idle`, `DisconnectRemote`,
`DisconnectLocal`), the events endpoints queue while `Pump` runs
(`Synchronized`, `InputArrives`, `Disconnected`, `Shutdown`, `PeerClaims`), and
the stages of `DoPoll`.

The environment delivers what `udp_proto.cpp` lets through: inputs of a player
in frame order, starting at that player's frame delay, only after the handshake,
and possibly still behind a disconnect; at most one disconnect; reports on the other
players that never go back (anything else fails the ASSERT in `OnInput`). A
remote player is held back by its own prediction barrier. Between two pumps
nothing arrives, as in the code.

Two reads of uninitialized memory are choices: `_current_state` of the local
player's endpoint, which the constructor does not set (`Uninitialized`), and the
`GameInput` that `GetConfirmedInputs` copies when a queue does not have the
frame (`ConfirmedInputs`).

In `UdpProtocol` a packet is a record with its type, sender's number (`magic`),
sequence number and body. A frame in an Input packet is the set of bits that
turn on and the set that turn off, relative to the frame before, as
`SendPendingOutput` computes it; `InputCodec` has the bits that this becomes. The
rings are sequences, and the ASSERT in `RingBuffer::push` is checked where
something is pushed. Clocks are not modelled: `due` is the set of timers that have run
out when `OnLoopPoll` is called. `OpAsserts` says again when no ASSERT of `Op` fires,
and a process that fails one stops (`exited`).

The network of `Link` is a set of packets for each end. A packet that arrives stays
and may arrive again; any packet may disappear; the order is free. Packets that were
overtaken by more than `Lifetime` others are gone, which keeps sequence numbers
unambiguous as 2^15 does in the code. The endpoints and the backend are
single-threaded, so one step is a call of the application, or a `Pump` with one
packet, or with timers, and the events it queued; in `Spectator` a `Pump` may
read any number of packets before events are handled, because there the event
queue can overflow.

In `Peer2Peer` a frame is all that `ggpo_synchronize_input` gives the application: the
inputs and the disconnect flags (`Gone`). In `Spectator` it is the inputs only; see "Not
modelled".

`Endpoints` leaves out the simulation: that a disconnect may end the process in a
rollback (findings 1 and 2) is in `Peer2Peer`, and here the session goes on, which
is what the code intends. `Gossip` leaves it out for the same reason.

## Runs

| run | instance | checks |
|---|---|---|
| `input_queue` | 4 slots, 2 inputs, delays 0–2 changed at any time, 6 frames | the queue's safety properties, its inductive invariant, the comparison with the loop, the refinement |
| `two_players` | 2 players, 1 spectator, `MAX_PREDICTION_FRAMES` 2, 5 slots, 6 frames, batches of 3 events | the session's properties and, for each queue of a connected player, that every step is one the contract allows |
| `three_players` | 3 players, 1 spectator, 2 frames, one event a pump and any number of reports | what `PollNPlayers` confirms and whom it disconnects |
| `local_leaves` | 2 players, 5 frames, both may leave; the local endpoint may look as if it ran | rollbacks and ASSERTs |
| `late_misprediction`, `early_disconnect`, `leave_after_disconnect` | 2 players, 4 frames | findings 1 to 3 |
| `endpoints` | two running players, 3 and 2 frames, delays 1 and 0, up to 3 packets in flight, sequence numbers that wrap, the handshake packets still around | what arrives, what is kept, which ASSERTs fire; refinements of `InputStream` and `InputFlow`; packet bits and time synchronization |
| `two_peers` | two players from the handshake (2 round trips) on, one frame each, one packet in flight; `a` may be interrupted and time out, `b` may leave | liveness, and what VectorWar shows |
| `sync_test` | check distances 0-4 with 2 prediction frames, 6 frames, 2 buttons, applications that leak at one of three frames or never | verification finds divergence and nothing else |
| `spectating` | 4 frames, of which the spectator has packets to acknowledge 3, through a buffer of 2 and rings of 4, from the handshake on; the host may time the spectator out | what a spectator plays, what the host keeps, when rings overflow |
| `gossip` | 3 players, one of whom crashes; 3 and 2 frames, one packet in flight | finding 4 |

Bounds. The ring of the queue wraps (4 and 5 slots for 6 frames), and so does
the ring of saved states (4 slots for 7 states); the delay of 2 pads several frames in
one call; a barrier of 2 frames is reached and left again several times. Two
inputs suffice to be right or wrong; the local player of the two-player
instances makes one, since its queue never predicts, and the three-player
instance has everybody make one input that differs from the first
prediction. A batch of three is the least that holds two inputs and a
disconnect. `OnlyPlayer2Leaves` bounds the three-player instance: player 1 stays, and
what player 2 reports about player 1 comes all at once; two frames are enough
for a player to be disconnected at one frame here and at an earlier one
elsewhere. Nothing in the model depends on larger numbers except the capacity
of the rings, whose limits are asserted and checked.

A packet matters to an endpoint through the frames it carries and the frame it
acknowledges, both compared with the endpoint's own; three frames are enough for
a packet that is all old, partly old, or all new, and three packets in flight for two
of them to be overtaken by a third. In `endpoints` players have sent 9 and 10 unanswered
SyncRequests before, of 12 sequence numbers, so that their numbers wrap among
the first inputs. In `two_peers` the network holds the latest packet only,
`SEQUENCE_NUMBERS` is 2, and the filter never matters; reordering is the business
of `endpoints`. The buffer of 2 frames in `spectating` is
overrun by the 4 frames of the feed, and the ring of 4 by the
events of one `Pump`. `WaitClosesRift` tries all windows of 2 entries over 6
advantages and one more entry, which wraps; `PacketBitsRoundTrip` all packets of up to two
frames with three buttons whose numbers are all zeros, all ones, and mixed.

Deadlock is checked in the runs of `InputQueueClient` and `Peer2Peer` and in
`two_peers`: a session can always idle or poll, and an exited process is a
state of its own. In `endpoints`, `sync_test`, `spectating` and `gossip` the number of
frames and packets is bounded and used up at the end, so the system stops and
deadlock is not checked.

### Fairness

`two_peers` assumes, per player, that

* the application adds its input again and again while it can, and a retry timer that
  keeps running out is polled (weak fairness: VectorWar calls `ggpo_idle` and
  `VectorWar_RunFrame` in every round of its loop, and `Poll::Pump` polls every
  registered endpoint);
* the disconnect timeout runs out if the other process stays silent, and the
  shutdown timer after a disconnect;
* a packet of a kind that is sent again and again is received sometime (strong
  fairness, `[]<>CanReceive`): the network loses packets, but not every retry.
  Nothing is assumed of packets that are sent once, and `KeepAlive` and quality
  reports are not relied on.

The enabling conditions are written out (`CanSend`, `CanRetry`, `CanTimeOut`,
`CanReceive`) instead of the `ENABLED` in `WF_vars` and `SF_vars`, whose evaluation
is what TLC spends its time on. The timeout fires only when the peer is silent
(`Outages` is `FALSE`): otherwise "disconnected" would be a way out of every
property.

### What the runs show

* `SimulationConsistent`: whenever a call returns to the application, each frame
  of its history has the inputs that are known by then, back to frame 0.
* `SavedFramesAvailable`: the ring finds, for every frame a rollback may need,
  the state of the current history.
* `SpectatorFeedFinal`: no later input or disconnect, reported by anyone,
  changes a frame that was pushed to the spectators.
* `PredictionBarrier`: the simulation stays within `MAX_PREDICTION_FRAMES` of
  each connected player.
* `EarliestReportWins`: after a poll a player is disconnected at the earliest
  frame that a connected peer reported.
* `OtherAssertsHold`: of all ASSERTs in the three components only the two
  below can fire.
* `QueueContract`: `Sync` and the backend call the queues of connected players
  only as `InputQueueClient` allows, so the theorems about the queue apply.
* `ImplementsStream`, `NothingLost`: inputs arrive in order, once and unchanged,
  and what the other player has not received is kept, whatever the network does.
* `AssertsOnlyAfterLateHandshake`: the ASSERTs of the protocol hold, except that a
  duplicate of a handshake packet, which passes the filter at any time, moves
  `_next_recv_seq` back (`udp_proto.cpp:321`); an older Input packet is then
  accepted and its status fails the ASSERT at `udp_proto.cpp:550`. The invariant
  says that this is the only way.
* `InputsArrive`, `LeaveIsHeard`, `InterruptionEnds`: two players synchronize and
  receive everything, unless one leaves; a leave is heard, from a packet or by
  timeout; no player stays "about to be disconnected".
* `InterruptionShown`: VectorWar shows an interruption exactly while there is one.
* `PlaysTheFeed`, `OutcomeIsRight`, `FeedIsKept`: a spectator plays the inputs of the
  host's frames without gap or repetition (not their disconnect flags, see below); the
  host keeps what it has not handled; `GGPO_ERRORCODE_GENERAL_FAILURE` is returned
  exactly when the spectator is a whole buffer behind, and then for good.
* `EndsOnlyOverrun`, in two parts. `EndsOnlyAtTheStart`: the event queue of a spectator overflows only when the
  first frames, of which the host may send a ring full before it is
  acknowledged, come with events of the handshake or a disconnect in one
  `Pump`. `EndsOnlyUnacknowledged`: a spectator can end the process of its host in one way,
  which a comment (`udp_proto.cpp:114`) knows of: it stays connected and a whole ring of
  frames is not acknowledged. With 64 slots that is about a second, and the
  disconnect timeout of VectorWar is 30 seconds. The property says that a spectator that is
  disconnected before, lost and repeated packets, and timers do not.
* `OnlyDivergenceIsRaised`, `DivergenceIsFound`, `SimulationUndisturbed`: for check
  distances from 1 to `MAX_PREDICTION_FRAMES` + 1 a sync test is sound and
  complete; a distance of 0 verifies nothing, and a larger one asks for a state the ring
  of saved states no longer has and exits.
* `PacketBitsRoundTrip`, `WaitClosesRift`: packets are read as they were written; a
  recommended wait does not open the rift the other way.

### Findings

1. **A disconnect in the same batch as a misprediction ends the process**
   (`late_misprediction`, `input_queue.cpp:91`). Two inputs arrive, the first of
   which refutes a prediction, and the same pump collects the disconnect. The
   backend rolls back to the frame of the disconnect, one after the wrong frame.
2. **A disconnect before the first input ends the process** (`early_disconnect`,
   `sync.cpp:238`). The rollback goes to frame -1, even while the session is
   synchronizing.
3. **A disconnected player comes back for one frame** (`leave_after_disconnect`,
   `p2p.cpp:480`) when the local player leaves, or leaves twice: its last frame
   is raised to the current one.
4. **The exchange of disconnects ends a process** (`gossip`, `udp_proto.cpp:550`).
   A player who adopts an earlier disconnect frame from somebody else reports
   a smaller `last_frame` than before, and the receiver's ASSERT that reports
   never go back fails. `Peer2Peer` is about the sessions where this does not
   happen: its environment's reports never go back.

## Proofs

| modules | about | theorems |
|---|---|---|
| `InputQueueProofs` | remainders, the least element of a set of numbers, the operators of `InputQueue` | lemmas |
| `InputQueueSafety` | `InputQueueClient` | `TypeCorrect`, `Invariant`, `MispredictionIsCaught`, `ConfirmedIsAvailable`, `AssertsNeverFire`, `Refinement` |
| `SyncProofs` | the operators of `Sync` | lemmas |
| `SyncTestProofs` | `SyncTest` | `TypeCorrect`, `OnlyDivergence`, `DivergenceFound`, `Undisturbed` |
| `Peer2PeerProofs` | `Peer2Peer` | `TypeCorrect`, `Invariant`, `Barrier`, `SavedFrames`, `ConfirmedOnce`, `EarliestReport`, `ConsistencyInvariant`, `GameConsistent`, `FeedFinal`, `GoneForGood`, `AssertsInvariant`, `NoOtherAssert`, `ContractKept` |
| `InputFlowProofs` | `InputFlow` | `PendingIsBounded`, `NothingIsLost` |
| `EndpointsProofs` | `UdpProtocol`, `Endpoints` | `EndpointsInvariant`, `EndpointsTypeCorrect`, `NoInputLost`, `InterruptionIsShown`, `StreamIsImplemented`, `FlowIsImplemented`, `SendingNeverAsserts`, `AssertsNeedLateHandshake` |
| `SpectatorProofs` | `UdpProtocol`, `Spectator` | `Invariant`, `TypeCorrect`, `FeedIsPlayed`, `SyncInputIsRight`, `HostKeepsTheFeed` |

All of them are for every value of the constants that satisfies the assumptions of
the modules: any ring lengths, prediction frames, delays, inputs and numbers of
frames. The assumptions are what the code's constants satisfy and the proofs need:
types, a ring of inputs that has a slot, at least one frame that may be predicted,
an erased input (`Gone`) that no player makes, and `SAVED_FRAMES` (32) above the
size of the ring of saved states.

**A queue** (`InputQueueSafety`). `IInv` is `TypeOK` with three parts. `RingInv` says
that cursors are the number of frames that arrived and the oldest frame kept,
modulo the ring length. `PredictionInv` says that frames beyond the log were
played with the input that a prediction started now would give, and when the
queue is in prediction mode. The last part is `MispredictionCaught` itself,
which is not inductive alone: without `PredictionInv` an arriving input may be
compared with a prediction that is not what was played. The lemmas about the
operators (`InputQueueProofs`) are stated on a queue record, a log and a list of
played inputs, not on variables, so that the same lemmas serve the client with
its one queue and `Sync` with one queue per player. That the callers keep the
contract is `ContractKept`.

**The ring of saved states** (`SyncProofs`). `RingInv(s, top)` says that the
slots hold the frames `Kept(top)`, the last `MAX_PREDICTION_FRAMES + 2` up to `top`, each in
the slot of its remainder, where `top` may be ahead of the frame counter during a
rollback. Loading a frame that is kept makes it the head and changes nothing else
(`LoadKeepsRing`); simulating a frame saves the next one over the oldest or over
itself (`IncrementKeepsRing`); `FindSavedFrameIndex` finds a frame exactly if it is
kept (`FrameIsFound`, `FrameIsLost`), although it searches by frame number and the
slots that were never used all say frame 0.

**A sync test** (`SyncTestProofs`). Until the session exits, everything that is kept of
the game (its state, the saved states, `_saved_frames`) is what the first run
of its frames had there (`KeptInv`); `ProgressInv` says how far the verification is,
and that no frame that leaks was verified. With a check distance that fits, the frame
the verification loads is kept, so that `LoadFrame` does not exit (`OnlyDivergence`);
and when it reaches a frame that leaks, the states differ (`DivergenceFound`).

**A peer-to-peer session** (`Peer2PeerProofs`). The invariant comes in three layers,
each inductive over the ones before:

* `IInv`, for any number of players. `NetworkInv` is about endpoints and events.
  `SessionInv` holds as long as no ASSERT has failed: the queue of each connected player is
  one that `InputQueueProofs` is about, with the log of what arrived and the
  player's column of the history as what was played (`QueuesInv`); the states in the ring
  are those of the current history (`StatesInv`), up to the frame the simulation
  had reached before a rollback; and each stage of `DoPoll` has its own part
  (`StageInv`, `PollInv`): for one, what the poll has confirmed so far every connected player
  has sent. `StepKeeps` sums up what any step may do: go back, simulate a frame, or
  discard, the three ways in which the layers above see it.
* `BarrierInv`, for any number of players: the last confirmed frame, the frame
  counter and the frame a rollback returns to are bounded by the last input of every
  connected player. It is needed because the barrier of the code compares with a
  confirmed frame computed in an earlier poll. `Barrier` follows.
* `RingInvs`, for up to three players: the last confirmed frame is no later than
  any report that a later poll will take into account (`ConfirmedInv`), so that
  it never goes back (`ConfirmedOnce`), and the frames simulated are bounded by
  it (`HorizonInv`). This needs that nothing is confirmed before the session
  runs, that no endpoint starts to run later (`StartInv`), and that nobody reports to
  have left itself (`ReportsInv`). `SavedFrames` follows: the frames from the last
  confirmed one on are among those the ring keeps.

`NumPlayers <= 3` is a real restriction. With four players `PollNPlayers` can confirm
less than before: while peer 2 reports that player 1 has left, the queue of
player 1 does not count, but when peer 2 leaves as well and peer 3 has not yet heard that
player 1 left, the queue counts again, with the old frame peer 3 reports
(`p2p.cpp:226`). With two or three players, the sizes the runs have, there is no such
third party.

**What a peer plays** (`Peer2PeerProofs`, second part). `SessionInv` says nothing of the queue of a
player who has left, and between a late input and the rollback it causes the game is
wrong. The theorems need both:

* `ReportedInv`, for any number of players: of the players the poll has passed none
  is behind what a connected peer reports of it. A rollback may run between the poll
  of two queues, and the disconnect it belongs to changes another player's
  status. `EarliestReport` follows.
* `Left`, a part of `Held`, is what becomes of a queue whose player left at frame
  `d`. In the frames after `d` the player is absent from the game. The frames up to `d`
  are those of a queue under its contract that was asked for them only, as long
  as a rollback may still go back there; once `d` lies before the last confirmed
  frame and before the current one the queue is closed: its game up to `d` is the log,
  and no error is known of it.
* `Held` also says that a misprediction is of a frame after the last confirmed one, so
  that the rollback that corrects it undoes nothing that was settled, and
  `SimInv` in which stages a misprediction may be known at all.
* `BehindInv`: no report that this peer has still to act on is of a frame before the
  last confirmed one. So the frame of a disconnect, which may come from the
  application, an endpoint or a report, is never that early (`Drops`).
* `FeedInv`: between two confirmations the spectators have been told exactly the
  confirmed frames, each with what was added for a player, or nothing where it had
  left by then. For a player who left later this stays so because
  of `Drops`.

A step is first put into one of few kinds (`StepKinds`): an input arrives, a player is
dropped, a frame is simulated, and so on, or nothing happens that matters here. Each part of
the invariant is then shown kind by kind. `GameConsistent` and `FeedFinal` follow from the
invariant in the stages they are about.

Both suppose up to three players, for `ConfirmedOnce`, and that the application does not
disconnect its own player. `DisconnectLocal` sets the last frame of every
remote player to the current one, which its queue need not have received, and rolls
nothing back (`p2p.cpp:480`). The runs that check the two properties leave
this out as well; `local_leaves` has it, with the properties that do not depend on it.

`GoneForGood` needs one more part, `GoneInv`, which also holds while mispredictions are
known: a player is absent only from frames after its last one. Together with `Column`, by
which it is absent from all of those, this gives `GoneStaysGone`, the property
of finding 3. The run `leave_after_disconnect` has the local player leave, so the finding
depends on nothing else.

**The ASSERTs of a peer, and the contract of its queues** (`Peer2PeerProofs`). A
session runs into some twenty ASSERTs. That only the two of findings 1 and 2 can fail
needs more than that the game is right, because most of the others are about a ring that
has to hold what a later call looks for. `AssertsInv` has four parts, each inductive over
the invariants before:

* `RoomInv`: every queue still has what may be discarded next, and the frames
  that may be pushed to the spectators. For the queue of a player who has left this
  is a matter of its own: it is asked for nothing any more, but its confirmed frames are
  still discarded, up to the last frame requested, until all of it is gone and the
  tail is put at the head again and again (`Spent`).
* `UserInv`: the application adds its input before every frame and only once, so
  that the local queue has been given exactly the frames simulated so far, except between
  `AddLocal` and the frame, or in a rollback (`Reached`).
* `ReceivedInv`: the inputs received of a remote player are within that player's own
  prediction barrier, as seen from what this peer has sent.
* `OrderInv`: as long as a player is connected, the inputs in its endpoint's event queue
  are, in order and without a gap, the frames after the last one added up to the last
  one received, whatever other events stand between them.

An input that is taken next is therefore of the next frame, and adding it needs a slot.
Together the barriers of both sides let in `2 * MAX_PREDICTION_FRAMES` frames after the last
confirmed one, and the delays some more. `RoomForDelays` says that these fit into
the ring: `2 * MAX_PREDICTION_FRAMES + d + RemoteDelay <= INPUT_QUEUE_LENGTH + 1`, with the
constants of the code, 8 and 128, delays that sum up to at most 113. The instance
`two_players` meets the condition exactly. `NoOtherAssert` also supposes
frames below `MAX_INT`, since `DoPoll` takes that number for nobody's last frame
(`p2p.cpp:128`).

`ContractKept` is the step simulation that links a session with the theorems about one
queue: every step is, for the queue of each player who stays connected, a call that
`InputQueueClient` allows, or changes nothing it speaks of. It goes over the kinds of steps
again: an input that arrives is an `Add` of that player's queue (`ContractAdd`), a frame
simulated a `Request` of all of them, what goes back a `Rollback` to a frame that was not
discarded, and a confirmation a `Discard` of frames that have arrived.

`CheckSimulation` goes back to the least of the first incorrect frames. That a set of
numbers has a least element is `LeastInteger`, proved in `InputQueueProofs` from the
well-foundedness of inclusion among finite sets: the induction theorems of the library
take an operator as a parameter, which the installed provers cannot instantiate, but
this statement about sets has none.

**Frame numbers of two players** (`InputFlowProofs`).

* `PendingIsBounded`: the pending output holds at most
  `2 * MAX_PREDICTION_FRAMES + FrameDelay[a] + FrameDelay[b] - 1` inputs. With the
  8 frames of the code, the ring of 64 (`udp_proto.h:182`) does not overflow as
  long as the delays sum up to at most 48, although nothing limits it but the
  prediction barriers of both players.
* `NothingIsLost`: only inputs the other player has received leave it.

The bound is not inductive, because it depends on acknowledgements that come with
inputs. `IInv` adds that a player is at most a barrier ahead of what it has
received (`Ahead`); that therefore a packet with a frame acknowledges the
frames its sender needed to be allowed that frame (`InFlight`, which also says
that packets in flight are about the past); and that whoever received the frame
heard the acknowledgement (`Heard`). So the frames one player is ahead of the
acknowledgement it heard are at most two barriers.

**Two endpoints** (`EndpointsProofs`). Everything is said in terms of two histories, what a
player has sent (`S`) and what the other one has (`T`), and of two numbers, how many
of `T` this player has received (`h`) and how many of `S` the other has (`g`):

* `EndpointOK`: the pending output is an end of `S`, `_last_acked_input` is the input
  before it, and that one is not the last the other player has received, if there is one at
  all (`Acked`); `_last_received_input` is the `h`-th input of `T`.
* `PacketOK`, for packets sent and not yet read, and for all on their way: the frames in it
  are the differences of successive inputs of the sender from some input on that its receiver
  has, and it acknowledges no later frame than its sender received. That is what makes old
  and repeated packets harmless: wherever a packet starts, what `OnInput` decodes
  after skipping the frames it has are inputs of the sender (`DecodeIsSent`), although the
  base of the differences was chosen by somebody who knew less.
* `BackendOK`: what was delivered is the beginning of `T` of length `h` until this
  player disconnects the other, and what VectorWar shows agrees with the
  interruption the endpoint has announced. An interruption may end, and a disconnect come,
  in the same call that brings inputs; `HandlingStep` follows the events one by one.

No part is inductive alone: packets are correct because endpoints are, what is received
because packets are, and what is dropped because acknowledgements are. `NoInputLost`,
`InterruptionIsShown` and `EndpointsTypeCorrect` follow from the invariant. For
the refinements every step of the system is one of three kinds: `SentOne`, an input was
sent; `Took`, a packet was taken; `Quiet`, anything else, of which only the repetition
of what is pending matters. `SentOne` is a `Send` of both abstract specifications. A
`Took` is a `Deliver` of `InputStream`, or a stutter if it brings nothing, and a
`Receive` of `InputFlow`, or a `Resend` of which everything is lost if it is not
about inputs. `Quiet` changes nothing in the stream and is a `Resend` in the flow.

Since `InputFlow` is implemented, the invariant of `InputFlowProofs` holds of
endpoints (`FlowInvariant`), and `SendingNeverAsserts` follows: if twice the
prediction frames and both delays are no more than the ring (`Room`; 16 and the delays are
no more than 64 in the code), `SendInput` never pushes into a full ring
(`ring_buffer.h:39`), and the first pending frame follows the acknowledged one
(`udp_proto.cpp:139`), whatever happened to the packets of the handshake. Besides `Room`,
which only this theorem uses, what was said so far needs no more than the types of the
constants: not that packets live shorter than the sequence numbers take to wrap
(the other half of `LinkAssumption`), nor that the network keeps any of them. The order
filter is not needed for the inputs to be right; it matters for the connect status in a
packet, whose ASSERT is the subject of the last theorem.

`AssertsNeedLateHandshake`: until a packet of the handshake comes late
(`late`), no ASSERT of the protocol fires. A second invariant, `ReportsInv`, speaks of the
age of a packet, the number of packets its sender has sent since (`AgeOf`):

* The packets on their way are younger than `Lifetime`, and the sequence number of a packet
  says its age. So, below half of the sequence numbers, the filter of `OnMsg` takes
  no packet older than the last one taken (`InOrderIs`). Only the packets of the handshake
  pass it, and they are what `late` is about.
* A younger packet says no less than an older one of either player's inputs
  (`ReportsOK`), because what an endpoint reports only grows (`StatusGrows`, `StatusMore`).
  What an endpoint heard is what the last packet of inputs it took said. Together these are the ASSERTs of `OnInput` (`udp_proto.cpp:535` and `:550`).
* The events of a call are counted, one for each input decoded and at most two others
  (`OnMsgCounts`, `OnLoopPollCounts`). A packet brings no more inputs than its
  sender could have pending, which is the bound of `InputFlowProofs` (`FewComing`). In
  `Endpoints` the events of one packet are handled before the next one is read; in the
  code one `Pump` may read several, and what the theorem says of the ring of events is about
  a `Pump` of one (`Spectator` has the other kind). So the ring of events
  (`udp_proto.h:205`) does not overflow under `RoomForEvents`: 18 and the delays are no more
  than 64 in the code.

The theorem also supposes more than two sequence numbers, and holds from `Init`, or
from `InitRunning` if one round trip makes a handshake, which is what that state is the end
of. Run `endpoints` has a ring of 6, one less than `RoomForEvents` asks for, and TLC finds
no ASSERT there either: the condition suffices, it is not the least one.

**A spectator and its host** (`SpectatorProofs`). There is one stream of inputs `S`, what the
host's endpoint was given while it ran, which is the beginning of the feed. The spectator's
endpoint has received the first `g` of it, and the spectator has handled, stored and
acknowledged the first `h`. Two numbers are needed, where `EndpointsProofs` has one,
because a `Pump` reads many packets before the first event is handled, and it is the
handling that acknowledges (`spectator.cpp:161`):

* `EndOK` and `PacketOK` are the `EndpointOK` and `PacketOK` of `EndpointsProofs`, with the
  host's packets starting where the spectator has *handled* everything. An acknowledgement
  is below `h`, so what the host drops has been handled; that is `FeedIsKept`.
* `Brings`: the events that wait at the spectator bring the inputs from `h + 1` to `g`, in
  this order and with other events between them. `ViewerEvents` follows `EndPump`
  event by event, after which `h` is `g`. The number of inputs among
  them is `g - h`, which is how `LastHandled` can be read off the state.
* `RingOK`: a slot of the ring has the last of the first `h` inputs that belongs there,
  or none came for it. From the remainders follows what `SyncInput` finds for
  any frame up to `h` (`NextInSlot`): the frame itself, an older one or nothing
  exactly if the frame is the `h`-th, and a newer one exactly if the spectator is more than
  a buffer behind. `OutcomeIsRight` and `PlaysTheFeed` follow.
* `FedOK`: a host that runs has given its endpoint all of the feed so far, and one that
  synchronizes nothing.

Nothing is assumed but the types of the constants: the theorems hold for rings of any
length, for feeds of any length, and for networks that keep packets for ever.

**Only model-checked**: when the processes of a spectator and its host end
(`EndsOnlyAtTheStart`, `EndsOnlyUnacknowledged`), which needs the number of events of
a handshake, and for the spectator the ages of packets as in the last theorem about
endpoints; `Gossip`; that the one-step `AddInput` equals the loop, that packets are read as
written, and that a recommended wait closes the rift, which are recursions or sums over a window; and
liveness, which is out of the prover's reach as is `ENABLED`.

## Not modelled

* Two local players at one peer; a frame delay changed after the first frame of a
  session (the queue alone is checked with it; `ggponet.h:422` forbids it).
* The statistics of an endpoint, its round trip time, and the estimate of the
  frame advantage from it (`TimeSync` takes any advantages); the simulated latency and
  reordering of the send queue, which is what the network of `Link` does anyway; the
  option of `TimeSync` to require idle input, which no caller uses.
* How many bits the pending inputs need (`MAX_COMPRESSED_BITS`).
* The re-entrance of `DoPoll` in a rollback: `IncrementFrame` calls it for every frame
  replayed, and it returns at once (`p2p.cpp:104`). `Replay` takes that guard from the code
  and has no step for what would happen without it.
* The disconnect flags of a spectator. `ggponet.h:474` promises one for every player who has
  left, but the host drops what `GetConfirmedInputs` returns (`p2p.cpp:136`), and
  `SpectatorBackend::SyncInput` always returns 0 (`spectator.cpp:82`: "xxx: should get them
  from the host!"). VectorWar turns the ship of a flagged player (`GetShipAI`) and lets
  an unflagged one without input fly on, so after a leave a spectator's game is not the
  players' game, although its inputs are theirs. `PlaysTheFeed` is about the inputs.
* Liveness of a spectator and of sessions with three players; two complete
  backends with rollbacks over endpoints, whose states are too many: `Peer2Peer` has
  the rollbacks and one peer, `Endpoints` two peers and no rollbacks.
* Checksums, memory management of saved states, log files, sockets, clocks,
  drawing and the physics of the game.

## Plan

1. Agreement: `Gossip` with reports that may go back, to see whether the survivors
   end up with the same frame for a player who left.
2. Liveness of a host with a spectator, with a leave of either while the other
   synchronizes.
3. `EndsOnlyAtTheStart` and `EndsOnlyUnacknowledged` as theorems.
