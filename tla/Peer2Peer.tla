------------------------------ MODULE Peer2Peer ------------------------------
(***************************************************************************)
(* One peer of a game session (backends/p2p.cpp) with its Sync, its event   *)
(* loop, the application that drives it (apps/vectorwar/vectorwar.cpp) and, *)
(* as its environment, what the UDP endpoints deliver.                      *)
(*                                                                         *)
(* The process has one thread.  pc says where it is: in the application, at *)
(* one of the stages of DoPoll                                              *)
(*     pump -> events -> check -> poll -> confirm -> application,           *)
(* or inside AdjustSimulation ("replay"), which any of the stages and       *)
(* DisconnectPlayer may call and which calls back into the application for  *)
(* every frame.  A failed ASSERT exits: pc is then the name of the member   *)
(* function the ASSERT stands in.                                           *)
(***************************************************************************)
EXTENDS Sync, Sequences, FiniteSetsExt

CONSTANTS
    LocalPlayer,        \* the player at this peer
    NumSpectators,
    Made,               \* Made[i]: the inputs player i makes
    LocalDelays,        \* frame delays the local player may choose
    RemoteDelay,        \* frame delay of the remote players
    Leavers,            \* players the application may disconnect
    Uninitialized,      \* values UdpProtocol::_current_state starts with
    MaxFrame,           \* bound: frames 0 .. MaxFrame - 1
    MaxBatch            \* bound: events one Pump collects

Spectators == NumPlayers .. NumPlayers + NumSpectators - 1
Remotes    == Players \ {LocalPlayer}
Endpoints  == Players \cup Spectators
EndpointStates == {"syncing", "running", "disconnected", "shutdown"}
MAX_INT    == 2147483647

ASSUME Peer2PeerAssumption ==
    /\ LocalPlayer \in Players
    /\ NumSpectators \in Nat
    /\ Made \in [Players -> SUBSET Bits]
    /\ LocalDelays \subseteq Nat /\ RemoteDelay \in Nat
    /\ Leavers \subseteq Players
    /\ Uninitialized \subseteq EndpointStates
    /\ MaxFrame \in Nat /\ MaxBatch \in Nat

VARIABLES
    sync,               \* _sync
    game,               \* the application's state
    status,             \* _local_connect_status
    endpoint,           \* _current_state of _endpoints and _spectators
    inbox,              \* their _event_queue
    last_received,      \* their _last_received_input.frame
    claims,             \* their _peer_connect_status
    synchronizing,      \* _synchronizing
    pc,                 \* where the thread is
    replay,             \* AdjustSimulation's framecount and its caller
    poll,               \* the loop variables of Poll2Players, PollNPlayers
    fed,                \* inputs pushed to the spectators, frame by frame
    log                 \* history: inputs added for each player

network == <<inbox, last_received, claims>>
vars == <<sync, game, status, endpoint, network, synchronizing, pc, replay,
          poll, fed, log>>

Max2(a, b) == IF a > b THEN a ELSE b
Min2(a, b) == IF a < b THEN a ELSE b

next_spectator_frame == Len(fed)
IsInitialized(e) == e # LocalPlayer /\ endpoint[e] # "shutdown"

Init ==
    /\ \E delay \in LocalDelays :
         sync = [InitSync EXCEPT !.queues[LocalPlayer] = SetFrameDelay(@, delay)]
    /\ game = NewGame
    /\ status = [i \in Players |-> [disconnected |-> FALSE, last_frame |-> NullFrame]]
    /\ \E state \in Uninitialized :
         endpoint = [e \in Endpoints |-> IF e = LocalPlayer THEN state ELSE "syncing"]
    /\ inbox = [e \in Endpoints |-> <<>>]
    /\ last_received = [e \in Endpoints |-> NullFrame]
    /\ claims = [e \in Players |-> status]
    /\ synchronizing = TRUE
    /\ pc = "app"
    /\ replay = [until |-> 0, resume |-> "app"]
    /\ poll = [queue |-> 0, total |-> MAX_INT]
    /\ fed = <<>>
    /\ log = [i \in Players |-> [f \in {} |-> NoBits]]

-----------------------------------------------------------------------------
(* AdjustSimulation up to its first callback; Replay is one callback.        *)

AdjustSimulation(frame, resume) ==
    LET failed ==
          IF ~FindSavedFrameIndexAsserts(sync, frame) THEN "FindSavedFrameIndex"
          ELSE IF ~LoadFrameAsserts(sync, frame) THEN "LoadFrame"
          ELSE IF ~ResetPredictionsAsserts(sync, frame) THEN "ResetPrediction"
          ELSE "none"
    IN  IF failed # "none"
        THEN pc' = failed /\ UNCHANGED <<sync, game, replay>>
        ELSE /\ sync' = ResetPredictions(LoadFrame(sync, frame))
             /\ game' = LoadedGame(sync, frame, game)
             /\ pc' = "replay"
             /\ replay' = [until |-> sync.framecount, resume |-> resume]

(* The application's frame: SyncInput, its own step, IncrementFrame.         *)
SimulateFrame(next) ==
    IF SynchronizeInputsAsserts(sync, status)
    THEN /\ game' = AdvanceGame(sync, status, game)
         /\ sync' = IncrementFrame(SynchronizeInputs(sync, status), game')
         /\ pc' = next
    ELSE pc' = "GetInput" /\ UNCHANGED <<sync, game>>

(* advance_frame: the DoPoll of IncrementFrame returns at once, since Sync   *)
(* is InRollback (p2p.cpp:104).                                              *)
Replay ==
    /\ pc = "replay"
    /\ SimulateFrame(IF sync.framecount + 1 = replay.until THEN replay.resume
                     ELSE "replay")
    /\ UNCHANGED <<status, endpoint, network, synchronizing, replay, poll, fed, log>>

(* CheckInitialSync: the new value of _synchronizing.                        *)
StillSynchronizing(states, stat) ==
    /\ synchronizing
    /\ \E e \in Endpoints \ {LocalPlayer} :
         /\ states[e] \notin {"running", "shutdown"}
         /\ e \in Players => ~stat[e].disconnected

(* Mutant: the frames simulated with a disconnected player's predictions stay. *)
DisconnectWithoutReplay(queue, syncto, resume) ==
    /\ endpoint' = [endpoint EXCEPT ![queue] = "disconnected"]
    /\ status' = [status EXCEPT ![queue] = [disconnected |-> TRUE,
                                            last_frame |-> syncto]]
    /\ synchronizing' = StillSynchronizing(endpoint', status')
    /\ pc' = resume
    /\ UNCHANGED <<sync, game, replay>>

(* DisconnectPlayerQueue.  CheckInitialSync comes last in the code; nothing  *)
(* is simulated while _synchronizing holds, so the replay does not see it.   *)
DisconnectPlayerQueue(queue, syncto, resume) ==
    /\ endpoint' = [endpoint EXCEPT ![queue] = "disconnected"]
    /\ status' = [status EXCEPT ![queue] = [disconnected |-> TRUE,
                                            last_frame |-> syncto]]
    /\ synchronizing' = StillSynchronizing(endpoint', status')
    /\ IF syncto < sync.framecount THEN AdjustSimulation(syncto, resume)
       ELSE pc' = resume /\ UNCHANGED <<sync, game, replay>>

-----------------------------------------------------------------------------
(* The application: VectorWar_RunFrame, VectorWar_Idle and                    *)
(* VectorWar_DisconnectPlayer.                                               *)

LogInput(queue, frame, bits) ==
    LET q == sync.queues[queue]
        target == TargetFrame(q, frame)
    IN  log' = IF target = NullFrame THEN log
               ELSE [log EXCEPT ![queue] =
                       [f \in 0 .. target |->
                          IF f <= q.last_added_frame THEN @[f]
                          ELSE DelayedBits(q, bits, target, f)]]

AddLocal(bits) ==
    LET q == sync.queues[LocalPlayer]
        target == TargetFrame(q, sync.framecount)
    IN  /\ pc = "app" /\ ~synchronizing
        /\ ~BarrierReached(sync)
        /\ sync.framecount + q.frame_delay < MaxFrame
        /\ IF AddInputAsserts(q, sync.framecount)
           THEN /\ sync' = AddLocalInput(sync, LocalPlayer, bits, game)
                /\ LogInput(LocalPlayer, sync.framecount, bits)
                /\ status' = IF target = NullFrame THEN status
                             ELSE [status EXCEPT ![LocalPlayer].last_frame = target]
                /\ pc' = "frame"
           ELSE pc' = "AddInput" /\ UNCHANGED <<sync, log, status>>
        /\ UNCHANGED <<game, endpoint, network, synchronizing, replay, poll, fed>>

AdvanceFrame ==
    /\ pc = "frame"
    /\ SimulateFrame("pump")
    /\ UNCHANGED <<status, endpoint, network, synchronizing, replay, poll, fed, log>>

Idle ==
    /\ pc = "app"
    /\ pc' = "pump"
    /\ UNCHANGED <<sync, game, status, endpoint, network, synchronizing, replay,
                   poll, fed, log>>

DisconnectRemote(queue) ==
    /\ pc = "app"
    /\ queue \in Leavers /\ IsInitialized(queue)
    /\ ~status[queue].disconnected
    /\ DisconnectPlayerQueue(queue, status[queue].last_frame, "app")
    /\ UNCHANGED <<network, poll, fed, log>>

(* The local player leaves: every remote player is disconnected at the       *)
(* current frame, those included that had been disconnected before.          *)
DisconnectLocal ==
    LET queues == {i \in Players : IsInitialized(i)}
    IN  /\ pc = "app"
        /\ LocalPlayer \in Leavers
        /\ \E i \in queues : status[i] # [disconnected |-> TRUE,
                                          last_frame |-> sync.framecount]
        /\ endpoint' = [e \in Endpoints |->
                          IF e \in queues THEN "disconnected" ELSE endpoint[e]]
        /\ status' = [i \in Players |->
                        IF i \in queues THEN [disconnected |-> TRUE,
                                              last_frame |-> sync.framecount]
                        ELSE status[i]]
        /\ synchronizing' = StillSynchronizing(endpoint', status')
        /\ UNCHANGED <<sync, game, network, pc, replay, poll, fed, log>>

-----------------------------------------------------------------------------
(* Pump: what the endpoints queue (udp_proto.cpp).                           *)

Queued == MapThenSumSet(LAMBDA e : Len(inbox[e]), Endpoints)
QueueEvent(e, event) ==
    /\ pc = "pump" /\ Queued < MaxBatch
    /\ inbox' = [inbox EXCEPT ![e] = Append(@, event)]

(* The last sync reply arrived.                                              *)
Synchronized(e) ==
    /\ e # LocalPlayer /\ endpoint[e] = "syncing"
    /\ QueueEvent(e, [type |-> "synchronized"])
    /\ endpoint' = [endpoint EXCEPT ![e] = "running"]
    /\ UNCHANGED <<sync, game, status, last_received, claims, synchronizing, pc,
                   replay, poll, fed, log>>

(* The next input of a remote player, who is held back by its own prediction *)
(* barrier: what it has confirmed cannot be past what this peer has sent.    *)
InputArrives(e, bits) ==
    LET frame == IF last_received[e] = NullFrame THEN RemoteDelay
                 ELSE last_received[e] + 1
    IN  /\ e \in Remotes /\ endpoint[e] = "running"
        /\ frame - RemoteDelay < Max2(status[LocalPlayer].last_frame, 0)
                                   + MAX_PREDICTION_FRAMES
        /\ frame < MaxFrame
        /\ QueueEvent(e, [type |-> "input", frame |-> frame, bits |-> bits])
        /\ last_received' = [last_received EXCEPT ![e] = frame]
        /\ claims' = [claims EXCEPT ![e][e].last_frame = frame]
        /\ UNCHANGED <<sync, game, status, endpoint, synchronizing, pc, replay,
                       poll, fed, log>>

(* No packet for too long, or one that requests the disconnect.              *)
Disconnected(e) ==
    /\ e # LocalPlayer /\ endpoint[e] = "running"
    /\ \A n \in 1 .. Len(inbox[e]) : inbox[e][n].type # "disconnected"
    /\ QueueEvent(e, [type |-> "disconnected"])
    /\ UNCHANGED <<sync, game, status, endpoint, last_received, claims,
                   synchronizing, pc, replay, poll, fed, log>>

(* The endpoint gives up its socket, some seconds after Disconnect.          *)
Shutdown(e) ==
    /\ pc = "pump" /\ e # LocalPlayer /\ endpoint[e] = "disconnected"
    /\ endpoint' = [endpoint EXCEPT ![e] = "shutdown"]
    /\ UNCHANGED <<sync, game, status, network, synchronizing, pc, replay, poll,
                   fed, log>>

(* A packet from e says how far e has received player i, and whether e has   *)
(* disconnected it; OnInput accepts only claims that do not go back.  With   *)
(* two players nobody reads these.                                           *)
PeerClaims(e, i, claim) ==
    LET old == claims[e][i]
        limit == IF i = LocalPlayer THEN status[i].last_frame
                 ELSE Min2(MaxFrame - 1,
                           Max2(status[LocalPlayer].last_frame, 0)
                             + MAX_PREDICTION_FRAMES - 1 + RemoteDelay)
    IN  /\ NumPlayers > 2
        /\ pc = "pump" /\ e \in Remotes /\ endpoint[e] = "running"
        /\ i # e /\ ~old.disconnected
        /\ claim.last_frame \in Max2(old.last_frame, 0) .. limit
        /\ claim.disconnected => i # LocalPlayer
        /\ claim # old
        /\ claims' = [claims EXCEPT ![e][i] = claim]
        /\ UNCHANGED <<sync, game, status, endpoint, inbox, last_received,
                       synchronizing, pc, replay, poll, fed, log>>

Pumped ==
    /\ pc = "pump"
    /\ pc' = "events"
    /\ UNCHANGED <<sync, game, status, endpoint, network, synchronizing, replay,
                   poll, fed, log>>

-----------------------------------------------------------------------------
(* PollUdpProtocolEvents: endpoint after endpoint until its queue is empty.  *)

Waiting == {e \in Endpoints : inbox[e] # <<>>}
IsNext(e) == e \in Waiting /\ \A other \in Waiting : e <= other
Take(e, type) ==
    /\ pc = "events" /\ IsNext(e)
    /\ Head(inbox[e]).type = type
    /\ inbox' = [inbox EXCEPT ![e] = Tail(@)]
    /\ UNCHANGED <<last_received, claims>>

OnSynchronized(e) ==
    /\ Take(e, "synchronized")
    /\ synchronizing' = StillSynchronizing(endpoint, status)
    /\ UNCHANGED <<sync, game, status, endpoint, pc, replay, poll, fed, log>>

OnInput(e) ==
    LET frame == Head(inbox[e]).frame
        bits  == Head(inbox[e]).bits
        last  == status[e].last_frame
    IN  /\ Take(e, "input")
        /\ IF status[e].disconnected
           THEN UNCHANGED <<sync, status, log, pc>>
           ELSE IF last # NullFrame /\ frame # last + 1
           THEN pc' = "OnUdpProtocolPeerEvent" /\ UNCHANGED <<sync, status, log>>
           ELSE IF ~AddInputAsserts(sync.queues[e], frame)
           THEN pc' = "AddInput" /\ UNCHANGED <<sync, status, log>>
           ELSE /\ sync' = AddRemoteInput(sync, e, frame, bits)
                /\ status' = [status EXCEPT ![e].last_frame = frame]
                /\ LogInput(e, frame, bits)
                /\ UNCHANGED pc
        /\ UNCHANGED <<game, endpoint, synchronizing, replay, poll, fed>>

OnDisconnected(e) ==
    /\ Take(e, "disconnected")
    /\ IF e \in Spectators
       THEN /\ endpoint' = [endpoint EXCEPT ![e] = "disconnected"]
            /\ UNCHANGED <<sync, game, status, synchronizing, pc, replay>>
       ELSE IF status[e].disconnected
       THEN UNCHANGED <<sync, game, status, endpoint, synchronizing, pc, replay>>
       ELSE DisconnectPlayerQueue(e, status[e].last_frame, "events")
    /\ UNCHANGED <<poll, fed, log>>

EventsDone ==
    /\ pc = "events" /\ Waiting = {}
    /\ pc' = IF synchronizing THEN "app" ELSE "check"
    /\ UNCHANGED <<sync, game, status, endpoint, network, synchronizing, replay,
                   poll, fed, log>>

-----------------------------------------------------------------------------
(* CheckSimulation.                                                          *)

CheckSimulation ==
    /\ pc = "check"
    /\ poll' = [queue |-> 0, total |-> MAX_INT]
    /\ IF FirstIncorrectFrames(sync) = {}
       THEN pc' = "poll" /\ UNCHANGED <<sync, game, replay>>
       ELSE AdjustSimulation(SeekTo(sync), "poll")
    /\ UNCHANGED <<status, endpoint, network, synchronizing, fed, log>>

-----------------------------------------------------------------------------
(* Poll2Players and PollNPlayers, one queue a step: which endpoints' claims  *)
(* count, what is confirmed, and whether someone else has disconnected the   *)
(* queue's player.                                                           *)

Consulted(queue) ==
    {e \in (IF NumPlayers <= 2 THEN {queue} ELSE Players) : endpoint[e] = "running"}

QueueConnected(queue) ==
    \A e \in Consulted(queue) : ~claims[e][queue].disconnected

Confirmed(queue) ==
    LET own  == IF status[queue].disconnected THEN {}
                ELSE {status[queue].last_frame}
        told == IF NumPlayers <= 2 THEN {}
                ELSE {claims[e][queue].last_frame : e \in Consulted(queue)}
    IN  Min(own \cup told \cup {MAX_INT})

(* Mutant: a frame counts as confirmed when this peer has its inputs.        *)
TotalHere(queue) ==
    IF status[queue].disconnected THEN poll.total
    ELSE Min2(status[queue].last_frame, poll.total)

(* The two-player poll disconnects at the minimum over the queues so far and *)
(* only once; with more players it is the minimum for this queue, and an     *)
(* earlier frame than the one adopted before disconnects the player again.   *)
TotalAfter(queue) ==
    IF NumPlayers <= 2 \/ QueueConnected(queue)
    THEN Min2(Confirmed(queue), poll.total) ELSE poll.total
DisconnectFrame(queue) ==
    IF NumPlayers <= 2 THEN TotalAfter(queue) ELSE Confirmed(queue)

(* Mutant: a report is ignored once the player is disconnected here.         *)
ToDisconnectOnce(queue) ==
    ~QueueConnected(queue) /\ ~status[queue].disconnected

ToDisconnect(queue) ==
    /\ ~QueueConnected(queue)
    /\ \/ ~status[queue].disconnected
       \/ NumPlayers > 2 /\ status[queue].last_frame > Confirmed(queue)

PollPlayer ==
    LET queue == poll.queue
    IN  /\ pc = "poll" /\ queue \in Players
        /\ poll' = [queue |-> queue + 1, total |-> TotalAfter(queue)]
        /\ IF ToDisconnect(queue)
           THEN DisconnectPlayerQueue(queue, DisconnectFrame(queue), "poll")
           ELSE UNCHANGED <<sync, game, status, endpoint, synchronizing, pc, replay>>
        /\ UNCHANGED <<network, fed, log>>

PollDone ==
    /\ pc = "poll" /\ poll.queue \notin Players
    /\ pc' = IF poll.total = MAX_INT THEN "DoPoll"
             ELSE IF poll.total >= 0 THEN "confirm" ELSE "app"
    /\ UNCHANGED <<sync, game, status, endpoint, network, synchronizing, replay,
                   poll, fed, log>>

-----------------------------------------------------------------------------
(* Confirmed frames go to the spectators and leave the queues.               *)

(* Mutant: a frame too far.                                                  *)
ToPushAhead == NumSpectators > 0 /\ next_spectator_frame <= poll.total + 1

ToPush == NumSpectators > 0 /\ next_spectator_frame <= poll.total

PushToSpectators ==
    /\ pc = "confirm" /\ ToPush
    /\ IF ConfirmedInputsAsserts(sync, status, next_spectator_frame)
       THEN /\ \E v \in ConfirmedInputs(sync, status, next_spectator_frame) :
                   fed' = Append(fed, v)
            /\ UNCHANGED pc
       ELSE pc' = "GetConfirmedInput" /\ UNCHANGED fed
    /\ UNCHANGED <<sync, game, status, endpoint, network, synchronizing, replay,
                   poll, log>>

Confirm ==
    /\ pc = "confirm" /\ ~ToPush
    /\ IF SetLastConfirmedFrameAsserts(sync, poll.total)
       THEN /\ sync' = SetLastConfirmedFrame(sync, poll.total)
            /\ pc' = "app"
       ELSE pc' = "DiscardConfirmedFrames" /\ UNCHANGED sync
    /\ UNCHANGED <<game, status, endpoint, network, synchronizing, replay, poll,
                   fed, log>>

Stages == {"app", "frame", "pump", "events", "check", "poll", "confirm", "replay"}

(* The process has exited.                                                   *)
Exited == pc \notin Stages /\ UNCHANGED vars

Application ==
    \/ \E bits \in Made[LocalPlayer] : AddLocal(bits)
    \/ AdvanceFrame
    \/ Idle
    \/ \E queue \in Players : DisconnectRemote(queue)
    \/ DisconnectLocal

Network ==
    \/ \E e \in Endpoints : Synchronized(e) \/ Disconnected(e) \/ Shutdown(e)
    \/ \E e \in Remotes : \E bits \in Made[e] : InputArrives(e, bits)
    \/ \E e, i \in Players : \E claim \in [disconnected : BOOLEAN,
                                           last_frame : 0 .. MaxFrame - 1] :
           PeerClaims(e, i, claim)

DoPoll ==
    \/ Pumped
    \/ \E e \in Endpoints : OnSynchronized(e) \/ OnInput(e) \/ OnDisconnected(e)
    \/ EventsDone
    \/ CheckSimulation
    \/ Replay
    \/ PollPlayer
    \/ PollDone
    \/ PushToSpectators
    \/ Confirm

Next == Application \/ Network \/ DoPoll \/ Exited

Spec == Init /\ [][Next]_vars
-----------------------------------------------------------------------------
Events == [type : {"synchronized", "disconnected"}]
            \cup [type : {"input"}, frame : Nat, bits : Bits]

TypeOK ==
    /\ sync.framecount \in 0 .. MaxFrame
    /\ sync.last_confirmed_frame \in Frames
    /\ sync.head \in SaveSlots
    /\ DOMAIN sync.saved = SaveSlots
    /\ sync.queues \in [Players -> QueueType]
    /\ game \in [0 .. sync.framecount - 1 -> Vectors]
    /\ status \in [Players -> Status]
    /\ endpoint \in [Endpoints -> EndpointStates]
    /\ inbox \in [Endpoints -> Seq(Events)]
    /\ last_received \in [Endpoints -> Frames]
    /\ claims \in [Players -> [Players -> Status]]
    /\ synchronizing \in BOOLEAN
    /\ fed \in Seq([Players -> Bits])
    /\ \A i \in Players :
         log[i] \in [0 .. sync.queues[i].last_added_frame -> Bits]

(* What the simulation must have used for player i in frame f: nothing after *)
(* the frame i was disconnected at, the input that was added for f, or, as   *)
(* long as there is none, the last one that was.                             *)
Expected(i, f) ==
    IF status[i].disconnected /\ f > status[i].last_frame THEN Gone
    ELSE IF f \in DOMAIN log[i] THEN log[i][f]
    ELSE IF DOMAIN log[i] = {} THEN NoBits
    ELSE log[i][Cardinality(DOMAIN log[i]) - 1]

(* p2p.cpp:101, sync.cpp:128: whenever a call returns to the application its *)
(* game state is the one that the inputs known by then produce, in every     *)
(* frame back to the first -- after late inputs, several mispredictions in   *)
(* one batch, disconnects that cut the past off, and the rollbacks they all  *)
(* cause.                                                                    *)
SimulationConsistent ==
    pc = "app" =>
        \A f \in DOMAIN game : \A i \in Players : game[f][i] = Expected(i, f)

(* sync.h:43: between rollbacks the ring of saved states finds, for every    *)
(* frame a rollback may still go back to, the state that the current history *)
(* has at that frame, not one of a history that was rolled back.             *)
SavedFramesAvailable ==
    pc \in Stages \ {"replay"} /\ sync.framecount > 0 =>
        \A f \in Max2(0, sync.last_confirmed_frame) .. sync.framecount :
            /\ FindSavedFrameIndexAsserts(sync, f)
            /\ LET saved == sync.saved[FindSavedFrameIndex(sync, f)]
               IN  saved.full /\ saved.state = [n \in 0 .. f - 1 |-> game[n]]

(* sync.cpp:61: nothing is simulated more than MAX_PREDICTION_FRAMES beyond  *)
(* the last input that a player who is still connected has sent, although    *)
(* the check reads a _last_confirmed_frame computed in an earlier poll.      *)
PredictionBarrier ==
    \A i \in Players :
        ~status[i].disconnected =>
            sync.framecount <= Max2(status[i].last_frame, 0) + MAX_PREDICTION_FRAMES

(* p2p.cpp:130: a frame is pushed to the spectators once and cannot be taken *)
(* back: whatever arrives, disconnects or is replayed later, this peer's own *)
(* simulation of that frame keeps the inputs that were pushed.               *)
SpectatorFeedFinal ==
    \A f \in DOMAIN game :
        f < next_spectator_frame =>
            fed[f + 1] = [i \in Players |-> Erased(game[f][i])]

(* p2p.cpp:229: "check to see if this disconnect notification is further     *)
(* back than we've been before": when peers disconnect a player at different *)
(* frames, a poll leaves this one with the earliest frame any connected peer *)
(* has reported, whichever of the disconnects it learned of first.           *)
EarliestReportWins ==
    pc = "poll" /\ poll.queue = NumPlayers =>
        \A i \in Remotes : \A e \in Remotes \ {i} :
            endpoint[e] = "running" /\ claims[e][i].disconnected =>
                /\ status[i].disconnected
                /\ status[i].last_frame <= claims[e][i].last_frame

(* input_queue.cpp:91 and sync.cpp:238 are the only ASSERTs of Sync, of the  *)
(* input queues and of the backend that a session can run into.              *)
OtherAssertsHold == pc \in Stages \cup {"ResetPrediction", "FindSavedFrameIndex"}

(* ggponet.h:474: "If a player has disconnected, the input in the values     *)
(* array for that player will be zeroed and the i-th flag will be set": a    *)
(* player who was absent in a frame is absent in every later one.            *)
GoneStaysGone ==
    \A i \in Players : \A f, g \in DOMAIN game :
        f < g /\ game[f][i] = Gone => game[g][i] = Gone

(* input_queue.cpp:91: ASSERT(_first_incorrect_frame == GameInput::NullFrame *)
(* || frame <= _first_incorrect_frame): a rollback never skips a frame that  *)
(* is known to be wrong.                                                     *)
ResetPredictionAssertHolds == pc # "ResetPrediction"

(* p2p.cpp:612 lets a session start without the players that disconnected    *)
(* while it was synchronizing: disconnecting one ends no process.            *)
FindSavedFrameIndexAssertHolds == pc # "FindSavedFrameIndex"

(* Every queue of a player who stays connected is only ever called as its    *)
(* contract demands, which InputQueueSafety proves is enough.                *)
Client(i) == INSTANCE InputQueueClient WITH
    q <- sync.queues[i], framecount <- sync.framecount, log <- log[i],
    played <- [f \in DOMAIN game |-> game[f][i]],
    FrameDelays <- LocalDelays \cup {0, RemoteDelay}

QueueContract ==
    [][\A i \in Players :
         status'[i].disconnected \/ Client(i)!Next \/ UNCHANGED Client(i)!vars]_vars
=============================================================================
