--------------------------- MODULE Peer2PeerProofs ---------------------------
(***************************************************************************)
(* Theorems about Peer2Peer, for any number of players and spectators,      *)
(* prediction frames, delays, ring lengths and inputs.  SyncProofs and      *)
(* InputQueueProofs say what the parts of the Sync do; here is what the     *)
(* event loop, the disconnects and the poll around them preserve.           *)
(*                                                                          *)
(* The first part says what the queues of the players who are connected     *)
(* hold, up to ConfirmedOnce.  The second says what a peer has simulated    *)
(* and what it has told the spectators, whatever arrived late, whoever left *)
(* and whichever rollbacks that caused, and what becomes of a queue when    *)
(* its player has left.  From that follow, as long as the rings have room   *)
(* for the inputs that the prediction barriers of both sides let in, which  *)
(* ASSERTs can end the process, and that the queues are called as their     *)
(* contract demands.                                                        *)
(***************************************************************************)
EXTENDS Peer2Peer, SyncProofs, SequenceTheorems

USE SyncAssumption, InputQueueAssumption, Peer2PeerAssumption

Histories == UNION {[0 .. f - 1 -> Vectors] : f \in 0 .. MaxFrame}
Syncs     == SyncType(Histories, [Players -> QueueType])
Notices   == [type : {"synchronized", "disconnected"}]
Callers   == {"app", "events", "poll"}
-----------------------------------------------------------------------------
(* The endpoints and what they deliver.  Nobody disconnects the local player, *)
(* who has no endpoint, and a spectator sends no inputs.                      *)
NetworkInv ==
    /\ endpoint \in [Endpoints -> EndpointStates]
    /\ inbox \in [Endpoints -> Seq(Events)]
    /\ last_received \in [Endpoints -> Frames]
    /\ claims \in [Players -> [Players -> Status]]
    /\ synchronizing \in BOOLEAN
    /\ fed \in Seq([Players -> Bits])
    /\ \A e \in Players : ~claims[e][LocalPlayer].disconnected
    /\ inbox[LocalPlayer] = <<>>
    /\ \A e \in Spectators : inbox[e] \in Seq(Notices)

(* The Sync and what is kept about it, in a process that has exited too.      *)
SessionTypes ==
    /\ sync \in Syncs /\ sync.framecount <= MaxFrame
    /\ game \in [0 .. sync.framecount - 1 -> Vectors]
    /\ status \in [Players -> Status]
    /\ ~status[LocalPlayer].disconnected
    /\ \A i \in Remotes : sync.queues[i].frame_delay = 0
    /\ Logs(sync, log)
    /\ replay \in [until : 0 .. MaxFrame, resume : Callers]
    /\ poll \in [queue : Nat, total : Frames]

(* What the poll has confirmed of the queues it has passed.                   *)
Polling == \/ pc \in {"poll", "confirm"}
           \/ pc = "replay" /\ replay.resume = "poll"
PollInv ==
    /\ Polling => \A i \in Connected(status) :
                     i < poll.queue => poll.total <= status[i].last_frame
    /\ pc = "confirm" => poll.queue >= NumPlayers /\ poll.total >= 0

(* The states that a rollback between frames finds.                           *)
AtRest(s, g) == IF s.framecount = 0 THEN Untouched(s)
                ELSE StatesInv(s, g, s.framecount)

StageInv ==
    CASE pc = "frame"  -> /\ Settled(sync, status)
                          /\ StatesInv(sync, game, sync.framecount)
                          /\ sync.framecount < MaxFrame
                          /\ ~BarrierReached(sync)
      [] pc = "replay" -> /\ sync.framecount < replay.until
                          /\ StatesInv(sync, game, replay.until)
      [] OTHER         -> Settled(sync, status) /\ AtRest(sync, game)

SessionInv == QueuesInv(sync, game, status, log) /\ StageInv /\ PollInv

(* The inductive invariant.                                                   *)
IInv == NetworkInv /\ SessionTypes /\ (pc \in Stages => SessionInv)
-----------------------------------------------------------------------------
(* The network.                                                               *)

LEMMA LocalIsPlayer == LocalPlayer \in Players /\ LocalPlayer \in Endpoints
                       /\ LocalPlayer \notin Spectators
  BY DEF Players, Endpoints, Spectators

LEMMA NoticesAreEvents == Notices \subseteq Events
  BY DEF Notices, Events

LEMMA NetworkInit == Init => NetworkInv
<1> SUFFICES ASSUME Init PROVE NetworkInv
  OBVIOUS
<1>1. endpoint \in [Endpoints -> EndpointStates]
  BY DEF Init, EndpointStates
<1>2. status \in [Players -> Status] /\ ~status[LocalPlayer].disconnected
  BY LocalIsPlayer DEF Init, Status, Frames, NullFrame
<1>3. /\ claims \in [Players -> [Players -> Status]]
      /\ \A e \in Players : ~claims[e][LocalPlayer].disconnected
  BY <1>2 DEF Init
<1>4. /\ inbox \in [Endpoints -> Seq(Events)] /\ inbox[LocalPlayer] = <<>>
      /\ \A e \in Spectators : inbox[e] \in Seq(Notices)
  BY LocalIsPlayer DEF Init, Endpoints
<1>5. last_received \in [Endpoints -> Frames] /\ synchronizing \in BOOLEAN
      /\ fed \in Seq([Players -> Bits])
  BY DEF Init, Frames, NullFrame
<1> QED BY <1>1, <1>3, <1>4, <1>5 DEF NetworkInv

(* An endpoint that disconnects, and CheckInitialSync.                        *)
LEMMA NetworkDisconnect ==
  ASSUME NetworkInv, NEW queue \in Players, NEW syncto, NEW resume,
         DisconnectPlayerQueue(queue, syncto, resume), UNCHANGED <<network, fed>>
  PROVE  NetworkInv'
<1>1. endpoint' \in [Endpoints -> EndpointStates]
  BY DEF NetworkInv, DisconnectPlayerQueue, EndpointStates
<1>2. synchronizing' \in BOOLEAN
  BY DEF DisconnectPlayerQueue, StillSynchronizing, NetworkInv
<1> QED BY <1>1, <1>2 DEF NetworkInv, network

(* An event put into a queue and one taken from it.                           *)
LEMMA NetworkQueued ==
  ASSUME NetworkInv, NEW e \in Endpoints, e # LocalPlayer, NEW event \in Events,
         e \in Spectators => event \in Notices,
         inbox' = [inbox EXCEPT ![e] = Append(@, event)]
  PROVE  /\ inbox' \in [Endpoints -> Seq(Events)] /\ inbox'[LocalPlayer] = <<>>
         /\ \A other \in Spectators : inbox'[other] \in Seq(Notices)
<1>1. /\ inbox \in [Endpoints -> Seq(Events)] /\ inbox[LocalPlayer] = <<>>
      /\ \A other \in Spectators : inbox[other] \in Seq(Notices)
  BY DEF NetworkInv
<1>2. inbox[e] \in Seq(Events) /\ Append(inbox[e], event) \in Seq(Events)
  BY <1>1, AppendProperties
<1>3. e \in Spectators => Append(inbox[e], event) \in Seq(Notices)
  BY <1>1, AppendProperties
<1>4. /\ inbox' \in [Endpoints -> Seq(Events)] /\ inbox'[e] = Append(inbox[e], event)
      /\ \A other \in Endpoints : other # e => inbox'[other] = inbox[other]
  BY <1>1, <1>2
<1>5. Spectators \subseteq Endpoints
  BY DEF Endpoints
<1> QED BY <1>1, <1>3, <1>4, <1>5, LocalIsPlayer

LEMMA NetworkTaken ==
  ASSUME NetworkInv, NEW e \in Endpoints, NEW type, Take(e, type)
  PROVE  /\ e # LocalPlayer /\ Head(inbox[e]) \in Events
         /\ e \in Spectators => Head(inbox[e]) \in Notices
         /\ inbox' \in [Endpoints -> Seq(Events)] /\ inbox'[LocalPlayer] = <<>>
         /\ \A other \in Spectators : inbox'[other] \in Seq(Notices)
<1>1. /\ inbox \in [Endpoints -> Seq(Events)] /\ inbox[LocalPlayer] = <<>>
      /\ \A other \in Spectators : inbox[other] \in Seq(Notices)
  BY DEF NetworkInv
<1>2. inbox[e] # <<>> /\ inbox' = [inbox EXCEPT ![e] = Tail(@)]
  BY DEF Take, IsNext, Waiting
<1>3. /\ inbox[e] \in Seq(Events) /\ Head(inbox[e]) \in Events
      /\ Tail(inbox[e]) \in Seq(Events)
  BY <1>1, <1>2, HeadTailProperties
<1>4. e \in Spectators => /\ Head(inbox[e]) \in Notices
                          /\ Tail(inbox[e]) \in Seq(Notices)
  BY <1>1, <1>2, HeadTailProperties
<1>5. /\ inbox' \in [Endpoints -> Seq(Events)] /\ inbox'[e] = Tail(inbox[e])
      /\ \A other \in Endpoints : other # e => inbox'[other] = inbox[other]
  BY <1>1, <1>2, <1>3
<1>6. Spectators \subseteq Endpoints /\ e # LocalPlayer
  BY <1>1, <1>2 DEF Endpoints
<1> QED BY <1>1, <1>3, <1>4, <1>5, <1>6, LocalIsPlayer

LEMMA NetworkSame ==
  ASSUME NetworkInv, UNCHANGED <<endpoint, network, synchronizing, fed>>
  PROVE  NetworkInv'
  BY DEF NetworkInv, network

LEMMA NetworkApplication ==
  ASSUME NetworkInv, Application
  PROVE  NetworkInv'
<1>1. ASSUME NEW bits \in Made[LocalPlayer], AddLocal(bits) PROVE NetworkInv'
  BY <1>1, NetworkSame DEF AddLocal
<1>2. CASE AdvanceFrame \/ Idle
  BY <1>2, NetworkSame DEF AdvanceFrame, Idle
<1>3. ASSUME NEW queue \in Players, DisconnectRemote(queue) PROVE NetworkInv'
  <2>1. /\ DisconnectPlayerQueue(queue, status[queue].last_frame, "app")
        /\ UNCHANGED <<network, fed>>
    BY <1>3 DEF DisconnectRemote
  <2> QED BY <2>1, NetworkDisconnect
<1>4. CASE DisconnectLocal
  <2>1. endpoint' \in [Endpoints -> EndpointStates]
    BY <1>4 DEF DisconnectLocal, NetworkInv, EndpointStates
  <2>2. synchronizing' \in BOOLEAN /\ UNCHANGED <<network, fed>>
    BY <1>4 DEF DisconnectLocal, StillSynchronizing, NetworkInv
  <2> QED BY <2>1, <2>2 DEF NetworkInv, network
<1> QED BY <1>1, <1>2, <1>3, <1>4 DEF Application

LEMMA NetworkNetwork ==
  ASSUME NetworkInv, SessionTypes, Network
  PROVE  NetworkInv'
<1>1. ASSUME NEW e \in Endpoints, Synchronized(e) PROVE NetworkInv'
  <2>1. inbox' = [inbox EXCEPT ![e] = Append(@, [type |-> "synchronized"])]
    BY <1>1 DEF Synchronized, QueueEvent
  <2>2. [type |-> "synchronized"] \in Notices /\ e # LocalPlayer
    BY <1>1 DEF Synchronized, Notices
  <2>3. /\ inbox' \in [Endpoints -> Seq(Events)] /\ inbox'[LocalPlayer] = <<>>
        /\ \A other \in Spectators : inbox'[other] \in Seq(Notices)
    BY <2>1, <2>2, NetworkQueued, NoticesAreEvents
  <2>4. endpoint' \in [Endpoints -> EndpointStates]
    BY <1>1 DEF Synchronized, NetworkInv, EndpointStates
  <2>5. UNCHANGED <<last_received, claims, synchronizing, fed>>
    BY <1>1 DEF Synchronized
  <2> QED BY <2>3, <2>4, <2>5 DEF NetworkInv
<1>2. ASSUME NEW e \in Endpoints, Disconnected(e) PROVE NetworkInv'
  <2>1. inbox' = [inbox EXCEPT ![e] = Append(@, [type |-> "disconnected"])]
    BY <1>2 DEF Disconnected, QueueEvent
  <2>2. [type |-> "disconnected"] \in Notices /\ e # LocalPlayer
    BY <1>2 DEF Disconnected, Notices
  <2>3. /\ inbox' \in [Endpoints -> Seq(Events)] /\ inbox'[LocalPlayer] = <<>>
        /\ \A other \in Spectators : inbox'[other] \in Seq(Notices)
    BY <2>1, <2>2, NetworkQueued, NoticesAreEvents
  <2>4. UNCHANGED <<endpoint, last_received, claims, synchronizing, fed>>
    BY <1>2 DEF Disconnected
  <2> QED BY <2>3, <2>4 DEF NetworkInv
<1>3. ASSUME NEW e \in Endpoints, Shutdown(e) PROVE NetworkInv'
  <2>1. endpoint' \in [Endpoints -> EndpointStates]
    BY <1>3 DEF Shutdown, NetworkInv, EndpointStates
  <2>2. UNCHANGED <<network, synchronizing, fed>>
    BY <1>3 DEF Shutdown
  <2> QED BY <2>1, <2>2 DEF NetworkInv, network
<1>4. ASSUME NEW e \in Remotes, NEW bits \in Made[e], InputArrives(e, bits)
      PROVE  NetworkInv'
  <2> DEFINE frame == IF last_received[e] = NullFrame THEN RemoteDelay
                      ELSE last_received[e] + 1
             event == [type |-> "input", frame |-> frame, bits |-> bits]
  <2>1. /\ e \in Players /\ e \in Endpoints /\ e # LocalPlayer
        /\ e \notin Spectators
    BY DEF Remotes, Endpoints, Players, Spectators
  <2>2. last_received[e] \in Frames
    BY <2>1 DEF NetworkInv
  <2>3. frame \in Nat /\ frame \in Frames
    BY <2>2 DEF Frames, NullFrame
  <2>4. /\ inbox' = [inbox EXCEPT ![e] = Append(@, event)]
        /\ last_received' = [last_received EXCEPT ![e] = frame]
        /\ claims' = [claims EXCEPT ![e][e].last_frame = frame]
        /\ UNCHANGED <<endpoint, synchronizing, fed>>
    BY <1>4 DEF InputArrives, QueueEvent
  <2>5. event \in Events
    BY <2>1, <2>3 DEF Events
  <2> HIDE DEF frame, event
  <2>6. /\ inbox' \in [Endpoints -> Seq(Events)] /\ inbox'[LocalPlayer] = <<>>
        /\ \A other \in Spectators : inbox'[other] \in Seq(Notices)
    BY <2>1, <2>4, <2>5, NetworkQueued
  <2>7. last_received' \in [Endpoints -> Frames]
    BY <2>1, <2>3, <2>4 DEF NetworkInv
  <2>8. /\ claims' \in [Players -> [Players -> Status]]
        /\ \A i \in Players : ~claims'[i][LocalPlayer].disconnected
    <3> DEFINE claim == [claims[e][e] EXCEPT !.last_frame = frame]
               row   == [claims[e] EXCEPT ![e] = claim]
    <3>1. claims \in [Players -> [Players -> Status]]
      BY DEF NetworkInv
    <3>2. claims[e] \in [Players -> Status] /\ claims[e][e] \in Status
      BY <2>1, <3>1
    <3>3. claim \in Status
      BY <2>3, <3>2 DEF Status
    <3>4. claims' = [claims EXCEPT ![e] = row]
      BY <2>4
    <3> HIDE DEF claim
    <3>5. row \in [Players -> Status] /\ row[LocalPlayer] = claims[e][LocalPlayer]
      BY <2>1, <3>2, <3>3
    <3> HIDE DEF row
    <3> QED BY <2>1, <3>1, <3>4, <3>5 DEF NetworkInv
  <2> QED BY <2>4, <2>6, <2>7, <2>8 DEF NetworkInv
<1>5. ASSUME NEW e \in Players, NEW i \in Players,
             NEW claim \in [disconnected : BOOLEAN, last_frame : 0 .. MaxFrame - 1],
             PeerClaims(e, i, claim)
      PROVE  NetworkInv'
  <2>1. /\ claims' = [claims EXCEPT ![e][i] = claim]
        /\ claim.disconnected => i # LocalPlayer
        /\ UNCHANGED <<endpoint, inbox, last_received, synchronizing, fed>>
    BY <1>5 DEF PeerClaims
  <2>2. claim \in Status
    BY DEF Status, Frames
  <2>3. /\ claims' \in [Players -> [Players -> Status]]
        /\ \A other \in Players : ~claims'[other][LocalPlayer].disconnected
    BY <2>1, <2>2, LocalIsPlayer DEF NetworkInv
  <2> QED BY <2>1, <2>3 DEF NetworkInv
<1> QED BY <1>1, <1>2, <1>3, <1>4, <1>5 DEF Network

LEMMA NetworkPoll ==
  ASSUME NetworkInv, DoPoll
  PROVE  NetworkInv'
<1>1. CASE Pumped \/ EventsDone \/ CheckSimulation \/ Replay \/ PollDone \/ Confirm
  BY <1>1, NetworkSame
     DEF Pumped, EventsDone, CheckSimulation, Replay, PollDone, Confirm
<1>2. ASSUME NEW e \in Endpoints, OnSynchronized(e) PROVE NetworkInv'
  <2>1. /\ Take(e, "synchronized") /\ UNCHANGED <<endpoint, fed>>
        /\ synchronizing' \in BOOLEAN
    BY <1>2 DEF OnSynchronized, StillSynchronizing, NetworkInv
  <2>2. UNCHANGED <<last_received, claims>>
    BY <2>1 DEF Take
  <2> QED BY <2>1, <2>2, NetworkTaken DEF NetworkInv
<1>3. ASSUME NEW e \in Endpoints, OnInput(e) PROVE NetworkInv'
  <2>1. Take(e, "input") /\ UNCHANGED <<endpoint, synchronizing, fed>>
    BY <1>3 DEF OnInput
  <2>2. UNCHANGED <<last_received, claims>>
    BY <2>1 DEF Take
  <2> QED BY <2>1, <2>2, NetworkTaken DEF NetworkInv
<1>4. ASSUME NEW e \in Endpoints, OnDisconnected(e) PROVE NetworkInv'
  <2>1. Take(e, "disconnected") /\ UNCHANGED fed
    BY <1>4 DEF OnDisconnected
  <2>2. UNCHANGED <<last_received, claims>>
    BY <2>1 DEF Take
  <2>3. endpoint' \in [Endpoints -> EndpointStates] /\ synchronizing' \in BOOLEAN
    BY <1>4 DEF OnDisconnected, DisconnectPlayerQueue, StillSynchronizing,
                NetworkInv, EndpointStates
  <2> QED BY <2>1, <2>2, <2>3, NetworkTaken DEF NetworkInv
<1>5. CASE PollPlayer
  <2>1. UNCHANGED <<network, fed>> /\ poll.queue \in Players
    BY <1>5 DEF PollPlayer
  <2>2. CASE ToDisconnect(poll.queue)
    <3>1. DisconnectPlayerQueue(poll.queue, DisconnectFrame(poll.queue), "poll")
      BY <1>5, <2>2 DEF PollPlayer
    <3> QED BY <2>1, <3>1, NetworkDisconnect
  <2>3. CASE ~ToDisconnect(poll.queue)
    BY <1>5, <2>3, NetworkSame DEF PollPlayer
  <2> QED BY <2>2, <2>3
<1>6. CASE PushToSpectators
  <2>1. UNCHANGED <<endpoint, network, synchronizing>>
    BY <1>6 DEF PushToSpectators
  <2>2. fed' \in Seq([Players -> Bits])
    <3>1. fed \in Seq([Players -> Bits])
      BY DEF NetworkInv
    <3>2. CASE UNCHANGED fed
      BY <3>1, <3>2
    <3>3. CASE ~UNCHANGED fed
      <4>1. \E v \in ConfirmedInputs(sync, status, next_spectator_frame) :
               fed' = Append(fed, v)
        BY <1>6, <3>3 DEF PushToSpectators
      <4>2. PICK v \in [Players -> Bits] : fed' = Append(fed, v)
        BY <4>1 DEF ConfirmedInputs
      <4> QED BY <3>1, <4>2, AppendProperties
    <3> QED BY <3>2, <3>3
  <2> QED BY <2>1, <2>2 DEF NetworkInv, network
<1> QED BY <1>1, <1>2, <1>3, <1>4, <1>5, <1>6 DEF DoPoll

LEMMA NetworkStep ==
  ASSUME NetworkInv, SessionTypes, [Next]_vars
  PROVE  NetworkInv'
<1>1. CASE Exited \/ UNCHANGED vars
  BY <1>1, NetworkSame DEF Exited, vars
<1> QED BY <1>1, NetworkApplication, NetworkNetwork, NetworkPoll DEF Next
-----------------------------------------------------------------------------
(* The session: the steps that leave the Sync alone.                          *)

LEMMA HistoryType ==
  ASSUME NEW f \in 0 .. MaxFrame, NEW g \in [0 .. f - 1 -> Vectors]
  PROVE  g \in Histories
  BY DEF Histories

LEMMA PlayersArranged ==
  /\ Players \subseteq Nat /\ LocalPlayer \in Players /\ LocalPlayer \notin Remotes
  /\ \A i \in Players : i # LocalPlayer => i \in Remotes
  /\ Remotes \subseteq Players
  BY DEF Players, Remotes

LEMMA SessionInit == ASSUME Init PROVE SessionTypes /\ SessionInv
<1> PICK delay \in LocalDelays :
      sync = [InitSync EXCEPT !.queues[LocalPlayer] = SetFrameDelay(@, delay)]
  BY DEF Init
<1> DEFINE own == SetFrameDelay(InitQueue, delay)
           qs  == [InitSync.queues EXCEPT ![LocalPlayer] = own]
<1>1. /\ delay \in Nat /\ own \in QueueType /\ InitQueue \in QueueType
      /\ own.first_incorrect_frame = NullFrame /\ own.last_added_frame = NullFrame
      /\ own.last_frame_requested = NullFrame
  BY InitQueueType DEF SetFrameDelay, QueueType, InitQueue
<1>2. /\ InitQueue.first_incorrect_frame = NullFrame
      /\ InitQueue.last_added_frame = NullFrame
      /\ InitQueue.last_frame_requested = NullFrame
      /\ InitQueue.frame_delay = 0
  BY DEF InitQueue
<1> DEFINE slot == [frame |-> 0, full |-> FALSE, state |-> NewGame]
           saved == [s \in SaveSlots |-> slot]
           new == [i \in Players |-> InitQueue]
<1>3. InitSync = [framecount |-> 0, last_confirmed_frame |-> NullFrame, head |-> 0,
                  saved |-> saved, queues |-> new]
  BY DEF InitSync
<1> HIDE DEF own, saved, slot
<1>4. /\ qs \in [Players -> {InitQueue, own}]
      /\ \A i \in Players : i # LocalPlayer => qs[i] = InitQueue
  BY <1>3, PlayersArranged
<1>5. sync = [framecount |-> 0, last_confirmed_frame |-> NullFrame, head |-> 0,
              saved |-> saved, queues |-> qs]
  <2>1. InitSync.queues[LocalPlayer] = InitQueue
    BY <1>3, PlayersArranged
  <2>2. sync = [InitSync EXCEPT !.queues[LocalPlayer] = own]
    BY <2>1 DEF own
  <2> HIDE DEF new
  <2> QED BY <1>3, <2>2
<1> HIDE DEF qs
<1>6. /\ game \in [0 .. 0 - 1 -> Vectors] /\ NewGame \in Histories /\ game = NewGame
  <2>1. game = NewGame /\ NewGame \in [0 .. 0 - 1 -> Vectors]
    BY DEF Init, NewGame
  <2>2. 0 \in 0 .. MaxFrame
    OBVIOUS
  <2> QED BY <2>1, <2>2, HistoryType
<1>7. sync \in Syncs
  <2>1. slot \in [frame : Nat, full : BOOLEAN, state : Histories]
    BY <1>6 DEF slot
  <2>2. saved \in [SaveSlots -> [frame : Nat, full : BOOLEAN, state : Histories]]
    BY <2>1 DEF saved
  <2>3. 0 \in SaveSlots /\ NullFrame \in Frames
    BY DEF SaveSlots, Frames
  <2>4. qs \in [Players -> QueueType]
    BY <1>1, <1>4
  <2> DEFINE Saves  == [SaveSlots -> [frame : Nat, full : BOOLEAN, state : Histories]]
             Queues == [Players -> QueueType]
  <2>5. saved \in Saves /\ qs \in Queues
    BY <2>2, <2>4
  <2>6. Syncs = [framecount : Nat, last_confirmed_frame : Frames, head : SaveSlots,
                 saved : Saves, queues : Queues]
    BY DEF Syncs, SyncType
  <2> HIDE DEF Saves, Queues
  <2>7. [framecount |-> 0, last_confirmed_frame |-> NullFrame, head |-> 0,
         saved |-> saved, queues |-> qs]
          \in [framecount : Nat, last_confirmed_frame : Frames, head : SaveSlots,
               saved : Saves, queues : Queues]
    BY <2>3, <2>5
  <2> QED BY <1>5, <2>6, <2>7
<1>8. /\ sync.framecount = 0 /\ sync.head = 0 /\ sync.saved = saved
      /\ sync.queues = qs
  BY <1>5
<1>9. ASSUME NEW i \in Players
      PROVE  /\ sync.queues[i] \in {InitQueue, own}
             /\ sync.queues[i].first_incorrect_frame = NullFrame
             /\ sync.queues[i].last_added_frame = NullFrame
             /\ sync.queues[i].last_frame_requested = NullFrame
  BY <1>1, <1>2, <1>4, <1>8
<1>10. /\ status = [i \in Players |-> [disconnected |-> FALSE, last_frame |-> NullFrame]]
       /\ log = [i \in Players |-> [f \in {} |-> NoBits]]
       /\ replay = [until |-> 0, resume |-> "app"]
       /\ poll = [queue |-> 0, total |-> MAX_INT]
       /\ pc = "app"
  BY DEF Init
<1>11. SessionTypes
  <2>1. status \in [Players -> Status] /\ ~status[LocalPlayer].disconnected
    BY <1>10, PlayersArranged DEF Status, Frames
  <2>2. Logs(sync, log)
    BY <1>9, <1>10 DEF Logs, Arrivals, NullFrame
  <2>3. replay \in [until : 0 .. MaxFrame, resume : Callers]
    BY <1>10 DEF Callers
  <2>4. poll \in [queue : Nat, total : Frames]
    BY <1>10 DEF Frames, MAX_INT
  <2>5. \A i \in Remotes : sync.queues[i].frame_delay = 0
    BY <1>2, <1>4, <1>8, PlayersArranged
  <2>6. sync.framecount <= MaxFrame /\ game \in [0 .. sync.framecount - 1 -> Vectors]
    BY <1>6, <1>8
  <2> QED BY <1>7, <2>1, <2>2, <2>3, <2>4, <2>5, <2>6 DEF SessionTypes
<1>12. QueuesInv(sync, game, status, log)
  <2> SUFFICES ASSUME NEW i \in Players
               PROVE  /\ sync.queues[i].first_incorrect_frame < 0
                      /\ QueueInv(sync.queues[i], 0, log[i], Column(game, i))
                      /\ status[i].last_frame = sync.queues[i].last_added_frame
    BY <1>8 DEF QueuesInv
  <2>1. sync.queues[i] \in {InitQueue, SetFrameDelay(InitQueue, delay)}
    BY <1>9 DEF own
  <2>2. log[i] = [f \in {} |-> NoBits]
    BY <1>10
  <2>3. QueueInv(sync.queues[i], 0, [f \in {} |-> NoBits], Column(game, i))
    BY <1>1, <2>1, QueueInvInit
  <2> QED BY <1>9, <1>10, <2>2, <2>3 DEF NullFrame
<1>13. Settled(sync, status) /\ AtRest(sync, game)
  <2>1. Settled(sync, status)
    BY <1>8, <1>9 DEF Settled, Connected, NullFrame
  <2>2. \A s \in SaveSlots : saved[s].frame = 0
    BY DEF saved, slot
  <2> QED BY <1>8, <2>1, <2>2 DEF AtRest, Untouched
<1> QED BY <1>10, <1>11, <1>12, <1>13 DEF SessionInv, StageInv, PollInv, Polling

(* How a step may change what the prediction barrier depends on.              *)
Fewer ==
    \A i \in Connected(status') :
        i \in Connected(status) /\ status'[i].last_frame >= status[i].last_frame

RolledBack ==
    /\ sync'.last_confirmed_frame = sync.last_confirmed_frame
    /\ sync'.framecount <= sync.framecount
    /\ replay'.until \in {replay.until, sync.framecount}

Advanced ==
    /\ sync'.last_confirmed_frame = sync.last_confirmed_frame
    /\ sync'.framecount = sync.framecount + 1
    /\ ~BarrierReached(sync) \/ sync.framecount < replay.until
    /\ UNCHANGED <<status, replay>>

Discarding ==
    /\ Confirm /\ PollInv /\ sync'.last_confirmed_frame = poll.total
    /\ sync'.framecount = sync.framecount /\ UNCHANGED <<status, replay>>

(* What every step does to the session.                                       *)
StepKeeps ==
    /\ SessionTypes' /\ (pc' \in Stages => SessionInv')
    /\ Fewer /\ (RolledBack \/ Advanced \/ Discarding)

LEMMA SameStatus ==
  ASSUME IInv, UNCHANGED status
  PROVE  Fewer
<1>1. \A i \in Players : status[i].last_frame \in Int
  BY DEF IInv, SessionTypes, Status, Frames, NullFrame
<1> QED BY <1>1 DEF Fewer, Connected

LEMMA SameSync ==
  ASSUME IInv, UNCHANGED <<sync, status, replay>>
  PROVE  Fewer /\ RolledBack
<1>1. sync.framecount \in Int
  BY DEF IInv, SessionTypes, Syncs, SyncType
<1> QED BY <1>1, SameStatus DEF RolledBack

(* The stages the thread may rest in between frames.                          *)
Resting == Stages \ {"frame", "replay"}

LEMMA RestingInv ==
  pc \in Resting => (SessionInv <=> /\ QueuesInv(sync, game, status, log)
                                    /\ Settled(sync, status)
                                    /\ AtRest(sync, game) /\ PollInv)
  BY DEF Resting, SessionInv, StageInv

LEMMA RestingInvNext ==
  pc' \in Resting => (SessionInv' <=> /\ QueuesInv(sync, game, status, log)'
                                      /\ Settled(sync, status)'
                                      /\ AtRest(sync, game)' /\ PollInv')
  BY DEF Resting, SessionInv, StageInv

LEMMA QuietStep ==
  ASSUME IInv, UNCHANGED <<sync, game, status, log, replay, poll>>,
         \/ UNCHANGED pc
         \/ pc \in Resting /\ (pc' \in Resting => PollInv') /\ pc' \notin {"frame", "replay"}
  PROVE  StepKeeps
<1> USE SameSync DEF StepKeeps
<1>1. SessionTypes'
  BY DEF IInv, SessionTypes
<1>2. CASE UNCHANGED pc
  <2>1. QueuesInv(sync, game, status, log)' <=> QueuesInv(sync, game, status, log)
    OBVIOUS
  <2>2. StageInv' <=> StageInv
    BY <1>2 DEF StageInv
  <2>3. PollInv' <=> PollInv
    BY <1>2 DEF PollInv, Polling
  <2> QED BY <1>1, <1>2, <2>1, <2>2, <2>3 DEF IInv, SessionInv
<1>3. CASE ~UNCHANGED pc
  <2>1. pc' \in Stages => pc' \in Resting
    BY <1>3 DEF Resting
  <2>2. SessionInv
    BY <1>3 DEF IInv, Resting
  <2>3. /\ QueuesInv(sync, game, status, log)' /\ Settled(sync, status)'
        /\ AtRest(sync, game)'
    BY <1>3, <2>2, RestingInv
  <2> QED BY <1>1, <1>3, <2>1, <2>3, RestingInvNext
<1> QED BY <1>2, <1>3, <1>1
-----------------------------------------------------------------------------
(* A frame simulated.                                                         *)

(* What IInv says of the Sync while the process runs.                         *)
LEMMA SyncFacts ==
  ASSUME IInv
  PROVE  /\ sync \in SyncType(Histories, [Players -> QueueType])
         /\ sync.framecount \in Nat /\ sync.framecount <= MaxFrame
         /\ sync.queues \in [Players -> QueueType]
         /\ game \in [0 .. sync.framecount - 1 -> Vectors] /\ game \in Histories
         /\ status \in [Players -> Status] /\ Logs(sync, log)
         /\ LocalPlayer \in Connected(status)
         /\ replay.until \in 0 .. MaxFrame /\ replay.resume \in Callers
         /\ poll.queue \in Nat /\ poll.total \in Frames
<1>1. sync \in SyncType(Histories, [Players -> QueueType])
  BY DEF IInv, SessionTypes, Syncs
<1>2. sync.framecount \in Nat /\ sync.queues \in [Players -> QueueType]
  BY <1>1 DEF SyncType
<1>3. sync.framecount <= MaxFrame /\ game \in [0 .. sync.framecount - 1 -> Vectors]
  BY DEF IInv, SessionTypes
<1>4. sync.framecount \in 0 .. MaxFrame
  BY <1>2, <1>3
<1>5. game \in Histories
  BY <1>3, <1>4, HistoryType
<1>6. /\ status \in [Players -> Status] /\ Logs(sync, log)
      /\ LocalPlayer \in Connected(status)
      /\ replay.until \in 0 .. MaxFrame /\ replay.resume \in Callers
      /\ poll.queue \in Nat /\ poll.total \in Frames
  BY PlayersArranged DEF IInv, SessionTypes, Connected
<1> QED BY <1>1, <1>2, <1>3, <1>5, <1>6

(* The types after a step that adds no input.                                 *)
LEMMA TypesAfter ==
  ASSUME IInv, sync' \in SyncType(Histories, [Players -> QueueType]),
         sync'.framecount <= MaxFrame,
         game' \in [0 .. sync'.framecount - 1 -> Vectors],
         SameArrivals(sync, sync'), UNCHANGED log,
         status' \in [Players -> Status], ~status'[LocalPlayer].disconnected,
         replay' \in [until : 0 .. MaxFrame, resume : Callers],
         poll' \in [queue : Nat, total : Frames]
  PROVE  SessionTypes'
<1>1. Logs(sync', log')
  BY SyncFacts, SameArrivalsLogs
<1>2. \A i \in Remotes : sync'.queues[i].frame_delay = 0
  BY PlayersArranged DEF SameArrivals, IInv, SessionTypes
<1> QED BY <1>1, <1>2 DEF SessionTypes, Syncs

LEMMA SimulateStep ==
  ASSUME IInv, QueuesInv(sync, game, status, log),
         NEW top \in Nat, StatesInv(sync, game, top), sync.framecount < MaxFrame,
         NEW next, SimulateFrame(next), UNCHANGED <<status, log, replay, poll>>
  PROVE  \/ pc' = "GetInput" /\ UNCHANGED <<sync, game>>
         \/ /\ pc' = next /\ SessionTypes'
            /\ sync'.framecount = sync.framecount + 1
            /\ sync'.last_confirmed_frame = sync.last_confirmed_frame
            /\ QueuesInv(sync', game', status', log') /\ Settled(sync', status')
            /\ StatesInv(sync', game', TopAfter(sync, top))
<1>0. /\ sync \in SyncType(Histories, [Players -> QueueType])
      /\ sync.framecount \in Nat
      /\ game \in [0 .. sync.framecount - 1 -> Vectors]
      /\ status \in [Players -> Status] /\ LocalPlayer \in Connected(status)
  BY SyncFacts
<1>1. CASE ~SynchronizeInputsAsserts(sync, status)
  BY <1>1 DEF SimulateFrame
<1>2. CASE SynchronizeInputsAsserts(sync, status)
  <2> DEFINE h == AdvanceGame(sync, status, game)
             t == IncrementFrame(SynchronizeInputs(sync, status), h)
  <2>1. game' = h /\ sync' = t /\ pc' = next
    BY <1>2 DEF SimulateFrame
  <2>2. h \in [0 .. sync.framecount -> Vectors]
    BY <1>0, AdvanceGameType
  <2>3. h \in Histories
    <3> HIDE DEF h
    <3>1. sync.framecount + 1 \in 0 .. MaxFrame
      BY <1>0
    <3>2. (sync.framecount + 1) - 1 = sync.framecount
      BY <1>0
    <3>3. h \in [0 .. (sync.framecount + 1) - 1 -> Vectors]
      BY <2>2, <3>2
    <3> DEFINE f == sync.framecount + 1
    <3> HIDE DEF f
    <3>4. f \in 0 .. MaxFrame /\ h \in [0 .. f - 1 -> Vectors]
      BY <3>1, <3>3 DEF f
    <3> QED BY <3>4, HistoryType
  <2>4. /\ t \in SyncType(Histories, [Players -> QueueType])
        /\ t.framecount = sync.framecount + 1
        /\ t.last_confirmed_frame = sync.last_confirmed_frame
        /\ SameArrivals(sync, t)
        /\ QueuesInv(t, h, status, log) /\ Settled(t, status)
        /\ StatesInv(t, h, TopAfter(sync, top))
    BY <1>0, <1>2, <2>3, SimulateKeeps
  <2> HIDE DEF h, t
  <2>5. /\ sync' \in SyncType(Histories, [Players -> QueueType])
        /\ sync'.framecount = sync.framecount + 1
        /\ sync'.last_confirmed_frame = sync.last_confirmed_frame
        /\ SameArrivals(sync, sync')
        /\ QueuesInv(sync', game', status', log') /\ Settled(sync', status')
        /\ StatesInv(sync', game', TopAfter(sync, top))
    BY <2>1, <2>4
  <2>6. game' \in [0 .. sync'.framecount - 1 -> Vectors]
    <3>1. sync'.framecount - 1 = sync.framecount
      BY <1>0, <2>5
    <3> QED BY <2>1, <2>2, <3>1
  <2>7. /\ sync'.framecount <= MaxFrame
        /\ status' \in [Players -> Status] /\ ~status'[LocalPlayer].disconnected
        /\ replay' \in [until : 0 .. MaxFrame, resume : Callers]
        /\ poll' \in [queue : Nat, total : Frames]
    BY <1>0, <2>5 DEF Connected, IInv, SessionTypes
  <2>8. SessionTypes'
    BY <1>0, <2>5, <2>6, <2>7, TypesAfter
  <2> QED BY <2>1, <2>5, <2>8
<1> QED BY <1>1, <1>2

LEMMA ExitStep ==
  ASSUME IInv, UNCHANGED <<sync, game, status, log, replay>>, pc' \notin Stages,
         poll' \in [queue : Nat, total : Frames]
  PROVE  StepKeeps
  BY SameSync DEF IInv, SessionTypes, StepKeeps

LEMMA AdvanceFrameStep ==
  ASSUME IInv, AdvanceFrame
  PROVE  StepKeeps
<1>1. /\ pc = "frame" /\ SimulateFrame("pump")
      /\ UNCHANGED <<status, log, replay, poll>>
  BY DEF AdvanceFrame
<1>2. SessionInv
  BY <1>1 DEF IInv, Stages
<1>3. /\ QueuesInv(sync, game, status, log)
      /\ StatesInv(sync, game, sync.framecount) /\ sync.framecount < MaxFrame
      /\ ~BarrierReached(sync)
  BY <1>1, <1>2 DEF SessionInv, StageInv
<1> DEFINE top == sync.framecount
<1>4. top \in Nat /\ TopAfter(sync, top) = sync.framecount + 1
  BY SyncFacts DEF TopAfter
<1>5. \/ pc' = "GetInput" /\ UNCHANGED <<sync, game>>
      \/ /\ pc' = "pump" /\ SessionTypes'
         /\ sync'.framecount = sync.framecount + 1
         /\ sync'.last_confirmed_frame = sync.last_confirmed_frame
         /\ QueuesInv(sync', game', status', log') /\ Settled(sync', status')
         /\ StatesInv(sync', game', TopAfter(sync, top))
  BY <1>1, <1>3, <1>4, SimulateStep
<1>6. CASE pc' = "GetInput" /\ UNCHANGED <<sync, game>>
  BY <1>1, <1>6, ExitStep DEF Stages, IInv, SessionTypes
<1>7. CASE pc' = "pump" /\ SessionTypes'
  <2>1. StatesInv(sync', game', sync'.framecount) /\ sync'.framecount # 0
    BY <1>4, <1>5, <1>7
  <2>2. AtRest(sync', game')
    BY <2>1 DEF AtRest
  <2>3. PollInv'
    BY <1>7 DEF PollInv, Polling
  <2>4. pc' \in Resting
    BY <1>7 DEF Resting, Stages
  <2>5. SessionInv'
    BY <1>5, <1>7, <2>2, <2>3, <2>4, RestingInvNext
  <2>6. Advanced
    BY <1>1, <1>3, <1>5, <1>7 DEF Advanced
  <2> QED BY <1>1, <1>7, <2>5, <2>6, SameStatus DEF StepKeeps
<1> QED BY <1>5, <1>6, <1>7

LEMMA ReplayStep ==
  ASSUME IInv, Replay
  PROVE  StepKeeps
<1> DEFINE next == IF sync.framecount + 1 = replay.until THEN replay.resume
                   ELSE "replay"
           top == replay.until
<1>1. pc = "replay" /\ SimulateFrame(next) /\ UNCHANGED <<status, log, replay, poll>>
  BY DEF Replay
<1>2. SessionInv
  BY <1>1 DEF IInv, Stages
<1>3. /\ QueuesInv(sync, game, status, log) /\ PollInv
      /\ StatesInv(sync, game, top) /\ sync.framecount < top
  BY <1>1, <1>2 DEF SessionInv, StageInv
<1>4. /\ top \in Nat /\ sync.framecount \in Nat /\ sync.framecount < MaxFrame
      /\ TopAfter(sync, top) = top
  BY <1>3, SyncFacts DEF TopAfter
<1> HIDE DEF next, top
<1>5. \/ pc' = "GetInput" /\ UNCHANGED <<sync, game>>
      \/ /\ pc' = next /\ SessionTypes'
         /\ sync'.framecount = sync.framecount + 1
         /\ sync'.last_confirmed_frame = sync.last_confirmed_frame
         /\ QueuesInv(sync', game', status', log') /\ Settled(sync', status')
         /\ StatesInv(sync', game', TopAfter(sync, top))
  BY <1>1, <1>3, <1>4, SimulateStep
<1>6. CASE pc' = "GetInput" /\ UNCHANGED <<sync, game>>
  BY <1>1, <1>6, ExitStep DEF Stages, IInv, SessionTypes
<1>7. CASE pc' = next /\ SessionTypes' /\ sync'.framecount = sync.framecount + 1
  <2>0. Fewer /\ Advanced
    BY <1>1, <1>3, <1>4, <1>5, <1>7, SameStatus DEF Advanced, top
  <2>1. CASE sync.framecount + 1 = top
    <3>1. pc' = replay.resume /\ pc' \in Callers
      BY <1>7, <2>1, SyncFacts DEF next, top
    <3>2. AtRest(sync', game')
      <4>1. StatesInv(sync', game', sync'.framecount) /\ sync'.framecount # 0
        BY <1>4, <1>5, <1>7, <2>1, <3>1 DEF Callers
      <4> QED BY <4>1 DEF AtRest
    <3>3. PollInv'
      BY <1>1, <1>3, <3>1 DEF PollInv, Polling, Callers
    <3>4. pc' \in Resting /\ pc' # "GetInput"
      BY <3>1 DEF Resting, Stages, Callers
    <3>5. SessionInv'
      BY <1>5, <1>7, <3>2, <3>3, <3>4, RestingInvNext
    <3> QED BY <1>7, <2>0, <3>5 DEF StepKeeps
  <2>2. CASE sync.framecount + 1 # top
    <3>1. pc' = "replay"
      BY <1>7, <2>2 DEF next, top
    <3>2. /\ sync'.framecount < replay'.until /\ StatesInv(sync', game', replay'.until)
          /\ QueuesInv(sync', game', status', log')
      BY <1>1, <1>3, <1>4, <1>5, <2>2, <3>1 DEF top
    <3>3. StageInv'
      BY <3>1, <3>2 DEF StageInv
    <3>4. PollInv'
      BY <1>1, <1>3, <3>1 DEF PollInv, Polling
    <3> QED BY <1>7, <2>0, <3>2, <3>3, <3>4 DEF SessionInv, StepKeeps
  <2> QED BY <2>1, <2>2
<1> QED BY <1>5, <1>6, <1>7
-----------------------------------------------------------------------------
(* A rollback begins.                                                         *)

(* The status that the poll has seen is the one it goes on with.              *)
PassedOver == \A i \in Connected(status) :
                  i < poll.queue => poll.total <= status[i].last_frame

LEMMA AdjustStep ==
  ASSUME IInv, pc \in Resting, NEW frame \in Frames, frame < sync.framecount,
         NEW resume \in Callers, AdjustSimulation(frame, resume), UNCHANGED log,
         status' \in [Players -> Status], LocalPlayer \in Connected(status'),
         QueuesInv(sync, game, status', log), Fewer,
         poll' \in [queue : Nat, total : Frames], resume = "poll" => PassedOver'
  PROVE  StepKeeps
<1>0. /\ sync \in SyncType(Histories, [Players -> QueueType])
      /\ sync.framecount \in Nat /\ sync.framecount <= MaxFrame
      /\ game \in [0 .. sync.framecount - 1 -> Vectors]
      /\ replay \in [until : 0 .. MaxFrame, resume : Callers]
      /\ ~status'[LocalPlayer].disconnected
  BY SyncFacts DEF Connected, IInv, SessionTypes
<1>1. CASE ~(/\ FindSavedFrameIndexAsserts(sync, frame)
             /\ LoadFrameAsserts(sync, frame)
             /\ ResetPredictionsAsserts(sync, frame))
  <2>1. /\ pc' \in {"FindSavedFrameIndex", "LoadFrame", "ResetPrediction"}
        /\ UNCHANGED <<sync, game, replay>>
    BY <1>1 DEF AdjustSimulation
  <2>2. pc' \notin Stages
    BY <2>1 DEF Stages
  <2>3. SessionTypes'
    BY <1>0, <2>1 DEF IInv, SessionTypes
  <2> QED BY <1>0, <2>1, <2>2, <2>3 DEF RolledBack, StepKeeps
<1>2. CASE /\ FindSavedFrameIndexAsserts(sync, frame)
           /\ LoadFrameAsserts(sync, frame)
           /\ ResetPredictionsAsserts(sync, frame)
  <2> DEFINE t == ResetPredictions(LoadFrame(sync, frame))
             h == LoadedGame(sync, frame, game)
  <2>1. /\ sync' = t /\ game' = h /\ pc' = "replay"
        /\ replay' = [until |-> sync.framecount, resume |-> resume]
    BY <1>2 DEF AdjustSimulation
  <2>2. StatesInv(sync, game, sync.framecount)
    <3>1. AtRest(sync, game)
      BY RestingInv DEF IInv, Resting
    <3>2. sync.framecount # 0
      <4> SUFFICES ASSUME sync.framecount = 0 PROVE FALSE
        OBVIOUS
      <4>1. frame = -1 /\ \A slot \in SaveSlots : sync.saved[slot].frame = 0
        BY <3>1 DEF AtRest, Untouched, Frames, NullFrame
      <4> QED BY <1>2, <4>1 DEF FindSavedFrameIndexAsserts, SavedAt
    <3> QED BY <3>1, <3>2 DEF AtRest
  <2>3. /\ t \in SyncType(Histories, [Players -> QueueType])
        /\ frame \in Nat /\ t.framecount = frame
        /\ t.last_confirmed_frame = sync.last_confirmed_frame
        /\ h \in [0 .. frame - 1 -> Vectors] /\ SameBefore(frame, game, h)
        /\ t.queues = [i \in Players |-> ResetPrediction(sync.queues[i])]
        /\ SameArrivals(sync, t)
        /\ QueuesInv(t, h, status', log)
        /\ StatesInv(t, h, sync.framecount)
    BY <1>0, <1>2, <2>2, LoadKeeps
  <2> HIDE DEF t, h
  <2>4. /\ sync' \in SyncType(Histories, [Players -> QueueType])
        /\ sync'.framecount < sync.framecount
        /\ sync'.last_confirmed_frame = sync.last_confirmed_frame
        /\ game' \in [0 .. sync'.framecount - 1 -> Vectors]
        /\ SameArrivals(sync, sync')
        /\ QueuesInv(sync', game', status', log')
        /\ StatesInv(sync', game', sync.framecount)
    BY <2>1, <2>3
  <2>5. /\ sync'.framecount <= sync.framecount /\ sync'.framecount <= MaxFrame
        /\ replay' \in [until : 0 .. MaxFrame, resume : Callers]
    BY <1>0, <2>1, <2>3
  <2>6. SessionTypes'
    BY <1>0, <2>4, <2>5, TypesAfter
  <2>7. replay'.until = sync.framecount /\ replay'.resume = resume
    BY <2>1
  <2>8. StageInv'
    BY <2>1, <2>4, <2>7 DEF StageInv
  <2>9. PollInv'
    BY <2>1, <2>7 DEF PollInv, Polling, PassedOver
  <2> QED BY <2>4, <2>5, <2>6, <2>7, <2>8, <2>9 DEF SessionInv, RolledBack, StepKeeps
<1> QED BY <1>1, <1>2

LEMMA DisconnectStep ==
  ASSUME IInv, pc \in Resting, NEW queue \in Remotes, NEW syncto \in Frames,
         NEW resume \in Callers, DisconnectPlayerQueue(queue, syncto, resume),
         UNCHANGED log, poll' \in [queue : Nat, total : Frames],
         resume = "poll" => PassedOver'
  PROVE  StepKeeps
<1> DEFINE gone == [disconnected |-> TRUE, last_frame |-> syncto]
<1>1. /\ status' = [status EXCEPT ![queue] = gone]
      /\ status \in [Players -> Status] /\ queue \in Players
      /\ sync.framecount \in Nat
  BY SyncFacts, PlayersArranged DEF DisconnectPlayerQueue
<1>2. gone \in Status
  BY DEF Status
<1>3. /\ status' \in [Players -> Status] /\ status'[queue] = gone
      /\ \A i \in Players : i # queue => status'[i] = status[i]
  <2> HIDE DEF gone
  <2> QED BY <1>1, <1>2
<1>4. \A i \in Connected(status') : i \in Connected(status) /\ status'[i] = status[i]
  BY <1>3 DEF Connected
<1>5. LocalPlayer \in Connected(status') /\ Fewer
  <2>1. \A i \in Players : status[i].last_frame \in Int
    BY <1>1 DEF Status, Frames, NullFrame
  <2>2. \A i \in Connected(status') : i \in Players
    BY DEF Connected
  <2> QED BY <1>3, <1>4, <2>1, <2>2, SyncFacts, PlayersArranged DEF Connected, Fewer
<1>6. /\ QueuesInv(sync, game, status', log) /\ Settled(sync, status')
      /\ AtRest(sync, game)
  <2>1. /\ QueuesInv(sync, game, status, log) /\ Settled(sync, status)
        /\ AtRest(sync, game)
    BY RestingInv DEF IInv, Resting
  <2> HIDE DEF gone
  <2> QED BY <1>4, <2>1, FewerConnected
<1>7. CASE syncto < sync.framecount
  <2>1. AdjustSimulation(syncto, resume)
    BY <1>7 DEF DisconnectPlayerQueue
  <2> QED BY <1>3, <1>5, <1>6, <1>7, <2>1, AdjustStep
<1>8. CASE ~(syncto < sync.framecount)
  <2>1. pc' = resume /\ UNCHANGED <<sync, game, replay>>
    BY <1>8 DEF DisconnectPlayerQueue
  <2>2. RolledBack
    BY <1>1, <2>1 DEF RolledBack
  <2>3. SessionTypes'
    BY <1>3, <1>5, <2>1 DEF IInv, SessionTypes, Connected
  <2>4. pc' \in Resting
    BY <2>1 DEF Resting, Stages, Callers
  <2>5. PollInv'
    BY <2>1 DEF PollInv, Polling, PassedOver, Callers
  <2>6. QueuesInv(sync, game, status, log)' /\ Settled(sync, status)' /\ AtRest(sync, game)'
    BY <1>6, <2>1
  <2>7. SessionInv'
    BY <2>4, <2>5, <2>6, RestingInvNext
  <2> QED BY <1>5, <2>2, <2>3, <2>7 DEF StepKeeps
<1> QED BY <1>7, <1>8
-----------------------------------------------------------------------------
(* Inputs.                                                                    *)

(* Without a delay the next input of a remote player lands on its own frame.  *)
LEMMA RemoteTarget ==
  ASSUME NEW x, NEW n, NEW l, NEW p, QueueInv(x, n, l, p), x.frame_delay = 0,
         NEW frame \in Nat,
         x.last_added_frame # NullFrame => frame = x.last_added_frame + 1
  PROVE  TargetFrame(x, frame) = frame
<1>1. x \in QueueType /\ Ring(x, l)
  BY DEF QueueInv
<1>2. ExpectedFrame(x) = x.last_added_frame + 1
  BY <1>1, LastRead DEF Arrivals
<1>3. ExpectedFrame(x) <= frame
  BY <1>2 DEF NullFrame
<1> HIDE DEF NullFrame
<1>4. ExpectedFrame(x) \in Nat
  BY <1>1, LastInputType
<1> QED BY <1>3, <1>4 DEF TargetFrame

LEMMA AddLocalStep ==
  ASSUME IInv, NEW bits \in Made[LocalPlayer], AddLocal(bits)
  PROVE  StepKeeps
<1> DEFINE x == sync.queues[LocalPlayer]
           n == sync.framecount
           target == TargetFrame(x, n)
<1>0. /\ sync \in SyncType(Histories, [Players -> QueueType])
      /\ n \in Nat /\ n <= MaxFrame
      /\ game \in [0 .. n - 1 -> Vectors] /\ game \in Histories
      /\ status \in [Players -> Status] /\ Logs(sync, log)
      /\ LocalPlayer \in Connected(status) /\ bits \in Bits
      /\ x \in QueueType /\ LocalPlayer \in Players
  BY SyncFacts, PlayersArranged
<1>1. /\ pc = "app" /\ ~BarrierReached(sync) /\ n + x.frame_delay < MaxFrame
      /\ UNCHANGED <<game, replay, poll>>
  BY DEF AddLocal
<1>2. /\ QueuesInv(sync, game, status, log) /\ Settled(sync, status)
      /\ AtRest(sync, game)
  BY <1>1, RestingInv DEF IInv, Resting, Stages
<1>3. CASE ~AddInputAsserts(x, n)
  <2>1. pc' = "AddInput" /\ UNCHANGED <<sync, log, status>>
    BY <1>3 DEF AddLocal
  <2> QED BY <1>1, <2>1, ExitStep DEF Stages, IInv, SessionTypes
<1>4. CASE AddInputAsserts(x, n)
  <2> DEFINE t == AddLocalInput(sync, LocalPlayer, bits, game)
  <2>1. /\ sync' = t /\ pc' = "frame"
        /\ status' = IF target = NullFrame THEN status
                     ELSE [status EXCEPT ![LocalPlayer].last_frame = target]
        /\ log' = IF target = NullFrame THEN log
                  ELSE [log EXCEPT ![LocalPlayer] =
                          LogAfter(x, bits, target, log[LocalPlayer])]
    BY <1>4 DEF AddLocal, LogInput, LogAfter
  <2>2. /\ t \in SyncType(Histories, [Players -> QueueType])
        /\ t.framecount = n
        /\ t.last_confirmed_frame = sync.last_confirmed_frame
        /\ t.queues = [sync.queues EXCEPT ![LocalPlayer] = AddInput(@, n, bits)]
        /\ StatesInv(t, game, n)
    BY <1>0, <1>2, AddLocalKeepsStates DEF AtRest
  <2> HIDE DEF t
  <2>3. /\ status' \in [Players -> Status]
        /\ QueuesInv(t, game, status', log') /\ Settled(t, status') /\ Logs(t, log')
        /\ SameDelays(sync, t) /\ NoneBehind(status, status')
    <3> DEFINE st2 == status'
               lg2 == log'
    <3> HIDE DEF st2, lg2
    <3>1. Adds(sync, status, log, LocalPlayer, n, bits, t, st2, lg2)
      BY <1>4, <2>1, <2>2 DEF Adds, st2, lg2
    <3> HIDE DEF x, n, target
    <3>2. /\ t.queues \in [Players -> QueueType] /\ st2 \in [Players -> Status]
          /\ QueuesInv(t, game, st2, lg2) /\ Settled(t, st2) /\ Logs(t, lg2)
          /\ SameDelays(sync, t) /\ NoneBehind(status, st2)
      <4>1. game \in [0 .. sync.framecount - 1 -> Vectors]
        BY <1>0 DEF n
      <4> QED BY <1>0, <1>2, <3>1, <4>1, AddKeepsQueues
    <3> QED BY <3>2 DEF st2, lg2
  <2>4. Fewer /\ ~status'[LocalPlayer].disconnected
    BY <1>0, <2>3 DEF Fewer, Connected, NoneBehind
  <2>5. SessionTypes'
    <3>1. \A i \in Remotes : sync'.queues[i].frame_delay = 0
      BY <2>1, <2>3, PlayersArranged DEF IInv, SessionTypes, SameDelays
    <3>2. sync' \in Syncs /\ sync'.framecount = n /\ game' = game
      BY <1>1, <2>1, <2>2 DEF Syncs
    <3> QED BY <1>0, <1>1, <2>1, <2>3, <2>4, <3>1, <3>2 DEF IInv, SessionTypes
  <2>6. n < MaxFrame
    <3>1. x.frame_delay \in Nat
      BY <1>0 DEF QueueType
    <3> HIDE DEF x, n
    <3> QED BY <1>0, <1>1, <3>1
  <2>7. ~BarrierReached(t)
    BY <1>1, <2>2 DEF BarrierReached
  <2>8. StageInv'
    <3>1. /\ Settled(sync', status') /\ StatesInv(sync', game', sync'.framecount)
          /\ sync'.framecount < MaxFrame /\ ~BarrierReached(sync')
      BY <1>1, <2>1, <2>2, <2>3, <2>6, <2>7
    <3> QED BY <2>1, <3>1 DEF StageInv
  <2>9. PollInv' /\ RolledBack
    BY <1>0, <1>1, <2>1, <2>2 DEF PollInv, Polling, RolledBack
  <2>10. QueuesInv(sync, game, status, log)'
    BY <1>1, <2>1, <2>3
  <2> QED BY <2>4, <2>5, <2>8, <2>9, <2>10 DEF StepKeeps, SessionInv
<1> QED BY <1>3, <1>4

LEMMA OnInputStep ==
  ASSUME IInv, NEW e \in Endpoints, OnInput(e)
  PROVE  StepKeeps
<1> DEFINE x == sync.queues[e]
           n == sync.framecount
           frame == Head(inbox[e]).frame
           bits == Head(inbox[e]).bits
<1>1. /\ pc = "events" /\ Take(e, "input") /\ Head(inbox[e]).type = "input"
      /\ UNCHANGED <<game, replay, poll>>
  BY DEF OnInput, Take
<1>2. /\ e # LocalPlayer /\ Head(inbox[e]) \in Events
      /\ e \in Spectators => Head(inbox[e]) \in Notices
  BY <1>1, NetworkTaken DEF IInv
<1>3. frame \in Nat /\ bits \in Bits /\ e \in Remotes
  BY <1>1, <1>2 DEF Events, Notices, Endpoints, Remotes
<1>4. /\ sync \in SyncType(Histories, [Players -> QueueType])
      /\ n \in Nat /\ n <= MaxFrame
      /\ game \in [0 .. n - 1 -> Vectors]
      /\ status \in [Players -> Status] /\ Logs(sync, log)
      /\ LocalPlayer \in Connected(status)
      /\ x \in QueueType /\ e \in Players
  BY <1>3, SyncFacts, PlayersArranged
<1>5. /\ QueuesInv(sync, game, status, log) /\ Settled(sync, status)
      /\ AtRest(sync, game) /\ pc \in Resting
  BY <1>1, RestingInv DEF IInv, Resting, Stages
<1>6. CASE UNCHANGED <<sync, status, log>> /\ (UNCHANGED pc \/ pc' \notin Stages)
  BY <1>1, <1>5, <1>6, QuietStep DEF Resting, Stages
<1>7. CASE ~(UNCHANGED <<sync, status, log>> /\ (UNCHANGED pc \/ pc' \notin Stages))
  <2>1. /\ ~status[e].disconnected
        /\ status[e].last_frame # NullFrame => frame = status[e].last_frame + 1
        /\ AddInputAsserts(x, frame)
        /\ sync' = AddRemoteInput(sync, e, frame, bits)
        /\ status' = [status EXCEPT ![e].last_frame = frame]
        /\ LogInput(e, frame, bits) /\ UNCHANGED pc
    BY <1>7 DEF OnInput, Stages
  <2>2. e \in Connected(status)
    BY <1>4, <2>1 DEF Connected
  <2>3. /\ QueueInv(x, n, log[e], Column(game, e)) /\ x.frame_delay = 0
        /\ status[e].last_frame = x.last_added_frame
    BY <1>3, <1>4, <1>5, <2>2 DEF QueuesInv, IInv, SessionTypes
  <2>4. TargetFrame(x, frame) = frame
    <3> HIDE DEF x, n, frame
    <3> QED BY <1>3, <2>1, <2>3, RemoteTarget
  <2>5. frame # NullFrame
    BY <1>3 DEF NullFrame
  <2>6. log' = [log EXCEPT ![e] = LogAfter(x, bits, frame, log[e])]
    BY <2>1, <2>4, <2>5 DEF LogInput, LogAfter
  <2> DEFINE t == sync'
             qs == [sync.queues EXCEPT ![e] = AddInput(@, frame, bits)]
  <2>7. /\ t = [sync EXCEPT !.queues = qs]
    <3>1. t = [sync EXCEPT !.queues[e] = AddInput(@, frame, bits)]
      BY <2>1 DEF AddRemoteInput
    <3> HIDE DEF t, frame, bits
    <3> QED BY <1>4, <3>1 DEF SyncType
  <2>8. /\ t.framecount = n /\ t.queues = qs
        /\ t.last_confirmed_frame = sync.last_confirmed_frame
        /\ t.head = sync.head /\ t.saved = sync.saved
    <3> HIDE DEF t, qs
    <3> QED BY <1>4, <2>7 DEF SyncType
  <2>9. /\ t.queues \in [Players -> QueueType] /\ status' \in [Players -> Status]
        /\ QueuesInv(t, game, status', log') /\ Settled(t, status') /\ Logs(t, log')
        /\ SameDelays(sync, t) /\ NoneBehind(status, status')
    <3> DEFINE st2 == status'
               lg2 == log'
    <3> HIDE DEF t, st2, lg2
    <3>1. Adds(sync, status, log, e, frame, bits, t, st2, lg2)
      <4> HIDE DEF frame, bits
      <4> QED BY <2>1, <2>4, <2>5, <2>6, <2>8 DEF Adds, st2, lg2
    <3> HIDE DEF x, n, frame, bits
    <3>2. /\ t.queues \in [Players -> QueueType] /\ st2 \in [Players -> Status]
          /\ QueuesInv(t, game, st2, lg2) /\ Settled(t, st2) /\ Logs(t, lg2)
          /\ SameDelays(sync, t) /\ NoneBehind(status, st2)
      <4>1. game \in [0 .. sync.framecount - 1 -> Vectors]
        BY <1>4 DEF n
      <4> QED BY <1>3, <1>4, <1>5, <2>2, <3>1, <4>1, AddKeepsQueues
    <3> QED BY <3>2 DEF st2, lg2
  <2>10. t \in Syncs
    <3> HIDE DEF t, qs
    <3> QED BY <1>4, <2>7, <2>8, <2>9 DEF Syncs, SyncType
  <2> HIDE DEF x, frame, bits, qs
  <2>11. Fewer /\ ~status'[LocalPlayer].disconnected
    BY <1>4, <2>9, PlayersArranged DEF Fewer, Connected, NoneBehind
  <2>12. SessionTypes'
    <3>1. \A i \in Remotes : sync'.queues[i].frame_delay = 0
      BY <2>9, PlayersArranged DEF IInv, SessionTypes, SameDelays
    <3> QED BY <1>1, <1>4, <2>8, <2>9, <2>10, <2>11, <3>1 DEF IInv, SessionTypes
  <2>13. AtRest(sync, game)'
    BY <1>1, <1>5, <2>8 DEF AtRest, Untouched, StatesInv, RingInv
  <2>14. PollInv' /\ RolledBack
    BY <1>1, <1>4, <2>1, <2>8 DEF PollInv, Polling, RolledBack
  <2>15. QueuesInv(sync, game, status, log)' /\ Settled(sync, status)' /\ pc' \in Resting
    BY <1>1, <1>5, <2>1, <2>9
  <2>16. SessionInv'
    BY <2>13, <2>14, <2>15, RestingInvNext
  <2> QED BY <2>11, <2>12, <2>14, <2>16 DEF StepKeeps
<1> QED BY <1>6, <1>7
-----------------------------------------------------------------------------
(* Players are disconnected.                                                  *)

LEMMA DisconnectLocalStep == ASSUME IInv, DisconnectLocal PROVE StepKeeps
<1> DEFINE gone == [disconnected |-> TRUE, last_frame |-> sync.framecount]
           queues == {i \in Players : IsInitialized(i)}
<1>1. /\ pc = "app" /\ UNCHANGED <<sync, game, pc, replay, poll, log>>
      /\ status' = [i \in Players |-> IF i \in queues THEN gone ELSE status[i]]
  BY DEF DisconnectLocal
<1>2. /\ status \in [Players -> Status] /\ gone \in Status
      /\ LocalPlayer \in Connected(status) /\ LocalPlayer \notin queues
  BY SyncFacts DEF Status, Frames, IsInitialized
<1>3. /\ status' \in [Players -> Status] /\ status'[LocalPlayer] = status[LocalPlayer]
      /\ \A i \in Connected(status') : i \in Connected(status) /\ status'[i] = status[i]
  <2>1. gone.disconnected
    OBVIOUS
  <2> HIDE DEF gone, queues
  <2> QED BY <1>1, <1>2, <2>1, PlayersArranged DEF Connected
<1>4. Fewer
  <2>1. \A i \in Players : status[i].last_frame \in Int
    BY <1>2 DEF Status, Frames, NullFrame
  <2> QED BY <1>3, <2>1 DEF Fewer, Connected
<1>5. /\ QueuesInv(sync, game, status, log) /\ Settled(sync, status)
      /\ AtRest(sync, game)
  BY <1>1, RestingInv DEF IInv, Resting, Stages
<1>6. QueuesInv(sync, game, status', log) /\ Settled(sync, status')
  BY <1>3, <1>5, FewerConnected
<1>7. RolledBack
  BY <1>1, SyncFacts DEF RolledBack
<1>8. SessionTypes'
  BY <1>1, <1>2, <1>3 DEF IInv, SessionTypes, Connected
<1>9. PollInv' /\ pc' \in Resting
  BY <1>1 DEF PollInv, Polling, Resting, Stages
<1>10. QueuesInv(sync, game, status, log)' /\ Settled(sync, status)' /\ AtRest(sync, game)'
  BY <1>1, <1>5, <1>6
<1>11. SessionInv'
  BY <1>9, <1>10, RestingInvNext
<1> QED BY <1>4, <1>7, <1>8, <1>11 DEF StepKeeps

LEMMA DisconnectRemoteStep ==
  ASSUME IInv, NEW queue \in Players, DisconnectRemote(queue)
  PROVE  StepKeeps
<1>1. /\ pc \in Resting /\ queue \in Remotes /\ UNCHANGED <<poll, log>>
      /\ DisconnectPlayerQueue(queue, status[queue].last_frame, "app")
  BY DEF DisconnectRemote, IsInitialized, Remotes, Resting, Stages
<1>2. status[queue].last_frame \in Frames /\ poll' \in [queue : Nat, total : Frames]
  BY <1>1, SyncFacts DEF Status, IInv, SessionTypes
<1> DEFINE frame == status[queue].last_frame
<1> HIDE DEF frame
<1>3. frame \in Frames /\ DisconnectPlayerQueue(queue, frame, "app")
  BY <1>1, <1>2 DEF frame
<1> QED BY <1>1, <1>2, <1>3, DisconnectStep DEF Callers

LEMMA OnDisconnectedStep ==
  ASSUME IInv, NEW e \in Endpoints, OnDisconnected(e)
  PROVE  StepKeeps
<1>1. pc = "events" /\ e # LocalPlayer /\ UNCHANGED <<poll, log>>
  BY NetworkTaken DEF OnDisconnected, Take, IInv
<1>2. pc \in Resting
  BY <1>1 DEF Resting, Stages
<1>3. CASE UNCHANGED <<sync, game, status, pc, replay>>
  BY <1>1, <1>3, QuietStep
<1>4. CASE ~UNCHANGED <<sync, game, status, pc, replay>>
  <2>1. /\ DisconnectPlayerQueue(e, status[e].last_frame, "events")
        /\ e \in Players /\ e \in Remotes
    BY <1>1, <1>4 DEF OnDisconnected, Endpoints, Remotes
  <2> DEFINE frame == status[e].last_frame
  <2>2. frame \in Frames /\ poll' \in [queue : Nat, total : Frames]
    BY <1>1, <2>1, SyncFacts DEF Status, IInv, SessionTypes
  <2>3. DisconnectPlayerQueue(e, frame, "events")
    BY <2>1
  <2> HIDE DEF frame
  <2> QED BY <1>1, <1>2, <2>1, <2>2, <2>3, DisconnectStep DEF Callers
<1> QED BY <1>3, <1>4
-----------------------------------------------------------------------------
(* The poll.                                                                  *)

(* A stage of the poll that changes nothing but where the poll stands.        *)
LEMMA PollStep ==
  ASSUME IInv, UNCHANGED <<sync, game, status, log, replay>>, pc \in Resting,
         poll' \in [queue : Nat, total : Frames], pc' \in Resting, PollInv'
  PROVE  StepKeeps
<1>1. SessionTypes'
  BY DEF IInv, SessionTypes
<1>2. SessionInv
  BY DEF IInv, Resting
<1>3. QueuesInv(sync, game, status, log)' /\ Settled(sync, status)' /\ AtRest(sync, game)'
  BY <1>2, RestingInv
<1>4. SessionInv'
  BY <1>3, RestingInvNext
<1> QED BY <1>1, <1>4, SameSync DEF StepKeeps

LEMMA CheckSimulationStep == ASSUME IInv, CheckSimulation PROVE StepKeeps
<1>1. /\ pc = "check" /\ UNCHANGED <<status, log>>
      /\ poll' = [queue |-> 0, total |-> MAX_INT]
  BY DEF CheckSimulation
<1>2. /\ pc \in Resting /\ poll' \in [queue : Nat, total : Frames]
      /\ poll'.queue = 0
  BY <1>1 DEF Resting, Stages, MAX_INT, Frames
<1>3. PassedOver'
  <2>1. \A i \in Players : i \in Nat /\ ~(i < 0)
    BY PlayersArranged
  <2>2. \A i \in Connected(status)' : i \in Players
    BY DEF Connected
  <2> QED BY <1>2, <2>1, <2>2 DEF PassedOver
<1>4. CASE FirstIncorrectFrames(sync) = {}
  <2>1. pc' = "poll" /\ UNCHANGED <<sync, game, replay>>
    BY <1>4 DEF CheckSimulation
  <2>2. PollInv' /\ pc' \in Resting
    BY <1>3, <2>1 DEF PollInv, Polling, PassedOver, Resting, Stages
  <2> QED BY <1>1, <1>2, <2>1, <2>2, PollStep
<1>5. CASE FirstIncorrectFrames(sync) # {}
  <2> DEFINE frame == SeekTo(sync)
  <2>1. QueuesInv(sync, game, status, log)
    BY <1>2, RestingInv DEF IInv, Resting
  <2>2. frame \in Frames /\ frame < sync.framecount
    <3>1. \A f \in FirstIncorrectFrames(sync) :
            f \in Frames /\ f \in Int /\ -1 <= f /\ f < sync.framecount
      <4> SUFFICES ASSUME NEW i \in Players
                   PROVE  LET f == sync.queues[i].first_incorrect_frame
                          IN f \in Frames /\ f \in Int /\ -1 <= f /\ f < sync.framecount
        BY DEF FirstIncorrectFrames
      <4>1. sync.queues[i].first_incorrect_frame \in Frames
        BY SyncFacts DEF QueueType
      <4> QED BY <2>1, <4>1 DEF QueuesInv, Frames, NullFrame
    <3> DEFINE S == FirstIncorrectFrames(sync)
    <3> HIDE DEF S
    <3>2. S \in SUBSET Int /\ S # {} /\ \A n \in S : -1 <= n
      BY <1>5, <3>1 DEF S
    <3>3. \E n \in S : \A m \in S : n <= m
      BY <3>2, LeastInteger
    <3>4. frame \in S
      BY <3>3 DEF SeekTo, S
    <3> QED BY <3>1, <3>4 DEF S
  <2>3. AdjustSimulation(frame, "poll")
    BY <1>5 DEF CheckSimulation
  <2> HIDE DEF frame
  <2>4. Fewer /\ QueuesInv(sync, game, status', log) /\ status' \in [Players -> Status]
        /\ LocalPlayer \in Connected(status')
    BY <1>1, <2>1, SyncFacts, SameStatus
  <2> QED BY <1>1, <1>2, <1>3, <2>2, <2>3, <2>4, AdjustStep DEF Callers
<1> QED BY <1>4, <1>5

(* What is confirmed of a queue.                                              *)
LEMMA ConfirmedIsLeast ==
  ASSUME IInv, NEW queue \in Players
  PROVE  /\ Confirmed(queue) \in Frames /\ Confirmed(queue) <= MAX_INT
         /\ ~status[queue].disconnected => Confirmed(queue) <= status[queue].last_frame
         /\ NumPlayers > 2 => \A e \in Consulted(queue) :
                                 Confirmed(queue) <= claims[e][queue].last_frame
         /\ \/ Confirmed(queue) = MAX_INT
            \/ /\ ~status[queue].disconnected
               /\ Confirmed(queue) = status[queue].last_frame
            \/ NumPlayers > 2 /\ \E e \in Consulted(queue) :
                                      Confirmed(queue) = claims[e][queue].last_frame
<1> DEFINE own  == IF status[queue].disconnected THEN {}
                   ELSE {status[queue].last_frame}
           told == IF NumPlayers <= 2 THEN {}
                   ELSE {claims[e][queue].last_frame : e \in Consulted(queue)}
           S == own \cup told \cup {MAX_INT}
<1>1. Consulted(queue) \subseteq Players
  BY DEF Consulted
<1>2. /\ \A e \in Players : claims[e][queue].last_frame \in Frames
      /\ status[queue].last_frame \in Frames /\ MAX_INT \in Frames
  <2>1. claims \in [Players -> [Players -> Status]] /\ status \in [Players -> Status]
    BY SyncFacts DEF IInv, NetworkInv
  <2>2. \A e \in Players : claims[e][queue] \in Status
    BY <2>1
  <2> QED BY <2>1, <2>2 DEF Status, MAX_INT, Frames
<1>3. S \subseteq Frames
  BY <1>1, <1>2
<1>4. Confirmed(queue) = Min(S)
  BY DEF Confirmed
<1>5. /\ MAX_INT \in S /\ (~status[queue].disconnected => status[queue].last_frame \in S)
      /\ NumPlayers > 2 => \A e \in Consulted(queue) : claims[e][queue].last_frame \in S
      /\ \A n \in S : \/ n = MAX_INT
                      \/ ~status[queue].disconnected /\ n = status[queue].last_frame
                      \/ NumPlayers > 2 /\ \E e \in Consulted(queue) :
                                               n = claims[e][queue].last_frame
  OBVIOUS
<1> HIDE DEF S
<1>6. S \in SUBSET Int /\ S # {} /\ \A n \in S : -1 <= n
  BY <1>3, <1>5 DEF Frames, NullFrame
<1>7. \E n \in S : \A m \in S : n <= m
  BY <1>6, LeastInteger
<1>8. Min(S) \in S /\ \A m \in S : Min(S) <= m
  BY <1>7 DEF Min
<1> QED BY <1>3, <1>4, <1>5, <1>8

LEMMA TotalNeverGrows ==
  ASSUME IInv, NEW queue \in Players
  PROVE  /\ TotalAfter(queue) \in Frames /\ TotalAfter(queue) <= poll.total
         /\ DisconnectFrame(queue) \in Frames
         /\ QueueConnected(queue) /\ ~status[queue].disconnected
               => TotalAfter(queue) <= status[queue].last_frame
<1>1. /\ Confirmed(queue) \in Frames /\ poll.total \in Frames
      /\ Confirmed(queue) \in Int /\ poll.total \in Int
  BY ConfirmedIsLeast, SyncFacts DEF Frames, NullFrame
<1>2. status[queue].last_frame \in Int
  BY SyncFacts DEF Status, Frames, NullFrame
<1>3. /\ TotalAfter(queue) \in {Confirmed(queue), poll.total}
      /\ TotalAfter(queue) <= poll.total
      /\ QueueConnected(queue) => TotalAfter(queue) <= Confirmed(queue)
  BY <1>1 DEF TotalAfter, Min2
<1> QED BY <1>1, <1>2, <1>3, ConfirmedIsLeast DEF DisconnectFrame

LEMMA OnlyRemotesDisconnect ==
  ASSUME IInv, NEW queue \in Players, ToDisconnect(queue)
  PROVE  queue \in Remotes
<1> SUFFICES ASSUME queue = LocalPlayer PROVE FALSE
  BY PlayersArranged
<1>1. \E e \in Players : claims[e][LocalPlayer].disconnected
  BY DEF ToDisconnect, QueueConnected, Consulted
<1> QED BY <1>1 DEF IInv, NetworkInv

LEMMA PollPlayerStep == ASSUME IInv, PollPlayer PROVE StepKeeps
<1> DEFINE queue == poll.queue
           total == TotalAfter(queue)
<1>1. /\ pc = "poll" /\ queue \in Players /\ UNCHANGED log
      /\ poll' = [queue |-> queue + 1, total |-> total]
  BY DEF PollPlayer
<1>2. /\ pc \in Resting /\ PassedOver
      /\ status \in [Players -> Status] /\ queue \in Nat /\ poll.total \in Int
  BY <1>1, SyncFacts
     DEF IInv, SessionInv, PollInv, Polling, PassedOver, Resting, Stages, Frames, NullFrame
<1> HIDE DEF total
<1>3. /\ total \in Frames /\ total \in Int /\ total <= poll.total
      /\ DisconnectFrame(queue) \in Frames
      /\ QueueConnected(queue) /\ ~status[queue].disconnected
            => total <= status[queue].last_frame
  BY <1>1, TotalNeverGrows DEF total, Frames, NullFrame
<1>4. /\ poll' \in [queue : Nat, total : Frames]
      /\ poll'.queue = queue + 1 /\ poll'.total = total
  BY <1>1, <1>2, <1>3
<1>5. \A i \in Players : i \in Nat /\ status[i].last_frame \in Int
  BY <1>2, PlayersArranged DEF Status, Frames, NullFrame
<1>6. CASE ToDisconnect(queue)
  <2>1. DisconnectPlayerQueue(queue, DisconnectFrame(queue), "poll")
    BY <1>6 DEF PollPlayer
  <2>2. queue \in Remotes
    BY <1>1, <1>6, OnlyRemotesDisconnect
  <2>3. PassedOver'
    <3>1. /\ status'[queue].disconnected
          /\ \A i \in Players : i # queue => status'[i] = status[i]
      BY <1>1, <1>2, <2>1 DEF DisconnectPlayerQueue
    <3> SUFFICES ASSUME NEW i \in Connected(status)', i < queue + 1
                 PROVE  total <= status'[i].last_frame
      BY <1>4 DEF PassedOver
    <3>2. i \in Players /\ i # queue
      BY <3>1 DEF Connected
    <3>3. i \in Connected(status) /\ i < queue /\ status'[i] = status[i]
      BY <1>2, <1>5, <3>1, <3>2 DEF Connected
    <3> QED BY <1>2, <1>3, <1>5, <3>2, <3>3 DEF PassedOver
  <2> DEFINE frame == DisconnectFrame(queue)
  <2>4. frame \in Frames /\ DisconnectPlayerQueue(queue, frame, "poll")
    BY <1>3, <2>1
  <2> HIDE DEF frame, queue
  <2> QED BY <1>1, <1>2, <1>4, <2>2, <2>3, <2>4, DisconnectStep DEF Callers
<1>7. CASE ~ToDisconnect(queue)
  <2>1. UNCHANGED <<sync, game, status, pc, replay>>
    BY <1>7 DEF PollPlayer
  <2>2. PassedOver'
    <3> SUFFICES ASSUME NEW i \in Connected(status), i < queue + 1
                 PROVE  total <= status[i].last_frame
      BY <1>4, <2>1 DEF PassedOver
    <3>1. i \in Players /\ ~status[i].disconnected
      BY DEF Connected
    <3>2. CASE i = queue
      BY <1>3, <1>7, <3>1, <3>2 DEF ToDisconnect
    <3>3. CASE i # queue
      BY <1>2, <1>3, <1>5, <3>1, <3>3 DEF PassedOver
    <3> QED BY <3>2, <3>3
  <2>3. PollInv' /\ pc' \in Resting
    BY <1>1, <1>2, <2>1, <2>2 DEF PollInv, Polling, PassedOver
  <2> QED BY <1>1, <1>2, <1>4, <2>1, <2>3, PollStep
<1> QED BY <1>6, <1>7

LEMMA PollDoneStep == ASSUME IInv, PollDone PROVE StepKeeps
<1>1. /\ pc = "poll" /\ poll.queue \notin Players
      /\ UNCHANGED <<sync, game, status, replay, poll, log>>
      /\ pc' = IF poll.total = MAX_INT THEN "DoPoll"
               ELSE IF poll.total >= 0 THEN "confirm" ELSE "app"
  BY DEF PollDone
<1>2. poll.queue \in Nat /\ poll.queue >= NumPlayers
  BY <1>1, SyncFacts DEF Players
<1>3. pc \in Resting /\ PassedOver
  BY <1>1 DEF IInv, SessionInv, PollInv, Polling, PassedOver, Resting, Stages
<1>4. PollInv'
  BY <1>1, <1>2, <1>3 DEF PollInv, PassedOver, Polling
<1>5. pc' \notin {"frame", "replay"}
  BY <1>1
<1> QED BY <1>1, <1>3, <1>4, <1>5, QuietStep

LEMMA ConfirmStep == ASSUME IInv, Confirm PROVE StepKeeps
<1> DEFINE t == SetLastConfirmedFrame(sync, poll.total)
<1>1. pc = "confirm" /\ UNCHANGED <<game, status, replay, poll, log>>
  BY DEF Confirm
<1>2. /\ pc \in Resting /\ PollInv /\ QueuesInv(sync, game, status, log)
      /\ Settled(sync, status) /\ AtRest(sync, game)
  BY <1>1, RestingInv DEF IInv, Resting, Stages
<1>3. poll.total \in Nat /\ \A i \in Connected(status) : poll.total <= status[i].last_frame
  <2>1. /\ poll.queue >= NumPlayers /\ poll.total >= 0
        /\ \A i \in Connected(status) :
               i < poll.queue => poll.total <= status[i].last_frame
    BY <1>1, <1>2 DEF PollInv, Polling
  <2>2. \A i \in Connected(status) : i < poll.queue
    BY <2>1, SyncFacts DEF Connected, Players
  <2> QED BY <2>1, <2>2, SyncFacts DEF Frames, NullFrame
<1>4. CASE ~SetLastConfirmedFrameAsserts(sync, poll.total)
  <2>1. pc' = "DiscardConfirmedFrames" /\ UNCHANGED sync
    BY <1>4 DEF Confirm
  <2> QED BY <1>1, <2>1, ExitStep DEF Stages, IInv, SessionTypes
<1>5. CASE SetLastConfirmedFrameAsserts(sync, poll.total)
  <2>1. sync' = t /\ pc' = "app"
    BY <1>5 DEF Confirm
  <2> DEFINE total == poll.total
  <2>2. /\ total \in Nat /\ \A i \in Connected(status) : total <= status[i].last_frame
        /\ SetLastConfirmedFrameAsserts(sync, total)
        /\ t = SetLastConfirmedFrame(sync, total)
    BY <1>3, <1>5
  <2> HIDE DEF t, total
  <2>3. /\ t \in SyncType(Histories, [Players -> QueueType])
        /\ t.framecount = sync.framecount /\ t.last_confirmed_frame = total
        /\ t.head = sync.head /\ t.saved = sync.saved
        /\ SameArrivals(sync, t)
        /\ QueuesInv(t, game, status, log) /\ Settled(t, status)
    <3>1. /\ sync \in SyncType(Histories, [Players -> QueueType])
          /\ game \in [0 .. sync.framecount - 1 -> Vectors]
      BY SyncFacts
    <3>2. LET u == SetLastConfirmedFrame(sync, total)
          IN  /\ u \in SyncType(Histories, [Players -> QueueType])
              /\ u.framecount = sync.framecount /\ u.last_confirmed_frame = total
              /\ u.head = sync.head /\ u.saved = sync.saved
              /\ SameArrivals(sync, u)
              /\ QueuesInv(u, game, status, log) /\ Settled(u, status)
      BY <1>2, <2>2, <3>1, ConfirmKeeps
    <3> QED BY <2>2, <3>2
  <2>4. AtRest(t, game)
    BY <1>2, <2>3 DEF AtRest, Untouched, StatesInv, RingInv
  <2>5. /\ sync' \in SyncType(Histories, [Players -> QueueType])
        /\ sync'.framecount <= MaxFrame
        /\ game' \in [0 .. sync'.framecount - 1 -> Vectors]
        /\ SameArrivals(sync, sync')
        /\ status' \in [Players -> Status] /\ ~status'[LocalPlayer].disconnected
        /\ replay' \in [until : 0 .. MaxFrame, resume : Callers]
        /\ poll' \in [queue : Nat, total : Frames]
    BY <1>1, <2>1, <2>3, SyncFacts DEF Connected, IInv, SessionTypes
  <2>6. SessionTypes'
    BY <1>1, <2>5, TypesAfter
  <2>7. PollInv' /\ pc' \in Resting
    BY <2>1 DEF PollInv, Polling, Resting, Stages
  <2>8. QueuesInv(sync, game, status, log)' /\ Settled(sync, status)' /\ AtRest(sync, game)'
    BY <1>1, <2>1, <2>3, <2>4
  <2>9. SessionInv'
    BY <2>7, <2>8, RestingInvNext
  <2>10. Fewer /\ Discarding
    BY <1>1, <1>2, <2>1, <2>3, SameStatus DEF Discarding, total
  <2> QED BY <2>6, <2>9, <2>10 DEF StepKeeps
<1> QED BY <1>4, <1>5
-----------------------------------------------------------------------------
(* Every step.                                                                *)

LEMMA SessionStep == ASSUME IInv, [Next]_vars PROVE StepKeeps
<1>1. CASE Application
  <2>1. CASE Idle
    <3>1. /\ pc \in Resting /\ pc' = "pump"
          /\ UNCHANGED <<sync, game, status, log, replay, poll>>
      BY <2>1 DEF Idle, Resting, Stages
    <3>2. PollInv'
      BY <3>1 DEF PollInv, Polling
    <3> QED BY <3>1, <3>2, QuietStep
  <2> QED BY <1>1, <2>1, AddLocalStep, AdvanceFrameStep, DisconnectRemoteStep,
             DisconnectLocalStep DEF Application
<1>2. CASE Network
  <2>1. UNCHANGED <<sync, game, status, log, replay, poll, pc>>
    BY <1>2 DEF Network, Synchronized, Disconnected, Shutdown, InputArrives,
                PeerClaims
  <2> QED BY <2>1, QuietStep
<1>3. CASE DoPoll
  <2>1. CASE Pumped \/ EventsDone
    <3>1. /\ pc \in Resting /\ pc' \in {"events", "app", "check"}
          /\ UNCHANGED <<sync, game, status, log, replay, poll>>
      BY <2>1 DEF Pumped, EventsDone, Resting, Stages
    <3>2. PollInv' /\ pc' \notin {"frame", "replay"}
      BY <3>1 DEF PollInv, Polling
    <3> QED BY <3>1, <3>2, QuietStep
  <2>2. ASSUME NEW e \in Endpoints, OnSynchronized(e) PROVE StepKeeps
    <3>1. UNCHANGED <<sync, game, status, log, replay, poll, pc>>
      BY <2>2 DEF OnSynchronized
    <3> QED BY <3>1, QuietStep
  <2>3. CASE PushToSpectators
    <3>1. /\ pc \in Resting /\ UNCHANGED <<sync, game, status, log, replay, poll>>
          /\ UNCHANGED pc \/ pc' = "GetConfirmedInput"
      BY <2>3 DEF PushToSpectators, Resting, Stages
    <3>2. pc' = "GetConfirmedInput" => pc' \notin Resting /\ pc' \notin {"frame", "replay"}
      BY DEF Resting, Stages
    <3> QED BY <3>1, <3>2, QuietStep
  <2> QED BY <1>3, <2>1, <2>2, <2>3, OnInputStep, OnDisconnectedStep,
             CheckSimulationStep, ReplayStep, PollPlayerStep, PollDoneStep,
             ConfirmStep DEF DoPoll
<1>4. CASE Exited \/ UNCHANGED vars
  <2>1. UNCHANGED <<sync, game, status, log, replay, poll, pc>>
    BY <1>4 DEF Exited, vars
  <2> QED BY <2>1, QuietStep
<1> QED BY <1>1, <1>2, <1>3, <1>4 DEF Next

(* The queues are used under their contract, every frame a rollback loads is   *)
(* in the ring of saved states with the state the history has there, and what *)
(* the poll has confirmed every player who is connected has sent.             *)
THEOREM Invariant == Spec => []IInv
<1>1. Init => IInv
  BY NetworkInit, SessionInit DEF IInv
<1>2. IInv /\ [Next]_vars => IInv'
  <2> SUFFICES ASSUME IInv, [Next]_vars PROVE IInv'
    OBVIOUS
  <2>1. NetworkInv'
    BY NetworkStep DEF IInv
  <2>2. SessionTypes' /\ (pc' \in Stages => SessionInv')
    BY SessionStep DEF StepKeeps
  <2> QED BY <2>1, <2>2 DEF IInv
<1> QED BY <1>1, <1>2, PTL DEF Spec

(* p2p.h, sync.h: in every state, whatever was called and whatever arrived,   *)
(* the members have their types: the frame counters of the Sync, of the       *)
(* connect status and of the game agree with the arrays they index, and an    *)
(* input has been logged for every frame up to the last one of its queue.     *)
THEOREM TypeCorrect == Spec => []TypeOK
<1>1. IInv => TypeOK
  <2> SUFFICES ASSUME IInv PROVE TypeOK
    OBVIOUS
  <2>1. /\ sync.framecount \in 0 .. MaxFrame
        /\ sync.last_confirmed_frame \in Frames
        /\ sync.head \in SaveSlots
        /\ DOMAIN sync.saved = SaveSlots
        /\ sync.queues \in [Players -> QueueType]
    BY SyncFacts DEF SyncType
  <2>2. /\ game \in [0 .. sync.framecount - 1 -> Vectors]
        /\ status \in [Players -> Status]
    BY SyncFacts
  <2>3. ASSUME NEW i \in Players
        PROVE  log[i] \in [0 .. sync.queues[i].last_added_frame -> Bits]
    <3>1. log[i] \in [0 .. Arrivals(sync.queues[i]) - 1 -> Bits]
      BY SyncFacts DEF Logs
    <3>2. sync.queues[i].last_added_frame \in Int
      BY <2>1 DEF QueueType, Frames, NullFrame
    <3>3. Arrivals(sync.queues[i]) - 1 = sync.queues[i].last_added_frame
      BY <3>2 DEF Arrivals
    <3> QED BY <3>1, <3>3
  <2>4. NetworkInv
    BY DEF IInv
  <2> QED BY <2>1, <2>2, <2>3, <2>4 DEF TypeOK, NetworkInv
<1> QED BY <1>1, Invariant, PTL
-----------------------------------------------------------------------------
(* The prediction barrier.                                                    *)

(* The last confirmed frame is one that everyone connected has sent, also     *)
(* when the poll that computed it is long past, and no rollback is to return  *)
(* to a frame further ahead than the barrier lets the simulation go.          *)
BarrierInv ==
    \A i \in Connected(status) :
        LET limit == Max2(status[i].last_frame, 0) + MAX_PREDICTION_FRAMES
        IN  /\ sync.last_confirmed_frame <= status[i].last_frame
            /\ sync.framecount <= limit
            /\ replay.until <= limit

LEMMA BarrierInit == ASSUME Init PROVE BarrierInv
<1>1. /\ sync.framecount = 0 /\ sync.last_confirmed_frame = NullFrame
      /\ replay.until = 0
  BY DEF Init, InitSync
<1>2. status = [i \in Players |-> [disconnected |-> FALSE, last_frame |-> NullFrame]]
  BY DEF Init
<1> QED BY <1>1, <1>2 DEF BarrierInv, Max2, NullFrame, Connected

LEMMA BarrierStep ==
  ASSUME IInv, BarrierInv, [Next]_vars
  PROVE  BarrierInv'
<1>1. StepKeeps
  BY SessionStep
<1> DEFINE n == sync.framecount
           last(i) == status[i].last_frame
           lastn(i) == status'[i].last_frame
           M == MAX_PREDICTION_FRAMES
<1> SUFFICES ASSUME NEW i \in Connected(status)'
             PROVE  /\ sync'.last_confirmed_frame <= lastn(i)
                    /\ sync'.framecount <= Max2(lastn(i), 0) + M
                    /\ replay'.until <= Max2(lastn(i), 0) + M
  BY DEF BarrierInv
<1>2. i \in Connected(status) /\ lastn(i) >= last(i) /\ i \in Players
  BY <1>1 DEF StepKeeps, Fewer, Connected
<1>3. /\ n \in Nat /\ sync.last_confirmed_frame \in Int /\ last(i) \in Int
      /\ replay.until \in Int
  BY <1>2, SyncFacts DEF SyncType, Status, Frames, NullFrame
<1>4. lastn(i) \in Int /\ sync'.framecount \in Nat
  BY <1>1, <1>2 DEF StepKeeps, SessionTypes, Syncs, SyncType, Status, Frames, NullFrame
<1>5. /\ sync.last_confirmed_frame <= last(i) /\ n <= Max2(last(i), 0) + M
      /\ replay.until <= Max2(last(i), 0) + M
  BY <1>2 DEF BarrierInv
<1>6. M \in Nat /\ M > 0
  OBVIOUS
<1> HIDE DEF n, last, lastn, M
<1>7. CASE RolledBack
  BY <1>2, <1>3, <1>4, <1>5, <1>6, <1>7 DEF RolledBack, Max2, n
<1>8. CASE Advanced
  <2>1. n < M \/ n - sync.last_confirmed_frame < M \/ n < replay.until
    BY <1>3, <1>6, <1>8 DEF Advanced, BarrierReached, n, M
  <2>2. /\ sync'.last_confirmed_frame = sync.last_confirmed_frame
        /\ sync'.framecount = n + 1 /\ replay'.until = replay.until
    BY <1>8 DEF Advanced, n
  <2> QED BY <1>2, <1>3, <1>4, <1>5, <1>6, <2>1, <2>2 DEF Max2
<1>9. CASE Discarding
  <2>1. /\ poll.total <= last(i) /\ poll.total \in Int
        /\ sync'.last_confirmed_frame = poll.total
    <3>1. i < poll.queue
      BY <1>2, <1>9, SyncFacts DEF Discarding, Confirm, PollInv, Players
    <3>2. poll.total <= last(i)
      BY <1>2, <1>9, <3>1 DEF Discarding, Confirm, PollInv, Polling, last
    <3> QED BY <1>9, <3>2, SyncFacts DEF Discarding, Frames, NullFrame
  <2>2. sync'.framecount = n /\ replay'.until = replay.until
    BY <1>9 DEF Discarding, n
  <2> QED BY <1>2, <1>3, <1>4, <1>5, <1>6, <2>1, <2>2 DEF Max2
<1> QED BY <1>1, <1>7, <1>8, <1>9 DEF StepKeeps

(* p2p.cpp:141: what the barrier compares the frame counter with is never     *)
(* ahead of a connected player, whichever players left since the poll.        *)
THEOREM BarrierInvariant == Spec => []BarrierInv
<1>1. Init => BarrierInv
  BY BarrierInit
<1>2. IInv /\ BarrierInv /\ [Next]_vars => BarrierInv'
  BY BarrierStep
<1> QED BY <1>1, <1>2, Invariant, PTL DEF Spec

(* sync.cpp:61: with any number of players nothing is ever simulated more     *)
(* than MAX_PREDICTION_FRAMES beyond the last input of a player who is still  *)
(* connected, although AddLocalInput asks only for the last confirmed frame   *)
(* of an earlier poll, and rollbacks and disconnects come in between.         *)
THEOREM Barrier == Spec => []PredictionBarrier
<1>1. BarrierInv => PredictionBarrier
  BY DEF BarrierInv, PredictionBarrier, Connected
<1> QED BY <1>1, BarrierInvariant, PTL
-----------------------------------------------------------------------------
(* The ring of saved states reaches back to the last confirmed frame, which   *)
(* takes that the last confirmed frame never goes back.  It does not, with up *)
(* to three players: every poll takes the minimum over reports that only      *)
(* grow.  A fourth player is a third peer to report: while one of them claims *)
(* that a player has disconnected, what the others report of that player is   *)
(* left out of the minimum, and it comes back when the one has gone.          *)

(* No endpoint starts to run once the session does, and nothing is confirmed  *)
(* before.  An endpoint that runs is one of a player who is connected.        *)
StartInv ==
    /\ synchronizing => /\ sync.last_confirmed_frame = NullFrame
                        /\ pc # "check" /\ ~Polling
    /\ ~synchronizing => \A e \in Endpoints \ {LocalPlayer} : endpoint[e] # "syncing"
    /\ \A e \in Remotes :
          status[e].disconnected => endpoint[e] \in {"disconnected", "shutdown"}

(* Nobody reports to have disconnected itself; a peer's report about itself   *)
(* is the last input it has sent.  The local player's own endpoint, which has *)
(* no address, receives no reports.                                           *)
ReportsInv ==
    \A e \in Players :
        /\ ~claims[e][e].disconnected
        /\ claims[e][e].last_frame = last_received[e]
        /\ claims[LocalPlayer][e] = [disconnected |-> FALSE, last_frame |-> NullFrame]

(* The report of e about player i counts in the polls of more than two.       *)
Counts(e, i) == /\ NumPlayers > 2 /\ endpoint[e] = "running"
                /\ ~claims[e][i].disconnected

(* The last confirmed frame, and what the poll has confirmed of the queues it *)
(* has passed, are no later than any report that counts; when the local       *)
(* player's endpoint counts as running, nothing is ever confirmed.            *)
ConfirmedInv ==
    /\ sync.last_confirmed_frame <= poll.total \/ ~Polling
    /\ sync.last_confirmed_frame <= MAX_INT /\ poll.total <= MAX_INT
    /\ NumPlayers > 2 /\ endpoint[LocalPlayer] = "running" =>
         /\ sync.last_confirmed_frame <= NullFrame
         /\ Polling /\ LocalPlayer < poll.queue => poll.total <= NullFrame
    /\ \A e \in Remotes, i \in Players :
         Counts(e, i) =>
            /\ sync.last_confirmed_frame <= claims[e][i].last_frame
            /\ Polling /\ i < poll.queue => poll.total <= claims[e][i].last_frame

(* The frames simulated, and those to be simulated again.                     *)
HorizonInv ==
    LET limit == Max2(sync.last_confirmed_frame, 0) + MAX_PREDICTION_FRAMES
    IN  sync.framecount <= limit /\ replay.until <= limit

RingInvs == StartInv /\ ReportsInv /\ ConfirmedInv /\ HorizonInv

(* Where the thread goes.                                                     *)
LEMMA AdjustLeads ==
  ASSUME NEW frame, NEW resume, AdjustSimulation(frame, resume)
  PROVE  \/ pc' = "replay" /\ replay'.resume = resume
         \/ pc' \in {"FindSavedFrameIndex", "LoadFrame", "ResetPrediction"}
  BY DEF AdjustSimulation

LEMMA DisconnectLeads ==
  ASSUME NEW queue, NEW syncto, NEW resume,
         DisconnectPlayerQueue(queue, syncto, resume)
  PROVE  \/ pc' = resume
         \/ pc' = "replay" /\ replay'.resume = resume
         \/ pc' \in {"FindSavedFrameIndex", "LoadFrame", "ResetPrediction"}
  BY AdjustLeads DEF DisconnectPlayerQueue

(* Only CheckSimulation begins a poll, and only PollPlayer goes on with it.   *)
LEMMA PollGoesOn ==
  ASSUME IInv, [Next]_vars, ~CheckSimulation, ~PollPlayer
  PROVE  /\ UNCHANGED poll /\ (Polling' => Polling)
         /\ synchronizing /\ pc' = "check" => pc = "check"
<1> USE DEF Polling
<1>1. CASE Application
  <2>1. ASSUME NEW queue \in Players, DisconnectRemote(queue)
        PROVE  /\ UNCHANGED poll /\ (Polling' => Polling)
               /\ synchronizing /\ pc' = "check" => pc = "check"
    BY <2>1, DisconnectLeads DEF DisconnectRemote
  <2>2. CASE AdvanceFrame
    BY <2>2 DEF AdvanceFrame, SimulateFrame
  <2>3. CASE Idle \/ DisconnectLocal \/ \E bits \in Made[LocalPlayer] : AddLocal(bits)
    BY <2>3 DEF Idle, DisconnectLocal, AddLocal
  <2> QED BY <1>1, <2>1, <2>2, <2>3 DEF Application
<1>2. CASE Network
  BY <1>2 DEF Network, Synchronized, Disconnected, Shutdown, InputArrives, PeerClaims
<1>3. CASE DoPoll
  <2>1. ASSUME NEW e \in Endpoints,
               OnSynchronized(e) \/ OnInput(e) \/ OnDisconnected(e)
        PROVE  /\ UNCHANGED poll /\ (Polling' => Polling)
               /\ synchronizing /\ pc' = "check" => pc = "check"
    <3>1. CASE OnSynchronized(e) \/ OnInput(e)
      BY <3>1 DEF OnSynchronized, OnInput, Take
    <3>2. CASE OnDisconnected(e)
      <4>1. pc = "events" /\ UNCHANGED poll
        BY <3>2 DEF OnDisconnected, Take
      <4>2. UNCHANGED <<pc, replay>> \/ DisconnectPlayerQueue(e, status[e].last_frame, "events")
        BY <3>2 DEF OnDisconnected
      <4> QED BY <4>1, <4>2, DisconnectLeads
    <3> QED BY <2>1, <3>1, <3>2
  <2>2. CASE Replay
    BY <2>2, SyncFacts DEF Replay, SimulateFrame, Callers
  <2>3. CASE Pumped \/ EventsDone \/ PollDone \/ PushToSpectators \/ Confirm
    BY <2>3 DEF Pumped, EventsDone, PollDone, PushToSpectators, Confirm
  <2> QED BY <1>3, <2>1, <2>2, <2>3 DEF DoPoll
<1>4. CASE Exited \/ UNCHANGED vars
  BY <1>4 DEF Exited, vars
<1> QED BY <1>1, <1>2, <1>3, <1>4 DEF Next

(* What StartInv says of the endpoints.                                       *)
EndpointsInv ==
    /\ ~synchronizing => \A e \in Endpoints \ {LocalPlayer} : endpoint[e] # "syncing"
    /\ \A e \in Remotes :
          status[e].disconnected => endpoint[e] \in {"disconnected", "shutdown"}

(* An endpoint stays as it is, is disconnected or shut down, or completes its *)
(* handshake, which it can only do while the session synchronizes.            *)
EndpointsMove ==
    \A e \in Endpoints :
        \/ endpoint'[e] = endpoint[e]
        \/ e # LocalPlayer /\ endpoint'[e] \in {"disconnected", "shutdown"}
        \/ /\ e # LocalPlayer /\ endpoint[e] = "syncing" /\ endpoint'[e] = "running"
           /\ UNCHANGED <<sync, status, claims, synchronizing, pc, replay, poll>>

EndpointsKept == /\ synchronizing' => synchronizing
                 /\ EndpointsMove /\ EndpointsInv'

LEMMA RemotesArranged ==
  /\ Remotes \subseteq Endpoints \ {LocalPlayer} /\ Players \subseteq Endpoints
  /\ \A e \in Players : e \in Endpoints \ {LocalPlayer} => e \in Remotes
  BY DEF Remotes, Endpoints

(* CheckInitialSync lets the session start.                                   *)
LEMMA StartsSynchronized ==
  ASSUME EndpointsInv, NEW states, NEW st,
         ~StillSynchronizing(states, st),
         \A e \in Endpoints \ {LocalPlayer} : states[e] = "syncing" => endpoint[e] = "syncing",
         \A e \in Remotes : st[e].disconnected => states[e] \in {"disconnected", "shutdown"}
  PROVE  \A e \in Endpoints \ {LocalPlayer} : states[e] # "syncing"
<1> SUFFICES ASSUME NEW e \in Endpoints \ {LocalPlayer}, states[e] = "syncing"
             PROVE  FALSE
  OBVIOUS
<1>1. synchronizing
  BY DEF EndpointsInv
<1>2. e \in Players /\ st[e].disconnected
  BY <1>1 DEF StillSynchronizing
<1> QED BY <1>2, RemotesArranged

LEMMA EndpointDisconnected ==
  ASSUME IInv, EndpointsInv, NEW queue \in Remotes, NEW syncto, NEW resume,
         DisconnectPlayerQueue(queue, syncto, resume)
  PROVE  EndpointsKept
<1>1. /\ endpoint' = [endpoint EXCEPT ![queue] = "disconnected"]
      /\ status' = [status EXCEPT ![queue] = [disconnected |-> TRUE,
                                              last_frame |-> syncto]]
      /\ synchronizing' = StillSynchronizing(endpoint', status')
  BY DEF DisconnectPlayerQueue
<1>2. endpoint \in [Endpoints -> EndpointStates] /\ status \in [Players -> Status]
  BY SyncFacts DEF IInv, NetworkInv
<1>3. /\ endpoint'[queue] = "disconnected"
      /\ \A e \in Endpoints : e # queue => endpoint'[e] = endpoint[e]
      /\ \A e \in Players : e # queue => status'[e] = status[e]
  BY <1>1, <1>2, RemotesArranged
<1>4. \A e \in Remotes :
        status'[e].disconnected => endpoint'[e] \in {"disconnected", "shutdown"}
  BY <1>3, RemotesArranged, PlayersArranged DEF EndpointsInv
<1>5. ~synchronizing' => \A e \in Endpoints \ {LocalPlayer} : endpoint'[e] # "syncing"
  <2> DEFINE states == endpoint'
             st == status'
  <2>1. /\ \A e \in Endpoints \ {LocalPlayer} : states[e] = "syncing" => endpoint[e] = "syncing"
        /\ \A e \in Remotes : st[e].disconnected => states[e] \in {"disconnected", "shutdown"}
        /\ ~synchronizing' => ~StillSynchronizing(states, st)
    BY <1>1, <1>3, <1>4
  <2> HIDE DEF states, st
  <2>2. ~synchronizing' => \A e \in Endpoints \ {LocalPlayer} : states[e] # "syncing"
    BY <2>1, StartsSynchronized
  <2> QED BY <2>2 DEF states
<1>6. (synchronizing' => synchronizing) /\ EndpointsMove
  BY <1>1, <1>3, RemotesArranged DEF EndpointsMove, StillSynchronizing
<1> QED BY <1>4, <1>5, <1>6 DEF EndpointsKept, EndpointsInv

LEMMA EndpointsLeft ==
  ASSUME IInv, EndpointsInv, DisconnectLocal
  PROVE  EndpointsKept
<1> DEFINE queues == {i \in Players : IsInitialized(i)}
           gone == [disconnected |-> TRUE, last_frame |-> sync.framecount]
<1>1. /\ endpoint' = [e \in Endpoints |->
                        IF e \in queues THEN "disconnected" ELSE endpoint[e]]
      /\ status' = [i \in Players |-> IF i \in queues THEN gone ELSE status[i]]
      /\ synchronizing' = StillSynchronizing(endpoint', status')
  BY DEF DisconnectLocal
<1>2. \A e \in queues : e \in Endpoints /\ e # LocalPlayer
  BY RemotesArranged DEF IsInitialized
<1> HIDE DEF queues, gone
<1>3. /\ \A e \in Endpoints : \/ endpoint'[e] = endpoint[e] /\ e \notin queues
                              \/ endpoint'[e] = "disconnected" /\ e # LocalPlayer
      /\ \A e \in Players : e \notin queues => status'[e] = status[e]
  BY <1>1, <1>2
<1>4. \A e \in Remotes :
        status'[e].disconnected => endpoint'[e] \in {"disconnected", "shutdown"}
  BY <1>3, RemotesArranged, PlayersArranged DEF EndpointsInv
<1>5. ~synchronizing' => \A e \in Endpoints \ {LocalPlayer} : endpoint'[e] # "syncing"
  <2> DEFINE states == endpoint'
             st == status'
  <2>1. /\ \A e \in Endpoints \ {LocalPlayer} : states[e] = "syncing" => endpoint[e] = "syncing"
        /\ \A e \in Remotes : st[e].disconnected => states[e] \in {"disconnected", "shutdown"}
        /\ ~synchronizing' => ~StillSynchronizing(states, st)
    BY <1>1, <1>3, <1>4
  <2> HIDE DEF states, st
  <2>2. ~synchronizing' => \A e \in Endpoints \ {LocalPlayer} : states[e] # "syncing"
    BY <2>1, StartsSynchronized
  <2> QED BY <2>2 DEF states
<1>6. (synchronizing' => synchronizing) /\ EndpointsMove
  BY <1>1, <1>3 DEF EndpointsMove, StillSynchronizing
<1> QED BY <1>4, <1>5, <1>6 DEF EndpointsKept, EndpointsInv

(* Steps that disconnect nobody.                                              *)
LEMMA EndpointsSame ==
  ASSUME EndpointsInv, UNCHANGED <<endpoint, synchronizing>>,
         \A e \in Remotes : status'[e].disconnected => status[e].disconnected
  PROVE  EndpointsKept
  BY DEF EndpointsKept, EndpointsInv, EndpointsMove

LEMMA EndpointsStep ==
  ASSUME IInv, EndpointsInv, [Next]_vars
  PROVE  EndpointsKept
<1>0. /\ endpoint \in [Endpoints -> EndpointStates] /\ status \in [Players -> Status]
      /\ LocalPlayer \in Players
  BY SyncFacts, PlayersArranged DEF IInv, NetworkInv
<1>1. CASE Application
  <2>1. ASSUME NEW bits \in Made[LocalPlayer], AddLocal(bits) PROVE EndpointsKept
    <3>1. \/ UNCHANGED status
          \/ \E f \in {TargetFrame(sync.queues[LocalPlayer], sync.framecount)} :
               status' = [status EXCEPT ![LocalPlayer].last_frame = f]
      BY <2>1 DEF AddLocal
    <3>2. \A e \in Remotes : status'[e] = status[e]
      BY <1>0, <3>1, PlayersArranged
    <3> QED BY <2>1, <3>2, EndpointsSame DEF AddLocal
  <2>2. CASE AdvanceFrame \/ Idle
    BY <2>2, EndpointsSame DEF AdvanceFrame, Idle
  <2>3. ASSUME NEW queue \in Players, DisconnectRemote(queue) PROVE EndpointsKept
    <3>1. queue \in Remotes /\ DisconnectPlayerQueue(queue, status[queue].last_frame, "app")
      BY <2>3 DEF DisconnectRemote, IsInitialized, Remotes
    <3> QED BY <3>1, EndpointDisconnected
  <2> QED BY <1>1, <2>1, <2>2, <2>3, EndpointsLeft DEF Application
<1>2. CASE Network
  <2>1. ASSUME NEW e \in Endpoints, Synchronized(e) PROVE EndpointsKept
    <3>1. /\ endpoint' = [endpoint EXCEPT ![e] = "running"] /\ e # LocalPlayer
          /\ endpoint[e] = "syncing"
          /\ UNCHANGED <<sync, status, claims, synchronizing, pc, replay, poll>>
      BY <2>1 DEF Synchronized
    <3>2. EndpointsMove
      BY <1>0, <3>1 DEF EndpointsMove
    <3>3. EndpointsInv'
      BY <1>0, <3>1, RemotesArranged DEF EndpointsInv
    <3> QED BY <3>1, <3>2, <3>3 DEF EndpointsKept
  <2>2. ASSUME NEW e \in Endpoints, Shutdown(e) PROVE EndpointsKept
    <3>1. /\ endpoint' = [endpoint EXCEPT ![e] = "shutdown"] /\ e # LocalPlayer
          /\ UNCHANGED <<status, synchronizing>>
      BY <2>2 DEF Shutdown
    <3> QED BY <1>0, <3>1, RemotesArranged DEF EndpointsKept, EndpointsInv, EndpointsMove
  <2>3. CASE ~\E e \in Endpoints : Synchronized(e) \/ Shutdown(e)
    BY <1>2, <2>3, EndpointsSame DEF Network, Disconnected, InputArrives, PeerClaims
  <2> QED BY <2>1, <2>2, <2>3
<1>3. CASE DoPoll
  <2>1. ASSUME NEW e \in Endpoints, OnSynchronized(e) PROVE EndpointsKept
    <3>1. synchronizing' = StillSynchronizing(endpoint, status) /\ UNCHANGED <<endpoint, status>>
      BY <2>1 DEF OnSynchronized
    <3>2. ~synchronizing' => \A i \in Endpoints \ {LocalPlayer} : endpoint[i] # "syncing"
      BY <3>1, StartsSynchronized DEF EndpointsInv
    <3> QED BY <3>1, <3>2 DEF EndpointsKept, EndpointsInv, EndpointsMove, StillSynchronizing
  <2>2. ASSUME NEW e \in Endpoints, OnInput(e) PROVE EndpointsKept
    <3>1. \/ UNCHANGED status
          \/ \E f \in {Head(inbox[e]).frame} : status' = [status EXCEPT ![e].last_frame = f]
      BY <2>2 DEF OnInput
    <3>2. \A i \in Remotes : status'[i].disconnected = status[i].disconnected
      BY <1>0, <3>1, PlayersArranged DEF Status
    <3> QED BY <2>2, <3>2, EndpointsSame DEF OnInput
  <2>3. ASSUME NEW e \in Endpoints, OnDisconnected(e) PROVE EndpointsKept
    <3>1. e # LocalPlayer
      BY <2>3, NetworkTaken DEF OnDisconnected, IInv
    <3>2. CASE e \in Spectators
      <4>1. /\ endpoint' = [endpoint EXCEPT ![e] = "disconnected"]
            /\ UNCHANGED <<status, synchronizing>>
        BY <2>3, <3>2 DEF OnDisconnected
      <4> QED BY <1>0, <3>1, <4>1, RemotesArranged DEF EndpointsKept, EndpointsInv, EndpointsMove
    <3>3. CASE e \notin Spectators /\ status[e].disconnected
      BY <2>3, <3>3, EndpointsSame DEF OnDisconnected
    <3>4. CASE e \notin Spectators /\ ~status[e].disconnected
      <4>1. e \in Remotes /\ DisconnectPlayerQueue(e, status[e].last_frame, "events")
        BY <2>3, <3>1, <3>4 DEF OnDisconnected, Endpoints, Remotes
      <4> QED BY <4>1, EndpointDisconnected
    <3> QED BY <3>2, <3>3, <3>4
  <2>4. CASE PollPlayer
    <3>1. CASE ~ToDisconnect(poll.queue)
      BY <2>4, <3>1, EndpointsSame DEF PollPlayer
    <3>2. CASE ToDisconnect(poll.queue)
      <4>1. /\ DisconnectPlayerQueue(poll.queue, DisconnectFrame(poll.queue), "poll")
            /\ poll.queue \in Players
        BY <2>4, <3>2 DEF PollPlayer
      <4>2. poll.queue \in Remotes
        BY <3>2, <4>1, OnlyRemotesDisconnect
      <4> QED BY <4>1, <4>2, EndpointDisconnected
    <3> QED BY <3>1, <3>2
  <2>5. CASE Pumped \/ EventsDone \/ CheckSimulation \/ Replay \/ PollDone
             \/ PushToSpectators \/ Confirm
    BY <2>5, EndpointsSame
       DEF Pumped, EventsDone, CheckSimulation, Replay, PollDone, PushToSpectators, Confirm
  <2> QED BY <1>3, <2>1, <2>2, <2>3, <2>4, <2>5 DEF DoPoll
<1>4. CASE Exited \/ UNCHANGED vars
  BY <1>4, EndpointsSame DEF Exited, vars
<1> QED BY <1>1, <1>2, <1>3, <1>4 DEF Next

(* How the reports may change.                                                *)
ReportsGrow ==
    \A e, i \in Players :
        ~claims'[e][i].disconnected =>
            /\ ~claims[e][i].disconnected
            /\ claims'[e][i].last_frame >= claims[e][i].last_frame

LEMMA ReportsSame ==
  ASSUME IInv, ReportsInv, UNCHANGED <<claims, last_received>>
  PROVE  ReportsInv' /\ ReportsGrow
<1>1. \A e, i \in Players : claims[e][i].last_frame \in Int
  <2>1. \A e, i \in Players : claims[e][i] \in Status
    BY DEF IInv, NetworkInv
  <2> QED BY <2>1 DEF Status, Frames, NullFrame
<1>2. ReportsInv'
  BY DEF ReportsInv
<1>3. ReportsGrow
  BY <1>1 DEF ReportsGrow
<1> QED BY <1>2, <1>3

LEMMA ReportsStep ==
  ASSUME IInv, ReportsInv, [Next]_vars
  PROVE  ReportsInv' /\ ReportsGrow
<1>0. /\ claims \in [Players -> [Players -> Status]]
      /\ last_received \in [Endpoints -> Frames]
  BY DEF IInv, NetworkInv
<1>00. \A e, i \in Players : claims[e][i].last_frame \in Int
  BY <1>0 DEF Status, Frames, NullFrame
<1>1. ASSUME NEW e \in Remotes, NEW bits \in Made[e], InputArrives(e, bits)
      PROVE  ReportsInv' /\ ReportsGrow
  <2> DEFINE frame == IF last_received[e] = NullFrame THEN RemoteDelay
                      ELSE last_received[e] + 1
  <2>1. /\ last_received' = [last_received EXCEPT ![e] = frame]
        /\ claims' = [claims EXCEPT ![e][e].last_frame = frame]
        /\ e \in Players /\ e \in Endpoints /\ e # LocalPlayer
    BY <1>1, PlayersArranged, RemotesArranged DEF InputArrives
  <2>2. frame \in Nat /\ frame >= last_received[e]
    BY <1>0, <2>1 DEF Frames, NullFrame
  <2> HIDE DEF frame
  <2>3. /\ claims'[e][e].last_frame = frame
        /\ claims'[e][e].disconnected = claims[e][e].disconnected
        /\ \A j, i \in Players : ~(j = e /\ i = e) => claims'[j][i] = claims[j][i]
        /\ last_received'[e] = frame
        /\ \A i \in Players : i # e => last_received'[i] = last_received[i]
    BY <1>0, <2>1, RemotesArranged DEF Status
  <2>4. ReportsInv'
    BY <2>1, <2>3, PlayersArranged DEF ReportsInv
  <2>5. ReportsGrow
    <3> SUFFICES ASSUME NEW j \in Players, NEW i \in Players, ~claims'[j][i].disconnected
                 PROVE  /\ ~claims[j][i].disconnected
                        /\ claims'[j][i].last_frame >= claims[j][i].last_frame
      BY DEF ReportsGrow
    <3>1. CASE j = e /\ i = e
      BY <2>1, <2>2, <2>3, <3>1 DEF ReportsInv
    <3>2. CASE ~(j = e /\ i = e)
      BY <1>00, <2>3, <3>2
    <3> QED BY <3>1, <3>2
  <2> QED BY <2>4, <2>5
<1>2. ASSUME NEW e \in Players, NEW i \in Players,
             NEW claim \in [disconnected : BOOLEAN, last_frame : 0 .. MaxFrame - 1],
             PeerClaims(e, i, claim)
      PROVE  ReportsInv' /\ ReportsGrow
  <2>1. /\ claims' = [claims EXCEPT ![e][i] = claim] /\ UNCHANGED last_received
        /\ e \in Remotes /\ i # e /\ ~claims[e][i].disconnected
        /\ claim.last_frame >= Max2(claims[e][i].last_frame, 0)
    BY <1>00, <1>2 DEF PeerClaims, Max2, Min2
  <2>2. claim.last_frame >= claims[e][i].last_frame
    BY <1>00, <2>1 DEF Max2
  <2>3. /\ claims'[e][i] = claim
        /\ \A j, k \in Players : ~(j = e /\ k = i) => claims'[j][k] = claims[j][k]
    BY <1>0, <2>1
  <2>4. ReportsInv'
    <3>1. \A j \in Players : claims'[j][j] = claims[j][j]
      BY <2>1, <2>3
    <3>2. \A j \in Players : claims'[LocalPlayer][j] = claims[LocalPlayer][j]
      BY <2>1, <2>3, PlayersArranged
    <3>3. last_received' = last_received
      BY <2>1
    <3> QED BY <3>1, <3>2, <3>3 DEF ReportsInv
  <2>5. ReportsGrow
    BY <1>00, <2>1, <2>2, <2>3 DEF ReportsGrow
  <2> QED BY <2>4, <2>5
<1>3. CASE ~(\/ \E e \in Remotes : \E bits \in Made[e] : InputArrives(e, bits)
             \/ \E e, i \in Players :
                  \E claim \in [disconnected : BOOLEAN, last_frame : 0 .. MaxFrame - 1] :
                      PeerClaims(e, i, claim))
  <2>1. Application => UNCHANGED <<claims, last_received>>
    BY DEF Application, AddLocal, AdvanceFrame, Idle, DisconnectRemote,
           DisconnectLocal, network
  <2>2. Network => UNCHANGED <<claims, last_received>>
    BY <1>3 DEF Network, Synchronized, Disconnected, Shutdown, network
  <2>3. DoPoll => UNCHANGED <<claims, last_received>>
    BY DEF DoPoll, Pumped, OnSynchronized, OnInput, OnDisconnected, Take,
           EventsDone, CheckSimulation, Replay, PollPlayer, PollDone,
           PushToSpectators, Confirm, network
  <2>4. Exited \/ UNCHANGED vars => UNCHANGED <<claims, last_received>>
    BY DEF Exited, vars, network
  <2>5. UNCHANGED <<claims, last_received>>
    BY <2>1, <2>2, <2>3, <2>4 DEF Next
  <2> QED BY <2>5, ReportsSame
<1> QED BY <1>1, <1>2, <1>3

LEMMA StartInvInit == ASSUME Init PROVE RingInvs
<1>1. /\ sync.framecount = 0 /\ sync.last_confirmed_frame = NullFrame
      /\ replay = [until |-> 0, resume |-> "app"]
      /\ poll = [queue |-> 0, total |-> MAX_INT] /\ pc = "app" /\ synchronizing
  BY DEF Init, InitSync
<1>2. /\ status = [i \in Players |-> [disconnected |-> FALSE, last_frame |-> NullFrame]]
      /\ claims = [e \in Players |-> status]
      /\ last_received = [e \in Endpoints |-> NullFrame]
  BY DEF Init
<1>3. StartInv
  BY <1>1, <1>2, PlayersArranged DEF StartInv, Polling
<1>4. ReportsInv
  BY <1>2, PlayersArranged, RemotesArranged DEF ReportsInv
<1>5. ConfirmedInv
  BY <1>1, <1>2, PlayersArranged DEF ConfirmedInv, Counts, Polling, NullFrame, MAX_INT
<1>6. HorizonInv
  BY <1>1 DEF HorizonInv, Max2, NullFrame
<1> QED BY <1>3, <1>4, <1>5, <1>6 DEF RingInvs

(* Only Confirm sets the last confirmed frame.                                *)
LEMMA LastConfirmedKept ==
  ASSUME IInv, [Next]_vars
  PROVE  /\ sync'.last_confirmed_frame \in {sync.last_confirmed_frame, poll.total}
         /\ ~Confirm => sync'.last_confirmed_frame = sync.last_confirmed_frame
  BY SessionStep DEF StepKeeps, RolledBack, Advanced, Discarding

LEMMA StartStep ==
  ASSUME IInv, StartInv, [Next]_vars
  PROVE  StartInv' /\ EndpointsKept
<1>1. EndpointsKept
  BY EndpointsStep DEF StartInv, EndpointsInv
<1>2. ASSUME synchronizing'
      PROVE  /\ sync'.last_confirmed_frame = NullFrame
             /\ pc' # "check" /\ ~Polling'
  <2>1. synchronizing /\ pc # "check" /\ ~Polling
    BY <1>1, <1>2 DEF EndpointsKept, StartInv
  <2>2. ~CheckSimulation /\ ~PollPlayer /\ ~Confirm
    BY <2>1 DEF CheckSimulation, PollPlayer, Confirm, Polling
  <2> QED BY <2>1, <2>2, PollGoesOn, LastConfirmedKept DEF StartInv
<1> QED BY <1>1, <1>2 DEF EndpointsKept, EndpointsInv, StartInv

(* A report that counts has counted before, and not for more, or nothing has  *)
(* been confirmed yet.                                                        *)
LEMMA CountsBefore ==
  ASSUME IInv, StartInv, ReportsInv, [Next]_vars,
         NEW e \in Remotes, NEW i \in Players, Counts(e, i)'
  PROVE  \/ /\ Counts(e, i)
            /\ claims'[e][i].last_frame >= claims[e][i].last_frame
         \/ /\ sync'.last_confirmed_frame = NullFrame
            /\ ~Polling'
<1>1. EndpointsMove /\ ReportsGrow
  BY StartStep, ReportsStep DEF EndpointsKept
<1>2. /\ NumPlayers > 2 /\ endpoint'[e] = "running" /\ ~claims'[e][i].disconnected
      /\ e \in Players /\ e \in Endpoints
  BY PlayersArranged, RemotesArranged DEF Counts
<1>3. CASE endpoint[e] = "running"
  BY <1>1, <1>2, <1>3 DEF ReportsGrow, Counts
<1>4. CASE endpoint[e] # "running"
  <2>1. endpoint[e] = "syncing" /\ UNCHANGED <<sync, pc, replay>>
    BY <1>1, <1>2, <1>4 DEF EndpointsMove
  <2>2. synchronizing
    BY <2>1, RemotesArranged DEF StartInv
  <2> QED BY <2>1, <2>2 DEF StartInv, Polling
<1> QED BY <1>3, <1>4

(* With up to three players whatever the poll adds to what it has confirmed   *)
(* is later than the last confirmed frame, and no later than any report on    *)
(* the queue that counts.                                                     *)
LEMMA ConfirmedGrows ==
  ASSUME IInv, BarrierInv, ConfirmedInv, NEW queue \in Players,
         sync.last_confirmed_frame <= poll.total
  PROVE  sync.last_confirmed_frame <= TotalAfter(queue)
<1>1. /\ sync.last_confirmed_frame \in Int /\ poll.total \in Int
      /\ status[queue].last_frame \in Int /\ Confirmed(queue) \in Int
  BY SyncFacts, ConfirmedIsLeast DEF SyncType, Status, Frames, NullFrame
<1>2. CASE TotalAfter(queue) = poll.total
  BY <1>2
<1>3. CASE TotalAfter(queue) # poll.total
  <2>1. /\ TotalAfter(queue) = Confirmed(queue)
        /\ NumPlayers <= 2 \/ QueueConnected(queue)
    BY <1>1, <1>3 DEF TotalAfter, Min2
  <2>2. CASE Confirmed(queue) = MAX_INT
    BY <2>1, <2>2 DEF ConfirmedInv
  <2>3. CASE ~status[queue].disconnected /\ Confirmed(queue) = status[queue].last_frame
    BY <2>1, <2>3 DEF BarrierInv, Connected
  <2>4. ASSUME NumPlayers > 2, NEW e \in Consulted(queue),
               Confirmed(queue) = claims[e][queue].last_frame
        PROVE  sync.last_confirmed_frame <= TotalAfter(queue)
    <3>1. e \in Players /\ endpoint[e] = "running" /\ ~claims[e][queue].disconnected
      BY <2>1, <2>4 DEF Consulted, QueueConnected
    <3>2. CASE e = LocalPlayer
      <4>1. sync.last_confirmed_frame <= NullFrame
        BY <2>4, <3>1, <3>2 DEF ConfirmedInv
      <4> QED BY <1>1, <2>1, <4>1, ConfirmedIsLeast DEF Frames, NullFrame
    <3>3. CASE e # LocalPlayer
      <4>1. e \in Remotes /\ Counts(e, queue)
        BY <2>4, <3>1, <3>3 DEF Remotes, Counts
      <4> QED BY <2>1, <2>4, <4>1 DEF ConfirmedInv
    <3> QED BY <3>2, <3>3
  <2> QED BY <2>2, <2>3, <2>4, ConfirmedIsLeast
<1> QED BY <1>2, <1>3

LEMMA ReportsBoundTotal ==
  ASSUME IInv, StartInv, ReportsInv, NumPlayers <= 3, PollPlayer, EndpointsKept,
         NEW e \in Remotes, NEW k \in Players, k = poll.queue, Counts(e, k)'
  PROVE  TotalAfter(k) <= claims[e][k].last_frame
<1>1. /\ k \in Players /\ UNCHANGED claims /\ pc = "poll"
      /\ NumPlayers > 2 /\ endpoint'[e] = "running" /\ ~claims[e][k].disconnected
      /\ e \in Players /\ e \in Endpoints /\ e # LocalPlayer
  BY PlayersArranged, RemotesArranged DEF PollPlayer, Counts, network
<1>2. endpoint[e] = "running"
  <2>1. endpoint'[e] = endpoint[e] \/ synchronizing
    BY <1>1 DEF EndpointsKept, EndpointsMove, StartInv
  <2>2. ~synchronizing
    BY <1>1 DEF StartInv, Polling
  <2> QED BY <1>1, <2>1, <2>2
<1>3. e \in Consulted(k)
  BY <1>1, <1>2 DEF Consulted
<1>4. /\ Confirmed(k) \in Int /\ poll.total \in Int /\ claims[e][k].last_frame \in Int
      /\ Confirmed(k) <= claims[e][k].last_frame
  <2>1. claims \in [Players -> [Players -> Status]]
    BY DEF IInv, NetworkInv
  <2>2. claims[e][k] \in Status
    BY <1>1, <2>1
  <2> QED BY <1>1, <1>3, <2>2, ConfirmedIsLeast, SyncFacts DEF Status, Frames, NullFrame
<1>5. CASE QueueConnected(k)
  BY <1>4, <1>5 DEF TotalAfter, Min2
<1>6. CASE ~QueueConnected(k)
  <2>1. PICK other \in Consulted(k) : claims[other][k].disconnected
    BY <1>6 DEF QueueConnected
  <2>2. other \in Players /\ other # e /\ other # k /\ other # LocalPlayer
    BY <1>1, <2>1, PlayersArranged DEF Consulted, ReportsInv
  <2>3. k # LocalPlayer
    BY <2>1, <2>2 DEF IInv, NetworkInv
  <2>4. e # k
    <3>1. CASE status[k].disconnected
      BY <1>1, <1>2, <2>3, <3>1, PlayersArranged DEF StartInv
    <3>2. CASE ~status[k].disconnected
      <4>1. ToDisconnect(k)
        BY <1>6, <3>2 DEF ToDisconnect
      <4>2. endpoint' = [endpoint EXCEPT ![k] = "disconnected"]
        BY <4>1 DEF PollPlayer, DisconnectPlayerQueue
      <4>3. endpoint'[k] = "disconnected"
        BY <1>1, <4>2, RemotesArranged DEF IInv, NetworkInv
      <4> QED BY <1>1, <4>3
    <3> QED BY <3>1, <3>2
  <2>5. e \in 0 .. 2 /\ k \in 0 .. 2 /\ other \in 0 .. 2 /\ LocalPlayer \in 0 .. 2
    BY <1>1, <2>2, PlayersArranged DEF Players
  <2> QED BY <1>1, <2>2, <2>3, <2>4, <2>5
<1> QED BY <1>5, <1>6

LEMMA ConfirmedStep ==
  ASSUME IInv, BarrierInv, StartInv, ReportsInv, ConfirmedInv, NumPlayers <= 3,
         [Next]_vars
  PROVE  ConfirmedInv' /\ sync'.last_confirmed_frame >= sync.last_confirmed_frame
<1> DEFINE last == sync.last_confirmed_frame
           lastn == sync'.last_confirmed_frame
<1>0. /\ last \in Int /\ lastn \in Int /\ poll.total \in Int /\ poll'.total \in Int
      /\ last >= NullFrame
      /\ \A e, i \in Players : /\ claims[e][i].last_frame \in Int
                               /\ claims'[e][i].last_frame \in Int
                               /\ claims'[e][i].last_frame >= NullFrame
  <2>1. /\ sync \in Syncs /\ sync' \in Syncs /\ poll.total \in Frames /\ poll'.total \in Frames
    BY SessionStep DEF IInv, SessionTypes, StepKeeps
  <2>2. /\ claims \in [Players -> [Players -> Status]]
        /\ claims' \in [Players -> [Players -> Status]]
    BY NetworkStep DEF IInv, NetworkInv
  <2> QED BY <2>1, <2>2 DEF Syncs, SyncType, Status, Frames, NullFrame
<1>1. EndpointsKept /\ ReportsGrow /\ endpoint'[LocalPlayer] = endpoint[LocalPlayer]
  BY StartStep, ReportsStep, LocalIsPlayer DEF EndpointsKept, EndpointsMove
<1>2. last <= MAX_INT /\ poll.total <= MAX_INT /\ (Polling => last <= poll.total)
  BY DEF ConfirmedInv
<1> HIDE DEF last, lastn
<1>3. CASE Confirm
  <2>1. /\ pc = "confirm" /\ Polling /\ ~Polling' /\ UNCHANGED <<poll, claims, endpoint>>
        /\ lastn \in {last, poll.total}
    BY <1>3, LastConfirmedKept DEF Confirm, Polling, last, lastn, network
  <2>2. poll.queue >= NumPlayers
    BY <2>1 DEF IInv, SessionInv, PollInv, Stages
  <2>3. \A i \in Players : i < poll.queue
    BY <2>2, SyncFacts DEF Players
  <2>4. NumPlayers > 2 /\ endpoint[LocalPlayer] = "running" => lastn <= NullFrame
    BY <2>1, <2>3, PlayersArranged DEF ConfirmedInv, last
  <2>5. \A e \in Remotes, i \in Players :
           Counts(e, i) => lastn <= claims[e][i].last_frame
    BY <2>1, <2>3 DEF ConfirmedInv, last
  <2>6. lastn <= MAX_INT /\ lastn >= last
    BY <1>0, <1>2, <2>1
  <2>7. \A e \in Remotes, i \in Players : Counts(e, i)' <=> Counts(e, i)
    BY <2>1 DEF Counts
  <2> QED BY <1>2, <2>1, <2>4, <2>5, <2>6, <2>7 DEF ConfirmedInv, lastn, last
<1>4. CASE ~Confirm
  <2>1. lastn = last
    BY <1>4, LastConfirmedKept DEF lastn, last
  <2>2. NumPlayers > 2 /\ endpoint'[LocalPlayer] = "running" => lastn <= NullFrame
    BY <1>1, <2>1 DEF ConfirmedInv, last
  <2>3. \A e \in Remotes, i \in Players :
           Counts(e, i)' => lastn <= claims'[e][i].last_frame
    <3> SUFFICES ASSUME NEW e \in Remotes, NEW i \in Players, Counts(e, i)'
                 PROVE  lastn <= claims'[e][i].last_frame
      OBVIOUS
    <3>1. \/ /\ Counts(e, i)
             /\ claims'[e][i].last_frame >= claims[e][i].last_frame
          \/ lastn = NullFrame
      BY CountsBefore DEF lastn
    <3>2. Counts(e, i) => last <= claims[e][i].last_frame
      BY DEF ConfirmedInv, last
    <3> QED BY <1>0, <2>1, <3>1, <3>2, PlayersArranged
  <2>4. /\ poll'.total <= MAX_INT
        /\ Polling' => lastn <= poll'.total
        /\ NumPlayers > 2 /\ endpoint'[LocalPlayer] = "running"
             /\ Polling' /\ LocalPlayer < poll'.queue => poll'.total <= NullFrame
        /\ \A e \in Remotes, i \in Players :
              Counts(e, i)' /\ Polling' /\ i < poll'.queue
                  => poll'.total <= claims'[e][i].last_frame
    <3>1. CASE CheckSimulation
      <4>1. poll'.queue = 0 /\ poll'.total = MAX_INT
        BY <3>1 DEF CheckSimulation
      <4>2. \A i \in Players : ~(i < 0)
        BY PlayersArranged
      <4> QED BY <1>0, <1>2, <2>1, <4>1, <4>2, PlayersArranged
    <3>2. CASE PollPlayer
      <4> DEFINE k == poll.queue
      <4>1. /\ k \in Players /\ k \in Nat /\ Polling /\ ~synchronizing /\ UNCHANGED claims
            /\ poll'.queue = k + 1 /\ poll'.total = TotalAfter(k)
            /\ \A i \in Players : i \in Nat
        BY <3>2, PlayersArranged DEF PollPlayer, Polling, StartInv, network
      <4>2. TotalAfter(k) <= poll.total /\ last <= TotalAfter(k)
        BY <1>2, <4>1, TotalNeverGrows, ConfirmedGrows DEF last
      <4>3. ASSUME NumPlayers > 2, endpoint[LocalPlayer] = "running", LocalPlayer < k + 1
            PROVE  TotalAfter(k) <= NullFrame
        <5>1. CASE LocalPlayer = k
          <6>1. LocalPlayer \in Consulted(k) /\ claims[LocalPlayer][k].last_frame = NullFrame
            BY <4>1, <4>3, PlayersArranged DEF Consulted, ReportsInv
          <6>2. Confirmed(k) <= NullFrame
            BY <4>1, <4>3, <6>1, ConfirmedIsLeast
          <6>3. QueueConnected(k)
            BY <5>1 DEF QueueConnected, Consulted, IInv, NetworkInv
          <6>4. Confirmed(k) \in Int
            BY <4>1, ConfirmedIsLeast DEF Frames, NullFrame
          <6> QED BY <1>0, <6>2, <6>3, <6>4 DEF TotalAfter, Min2, NullFrame
        <5>2. CASE LocalPlayer # k
          <6>1. LocalPlayer < k
            BY <4>1, <4>3, <5>2, PlayersArranged
          <6>2. poll.total <= NullFrame
            BY <4>1, <4>3, <6>1 DEF ConfirmedInv
          <6> QED BY <1>0, <4>1, <4>2, <6>2 DEF NullFrame
        <5> QED BY <5>1, <5>2
      <4>4. ASSUME NEW e \in Remotes, NEW i \in Players, Counts(e, i)', i < k + 1, Polling'
            PROVE  TotalAfter(k) <= claims[e][i].last_frame
        <5>1. CASE i = k
          BY <1>1, <3>2, <4>4, <5>1, ReportsBoundTotal
        <5>2. CASE i # k
          <6>1. Counts(e, i)
            BY <4>4, CountsBefore
          <6>2. i < k
            BY <4>1, <4>4, <5>2
          <6>3. poll.total <= claims[e][i].last_frame
            BY <4>1, <6>1, <6>2 DEF ConfirmedInv
          <6> QED BY <1>0, <4>1, <4>2, <6>3, PlayersArranged
        <5> QED BY <5>1, <5>2
      <4> HIDE DEF k
      <4>5. poll'.total <= MAX_INT
        BY <1>0, <1>2, <4>1, <4>2 DEF MAX_INT
      <4> QED BY <1>1, <2>1, <4>1, <4>2, <4>3, <4>4, <4>5
    <3>3. CASE ~CheckSimulation /\ ~PollPlayer
      <4>1. UNCHANGED poll /\ (Polling' => Polling)
        BY <3>3, PollGoesOn
      <4>2. ASSUME NEW e \in Remotes, NEW i \in Players, Counts(e, i)', Polling',
                   i < poll.queue
            PROVE  poll.total <= claims'[e][i].last_frame
        <5>1. Counts(e, i) /\ claims'[e][i].last_frame >= claims[e][i].last_frame
          BY <4>2, CountsBefore
        <5>2. poll.total <= claims[e][i].last_frame
          BY <4>1, <4>2, <5>1 DEF ConfirmedInv
        <5> QED BY <1>0, <5>1, <5>2, PlayersArranged
      <4>3. NumPlayers > 2 /\ endpoint[LocalPlayer] = "running"
               /\ Polling /\ LocalPlayer < poll.queue => poll.total <= NullFrame
        BY DEF ConfirmedInv
      <4> QED BY <1>1, <1>2, <2>1, <4>1, <4>2, <4>3
    <3> QED BY <3>1, <3>2, <3>3
  <2>5. lastn <= MAX_INT /\ lastn >= last
    BY <1>0, <1>2, <2>1
  <2> QED BY <2>2, <2>3, <2>4, <2>5 DEF ConfirmedInv, lastn, last
<1> QED BY <1>3, <1>4

LEMMA HorizonStep ==
  ASSUME IInv, HorizonInv, [Next]_vars,
         sync'.last_confirmed_frame >= sync.last_confirmed_frame
  PROVE  HorizonInv'
<1> DEFINE n == sync.framecount
           last == sync.last_confirmed_frame
           lastn == sync'.last_confirmed_frame
           M == MAX_PREDICTION_FRAMES
<1>1. StepKeeps
  BY SessionStep
<1>2. /\ n \in Nat /\ last \in Int /\ replay.until \in Int
      /\ sync'.framecount \in Nat /\ lastn \in Int
  <2>1. sync \in Syncs /\ sync' \in Syncs
    BY <1>1 DEF IInv, SessionTypes, StepKeeps
  <2> QED BY <2>1, SyncFacts DEF Syncs, SyncType, Frames, NullFrame
<1>3. n <= Max2(last, 0) + M /\ replay.until <= Max2(last, 0) + M
  BY DEF HorizonInv
<1>4. M \in Nat /\ M > 0 /\ lastn >= last
  OBVIOUS
<1> HIDE DEF n, last, lastn, M
<1> SUFFICES /\ sync'.framecount <= Max2(lastn, 0) + M
             /\ replay'.until <= Max2(lastn, 0) + M
  BY DEF HorizonInv, lastn, M
<1>5. CASE RolledBack
  BY <1>2, <1>3, <1>4, <1>5 DEF RolledBack, Max2, n
<1>6. CASE Advanced
  <2>1. n < M \/ n - last < M \/ n < replay.until
    BY <1>2, <1>4, <1>6 DEF Advanced, BarrierReached, n, M, last
  <2>2. sync'.framecount = n + 1 /\ replay'.until = replay.until
    BY <1>6 DEF Advanced, n
  <2> QED BY <1>2, <1>3, <1>4, <2>1, <2>2 DEF Max2
<1>7. CASE Discarding
  <2>1. sync'.framecount = n /\ replay'.until = replay.until
    BY <1>7 DEF Discarding, n
  <2> QED BY <1>2, <1>3, <1>4, <2>1 DEF Max2
<1> QED BY <1>1, <1>5, <1>6, <1>7 DEF StepKeeps

(* p2p.cpp:234: with up to three players each poll finds a frame at least as  *)
(* late as the one before it, because what an endpoint reports only grows,    *)
(* and a player who is disconnected stays so; and the simulation stays within *)
(* the barrier of that frame.                                                 *)
THEOREM RingInvariant == NumPlayers <= 3 => (Spec => []RingInvs)
<1> SUFFICES ASSUME NumPlayers <= 3 PROVE Spec => []RingInvs
  OBVIOUS
<1>1. Init => RingInvs
  BY StartInvInit
<1>2. IInv /\ BarrierInv /\ RingInvs /\ [Next]_vars => RingInvs'
  <2> SUFFICES ASSUME IInv, BarrierInv, RingInvs, [Next]_vars PROVE RingInvs'
    OBVIOUS
  <2>1. StartInv' /\ ReportsInv'
    BY StartStep, ReportsStep DEF RingInvs
  <2>2. ConfirmedInv' /\ sync'.last_confirmed_frame >= sync.last_confirmed_frame
    BY ConfirmedStep DEF RingInvs
  <2>3. HorizonInv'
    BY <2>2, HorizonStep DEF RingInvs
  <2> QED BY <2>1, <2>2, <2>3 DEF RingInvs
<1> QED BY <1>1, <1>2, Invariant, BarrierInvariant, PTL DEF Spec

(* p2p.cpp:126: with up to three players the frame that the polls confirm     *)
(* never goes back, although a poll starts from nothing and leaves out        *)
(* whatever player or report has been disconnected by then.                   *)
THEOREM ConfirmedOnce ==
  NumPlayers <= 3 =>
      (Spec => [][sync'.last_confirmed_frame >= sync.last_confirmed_frame]_vars)
<1> SUFFICES ASSUME NumPlayers <= 3
             PROVE  Spec => [][sync'.last_confirmed_frame >= sync.last_confirmed_frame]_vars
  OBVIOUS
<1>1. IInv /\ BarrierInv /\ RingInvs /\ [Next]_vars
         => [sync'.last_confirmed_frame >= sync.last_confirmed_frame]_vars
  BY ConfirmedStep DEF RingInvs
<1> QED BY <1>1, Invariant, BarrierInvariant, RingInvariant, PTL DEF Spec

(* sync.h:43: with up to three players the ring of saved states, which has    *)
(* two slots more than the frames that may be predicted, finds between        *)
(* rollbacks every frame from the last confirmed one on, and finds the state  *)
(* that the current history has there -- whichever rollbacks wrote the ring.  *)
THEOREM SavedFrames == NumPlayers <= 3 => (Spec => []SavedFramesAvailable)
<1> SUFFICES ASSUME NumPlayers <= 3 PROVE Spec => []SavedFramesAvailable
  OBVIOUS
<1>1. IInv /\ RingInvs => SavedFramesAvailable
  <2> SUFFICES ASSUME IInv, HorizonInv, pc \in Stages \ {"replay"}, sync.framecount > 0,
                      NEW f \in Max2(0, sync.last_confirmed_frame) .. sync.framecount
               PROVE  /\ FindSavedFrameIndexAsserts(sync, f)
                      /\ sync.saved[FindSavedFrameIndex(sync, f)].full
                      /\ sync.saved[FindSavedFrameIndex(sync, f)].state
                            = [n \in 0 .. f - 1 |-> game[n]]
    BY DEF SavedFramesAvailable, RingInvs
  <2> DEFINE top == sync.framecount
  <2>1. StatesInv(sync, game, top)
    BY DEF IInv, SessionInv, StageInv, AtRest, Stages
  <2>2. /\ top \in Nat /\ sync.last_confirmed_frame \in Int
        /\ sync \in SyncType(Histories, [Players -> QueueType])
    BY SyncFacts DEF SyncType, Frames, NullFrame
  <2>3. top <= Max2(sync.last_confirmed_frame, 0) + MAX_PREDICTION_FRAMES
    BY DEF HorizonInv
  <2> HIDE DEF top
  <2>4. f \in Kept(top) /\ f <= sync.framecount
    <3>1. f \in Max2(0, sync.last_confirmed_frame) .. top
      BY DEF top
    <3>2. f \in 0 .. top /\ top - f <= MAX_PREDICTION_FRAMES
      BY <2>2, <2>3, <3>1 DEF Max2
    <3> QED BY <2>2, <3>2 DEF Kept, RingSize, top
  <2>5. RingInv(sync, top) /\ sync.saved[f % RingSize].full
        /\ sync.saved[f % RingSize].state = [n \in 0 .. f - 1 |-> game[n]]
    BY <2>1, <2>4 DEF StatesInv, RingInv
  <2>6. /\ FindSavedFrameIndexAsserts(sync, f)
        /\ FindSavedFrameIndex(sync, f) = f % RingSize
    BY <2>2, <2>4, <2>5, FrameIsFound
  <2> QED BY <2>5, <2>6
<1> QED BY <1>1, Invariant, RingInvariant, PTL
-----------------------------------------------------------------------------
(* Reports of peers who have disconnected a player.                           *)

(* This peer has not gone back to the frame that e has disconnected i at.     *)
Behind(e, i) ==
    /\ NumPlayers > 2 /\ endpoint[e] = "running" /\ claims[e][i].disconnected
    /\ \/ ~status[i].disconnected
       \/ status[i].last_frame > claims[e][i].last_frame

(* The poll leaves no queue behind that it has passed.                        *)
ReportedInv ==
    \A e \in Remotes, i \in Players :
        Behind(e, i) => ~(Polling /\ i < poll.queue)

(* Once a poll has begun only PollPlayer changes what it depends on.          *)
LEMMA PollUndisturbed ==
  ASSUME IInv, [Next]_vars, Polling, ~PollPlayer
  PROVE  UNCHANGED <<status, claims, endpoint>>
<1> USE DEF Polling
<1>1. CASE Application
  BY <1>1 DEF Application, AddLocal, AdvanceFrame, Idle, DisconnectRemote, DisconnectLocal
<1>2. CASE Network
  BY ZenonT(60), <1>2 DEF Network, Synchronized, Disconnected, Shutdown, InputArrives,
              PeerClaims, QueueEvent
<1>3. CASE DoPoll
  BY <1>3 DEF DoPoll, Pumped, OnSynchronized, OnInput, OnDisconnected, Take,
              EventsDone, CheckSimulation, Replay, PollDone, PushToSpectators,
              Confirm, network
<1>4. CASE Exited \/ UNCHANGED vars
  BY <1>4 DEF Exited, vars, network
<1> QED BY <1>1, <1>2, <1>3, <1>4 DEF Next

(* What the poll does with a queue.                                           *)
LEMMA PollPasses ==
  ASSUME IInv, PollPlayer
  PROVE  /\ poll.queue \in Players /\ poll.queue \in Nat /\ pc = "poll"
         /\ poll'.queue = poll.queue + 1 /\ UNCHANGED claims
         /\ \A i \in Players : i # poll.queue => status'[i] = status[i]
         /\ \A e \in Players : endpoint'[e] = "running" => endpoint[e] = "running"
         /\ \/ ~ToDisconnect(poll.queue) /\ UNCHANGED status
            \/ /\ ToDisconnect(poll.queue)
               /\ status'[poll.queue] = [disconnected |-> TRUE,
                                         last_frame |-> DisconnectFrame(poll.queue)]
<1>1. /\ pc = "poll" /\ poll.queue \in Players /\ UNCHANGED claims
      /\ poll' = [queue |-> poll.queue + 1, total |-> TotalAfter(poll.queue)]
  BY DEF PollPlayer, network
<1>2. /\ status \in [Players -> Status] /\ endpoint \in [Endpoints -> EndpointStates]
      /\ poll.queue \in Nat /\ Players \subseteq Endpoints
  BY <1>1, SyncFacts, RemotesArranged DEF IInv, NetworkInv
<1>3. CASE ~ToDisconnect(poll.queue)
  <2>1. UNCHANGED <<status, endpoint>>
    BY <1>3 DEF PollPlayer
  <2> QED BY <1>1, <1>2, <1>3, <2>1
<1>4. CASE ToDisconnect(poll.queue)
  <2> DEFINE k == poll.queue
             gone == [disconnected |-> TRUE, last_frame |-> DisconnectFrame(k)]
  <2>1. /\ endpoint' = [endpoint EXCEPT ![k] = "disconnected"]
        /\ status' = [status EXCEPT ![k] = gone]
    BY <1>4 DEF PollPlayer, DisconnectPlayerQueue
  <2> HIDE DEF gone
  <2>2. /\ status'[k] = gone /\ \A i \in Players : i # k => status'[i] = status[i]
        /\ \A e \in Players : endpoint'[e] \in {endpoint[e], "disconnected"}
    BY <1>1, <1>2, <2>1
  <2> QED BY <1>1, <1>2, <1>4, <2>2 DEF gone
<1> QED BY <1>3, <1>4

LEMMA ReportedStep ==
  ASSUME IInv, StartInv, ReportedInv, [Next]_vars
  PROVE  ReportedInv'
<1> SUFFICES ASSUME NEW e \in Remotes, NEW i \in Players,
                    Behind(e, i)', Polling', i < poll'.queue
             PROVE  FALSE
  BY DEF ReportedInv
<1>0. e \in Players
  BY PlayersArranged
<1>1. CASE CheckSimulation
  <2>1. poll'.queue = 0 /\ i \in Nat
    BY <1>1, PlayersArranged DEF CheckSimulation
  <2> QED BY <2>1
<1>2. CASE PollPlayer
  <2> DEFINE k == poll.queue
  <2>1. /\ k \in Players /\ k \in Nat /\ Polling /\ poll'.queue = k + 1
        /\ UNCHANGED claims /\ endpoint[e] = "running" /\ NumPlayers > 2
        /\ claims[e][i].disconnected
        /\ \A j \in Players : j # k => status'[j] = status[j]
    BY <1>0, <1>2, PollPasses DEF Behind, Polling
  <2>2. i = k
    <3> SUFFICES ASSUME i # k PROVE FALSE
      OBVIOUS
    <3>1. i < k
      BY <2>1, PlayersArranged
    <3>2. Behind(e, i)
      BY <2>1 DEF Behind
    <3> QED BY <2>1, <3>1, <3>2 DEF ReportedInv
  <2>3. e \in Consulted(k)
    BY <1>0, <2>1 DEF Consulted
  <2>4. ~QueueConnected(k) /\ Confirmed(k) <= claims[e][k].last_frame
    BY <2>1, <2>2, <2>3, ConfirmedIsLeast DEF QueueConnected
  <2>5. /\ Confirmed(k) \in Int /\ claims[e][k].last_frame \in Int
        /\ status[k].last_frame \in Int
    <3>1. claims \in [Players -> [Players -> Status]] /\ status \in [Players -> Status]
      BY SyncFacts DEF IInv, NetworkInv
    <3>2. claims[e][k] \in Status /\ Confirmed(k) \in Frames
      BY <1>0, <2>1, <3>1, ConfirmedIsLeast
    <3> QED BY <2>1, <3>1, <3>2 DEF Status, Frames, NullFrame
  <2>6. CASE ~ToDisconnect(k)
    <3>1. UNCHANGED status
      BY <1>2, <2>6, PollPasses
    <3>2. status[k].disconnected /\ ~(status[k].last_frame > Confirmed(k))
      BY <2>1, <2>4, <2>6 DEF ToDisconnect
    <3>3. status[k].last_frame > claims[e][k].last_frame
      BY <2>1, <2>2, <3>1, <3>2 DEF Behind
    <3> QED BY <2>4, <2>5, <3>2, <3>3
  <2>7. CASE ToDisconnect(k)
    <3>1. status'[k] = [disconnected |-> TRUE, last_frame |-> Confirmed(k)]
      <4>1. status'[k] = [disconnected |-> TRUE, last_frame |-> DisconnectFrame(k)]
        BY <1>2, <2>7, PollPasses
      <4>2. ~(NumPlayers <= 2)
        BY <2>1
      <4>3. DisconnectFrame(k) = Confirmed(k)
        BY <4>2 DEF DisconnectFrame
      <4> QED BY <4>1, <4>3
    <3>2. Confirmed(k) > claims[e][k].last_frame
      BY <2>1, <2>2, <3>1 DEF Behind
    <3> QED BY <2>4, <2>5, <3>2
  <2> QED BY <2>6, <2>7
<1>3. CASE ~CheckSimulation /\ ~PollPlayer
  <2>1. UNCHANGED poll /\ Polling
    BY <1>3, PollGoesOn
  <2>2. UNCHANGED <<status, claims, endpoint>>
    BY <1>3, <2>1, PollUndisturbed
  <2>3. Behind(e, i)
    BY <2>2 DEF Behind
  <2> QED BY <2>1, <2>3 DEF ReportedInv
<1> QED BY <1>1, <1>2, <1>3

LEMMA ReportedInvariant == Spec => []ReportedInv
<1>1. Init => StartInv /\ ReportedInv
  <2>1. Init => ~Polling
    BY DEF Init, Polling
  <2> QED BY <2>1, StartInvInit DEF RingInvs, ReportedInv
<1>2. IInv /\ StartInv /\ ReportedInv /\ [Next]_vars => StartInv' /\ ReportedInv'
  BY StartStep, ReportedStep
<1> QED BY <1>1, <1>2, Invariant, PTL DEF Spec

(* p2p.cpp:229: with any number of players a poll leaves this peer with the   *)
(* earliest frame at which any peer that is still connected has disconnected  *)
(* a player, although a player may be disconnected before the poll and again, *)
(* at an earlier frame, by it, and although the rollback it causes runs       *)
(* between the poll of one queue and the next.                                *)
THEOREM EarliestReport == Spec => []EarliestReportWins
<1>1. IInv /\ ReportedInv => EarliestReportWins
  <2> SUFFICES ASSUME ReportedInv, IInv, pc = "poll", poll.queue = NumPlayers,
                      NEW i \in Remotes, NEW e \in Remotes \ {i},
                      endpoint[e] = "running", claims[e][i].disconnected
               PROVE  /\ status[i].disconnected
                      /\ status[i].last_frame <= claims[e][i].last_frame
    BY DEF EarliestReportWins
  <2>1. /\ i \in Players /\ e \in Players /\ i # LocalPlayer /\ e # LocalPlayer
        /\ e # i /\ LocalPlayer \in Players
    BY PlayersArranged
  <2>2. NumPlayers > 2 /\ i < NumPlayers /\ Polling
    BY <2>1 DEF Players, Polling
  <2>3. ~Behind(e, i)
    BY <2>1, <2>2 DEF ReportedInv
  <2>4. status[i].last_frame \in Int /\ claims[e][i].last_frame \in Int
    <3>1. claims \in [Players -> [Players -> Status]] /\ status \in [Players -> Status]
      BY SyncFacts DEF IInv, NetworkInv
    <3>2. claims[e][i] \in Status /\ status[i] \in Status
      BY <2>1, <3>1
    <3> QED BY <3>2 DEF Status, Frames, NullFrame
  <2> QED BY <2>2, <2>3, <2>4 DEF Behind
<1> QED BY <1>1, Invariant, ReportedInvariant, PTL
-----------------------------------------------------------------------------
(* The queue of a player who has left.                                        *)

(* A player who was disconnected at frame d left no frame that a rollback may *)
(* still reach once frame d lies before the last confirmed frame c and before *)
(* the current frame n: the queue is not asked any more.                      *)
Closed(n, d, c) == d < n /\ d < c

(* The queue x of a player who has left after frame d: what it holds is under *)
(* its contract up to that frame, in the frames after it the player p was     *)
(* absent, and what p was in the others is settled once the queue is closed.  *)
Left(x, n, d, c, l, p) ==
    /\ d <= x.last_added_frame
    /\ \A f \in 0 .. n - 1 : f > d => p[f] = Gone
    /\ IF Closed(n, d, c)
       THEN x.first_incorrect_frame = NullFrame /\ \A f \in 0 .. d : p[f] = l[f]
       ELSE QueueInv(x, Min2(n, d + 1), l, p) /\ Oldest(x) <= Max2(c, 0)

(* A queue that has played what it was asked for, and knows of no error.      *)
LEMMA PlayedIsLogged ==
  ASSUME NEW x, NEW n, NEW l, NEW p, QueueInv(x, n, l, p),
         x.first_incorrect_frame = NullFrame
  PROVE  /\ \A f \in 0 .. n - 1 : f < Arrivals(x) => p[f] = l[f]
         /\ \A f \in 0 .. n - 1 : f >= Arrivals(x) => p[f] = LastBits(x, l)
<1>1. /\ Contradicted(x, n, l, p) = {} /\ n \in Nat
      /\ \A f \in Arrivals(x) .. n - 1 : p[f] = LastBits(x, l)
  BY DEF QueueInv, Consistent
<1>2. Arrivals(x) \in Nat
  BY Numbers DEF QueueInv
<1>3. \A f \in 0 .. n - 1 : f < Arrivals(x) => p[f] = l[f]
  BY <1>1, ContradictedDef
<1> HIDE DEF Arrivals
<1>4. \A f \in 0 .. n - 1 : f >= Arrivals(x) => f \in Arrivals(x) .. n - 1
  BY <1>1, <1>2
<1> QED BY <1>1, <1>3, <1>4

(* The frames before the first known error were played right.                 *)
LEMMA PlayedBeforeError ==
  ASSUME NEW x, NEW n, NEW l, NEW p, QueueInv(x, n, l, p),
         NEW f \in 0 .. n - 1, f < Arrivals(x),
         x.first_incorrect_frame = NullFrame \/ f < x.first_incorrect_frame
  PROVE  p[f] = l[f]
<1>1. CASE x.first_incorrect_frame = NullFrame
  BY <1>1, PlayedIsLogged
<1>2. CASE x.first_incorrect_frame # NullFrame
  <2>1. /\ \A g \in Contradicted(x, n, l, p) : x.first_incorrect_frame <= g
        /\ x.first_incorrect_frame \in Int /\ n \in Nat
    BY <1>2 DEF QueueInv, Consistent, QueueType, Frames, NullFrame
  <2>2. f \notin Contradicted(x, n, l, p)
    BY <1>2, <2>1
  <2> QED BY <2>2, ContradictedDef
<1> QED BY <1>1, <1>2

(* Closing: the frame n that ends the queue's contract has passed d.          *)
LEMMA Closes ==
  ASSUME NEW x, NEW n, NEW l, NEW p, QueueInv(x, n, l, p), NEW d \in Frames, n = d + 1,
         x.first_incorrect_frame = NullFrame, d <= x.last_added_frame
  PROVE  \A f \in 0 .. d : p[f] = l[f]
<1>1. x.last_added_frame \in Int
  BY DEF QueueInv, QueueType, Frames, NullFrame
<1>2. \A f \in 0 .. d : f \in 0 .. n - 1 /\ f < Arrivals(x)
  BY <1>1 DEF Arrivals, Frames, NullFrame
<1> QED BY <1>2, PlayedIsLogged

(* A frame simulated without the player, and one with.                        *)
LEMMA LeftIsAbsent ==
  ASSUME NEW x \in QueueType, NEW n \in Nat, NEW d \in Frames, NEW c \in Frames,
         NEW l, NEW p, NEW r, Left(x, n, d, c, l, p), n > d,
         \A f \in 0 .. n - 1 : r[f] = p[f], r[n] = Gone
  PROVE  Left(x, n + 1, d, c, l, r)
<1>0. n \in Int /\ d \in Int /\ c \in Int /\ d >= -1
  BY DEF Frames, NullFrame
<1>1. d <= x.last_added_frame
  BY DEF Left
<1>2. \A f \in 0 .. (n + 1) - 1 : f > d => r[f] = Gone
  <2> SUFFICES ASSUME NEW f \in 0 .. (n + 1) - 1, f > d PROVE r[f] = Gone
    OBVIOUS
  <2>1. CASE f = n
    BY <2>1
  <2>2. CASE f # n
    <3>1. f \in 0 .. n - 1
      BY <1>0, <2>2
    <3> QED BY <3>1 DEF Left
  <2> QED BY <2>1, <2>2
<1>3. \A f \in 0 .. d : f \in 0 .. n - 1
  BY <1>0
<1>4. CASE d < c
  <2>1. Closed(n, d, c) /\ Closed(n + 1, d, c)
    BY <1>0, <1>4 DEF Closed
  <2>2. x.first_incorrect_frame = NullFrame /\ \A f \in 0 .. d : r[f] = l[f]
    BY <1>3, <2>1 DEF Left
  <2> QED BY <1>1, <1>2, <2>1, <2>2 DEF Left
<1>5. CASE ~(d < c)
  <2>1. ~Closed(n, d, c) /\ ~Closed(n + 1, d, c)
    BY <1>5 DEF Closed
  <2>2. QueueInv(x, Min2(n, d + 1), l, p) /\ Oldest(x) <= Max2(c, 0)
    BY <2>1 DEF Left
  <2>3. Min2(n, d + 1) = d + 1 /\ Min2(n + 1, d + 1) = d + 1
    BY <1>0 DEF Min2
  <2> DEFINE m == d + 1
  <2>4. \A f \in 0 .. m - 1 : r[f] = p[f]
    BY <1>0
  <2>5. QueueInv(x, m, l, p)
    BY <2>2, <2>3
  <2> HIDE DEF m
  <2>6. QueueInv(x, m, l, r)
    BY <2>4, <2>5, SameKeeps DEF SameInputs, SamePrediction
  <2> QED BY <1>1, <1>2, <2>1, <2>2, <2>3, <2>6 DEF Left, m
<1> QED BY <1>4, <1>5

LEMMA LeftIsAsked ==
  ASSUME NEW x \in QueueType, NEW n \in Nat, NEW d \in Frames, NEW c \in Frames,
         NEW l, NEW p, NEW r, Left(x, n, d, c, l, p), n <= d,
         x.first_incorrect_frame = NullFrame, GetInputAsserts(x, n),
         \A f \in 0 .. n - 1 : r[f] = p[f], r[n] = GetInputBits(x, n)
  PROVE  Left(GetInput(x, n), n + 1, d, c, l, r)
<1> DEFINE y == GetInput(x, n)
<1>0. n \in Int /\ d \in Int /\ c \in Int
  BY DEF Frames, NullFrame
<1>1. /\ ~Closed(n, d, c) /\ Min2(n, d + 1) = n
  BY <1>0 DEF Closed, Min2
<1>2. QueueInv(x, n, l, p) /\ Oldest(x) <= Max2(c, 0) /\ d <= x.last_added_frame
  BY <1>1 DEF Left
<1>3. Oldest(x) <= n
  BY <1>2, GetInputAssertsFollow
<1>4. QueueInv(y, n + 1, l, r)
  BY <1>2, <1>3, GetInputKeeps
<1>5. /\ Oldest(y) = Oldest(x) /\ y.first_incorrect_frame = NullFrame
      /\ y.last_added_frame = x.last_added_frame
  BY GetInputFields, SameRing DEF SameInputs
<1> HIDE DEF y
<1>6. \A f \in 0 .. (n + 1) - 1 : ~(f > d)
  BY <1>0
<1> SUFFICES Left(y, n + 1, d, c, l, r)
  BY DEF y
<1>7. CASE Closed(n + 1, d, c)
  <2>1. n + 1 = d + 1
    BY <1>0, <1>7 DEF Closed
  <2>2. \A f \in 0 .. d : r[f] = l[f]
    BY <1>2, <1>4, <1>5, <2>1, Closes
  <2> QED BY <1>2, <1>5, <1>6, <1>7, <2>2 DEF Left
<1>8. CASE ~Closed(n + 1, d, c)
  <2>1. Min2(n + 1, d + 1) = n + 1
    BY <1>0 DEF Min2
  <2> QED BY <1>2, <1>4, <1>5, <1>6, <1>8, <2>1 DEF Left
<1> QED BY <1>7, <1>8

(* A rollback to frame k, no earlier than the last confirmed one, of a queue  *)
(* that is asked for frames up to n.                                          *)
LEMMA LeftReset ==
  ASSUME NEW x, NEW n, NEW l, NEW p, NEW r, QueueInv(x, n, l, p),
         NEW d \in Frames, NEW c \in Frames, NEW k \in Nat,
         d <= x.last_added_frame, c <= d, Min2(k, d + 1) <= n,
         Oldest(x) <= Max2(c, 0), ResetPredictionAsserts(x, k),
         \A f \in 0 .. k - 1 : r[f] = p[f],
         \A f \in 0 .. k - 1 : f > d => p[f] = Gone
  PROVE  Left(ResetPrediction(x), k, d, c, l, r)
<1> DEFINE y == ResetPrediction(x)
           m == Min2(k, d + 1)
<1>0. d \in Int /\ c \in Int /\ d >= -1 /\ n \in Nat /\ x \in QueueType
  BY DEF Frames, NullFrame, QueueInv
<1>1. m \in 0 .. n /\ m <= k
  BY <1>0 DEF Min2
<1>2. ResetPredictionAsserts(x, m)
  <2>1. x.first_incorrect_frame \in Int
    BY <1>0 DEF QueueType, Frames, NullFrame
  <2> HIDE DEF m
  <2> QED BY <1>1, <2>1 DEF ResetPredictionAsserts
<1>3. \A f \in 0 .. m - 1 : r[f] = p[f]
  <2> HIDE DEF m
  <2> QED BY <1>1
<1>4. QueueInv(y, m, l, r)
  <2> HIDE DEF m
  <2> QED BY <1>1, <1>2, <1>3, ResetKeeps
<1>5. Oldest(y) = Oldest(x) /\ y.last_added_frame = x.last_added_frame
  BY <1>0, ResetFields, SameRing DEF SameInputs
<1>6. ~Closed(k, d, c)
  BY <1>0 DEF Closed
<1> HIDE DEF y
<1>7. Left(y, k, d, c, l, r)
  BY <1>4, <1>5, <1>6 DEF Left
<1> QED BY <1>7 DEF y

LEMMA LeftRolledBack ==
  ASSUME NEW x \in QueueType, NEW n \in Nat, NEW l, NEW p, NEW r,
         NEW d \in Frames, NEW c \in Frames, NEW k \in Nat, k < n, c <= k,
         Left(x, n, d, c, l, p), ResetPredictionAsserts(x, k),
         \A f \in 0 .. k - 1 : r[f] = p[f]
  PROVE  Left(ResetPrediction(x), k, d, c, l, r)
<1>0. d \in Int /\ c \in Int /\ d >= -1
  BY DEF Frames, NullFrame
<1>1. /\ d <= x.last_added_frame
      /\ \A f \in 0 .. k - 1 : f > d => p[f] = Gone
  BY <1>0 DEF Left
<1>2. CASE d < c
  <2> DEFINE y == ResetPrediction(x)
  <2>1. Closed(n, d, c) /\ Closed(k, d, c)
    BY <1>0, <1>2 DEF Closed
  <2>2. \A f \in 0 .. d : f \in 0 .. k - 1
    BY <1>0, <1>2
  <2>3. \A f \in 0 .. d : r[f] = l[f]
    BY <2>1, <2>2 DEF Left
  <2>4. y.last_added_frame = x.last_added_frame /\ y.first_incorrect_frame = NullFrame
    BY ResetFields DEF SameInputs
  <2> HIDE DEF y
  <2>5. Left(y, k, d, c, l, r)
    BY <1>1, <2>1, <2>3, <2>4 DEF Left
  <2> QED BY <2>5 DEF y
<1>3. CASE ~(d < c)
  <2>1. ~Closed(n, d, c)
    BY <1>3 DEF Closed
  <2> DEFINE m == Min2(n, d + 1)
  <2>2. QueueInv(x, m, l, p) /\ Oldest(x) <= Max2(c, 0)
    BY <2>1 DEF Left
  <2>3. Min2(k, d + 1) <= m /\ c <= d
    BY <1>0, <1>3 DEF Min2
  <2> HIDE DEF m
  <2> QED BY <1>1, <2>2, <2>3, LeftReset
<1> QED BY <1>2, <1>3

(* A player who leaves after a frame that is still to be simulated.           *)
LEMMA LeftAhead ==
  ASSUME NEW x, NEW n, NEW l, NEW p, QueueInv(x, n, l, p),
         NEW d \in Frames, NEW c \in Frames, n <= d, d <= x.last_added_frame,
         Oldest(x) <= Max2(c, 0)
  PROVE  Left(x, n, d, c, l, p)
<1>0. d \in Int /\ n \in Nat
  BY DEF Frames, NullFrame, QueueInv
<1>1. ~Closed(n, d, c) /\ Min2(n, d + 1) = n /\ \A f \in 0 .. n - 1 : ~(f > d)
  BY <1>0 DEF Closed, Min2
<1> QED BY <1>1 DEF Left

(* Frames are discarded up to one that is still to come at most.              *)
LEMMA DiscardAsked ==
  ASSUME NEW x, NEW n, NEW l, NEW p, QueueInv(x, n, l, p), NEW f \in Nat,
         \/ f < x.last_added_frame
         \/ /\ x.last_frame_requested \in Nat /\ x.last_frame_requested <= f
            /\ x.last_frame_requested < x.last_added_frame,
         DiscardConfirmedFramesAsserts(x, f)
  PROVE  LET y == DiscardConfirmedFrames(x, f)
         IN  /\ QueueInv(y, n, l, p) /\ Arrivals(y) = Arrivals(x)
             /\ Oldest(y) <= f + 1
<1>0. x.last_frame_requested \in Int /\ x.last_frame_requested >= -1
  BY DEF QueueInv, QueueType, Frames, NullFrame
<1>1. CASE f < x.last_added_frame
  <2>1. DiscardTo(x, f) >= Oldest(x) - 1
    BY <1>1, DiscardAssertsFollow
  <2>2. DiscardTo(x, f) <= f /\ DiscardTo(x, f) \in Int
    BY <1>0 DEF DiscardTo
  <2> DEFINE y == DiscardConfirmedFrames(x, f)
  <2>3. /\ QueueInv(y, n, l, p) /\ Arrivals(y) = Arrivals(x)
        /\ Oldest(y) = DiscardTo(x, f) + 1
    BY <1>1, <2>1, DiscardKeeps
  <2> HIDE DEF y
  <2>4. Oldest(y) <= f + 1
    <3> HIDE DEF DiscardTo
    <3> QED BY <2>2, <2>3
  <2> QED BY <2>3, <2>4 DEF y
<1>2. CASE ~(f < x.last_added_frame)
  <2> DEFINE k == x.last_frame_requested
             y == DiscardConfirmedFrames(x, k)
  <2>1. k \in Nat /\ k <= f /\ k < x.last_added_frame
    BY <1>2
  <2>2. DiscardTo(x, f) = k /\ DiscardTo(x, k) = k
    BY <2>1 DEF DiscardTo, NullFrame
  <2>3. DiscardConfirmedFrames(x, f) = y
    BY <2>2 DEF DiscardConfirmedFrames
  <2>4. DiscardConfirmedFramesAsserts(x, k)
    BY <2>1, <2>2, <2>3 DEF DiscardConfirmedFramesAsserts
  <2> HIDE DEF k
  <2>5. DiscardTo(x, k) >= Oldest(x) - 1
    BY <2>1, <2>4, DiscardAssertsFollow
  <2>6. /\ QueueInv(y, n, l, p) /\ Arrivals(y) = Arrivals(x)
        /\ Oldest(y) = DiscardTo(x, k) + 1
    BY <2>1, <2>5, DiscardKeeps
  <2> HIDE DEF y
  <2>7. Oldest(y) <= f + 1
    BY <2>1, <2>2, <2>6
  <2> QED BY <2>3, <2>6, <2>7
<1> QED BY <1>1, <1>2

(* What a poll confirms leaves the queue.                                     *)
DiscardedTo(x, e) == IF e <= 0 THEN x ELSE DiscardConfirmedFrames(x, e - 1)

LEMMA LeftConfirmed ==
  ASSUME NEW x \in QueueType, NEW n \in Nat \ {0}, NEW l, NEW p,
         NEW d \in Frames, NEW c \in Frames, NEW e \in Nat, c <= e,
         Left(x, n, d, c, l, p), x.first_incorrect_frame = NullFrame,
         d >= n => x.last_frame_requested = n - 1,
         e > 0 => DiscardConfirmedFramesAsserts(x, e - 1)
  PROVE  Left(DiscardedTo(x, e), n, d, e, l, p)
<1> DEFINE y == DiscardedTo(x, e)
<1>0. /\ d \in Int /\ c \in Int /\ d >= -1
      /\ d <= x.last_added_frame /\ x.last_added_frame \in Int
  BY DEF Frames, NullFrame, Left, QueueType
<1>1. /\ y.last_added_frame = x.last_added_frame
      /\ y.first_incorrect_frame = NullFrame
  <2>1. e > 0 => e - 1 \in Nat
    OBVIOUS
  <2> QED BY <2>1, DiscardFields DEF DiscardedTo, Discarded, SamePrediction
<1>2. \A f \in 0 .. n - 1 : f > d => p[f] = Gone
  BY DEF Left
<1> SUFFICES Left(y, n, d, e, l, p)
  BY DEF y
<1>3. CASE Closed(n, d, c)
  <2>1. Closed(n, d, e) /\ \A f \in 0 .. d : p[f] = l[f]
    BY <1>0, <1>3 DEF Closed, Left
  <2> HIDE DEF y
  <2> QED BY <1>0, <1>1, <1>2, <2>1 DEF Left
<1>4. CASE ~Closed(n, d, c)
  <2> DEFINE m == Min2(n, d + 1)
  <2>1. QueueInv(x, m, l, p) /\ Oldest(x) <= Max2(c, 0)
    BY <1>4 DEF Left
  <2>2. CASE Closed(n, d, e)
    <3>1. m = d + 1
      BY <1>0, <2>2 DEF Closed, Min2
    <3> HIDE DEF m
    <3>2. \A f \in 0 .. d : p[f] = l[f]
      BY <1>0, <2>1, <3>1, Closes
    <3> HIDE DEF y
    <3> QED BY <1>0, <1>1, <1>2, <2>2, <3>2 DEF Left
  <2>3. CASE ~Closed(n, d, e)
    <3>1. QueueInv(y, m, l, p) /\ Oldest(y) <= Max2(e, 0)
      <4>1. CASE e = 0
        <5>1. y = x
          BY <4>1 DEF DiscardedTo
        <5>2. Max2(c, 0) <= Max2(e, 0) /\ Max2(c, 0) = 0 /\ Max2(e, 0) = 0
          BY <1>0, <4>1 DEF Max2
        <5> QED BY <2>1, <5>1, <5>2
      <4>2. CASE e > 0
        <5> DEFINE f == e - 1
        <5>1. f \in Nat /\ y = DiscardConfirmedFrames(x, f)
          BY <4>2 DEF DiscardedTo
        <5>2. \/ f < x.last_added_frame
              \/ /\ x.last_frame_requested \in Nat /\ x.last_frame_requested <= f
                 /\ x.last_frame_requested < x.last_added_frame
          BY <1>0, <2>3 DEF Closed
        <5>3. DiscardConfirmedFramesAsserts(x, f)
          BY <4>2
        <5>4. Max2(e, 0) = f + 1
          BY <4>2 DEF Max2
        <5> HIDE DEF f, m
        <5>5. /\ QueueInv(DiscardConfirmedFrames(x, f), m, l, p)
              /\ Oldest(DiscardConfirmedFrames(x, f)) <= f + 1
          BY <2>1, <5>1, <5>2, <5>3, DiscardAsked
        <5> QED BY <5>1, <5>4, <5>5
      <4> QED BY <4>1, <4>2
    <3> HIDE DEF y
    <3> QED BY <1>0, <1>1, <1>2, <2>3, <3>1 DEF Left
  <2> QED BY <2>2, <2>3
<1> QED BY <1>3, <1>4
-----------------------------------------------------------------------------
(* All the queues, in a Sync s, with the game g, the connect status st and    *)
(* the history lg.                                                            *)

(* What a queue still holds reaches back to the last confirmed frame, and no  *)
(* frame up to that one is known to be wrong.                                 *)
Held(s, g, st, lg) ==
    \A i \in Players :
        LET x == s.queues[i]
            c == s.last_confirmed_frame
        IN  /\ ~st[i].disconnected => Oldest(x) <= Max2(c, 0)
            /\ st[i].disconnected =>
                 Left(x, s.framecount, st[i].last_frame, c, lg[i], Column(g, i))
            /\ x.first_incorrect_frame = NullFrame \/ x.first_incorrect_frame > c

NoneWrong(s) == \A i \in Players : s.queues[i].first_incorrect_frame = NullFrame

(* Between rollbacks the queue of a player who has left is still asked for    *)
(* the frames up to the one that player was disconnected at.                  *)
LeftSettled(s, st) ==
    \A i \in Players :
        st[i].disconnected /\ st[i].last_frame >= s.framecount =>
            s.queues[i].last_frame_requested = s.framecount - 1

(* IncrementFrame leaves the queues alone.                                    *)
LEMMA IncrementFields ==
  ASSUME NEW States, NEW Queues, NEW s \in SyncType(States, Queues), NEW g
  PROVE  LET t == IncrementFrame(s, g)
         IN  /\ t.framecount = s.framecount + 1 /\ t.queues = s.queues
             /\ t.last_confirmed_frame = s.last_confirmed_frame
  BY DEF IncrementFrame, SaveCurrentFrame, SyncType

(* A frame simulated.                                                         *)
LEMMA SimulateHolds ==
  ASSUME NEW States, NEW s \in SyncType(States, [Players -> QueueType]),
         NEW st \in [Players -> Status], NEW lg,
         NEW g \in [0 .. s.framecount - 1 -> Vectors],
         SynchronizeInputsAsserts(s, st), Held(s, g, st, lg), NoneWrong(s),
         NEW t, t.framecount = s.framecount + 1,
         t.last_confirmed_frame = s.last_confirmed_frame,
         t.queues = SynchronizeInputs(s, st).queues
  PROVE  Held(t, AdvanceGame(s, st, g), st, lg) /\ NoneWrong(t) /\ LeftSettled(t, st)
<1> DEFINE h == AdvanceGame(s, st, g)
           n == s.framecount
           c == s.last_confirmed_frame
<1>1. n \in Nat /\ s.queues \in [Players -> QueueType] /\ c \in Frames
  BY DEF SyncType
<1>2. /\ h \in [0 .. n -> Vectors] /\ \A f \in 0 .. n - 1 : h[f] = g[f]
      /\ h[n] = SynchronizedInputs(s, st)
  <2>1. h \in [0 .. n -> Vectors] /\ SameBefore(n, g, h) /\ h[n] = SynchronizedInputs(s, st)
    BY AdvanceGameType
  <2> HIDE DEF h, n
  <2> QED BY <2>1 DEF SameBefore
<1>3. t.framecount = n + 1 /\ t.last_confirmed_frame = c
  OBVIOUS
<1> SUFFICES ASSUME NEW i \in Players
             PROVE  LET y == t.queues[i]
                        d == st[i].last_frame
                    IN  /\ ~st[i].disconnected => Oldest(y) <= Max2(c, 0)
                        /\ st[i].disconnected =>
                             Left(y, n + 1, d, c, lg[i], Column(h, i))
                        /\ y.first_incorrect_frame = NullFrame
                        /\ st[i].disconnected /\ d >= n + 1 =>
                             y.last_frame_requested = n
  <2>1. (n + 1) - 1 = n
    BY <1>1
  <2> HIDE DEF h, n, c
  <2> QED BY <1>3, <2>1 DEF Held, NoneWrong, LeftSettled, h
<1> DEFINE x == s.queues[i]
           y == t.queues[i]
           d == st[i].last_frame
           p == Column(g, i)
           r == Column(h, i)
<1>4. /\ x \in QueueType /\ x.first_incorrect_frame = NullFrame /\ d \in Frames
      /\ d \in Int
  BY <1>1 DEF NoneWrong, Status, Frames, NullFrame
<1>5. /\ ~st[i].disconnected => Oldest(x) <= Max2(c, 0)
      /\ st[i].disconnected => Left(x, n, d, c, lg[i], p)
  BY DEF Held
<1>6. /\ \A f \in 0 .. n - 1 : r[f] = p[f]
      /\ r[n] = SynchronizedInputs(s, st)[i]
  <2> HIDE DEF h, n
  <2>1. DOMAIN h = 0 .. n /\ DOMAIN g = 0 .. n - 1 /\ n \in 0 .. n
    BY <1>1, <1>2 DEF n
  <2> QED BY <1>1, <1>2, <2>1 DEF Column
<1>7. CASE i \in Absent(st, n)
  <2>1. y = x /\ r[n] = Gone /\ st[i].disconnected /\ n > d
    BY <1>6, <1>7 DEF SynchronizeInputs, SynchronizedInputs, Absent, SyncType
  <2> HIDE DEF x, y, r, p, n, c, d
  <2>2. Left(x, n + 1, d, c, lg[i], r)
    BY <1>1, <1>4, <1>5, <1>6, <2>1, LeftIsAbsent
  <2> QED BY <1>1, <1>4, <2>1, <2>2 DEF r, d, y
<1>8. CASE i \notin Absent(st, n)
  <2>1. /\ y = GetInput(x, n) /\ r[n] = GetInputBits(x, n) /\ GetInputAsserts(x, n)
        /\ st[i].disconnected => n <= d
    BY <1>1, <1>4, <1>6, <1>8
       DEF SynchronizeInputs, SynchronizedInputs, SynchronizeInputsAsserts, Absent, SyncType
  <2> HIDE DEF x, y, r, p, n, c, d
  <2>2. st[i].disconnected => Left(GetInput(x, n), n + 1, d, c, lg[i], r)
    BY <1>1, <1>4, <1>5, <1>6, <2>1, LeftIsAsked
  <2>3. /\ Oldest(GetInput(x, n)) = Oldest(x)
        /\ GetInput(x, n).first_incorrect_frame = NullFrame
        /\ GetInput(x, n).last_frame_requested = n
    BY <1>1, <1>4, GetInputFields, SameRing
  <2> QED BY <1>5, <2>1, <2>2, <2>3 DEF r, d, y
<1> QED BY <1>7, <1>8

(* A rollback to a frame no earlier than the last confirmed one, after which  *)
(* a player may have been disconnected, the first time or further back.       *)
Leaves(s, st, st2, frame) ==
    \A i \in Players :
        \/ st2[i] = st[i]
        \/ /\ st2[i] = [disconnected |-> TRUE, last_frame |-> frame]
           /\ frame <= s.queues[i].last_added_frame
           /\ st[i].disconnected => frame < st[i].last_frame

LEMMA RollbackHolds ==
  ASSUME NEW States, NEW s \in SyncType(States, [Players -> QueueType]),
         NEW st \in [Players -> Status], NEW st2, NEW lg,
         NEW g \in [0 .. s.framecount - 1 -> Vectors],
         QueuesInv(s, g, st, lg), Held(s, g, st, lg),
         NEW frame \in Nat, s.last_confirmed_frame <= frame, frame < s.framecount,
         ResetPredictionsAsserts(s, frame), Leaves(s, st, st2, frame),
         NEW h, DOMAIN h = 0 .. frame - 1, SameBefore(frame, g, h),
         NEW t, t.framecount = frame, t.last_confirmed_frame = s.last_confirmed_frame,
         t.queues = [i \in Players |-> ResetPrediction(s.queues[i])]
  PROVE  Held(t, h, st2, lg) /\ NoneWrong(t)
<1> DEFINE n == s.framecount
           c == s.last_confirmed_frame
<1>1. /\ n \in Nat /\ s.queues \in [Players -> QueueType] /\ c \in Frames /\ c \in Int
      /\ c <= frame /\ frame < n
  BY DEF SyncType, Frames, NullFrame
<1> SUFFICES ASSUME NEW i \in Players
             PROVE  LET y == t.queues[i]
                        d == st2[i].last_frame
                    IN  /\ ~st2[i].disconnected => Oldest(y) <= Max2(c, 0)
                        /\ st2[i].disconnected =>
                             Left(y, frame, d, c, lg[i], Column(h, i))
                        /\ y.first_incorrect_frame = NullFrame
  <2> HIDE DEF n
  <2> QED BY DEF Held, NoneWrong
<1> DEFINE x == s.queues[i]
           y == ResetPrediction(x)
           d == st[i].last_frame
           p == Column(g, i)
           r == Column(h, i)
<1>2. /\ x \in QueueType /\ t.queues[i] = y /\ d \in Frames /\ d \in Int
      /\ ResetPredictionAsserts(x, frame)
  BY <1>1 DEF Status, Frames, NullFrame, ResetPredictionsAsserts
<1>3. \A f \in 0 .. frame - 1 : r[f] = p[f]
  <2>1. \A f \in 0 .. frame - 1 : h[f] = g[f] /\ f \in 0 .. n - 1
    BY <1>1 DEF SameBefore
  <2> HIDE DEF n
  <2>2. DOMAIN g = 0 .. n - 1
    BY DEF n
  <2> QED BY <2>1, <2>2 DEF Column
<1>4. /\ ~st[i].disconnected => QueueInv(x, n, lg[i], p) /\ Oldest(x) <= Max2(c, 0)
      /\ st[i].disconnected => Left(x, n, d, c, lg[i], p)
  BY DEF QueuesInv, Connected, Held
<1> HIDE DEF n, c, x, y, d, p, r
<1>5. Oldest(y) = Oldest(x) /\ y.first_incorrect_frame = NullFrame
  BY <1>2, ResetFields, SameRing DEF y
<1>6. CASE st2[i] = st[i]
  <2>1. st[i].disconnected => Left(y, frame, d, c, lg[i], r)
    BY <1>1, <1>2, <1>3, <1>4, LeftRolledBack DEF y
  <2> QED BY <1>2, <1>4, <1>5, <1>6, <2>1 DEF r, d
<1>7. CASE st2[i] # st[i]
  <2>1. /\ st2[i] = [disconnected |-> TRUE, last_frame |-> frame]
        /\ frame <= x.last_added_frame
        /\ st[i].disconnected => frame < d
    BY <1>7 DEF Leaves, x, d
  <2> DEFINE m == IF st[i].disconnected THEN Min2(n, d + 1) ELSE n
  <2>2. QueueInv(x, m, lg[i], p) /\ Oldest(x) <= Max2(c, 0)
    <3>1. CASE st[i].disconnected
      <4>1. ~Closed(n, d, c)
        BY <1>1, <1>2, <2>1, <3>1 DEF Closed
      <4> QED BY <1>4, <3>1, <4>1 DEF Left
    <3> QED BY <1>4, <3>1
  <2>3. Min2(frame, frame + 1) = frame /\ frame <= m /\ frame \in Frames
    BY <1>1, <1>2, <2>1 DEF Min2, Frames
  <2>4. \A f \in 0 .. frame - 1 : ~(f > frame)
    OBVIOUS
  <2> HIDE DEF m
  <2>5. Left(y, frame, frame, c, lg[i], r)
    BY SMTT(60), <1>1, <1>2, <1>3, <2>1, <2>2, <2>3, <2>4, LeftReset DEF y
  <2> QED BY <1>2, <1>5, <2>1, <2>5 DEF r
<1> QED BY <1>6, <1>7

(* A player disconnected after a frame that is still to be simulated.         *)
LEMMA LeavesHolds ==
  ASSUME NEW States, NEW s \in SyncType(States, [Players -> QueueType]),
         NEW st \in [Players -> Status], NEW st2, NEW lg, NEW g,
         QueuesInv(s, g, st, lg), Held(s, g, st, lg),
         Settled(s, st), LeftSettled(s, st),
         NEW frame \in Frames, s.framecount <= frame, Leaves(s, st, st2, frame)
  PROVE  Held(s, g, st2, lg) /\ LeftSettled(s, st2)
<1> DEFINE n == s.framecount
           c == s.last_confirmed_frame
<1>1. /\ n \in Nat /\ c \in Frames /\ c \in Int /\ frame \in Int /\ n <= frame
  BY DEF SyncType, Frames, NullFrame
<1> SUFFICES ASSUME NEW i \in Players
             PROVE  LET x == s.queues[i]
                        d == st2[i].last_frame
                    IN  /\ ~st2[i].disconnected => Oldest(x) <= Max2(c, 0)
                        /\ st2[i].disconnected =>
                             Left(x, n, d, c, lg[i], Column(g, i))
                        /\ \/ x.first_incorrect_frame = NullFrame
                           \/ x.first_incorrect_frame > c
                        /\ st2[i].disconnected /\ d >= n =>
                             x.last_frame_requested = n - 1
  BY DEF Held, LeftSettled
<1>2. CASE st2[i] = st[i]
  BY <1>2 DEF Held, LeftSettled
<1>3. CASE st2[i] # st[i]
  <2> DEFINE x == s.queues[i]
             d == st[i].last_frame
             p == Column(g, i)
  <2>1. /\ st2[i] = [disconnected |-> TRUE, last_frame |-> frame]
        /\ frame <= x.last_added_frame
        /\ st[i].disconnected => frame < d
    BY <1>3 DEF Leaves
  <2>2. d \in Int
    BY DEF Status, Frames, NullFrame
  <2>3. /\ x.first_incorrect_frame = NullFrame \/ x.first_incorrect_frame > c
        /\ x.last_frame_requested = n - 1
        /\ QueueInv(x, n, lg[i], p) /\ Oldest(x) <= Max2(c, 0)
    <3>1. x.first_incorrect_frame = NullFrame \/ x.first_incorrect_frame > c
      BY DEF Held
    <3>2. CASE st[i].disconnected
      <4>1. Left(x, n, d, c, lg[i], p)
        BY <3>2 DEF Held
      <4>2. ~Closed(n, d, c) /\ Min2(n, d + 1) = n /\ d >= n
        BY <1>1, <2>1, <2>2, <3>2 DEF Closed, Min2
      <4> QED BY <3>1, <3>2, <4>1, <4>2 DEF Left, LeftSettled
    <3>3. CASE ~st[i].disconnected
      BY <3>1, <3>3 DEF QueuesInv, Connected, Held, Settled
    <3> QED BY <3>2, <3>3
  <2> HIDE DEF x, p, n, c
  <2>4. Left(x, n, frame, c, lg[i], p)
    BY <1>1, <2>1, <2>3, LeftAhead
  <2> QED BY <2>1, <2>3, <2>4 DEF x, p
<1> QED BY <1>2, <1>3

(* An input for a player who is connected.                                    *)
LEMMA AddHolds ==
  ASSUME NEW States, NEW s \in SyncType(States, [Players -> QueueType]),
         NEW st \in [Players -> Status], NEW lg, NEW g,
         QueuesInv(s, g, st, lg), Settled(s, st), Logs(s, lg),
         Held(s, g, st, lg), LeftSettled(s, st),
         NEW k \in Connected(st), NEW frame \in Nat, NEW bits \in Bits,
         s.last_confirmed_frame <= st[k].last_frame,
         NEW t, NEW st2, NEW lg2, Adds(s, st, lg, k, frame, bits, t, st2, lg2),
         t.last_confirmed_frame = s.last_confirmed_frame
  PROVE  /\ Held(t, g, st2, lg2) /\ LeftSettled(t, st2)
         /\ NoneWrong(s) /\ s.framecount <= frame => NoneWrong(t)
<1> DEFINE x == s.queues[k]
           y == AddInput(x, frame, bits)
           target == TargetFrame(x, frame)
           n == s.framecount
           c == s.last_confirmed_frame
           p == Column(g, k)
<1>1. /\ n \in Nat /\ c \in Int /\ s.queues \in [Players -> QueueType]
      /\ k \in Players /\ ~st[k].disconnected /\ x \in QueueType
      /\ QueueInv(x, n, lg[k], p) /\ x.last_frame_requested = n - 1
      /\ st[k].last_frame = x.last_added_frame /\ x.last_added_frame \in Int
  BY DEF SyncType, Connected, QueuesInv, Settled, QueueType, Frames, NullFrame
<1>2. /\ t.framecount = n /\ t.last_confirmed_frame = c
      /\ AddInputAsserts(x, frame)
      /\ t.queues = [s.queues EXCEPT ![k] = y]
      /\ st2 = IF target = NullFrame THEN st
               ELSE [st EXCEPT ![k].last_frame = target]
      /\ lg2 = IF target = NullFrame THEN lg
               ELSE [lg EXCEPT ![k] = LogAfter(x, bits, target, lg[k])]
  BY DEF Adds
<1>3. /\ t.queues[k] = y
      /\ \A i \in Players : i # k => t.queues[i] = s.queues[i]
  <2> HIDE DEF y
  <2> QED BY <1>1, <1>2
<1>4. /\ ~st2[k].disconnected
      /\ \A i \in Players : i # k => st2[i] = st[i] /\ lg2[i] = lg[i]
  <2>1. DOMAIN lg = Players
    BY DEF Logs
  <2> HIDE DEF target
  <2> QED BY <1>1, <1>2, <2>1 DEF Status
<1>5. /\ Oldest(y) = Oldest(x)
      /\ \/ y.first_incorrect_frame = x.first_incorrect_frame
         \/ y.first_incorrect_frame > c
      /\ x.first_incorrect_frame = NullFrame /\ n <= frame =>
            y.first_incorrect_frame = NullFrame
  <2>1. CASE target = NullFrame
    <3>1. SameInputs(x, y) /\ SamePrediction(x, y)
      <4> HIDE DEF x
      <4> QED BY <1>1, <2>1, DroppedInputFields
    <3> HIDE DEF x, y, n
    <3>2. Oldest(y) = Oldest(x)
      BY <3>1, SameRing
    <3> QED BY <3>1, <3>2 DEF SamePrediction
  <2>2. CASE target # NullFrame
    <3>1. x.length + target - ExpectedFrame(x) + 1 <= L
      BY <1>2, <2>2 DEF AddInputAsserts, L
    <3>2. /\ target \in Nat /\ target >= Arrivals(x) /\ Oldest(y) = Oldest(x)
          /\ y.first_incorrect_frame \in {x.first_incorrect_frame, target}
      <4> HIDE DEF x, n, p
      <4> QED BY <1>1, <2>2, <3>1, AddKeeps DEF x
    <3>3. target > c
      BY <1>1, <3>2 DEF Arrivals
    <3>4. target >= frame
      <4>1. x.frame_delay \in Nat
        BY <1>1 DEF QueueType
      <4> HIDE DEF x
      <4> QED BY <2>2, <4>1 DEF TargetFrame
    <3>5. y.first_incorrect_frame = FirstIncorrectOf(x, bits, target)
      <4>1. Added(x, bits, target, y)
        <5> HIDE DEF x
        <5> QED BY <1>1, <2>2, AddInputFields
      <4> HIDE DEF x, y, target
      <4> QED BY <4>1 DEF Added
    <3>6. x.first_incorrect_frame = NullFrame =>
             FirstIncorrectOf(x, bits, target) =
               IF target < n /\ bits # LastBits(x, lg[k]) THEN target ELSE NullFrame
      <4> HIDE DEF x, n, p, target
      <4> QED BY <1>1, <3>2, ComparedFrames
    <3> HIDE DEF x, y, n, p, target
    <3> QED BY <1>1, <3>2, <3>3, <3>4, <3>5, <3>6
  <2> QED BY <2>1, <2>2
<1>6. y.last_frame_requested = x.last_frame_requested
  BY <1>1 DEF AddInput, AddDelayedInputs, QueueType
<1> HIDE DEF y, target
<1>7. Held(t, g, st2, lg2)
  <2> SUFFICES ASSUME NEW i \in Players
               PROVE  /\ ~st2[i].disconnected => Oldest(t.queues[i]) <= Max2(c, 0)
                      /\ st2[i].disconnected =>
                           Left(t.queues[i], n, st2[i].last_frame, c, lg2[i], Column(g, i))
                      /\ \/ t.queues[i].first_incorrect_frame = NullFrame
                         \/ t.queues[i].first_incorrect_frame > c
    BY <1>2 DEF Held
  <2>1. CASE i = k
    BY <1>1, <1>3, <1>4, <1>5, <2>1 DEF Held
  <2>2. CASE i # k
    BY <1>3, <1>4, <2>2 DEF Held
  <2> QED BY <2>1, <2>2
<1>8. LeftSettled(t, st2)
  BY <1>2, <1>3, <1>4 DEF LeftSettled
<1>9. NoneWrong(s) /\ n <= frame => NoneWrong(t)
  BY <1>3, <1>5, <1>1 DEF NoneWrong
<1> QED BY <1>7, <1>8, <1>9

(* What the poll has confirmed leaves the queues.                             *)
LEMMA ConfirmHolds ==
  ASSUME NEW States, NEW s \in SyncType(States, [Players -> QueueType]),
         NEW st \in [Players -> Status], NEW lg, NEW g,
         QueuesInv(s, g, st, lg), Held(s, g, st, lg), LeftSettled(s, st), NoneWrong(s),
         s.framecount # 0, NEW frame \in Nat, s.last_confirmed_frame <= frame,
         \A i \in Connected(st) : frame <= st[i].last_frame,
         SetLastConfirmedFrameAsserts(s, frame)
  PROVE  LET t == SetLastConfirmedFrame(s, frame)
         IN  Held(t, g, st, lg) /\ LeftSettled(t, st) /\ NoneWrong(t)
<1> DEFINE t == SetLastConfirmedFrame(s, frame)
           n == s.framecount
           c == s.last_confirmed_frame
<1>1. /\ n \in Nat \ {0} /\ c \in Frames /\ c \in Int /\ c <= frame
      /\ s.queues \in [Players -> QueueType] /\ frame \in Frames
  BY DEF SyncType, Frames, NullFrame
<1>2. /\ t.framecount = n /\ t.last_confirmed_frame = frame
      /\ \A i \in Players : t.queues[i] = DiscardedTo(s.queues[i], frame)
  BY <1>1 DEF SetLastConfirmedFrame, DiscardedTo, SyncType
<1> HIDE DEF t
<1> SUFFICES ASSUME NEW i \in Players
             PROVE  LET y == t.queues[i]
                        d == st[i].last_frame
                    IN  /\ ~st[i].disconnected => Oldest(y) <= Max2(frame, 0)
                        /\ st[i].disconnected =>
                             Left(y, n, d, frame, lg[i], Column(g, i))
                        /\ y.first_incorrect_frame = NullFrame
                        /\ st[i].disconnected /\ d >= n => y.last_frame_requested = n - 1
  BY <1>2 DEF Held, LeftSettled, NoneWrong, t
<1> DEFINE x == s.queues[i]
           y == t.queues[i]
           d == st[i].last_frame
           p == Column(g, i)
<1>3. /\ x \in QueueType /\ x.first_incorrect_frame = NullFrame /\ d \in Frames
      /\ frame > 0 => DiscardConfirmedFramesAsserts(x, frame - 1)
      /\ y = DiscardedTo(x, frame)
      /\ st[i].disconnected /\ d >= n => x.last_frame_requested = n - 1
  BY <1>1, <1>2 DEF NoneWrong, Status, SetLastConfirmedFrameAsserts, LeftSettled
<1>4. /\ y.first_incorrect_frame = NullFrame
      /\ y.last_frame_requested = x.last_frame_requested
  <2>1. frame > 0 => frame - 1 \in Nat
    OBVIOUS
  <2> HIDE DEF x, y
  <2> QED BY <1>3, <2>1, DiscardFields DEF DiscardedTo, SamePrediction
<1>5. CASE st[i].disconnected
  <2>1. Left(x, n, d, c, lg[i], p)
    BY <1>5 DEF Held
  <2> HIDE DEF x, y, n, d, c, p
  <2>2. Left(DiscardedTo(x, frame), n, d, frame, lg[i], p)
    BY <1>1, <1>3, <1>5, <2>1, LeftConfirmed
  <2> QED BY <1>3, <1>4, <1>5, <2>2 DEF y, d, p
<1>6. CASE ~st[i].disconnected
  <2>1. /\ QueueInv(x, n, lg[i], p) /\ Oldest(x) <= Max2(c, 0)
        /\ frame <= x.last_added_frame /\ x.last_added_frame \in Int
    BY <1>3, <1>6 DEF Held, QueuesInv, Connected, QueueType, Frames, NullFrame
  <2> HIDE DEF x, n, c, p
  <2>2. Oldest(DiscardedTo(x, frame)) <= Max2(frame, 0)
    <3>1. CASE frame = 0
      <4>1. Max2(c, 0) = 0 /\ Max2(frame, 0) = 0
        BY <1>1, <3>1 DEF Max2
      <4> QED BY <2>1, <3>1, <4>1 DEF DiscardedTo
    <3>2. CASE frame # 0
      <4> DEFINE f == frame - 1
      <4>1. /\ f \in Nat /\ f < x.last_added_frame /\ Max2(frame, 0) = f + 1
            /\ DiscardedTo(x, frame) = DiscardConfirmedFrames(x, f)
            /\ DiscardConfirmedFramesAsserts(x, f)
        BY <1>3, <2>1, <3>2 DEF Max2, DiscardedTo
      <4> HIDE DEF f
      <4>2. Oldest(DiscardConfirmedFrames(x, f)) <= f + 1
        BY <2>1, <4>1, DiscardAsked
      <4> QED BY <4>1, <4>2
    <3> QED BY <3>1, <3>2
  <2> QED BY <1>3, <1>4, <1>6, <2>2
<1> QED BY <1>5, <1>6
-----------------------------------------------------------------------------
(* The whole peer, between disconnects of the local player: that one, which   *)
(* leaves at a frame of its own choice and rolls nothing back, is left to the *)
(* runs.                                                                      *)

(* While inputs are taken from the endpoints and until CheckSimulation has    *)
(* looked at them a misprediction may be known; a replay never begins before  *)
(* the last confirmed frame.                                                  *)
SimInv ==
    pc \in Stages =>
        /\ Held(sync, game, status, log)
        /\ pc # "replay" => LeftSettled(sync, status)
        /\ pc \notin {"events", "check"} => NoneWrong(sync)
        /\ pc = "replay" => sync.last_confirmed_frame <= sync.framecount

(* Nothing is simulated while the session synchronizes, and no input is added *)
(* for the local player before the first frame is.                            *)
EarlyInv ==
    /\ synchronizing => sync.framecount = 0 /\ pc \notin {"frame", "replay"}
    /\ sync.framecount = 0 /\ pc \in Resting =>
         status[LocalPlayer].last_frame = NullFrame

(* What AdjustSimulation does before its first callback.                      *)
LEMMA AdjustFields ==
  ASSUME IInv, pc \in Resting, NEW frame \in Frames, frame < sync.framecount,
         NEW resume, AdjustSimulation(frame, resume)
  PROVE  \/ /\ pc' \in {"FindSavedFrameIndex", "LoadFrame", "ResetPrediction"}
            /\ UNCHANGED <<sync, game>>
         \/ /\ pc' = "replay" /\ frame \in Nat /\ ResetPredictionsAsserts(sync, frame)
            /\ sync'.framecount = frame
            /\ sync'.last_confirmed_frame = sync.last_confirmed_frame
            /\ sync'.queues = [i \in Players |-> ResetPrediction(sync.queues[i])]
            /\ DOMAIN game' = 0 .. frame - 1 /\ SameBefore(frame, game, game')
<1>0. /\ sync \in SyncType(Histories, [Players -> QueueType])
      /\ sync.framecount \in Nat
      /\ game \in [0 .. sync.framecount - 1 -> Vectors]
  BY SyncFacts
<1>1. CASE ~(/\ FindSavedFrameIndexAsserts(sync, frame)
             /\ LoadFrameAsserts(sync, frame)
             /\ ResetPredictionsAsserts(sync, frame))
  BY <1>1 DEF AdjustSimulation
<1>2. CASE /\ FindSavedFrameIndexAsserts(sync, frame)
           /\ LoadFrameAsserts(sync, frame)
           /\ ResetPredictionsAsserts(sync, frame)
  <2> DEFINE t == ResetPredictions(LoadFrame(sync, frame))
             h == LoadedGame(sync, frame, game)
  <2>1. sync' = t /\ game' = h /\ pc' = "replay"
    BY <1>2 DEF AdjustSimulation
  <2>2. AtRest(sync, game) /\ QueuesInv(sync, game, status, log)
    BY RestingInv DEF IInv, Resting
  <2>3. StatesInv(sync, game, sync.framecount)
    <3>1. sync.framecount # 0
      <4> SUFFICES ASSUME sync.framecount = 0 PROVE FALSE
        OBVIOUS
      <4>1. frame = -1 /\ \A slot \in SaveSlots : sync.saved[slot].frame = 0
        BY <2>2 DEF AtRest, Untouched, Frames, NullFrame
      <4> QED BY <1>2, <4>1 DEF FindSavedFrameIndexAsserts, SavedAt
    <3> QED BY <2>2, <3>1 DEF AtRest
  <2>4. /\ t \in SyncType(Histories, [Players -> QueueType])
        /\ frame \in Nat /\ t.framecount = frame
        /\ t.last_confirmed_frame = sync.last_confirmed_frame
        /\ h \in [0 .. frame - 1 -> Vectors] /\ SameBefore(frame, game, h)
        /\ t.queues = [i \in Players |-> ResetPrediction(sync.queues[i])]
        /\ SameArrivals(sync, t)
        /\ QueuesInv(t, h, status, log)
        /\ StatesInv(t, h, sync.framecount)
    BY <1>0, <1>2, <2>2, <2>3, LoadKeeps
  <2> HIDE DEF t, h
  <2>5. DOMAIN h = 0 .. frame - 1
    BY <2>4
  <2> QED BY <1>2, <2>1, <2>4, <2>5
<1> QED BY <1>1, <1>2

(* A rollback to a frame no earlier than the last confirmed one.              *)
LEMMA AdjustSim ==
  ASSUME IInv, SimInv, pc \in Resting, NEW frame \in Frames, frame < sync.framecount,
         sync.last_confirmed_frame <= frame, NEW resume,
         AdjustSimulation(frame, resume), UNCHANGED log,
         Leaves(sync, status, status', frame)
  PROVE  SimInv'
<1>1. CASE pc' \notin Stages
  BY <1>1 DEF SimInv
<1>2. CASE pc' \in Stages
  <2> DEFINE t == sync'
             h == game'
             st2 == status'
  <2>1. /\ pc' = "replay" /\ frame \in Nat /\ ResetPredictionsAsserts(sync, frame)
        /\ t.framecount = frame
        /\ t.last_confirmed_frame = sync.last_confirmed_frame
        /\ t.queues = [i \in Players |-> ResetPrediction(sync.queues[i])]
        /\ DOMAIN h = 0 .. frame - 1 /\ SameBefore(frame, game, h)
    BY <1>2, AdjustFields DEF Stages
  <2>2. QueuesInv(sync, game, status, log) /\ Held(sync, game, status, log)
    BY RestingInv DEF IInv, Resting, SimInv
  <2>3. /\ sync \in SyncType(Histories, [Players -> QueueType])
        /\ game \in [0 .. sync.framecount - 1 -> Vectors]
        /\ status \in [Players -> Status] /\ Leaves(sync, status, st2, frame)
    BY SyncFacts
  <2> HIDE DEF t, h, st2
  <2>4. Held(t, h, st2, log) /\ NoneWrong(t)
    BY <2>1, <2>2, <2>3, RollbackHolds
  <2>5. t.last_confirmed_frame <= t.framecount
    BY <2>1
  <2> QED BY <2>1, <2>4, <2>5 DEF SimInv, t, h, st2
<1> QED BY <1>1, <1>2

(* A disconnect that is no further back than the last confirmed frame.        *)
Drops(queue, syncto) ==
    /\ pc \in Resting /\ queue \in Remotes /\ syncto \in Frames
    /\ sync.last_confirmed_frame <= syncto
    /\ syncto <= sync.queues[queue].last_added_frame
    /\ status[queue].disconnected => syncto < status[queue].last_frame
    /\ DisconnectPlayerQueue(queue, syncto, pc)
    /\ UNCHANGED <<log, fed>>

LEMMA DropsSim ==
  ASSUME IInv, SimInv, NEW queue, NEW syncto, Drops(queue, syncto)
  PROVE  SimInv'
<1> DEFINE gone == [disconnected |-> TRUE, last_frame |-> syncto]
           st2 == status'
<1>1. /\ pc \in Resting /\ queue \in Players /\ syncto \in Frames
      /\ sync.last_confirmed_frame <= syncto
      /\ syncto <= sync.queues[queue].last_added_frame
      /\ status[queue].disconnected => syncto < status[queue].last_frame
      /\ DisconnectPlayerQueue(queue, syncto, pc) /\ UNCHANGED log
      /\ status \in [Players -> Status]
  BY SyncFacts, PlayersArranged DEF Drops
<1>2. status' = [status EXCEPT ![queue] = gone]
  BY <1>1 DEF DisconnectPlayerQueue
<1>3. /\ st2[queue] = gone
      /\ \A i \in Players : i # queue => st2[i] = status[i]
  <2> HIDE DEF gone
  <2> QED BY <1>1, <1>2
<1> HIDE DEF st2
<1>4. Leaves(sync, status, st2, syncto)
  BY <1>1, <1>3 DEF Leaves
<1>5. CASE syncto < sync.framecount
  <2>1. AdjustSimulation(syncto, pc) /\ Leaves(sync, status, status', syncto)
    BY <1>1, <1>4, <1>5 DEF DisconnectPlayerQueue, st2
  <2> QED BY <1>1, <1>5, <2>1, AdjustSim
<1>6. CASE ~(syncto < sync.framecount)
  <2>1. UNCHANGED <<sync, game, pc>>
    BY <1>1, <1>6 DEF DisconnectPlayerQueue
  <2>2. /\ QueuesInv(sync, game, status, log) /\ Held(sync, game, status, log)
        /\ Settled(sync, status) /\ LeftSettled(sync, status)
        /\ pc \notin {"events", "check"} => NoneWrong(sync)
    BY <1>1, RestingInv DEF IInv, Resting, SimInv
  <2>3. /\ sync \in SyncType(Histories, [Players -> QueueType])
        /\ sync.framecount <= syncto
    <3>1. sync.framecount \in Nat /\ syncto \in Int
      BY <1>1, SyncFacts DEF Frames, NullFrame
    <3> QED BY <1>6, <3>1, SyncFacts
  <2>4. Held(sync, game, st2, log) /\ LeftSettled(sync, st2)
    BY <1>1, <1>4, <2>2, <2>3, LeavesHolds
  <2>5. pc # "replay"
    BY <1>1 DEF Resting
  <2> QED BY <1>1, <2>1, <2>2, <2>4, <2>5 DEF SimInv, st2
<1> QED BY <1>5, <1>6

(* A frame simulated, for the first time or again.                            *)
LEMMA SimulateSim ==
  ASSUME IInv, SimInv, pc \in {"frame", "replay"}, NEW next, SimulateFrame(next),
         next = "replay" => pc = "replay", UNCHANGED <<status, log>>
  PROVE  SimInv'
<1>1. CASE ~SynchronizeInputsAsserts(sync, status)
  BY <1>1 DEF SimulateFrame, SimInv, Stages
<1>2. CASE SynchronizeInputsAsserts(sync, status)
  <2> DEFINE u == SynchronizeInputs(sync, status)
             t == IncrementFrame(u, game')
             h == AdvanceGame(sync, status, game)
  <2>1. game' = h /\ sync' = t /\ pc' = next
    BY <1>2 DEF SimulateFrame
  <2>2. /\ sync \in SyncType(Histories, [Players -> QueueType])
        /\ game \in [0 .. sync.framecount - 1 -> Vectors]
        /\ status \in [Players -> Status] /\ sync.framecount \in Nat
        /\ sync.last_confirmed_frame \in Int
    BY SyncFacts DEF SyncType, Frames, NullFrame
  <2>3. /\ QueuesInv(sync, game, status, log) /\ Held(sync, game, status, log)
        /\ NoneWrong(sync)
        /\ pc = "replay" => sync.last_confirmed_frame <= sync.framecount
    BY DEF IInv, SessionInv, SimInv, Stages
  <2>4. /\ u \in SyncType(Histories, [Players -> QueueType])
        /\ u.framecount = sync.framecount
        /\ u.last_confirmed_frame = sync.last_confirmed_frame
    <3>1. \A i \in Players : GetInput(sync.queues[i], sync.framecount) \in QueueType
      BY <2>2, GetInputType DEF SyncType
    <3> QED BY <2>2, <3>1 DEF SynchronizeInputs, SyncType
  <2> HIDE DEF u, h
  <2>5. /\ t.framecount = u.framecount + 1 /\ t.queues = u.queues
        /\ t.last_confirmed_frame = u.last_confirmed_frame
    BY <2>4, IncrementFields
  <2> HIDE DEF t
  <2>6. /\ t.framecount = sync.framecount + 1
        /\ t.last_confirmed_frame = sync.last_confirmed_frame
        /\ t.queues = SynchronizeInputs(sync, status).queues
    BY <2>4, <2>5 DEF u
  <2>7. Held(t, AdvanceGame(sync, status, game), status, log)
        /\ NoneWrong(t) /\ LeftSettled(t, status)
    BY <1>2, <2>2, <2>3, <2>6, SimulateHolds
  <2>8. pc' = "replay" => t.last_confirmed_frame <= t.framecount
    BY <2>1, <2>2, <2>3, <2>6
  <2> QED BY <2>1, <2>7, <2>8 DEF SimInv, h
<1> QED BY <1>1, <1>2

(* An input added.                                                            *)
Arrives(k, frame, bits) ==
    /\ pc \in {"app", "events"} /\ k \in Connected(status)
    /\ frame \in Nat /\ bits \in Bits
    /\ Adds(sync, status, log, k, frame, bits, sync', status', log')
    /\ sync'.last_confirmed_frame = sync.last_confirmed_frame
    /\ UNCHANGED <<game, fed>>
    /\ \/ /\ pc = "app" /\ pc' = "frame" /\ ~synchronizing
          /\ k = LocalPlayer /\ frame = sync.framecount /\ ~BarrierReached(sync)
          /\ frame + sync.queues[k].frame_delay < MaxFrame
       \/ /\ pc = "events" /\ UNCHANGED pc /\ k # LocalPlayer
          /\ inbox[k] # <<>> /\ Head(inbox[k]).type = "input"
          /\ frame = Head(inbox[k]).frame

LEMMA ArrivesSim ==
  ASSUME IInv, BarrierInv, SimInv, NEW k, NEW frame, NEW bits, Arrives(k, frame, bits)
  PROVE  SimInv'
<1> DEFINE t == sync'
           st2 == status'
           lg2 == log'
<1>1. /\ k \in Connected(status) /\ frame \in Nat /\ bits \in Bits
      /\ Adds(sync, status, log, k, frame, bits, t, st2, lg2)
      /\ t.last_confirmed_frame = sync.last_confirmed_frame
      /\ pc \in Resting /\ UNCHANGED game
  BY DEF Arrives, Resting, Stages
<1>2. /\ QueuesInv(sync, game, status, log) /\ Held(sync, game, status, log)
      /\ Settled(sync, status) /\ LeftSettled(sync, status)
      /\ pc = "app" => NoneWrong(sync)
  BY <1>1, RestingInv DEF IInv, Resting, SimInv
<1>3. sync.last_confirmed_frame <= status[k].last_frame
  BY <1>1 DEF BarrierInv
<1>4. /\ sync \in SyncType(Histories, [Players -> QueueType])
      /\ status \in [Players -> Status] /\ Logs(sync, log) /\ sync.framecount \in Nat
  BY SyncFacts
<1> HIDE DEF t, st2, lg2
<1>5. /\ Held(t, game, st2, lg2) /\ LeftSettled(t, st2)
      /\ NoneWrong(sync) /\ sync.framecount <= frame => NoneWrong(t)
  BY <1>1, <1>2, <1>3, <1>4, AddHolds
<1>6. \/ pc = "app" /\ pc' = "frame" /\ frame = sync.framecount
      \/ pc = "events" /\ UNCHANGED pc
  BY DEF Arrives
<1>7. /\ pc' \notin {"events", "check"} => NoneWrong(t)
      /\ pc' # "replay"
  BY <1>2, <1>4, <1>5, <1>6
<1> QED BY <1>1, <1>5, <1>7 DEF SimInv, t, st2, lg2

(* What the poll has confirmed, and that there is a frame by then.            *)
LEMMA Confirms ==
  ASSUME IInv, EarlyInv, ConfirmedInv, pc = "confirm"
  PROVE  /\ poll.total \in Nat /\ \A i \in Connected(status) : poll.total <= status[i].last_frame
         /\ sync.framecount # 0 /\ sync.last_confirmed_frame <= poll.total
<1>1. PollInv
  BY RestingInv DEF IInv, Resting, Stages
<1>2. /\ poll.queue >= NumPlayers /\ poll.total >= 0
      /\ \A i \in Connected(status) :
             i < poll.queue => poll.total <= status[i].last_frame
  BY <1>1 DEF PollInv, Polling
<1>3. \A i \in Connected(status) : i < poll.queue
  BY <1>2, SyncFacts DEF Connected, Players
<1>4. poll.total \in Nat
  BY <1>2, SyncFacts DEF Frames, NullFrame
<1>5. sync.framecount # 0
  BY <1>2, <1>3, <1>4, SyncFacts DEF EarlyInv, Resting, Stages, NullFrame
<1> QED BY <1>2, <1>3, <1>4, <1>5 DEF ConfirmedInv, Polling

LEMMA ConfirmSim ==
  ASSUME IInv, EarlyInv, ConfirmedInv, SimInv, Confirm
  PROVE  SimInv'
<1>1. pc = "confirm" /\ UNCHANGED <<game, status, log>>
  BY DEF Confirm
<1>2. CASE ~SetLastConfirmedFrameAsserts(sync, poll.total)
  BY <1>2 DEF Confirm, SimInv, Stages
<1>3. CASE SetLastConfirmedFrameAsserts(sync, poll.total)
  <2> DEFINE total == poll.total
             t == SetLastConfirmedFrame(sync, total)
  <2>1. sync' = t /\ pc' = "app"
    BY <1>3 DEF Confirm
  <2>2. /\ total \in Nat /\ \A i \in Connected(status) : total <= status[i].last_frame
        /\ sync.framecount # 0 /\ sync.last_confirmed_frame <= total
        /\ SetLastConfirmedFrameAsserts(sync, total)
    BY <1>1, <1>3, Confirms
  <2>3. /\ QueuesInv(sync, game, status, log) /\ Held(sync, game, status, log)
        /\ LeftSettled(sync, status) /\ NoneWrong(sync)
    BY <1>1, RestingInv DEF IInv, SimInv, Resting, Stages
  <2>4. /\ sync \in SyncType(Histories, [Players -> QueueType])
        /\ status \in [Players -> Status]
    BY SyncFacts
  <2> HIDE DEF total
  <2>5. Held(t, game, status, log) /\ LeftSettled(t, status) /\ NoneWrong(t)
    BY <2>2, <2>3, <2>4, ConfirmHolds
  <2> HIDE DEF t
  <2> QED BY <1>1, <2>1, <2>5 DEF SimInv
<1> QED BY <1>2, <1>3

(* Steps that leave the simulation alone.                                     *)
LEMMA QuietSim ==
  ASSUME SimInv, UNCHANGED <<sync, game, status, log>>,
         \/ UNCHANGED pc
         \/ pc' \notin Stages
         \/ /\ pc \in Resting /\ pc' \in Resting
            /\ pc' \in {"events", "check"} \/ NoneWrong(sync)
  PROVE  SimInv'
<1>1. Held(sync, game, status, log)' <=> Held(sync, game, status, log)
  OBVIOUS
<1>2. /\ LeftSettled(sync, status)' <=> LeftSettled(sync, status)
      /\ NoneWrong(sync)' <=> NoneWrong(sync)
  OBVIOUS
<1> QED BY <1>1, <1>2 DEF SimInv, Resting
-----------------------------------------------------------------------------
(* What the steps come down to.                                               *)

(* No report that this peer has still to act on is of a frame before the last *)
(* confirmed one.                                                             *)
BehindInv ==
    \A e \in Remotes, i \in Players :
        Behind(e, i) => sync.last_confirmed_frame <= claims[e][i].last_frame

(* A poll disconnects nobody before the last confirmed frame, and nobody      *)
(* after the last frame it has sent.                                          *)
LEMMA PollTarget ==
  ASSUME IInv, BarrierInv, RingInvs, BehindInv, SimInv,
         NEW k \in Players, k = poll.queue, PollPlayer, ToDisconnect(k)
  PROVE  Drops(k, DisconnectFrame(k))
<1>1. NumPlayers > 2
  <2> SUFFICES ASSUME NumPlayers <= 2 PROVE FALSE
    OBVIOUS
  <2>1. Consulted(k) \subseteq {k}
    BY DEF Consulted
  <2>2. ~claims[k][k].disconnected
    BY DEF RingInvs, ReportsInv
  <2> QED BY <2>1, <2>2 DEF ToDisconnect, QueueConnected
<1> DEFINE d == Confirmed(k)
           c == sync.last_confirmed_frame
<1>2. ~(NumPlayers <= 2) /\ DisconnectFrame(k) = d
  <2>1. ~(NumPlayers <= 2)
    BY <1>1
  <2> QED BY <2>1 DEF DisconnectFrame
<1>3. /\ k \in Remotes /\ d \in Frames /\ d \in Int /\ c \in Int /\ d >= NullFrame
      /\ pc = "poll" /\ pc \in Resting /\ UNCHANGED <<log, fed>>
      /\ DisconnectPlayerQueue(k, DisconnectFrame(k), "poll")
      /\ status[k].last_frame \in Int /\ sync.queues[k].last_added_frame \in Int
  <2>1. /\ k \in Remotes /\ d \in Frames /\ c \in Frames /\ status[k].last_frame \in Frames
        /\ sync.queues[k].last_added_frame \in Frames
    BY OnlyRemotesDisconnect, ConfirmedIsLeast, SyncFacts DEF SyncType, Status, QueueType
  <2> QED BY <2>1 DEF PollPlayer, Frames, NullFrame, Resting, Stages
<1>4. c <= d
  <2>1. CASE d = MAX_INT
    BY <2>1 DEF RingInvs, ConfirmedInv
  <2>2. CASE ~status[k].disconnected /\ d = status[k].last_frame
    BY <2>2 DEF BarrierInv, Connected
  <2>3. ASSUME NEW e \in Consulted(k), d = claims[e][k].last_frame
        PROVE  c <= d
    <3>1. e \in Players /\ endpoint[e] = "running"
      BY DEF Consulted
    <3>2. CASE e = LocalPlayer
      BY <1>1, <1>3, <3>1, <3>2 DEF RingInvs, ConfirmedInv, NullFrame
    <3>3. CASE e # LocalPlayer
      <4>1. e \in Remotes
        BY <3>1, <3>3 DEF Remotes
      <4>2. CASE claims[e][k].disconnected
        <5>1. Behind(e, k)
          BY <1>1, <2>3, <3>1, <4>2 DEF Behind, ToDisconnect
        <5> QED BY <2>3, <4>1, <5>1 DEF BehindInv
      <4>3. CASE ~claims[e][k].disconnected
        BY <1>1, <2>3, <3>1, <4>1, <4>3 DEF RingInvs, ConfirmedInv, Counts
      <4> QED BY <4>2, <4>3
    <3> QED BY <3>2, <3>3
  <2> QED BY <2>1, <2>2, <2>3, ConfirmedIsLeast
<1>5. /\ d <= sync.queues[k].last_added_frame
      /\ status[k].disconnected => d < status[k].last_frame
  <2>1. CASE ~status[k].disconnected
    <3>1. d <= status[k].last_frame
      BY <2>1, ConfirmedIsLeast
    <3>2. status[k].last_frame = sync.queues[k].last_added_frame
      BY <1>3, <2>1, RestingInv DEF IInv, Resting, QueuesInv, Connected
    <3> QED BY <2>1, <3>1, <3>2
  <2>2. CASE status[k].disconnected
    <3>1. d < status[k].last_frame
      BY <1>3, <2>2 DEF ToDisconnect
    <3>2. status[k].last_frame <= sync.queues[k].last_added_frame
      BY <1>3, <2>2 DEF SimInv, Held, Left, Stages
    <3> QED BY <1>3, <3>1, <3>2
  <2> QED BY <2>1, <2>2
<1> HIDE DEF d
<1> QED BY <1>2, <1>3, <1>4, <1>5 DEF Drops

(* An endpoint that times out and a player the application disconnects leave  *)
(* after the last input they have sent.                                       *)
LEMMA LastFrameTarget ==
  ASSUME IInv, BarrierInv, NEW k \in Remotes, ~status[k].disconnected,
         pc \in Resting, DisconnectPlayerQueue(k, status[k].last_frame, pc),
         UNCHANGED <<log, fed>>
  PROVE  Drops(k, status[k].last_frame)
<1>1. k \in Players /\ k \in Connected(status)
  BY PlayersArranged DEF Connected
<1>2. /\ status[k].last_frame \in Frames /\ status[k].last_frame \in Int
      /\ sync.last_confirmed_frame <= status[k].last_frame
      /\ status[k].last_frame = sync.queues[k].last_added_frame
  <2>1. status[k].last_frame \in Frames
    BY <1>1, SyncFacts DEF Status
  <2>2. QueuesInv(sync, game, status, log)
    BY RestingInv DEF IInv, Resting
  <2> QED BY <1>1, <2>1, <2>2 DEF BarrierInv, QueuesInv, Frames, NullFrame
<1> DEFINE d == status[k].last_frame
<1>3. DisconnectPlayerQueue(k, d, pc)
  OBVIOUS
<1> HIDE DEF d
<1>4. Drops(k, d)
  BY <1>2, <1>3 DEF Drops, d
<1> QED BY <1>4 DEF d

LEMMA AddLocalArrives ==
  ASSUME IInv, NEW bits \in Made[LocalPlayer], AddLocal(bits), pc' \in Stages
  PROVE  Arrives(LocalPlayer, sync.framecount, bits)
<1> DEFINE x == sync.queues[LocalPlayer]
           n == sync.framecount
           target == TargetFrame(x, n)
           t == AddLocalInput(sync, LocalPlayer, bits, game)
<1>1. /\ sync \in SyncType(Histories, [Players -> QueueType])
      /\ game \in [0 .. n - 1 -> Vectors] /\ game \in Histories
      /\ LocalPlayer \in Connected(status) /\ bits \in Bits /\ n \in Nat
      /\ LocalPlayer \in Players
  BY SyncFacts, PlayersArranged
<1>2. AddInputAsserts(x, n)
  BY DEF AddLocal, Stages
<1>3. /\ pc = "app" /\ pc' = "frame" /\ ~synchronizing /\ UNCHANGED <<game, fed>>
      /\ sync' = t /\ n + x.frame_delay < MaxFrame /\ ~BarrierReached(sync)
      /\ status' = IF target = NullFrame THEN status
                   ELSE [status EXCEPT ![LocalPlayer].last_frame = target]
      /\ log' = IF target = NullFrame THEN log
                ELSE [log EXCEPT ![LocalPlayer] =
                        LogAfter(x, bits, target, log[LocalPlayer])]
  BY <1>2 DEF AddLocal, LogInput, LogAfter
<1>4. AtRest(sync, game) /\ QueuesInv(sync, game, status, log)
  BY <1>3, RestingInv DEF IInv, Resting, Stages
<1>5. /\ t \in SyncType(Histories, [Players -> QueueType])
      /\ t.framecount = n
      /\ t.last_confirmed_frame = sync.last_confirmed_frame
      /\ t.queues = [sync.queues EXCEPT ![LocalPlayer] = AddInput(@, n, bits)]
      /\ StatesInv(t, game, n)
  BY <1>1, <1>4, AddLocalKeepsStates DEF AtRest
<1> DEFINE st2 == status'
           lg2 == log'
<1> HIDE DEF t, st2, lg2
<1>6. Adds(sync, status, log, LocalPlayer, n, bits, t, st2, lg2)
  BY <1>2, <1>3, <1>5 DEF Adds, st2, lg2
<1>7. Adds(sync, status, log, LocalPlayer, n, bits, sync', status', log')
  BY <1>3, <1>6 DEF st2, lg2
<1> HIDE DEF x, n, target
<1> QED BY <1>1, <1>3, <1>5, <1>7 DEF Arrives, n, x

LEMMA OnInputArrives ==
  ASSUME IInv, NEW e \in Endpoints, OnInput(e), pc' \in Stages,
         ~UNCHANGED <<sync, status, log>>
  PROVE  /\ e \in Players
         /\ Arrives(e, Head(inbox[e]).frame, Head(inbox[e]).bits)
<1> DEFINE x == sync.queues[e]
           n == sync.framecount
           frame == Head(inbox[e]).frame
           bits == Head(inbox[e]).bits
           t == sync'
           qs == [sync.queues EXCEPT ![e] = AddInput(@, frame, bits)]
<1>1. /\ pc = "events" /\ Take(e, "input") /\ Head(inbox[e]).type = "input"
      /\ UNCHANGED <<game, fed>>
      /\ ~status[e].disconnected
      /\ status[e].last_frame # NullFrame => frame = status[e].last_frame + 1
      /\ AddInputAsserts(x, frame)
      /\ t = AddRemoteInput(sync, e, frame, bits)
      /\ status' = [status EXCEPT ![e].last_frame = frame]
      /\ LogInput(e, frame, bits) /\ UNCHANGED pc
  BY DEF OnInput, Take, Stages
<1>2. /\ e # LocalPlayer /\ Head(inbox[e]) \in Events
      /\ e \in Spectators => Head(inbox[e]) \in Notices
  BY <1>1, NetworkTaken DEF IInv
<1>3. frame \in Nat /\ bits \in Bits /\ e \in Remotes /\ e \in Players
  BY <1>1, <1>2 DEF Events, Notices, Endpoints, Remotes
<1>4. /\ sync \in SyncType(Histories, [Players -> QueueType]) /\ e \in Connected(status)
  BY <1>1, <1>3, SyncFacts DEF Connected
<1>5. /\ QueueInv(x, n, log[e], Column(game, e)) /\ x.frame_delay = 0
      /\ status[e].last_frame = x.last_added_frame
  BY <1>1, <1>3, <1>4, RestingInv DEF QueuesInv, IInv, SessionTypes, Resting, Stages
<1>6. TargetFrame(x, frame) = frame
  <2> HIDE DEF x, n, frame
  <2> QED BY <1>1, <1>3, <1>5, RemoteTarget
<1>7. frame # NullFrame
  BY <1>3 DEF NullFrame
<1>8. log' = [log EXCEPT ![e] = LogAfter(x, bits, frame, log[e])]
  BY <1>1, <1>6, <1>7 DEF LogInput, LogAfter
<1>9. t = [sync EXCEPT !.queues = qs]
  <2>1. t = [sync EXCEPT !.queues[e] = AddInput(@, frame, bits)]
    BY <1>1 DEF AddRemoteInput
  <2> HIDE DEF t, frame, bits
  <2> QED BY <1>4, <2>1 DEF SyncType
<1>10. /\ t.framecount = n /\ t.queues = qs
       /\ t.last_confirmed_frame = sync.last_confirmed_frame
  <2> HIDE DEF t, qs
  <2> QED BY <1>4, <1>9 DEF SyncType
<1> DEFINE st2 == status'
           lg2 == log'
<1> HIDE DEF t, st2, lg2
<1>11. Adds(sync, status, log, e, frame, bits, t, st2, lg2)
  <2> HIDE DEF frame, bits
  <2> QED BY <1>1, <1>6, <1>7, <1>8, <1>10 DEF Adds, st2, lg2
<1>12. inbox[e] # <<>> /\ frame = Head(inbox[e]).frame
  BY <1>1 DEF Take, IsNext, Waiting
<1> HIDE DEF frame, bits, qs
<1>13. Arrives(e, frame, bits)
  BY <1>1, <1>2, <1>3, <1>4, <1>10, <1>11, <1>12 DEF Arrives, t, st2, lg2
<1> QED BY <1>3, <1>13 DEF frame, bits

(* The thread goes on, or stops, and nothing else happens that matters here.  *)
Stays ==
    /\ UNCHANGED <<sync, game, status, log, fed>>
    /\ \/ UNCHANGED pc
       \/ pc' \notin Stages
       \/ pc \in {"app", "pump", "poll"} /\ pc' \in Resting
       \/ pc = "events" /\ pc' = "check"
       \/ pc = "events" /\ pc' = "app" /\ synchronizing

Kinds ==
    \/ \E k \in Players, frame \in Nat, bits \in Bits : Arrives(k, frame, bits)
    \/ \E k \in Remotes, syncto \in Frames : Drops(k, syncto)
    \/ CheckSimulation \/ AdvanceFrame \/ Replay \/ PushToSpectators \/ Confirm
    \/ Stays

LEMMA StepKinds ==
  ASSUME IInv, BarrierInv, RingInvs, BehindInv, SimInv,
         LocalPlayer \notin Leavers, [Next]_vars
  PROVE  Kinds
<1>1. CASE Application
  <2>1. ASSUME NEW bits \in Made[LocalPlayer], AddLocal(bits) PROVE Kinds
    <3>1. CASE pc' \in Stages
      <4>1. LocalPlayer \in Players /\ sync.framecount \in Nat /\ bits \in Bits
        BY SyncFacts, PlayersArranged
      <4> QED BY <2>1, <3>1, <4>1, AddLocalArrives DEF Kinds
    <3>2. CASE pc' \notin Stages
      <4>1. UNCHANGED <<sync, game, status, log, fed>>
        BY <2>1, <3>2 DEF AddLocal, Stages
      <4> QED BY <3>2, <4>1 DEF Kinds, Stays
    <3> QED BY <3>1, <3>2
  <2>2. CASE Idle
    BY <2>2 DEF Idle, Kinds, Stays, Resting, Stages
  <2>3. ASSUME NEW k \in Players, DisconnectRemote(k) PROVE Kinds
    <3>1. /\ k \in Remotes /\ ~status[k].disconnected /\ pc = "app"
          /\ DisconnectPlayerQueue(k, status[k].last_frame, pc) /\ UNCHANGED <<log, fed>>
      BY <2>3 DEF DisconnectRemote, IsInitialized, Remotes
    <3>2. pc \in Resting /\ status[k].last_frame \in Frames
      BY <3>1, SyncFacts DEF Resting, Stages, Status
    <3>3. Drops(k, status[k].last_frame)
      BY <3>1, <3>2, LastFrameTarget
    <3> QED BY <3>1, <3>2, <3>3 DEF Kinds
  <2>4. ~DisconnectLocal
    BY DEF DisconnectLocal
  <2> QED BY <1>1, <2>1, <2>2, <2>3, <2>4 DEF Application, Kinds
<1>2. CASE Network
  BY ZenonT(60), <1>2 DEF Network, Synchronized, Disconnected, Shutdown, InputArrives,
              PeerClaims, Kinds, Stays
<1>3. CASE DoPoll
  <2>1. CASE Pumped \/ EventsDone \/ PollDone
    BY <2>1 DEF Pumped, EventsDone, PollDone, Kinds, Stays, Resting, Stages
  <2>2. ASSUME NEW e \in Endpoints, OnSynchronized(e) PROVE Kinds
    BY <2>2 DEF OnSynchronized, Kinds, Stays
  <2>3. ASSUME NEW e \in Endpoints, OnInput(e) PROVE Kinds
    <3>1. CASE UNCHANGED <<sync, status, log>>
      BY <2>3, <3>1 DEF OnInput, Kinds, Stays, Stages
    <3>2. CASE pc' \notin Stages
      BY <2>3, <3>2 DEF OnInput, Kinds, Stays, Take, Stages
    <3>3. CASE pc' \in Stages /\ ~UNCHANGED <<sync, status, log>>
      <4> DEFINE frame == Head(inbox[e]).frame
                 bits == Head(inbox[e]).bits
      <4>1. e \in Players /\ Arrives(e, frame, bits)
        BY <2>3, <3>3, OnInputArrives
      <4> HIDE DEF frame, bits
      <4> QED BY <4>1 DEF Kinds, Arrives
    <3> QED BY <3>1, <3>2, <3>3
  <2>4. ASSUME NEW e \in Endpoints, OnDisconnected(e) PROVE Kinds
    <3>1. CASE UNCHANGED <<sync, game, status, pc>>
      BY <2>4, <3>1 DEF OnDisconnected, Kinds, Stays
    <3>2. CASE ~UNCHANGED <<sync, game, status, pc>>
      <4>1. /\ DisconnectPlayerQueue(e, status[e].last_frame, "events")
            /\ ~status[e].disconnected /\ pc = "events" /\ UNCHANGED <<log, fed>>
            /\ e \in Endpoints /\ e \notin Spectators
        BY <2>4, <3>2 DEF OnDisconnected, Take
      <4>2. e # LocalPlayer
        BY <2>4, NetworkTaken DEF OnDisconnected, IInv
      <4>3. e \in Remotes /\ pc \in Resting
        BY <4>1, <4>2 DEF Endpoints, Remotes, Resting, Stages
      <4>4. status[e].last_frame \in Frames
        BY <4>3, SyncFacts, PlayersArranged DEF Status
      <4>5. Drops(e, status[e].last_frame)
        BY <4>1, <4>3, LastFrameTarget
      <4> QED BY <4>3, <4>4, <4>5 DEF Kinds
    <3> QED BY <3>1, <3>2
  <2>5. CASE PollPlayer
    <3> DEFINE k == poll.queue
    <3>1. CASE ToDisconnect(k)
      <4>1. k \in Players
        BY <2>5 DEF PollPlayer
      <4>2. Drops(k, DisconnectFrame(k))
        BY <2>5, <3>1, <4>1, PollTarget
      <4> QED BY <4>2 DEF Drops, Kinds
    <3>2. CASE ~ToDisconnect(k)
      BY <2>5, <3>2 DEF PollPlayer, Kinds, Stays
    <3> QED BY <3>1, <3>2
  <2> QED BY <1>3, <2>1, <2>2, <2>3, <2>4, <2>5 DEF DoPoll, Kinds
<1>4. CASE Exited \/ UNCHANGED vars
  BY <1>4 DEF Exited, vars, Kinds, Stays
<1> QED BY <1>1, <1>2, <1>3, <1>4 DEF Next

LEMMA DropsFields ==
  ASSUME IInv, NEW k, NEW syncto, Drops(k, syncto)
  PROVE  /\ status'[k] = [disconnected |-> TRUE, last_frame |-> syncto]
         /\ \A i \in Players \ {k} : status'[i] = status[i]
         /\ \/ UNCHANGED <<sync, game, pc>>
            \/ pc' \notin Stages /\ UNCHANGED <<sync, game>>
            \/ /\ pc' = "replay" /\ sync.framecount > 0 /\ syncto \in Nat
               /\ sync'.last_confirmed_frame = sync.last_confirmed_frame
<1> DEFINE gone == [disconnected |-> TRUE, last_frame |-> syncto]
<1>1. /\ pc \in Resting /\ k \in Players /\ syncto \in Frames
      /\ DisconnectPlayerQueue(k, syncto, pc)
      /\ status' = [status EXCEPT ![k] = gone] /\ status \in [Players -> Status]
  BY SyncFacts, PlayersArranged DEF Drops, DisconnectPlayerQueue
<1> HIDE DEF gone
<1>2. status'[k] = gone /\ \A i \in Players \ {k} : status'[i] = status[i]
  BY <1>1
<1>3. CASE syncto < sync.framecount
  <2>1. AdjustSimulation(syncto, pc)
    BY <1>1, <1>3 DEF DisconnectPlayerQueue
  <2>2. \/ pc' \notin Stages /\ UNCHANGED <<sync, game>>
        \/ /\ pc' = "replay" /\ syncto \in Nat
           /\ sync'.last_confirmed_frame = sync.last_confirmed_frame
    BY <1>1, <1>3, <2>1, AdjustFields DEF Stages
  <2>3. syncto \in Nat => sync.framecount > 0
    BY <1>3, SyncFacts
  <2> QED BY <1>2, <2>2, <2>3 DEF gone
<1>4. CASE ~(syncto < sync.framecount)
  BY <1>1, <1>2, <1>4 DEF DisconnectPlayerQueue, gone
<1> QED BY <1>3, <1>4

LEMMA ArrivesFields ==
  ASSUME IInv, NEW k, NEW frame, NEW bits, Arrives(k, frame, bits)
  PROVE  /\ sync'.framecount = sync.framecount
         /\ sync'.last_confirmed_frame = sync.last_confirmed_frame
         /\ NoneBehind(status, status')
         /\ \A i \in Players :
               i # k \/ status[i].disconnected => status'[i] = status[i] /\ log'[i] = log[i]
         /\ \A f \in 0 .. sync.queues[k].last_added_frame : log'[k][f] = log[k][f]
<1> DEFINE x == sync.queues[k]
           target == TargetFrame(x, frame)
<1>1. /\ k \in Connected(status) /\ k \in Players /\ ~status[k].disconnected
      /\ status \in [Players -> Status] /\ Logs(sync, log)
      /\ game \in [0 .. sync.framecount - 1 -> Vectors]
      /\ sync \in SyncType(Histories, [Players -> QueueType])
      /\ frame \in Nat /\ bits \in Bits
      /\ QueuesInv(sync, game, status, log) /\ Settled(sync, status)
  BY SyncFacts, RestingInv DEF Arrives, Connected, IInv, Resting, Stages
<1> DEFINE t == sync'
           st2 == status'
           lg2 == log'
<1>2. /\ Adds(sync, status, log, k, frame, bits, t, st2, lg2)
      /\ t.last_confirmed_frame = sync.last_confirmed_frame
  BY DEF Arrives
<1> HIDE DEF t, st2, lg2
<1>3. /\ t.framecount = sync.framecount
      /\ st2 = IF target = NullFrame THEN status
               ELSE [status EXCEPT ![k].last_frame = target]
      /\ lg2 = IF target = NullFrame THEN log
               ELSE [log EXCEPT ![k] = LogAfter(x, bits, target, log[k])]
  BY <1>2 DEF Adds
<1>4. NoneBehind(status, st2)
  <2>1. /\ t.queues \in [Players -> QueueType] /\ st2 \in [Players -> Status]
        /\ QueuesInv(t, game, st2, lg2) /\ Settled(t, st2) /\ Logs(t, lg2)
        /\ SameDelays(sync, t) /\ NoneBehind(status, st2)
    BY <1>1, <1>2, AddKeepsQueues
  <2> QED BY <2>1
<1>5. \A i \in Players : i # k => st2[i] = status[i] /\ lg2[i] = log[i]
  <2>1. DOMAIN log = Players
    BY <1>1 DEF Logs
  <2> HIDE DEF target
  <2> QED BY <1>1, <1>3, <2>1
<1>6. \A f \in 0 .. x.last_added_frame : lg2[k][f] = log[k][f]
  <2>1. CASE target = NullFrame
    BY <1>3, <2>1
  <2>2. CASE target # NullFrame
    <3>1. lg2[k] = LogAfter(x, bits, target, log[k])
      <4>1. DOMAIN log = Players
        BY <1>1 DEF Logs
      <4> HIDE DEF target, x
      <4> QED BY <1>1, <1>3, <2>2, <4>1
    <3>2. /\ target \in Nat /\ target >= Arrivals(x) /\ x \in QueueType
      <4>1. QueueInv(x, sync.framecount, log[k], Column(game, k))
            /\ x.last_frame_requested = sync.framecount - 1
        BY <1>1 DEF QueuesInv, Settled
      <4>2. AddInputAsserts(x, frame)
        BY <1>2 DEF Adds
      <4>3. x.length + target - ExpectedFrame(x) + 1 <= L
        BY <2>2, <4>2 DEF AddInputAsserts, L
      <4>4. x \in QueueType
        BY <4>1 DEF QueueInv
      <4> HIDE DEF x
      <4> QED BY <1>1, <2>2, <4>1, <4>3, <4>4, AddKeeps DEF target
    <3> HIDE DEF x, target
    <3>3. x.last_added_frame \in Int
      BY <3>2 DEF QueueType, Frames, NullFrame
    <3> SUFFICES ASSUME NEW f \in 0 .. x.last_added_frame
                 PROVE  lg2[k][f] = log[k][f]
      OBVIOUS
    <3>4. f \in 0 .. target
      BY <3>2, <3>3 DEF Arrivals
    <3> QED BY <3>1, <3>2, <3>3, <3>4 DEF LogAfter, Arrivals
  <2> QED BY <2>1, <2>2
<1> HIDE DEF x, target
<1>7. \A i \in Players :
         i # k \/ status[i].disconnected => st2[i] = status[i] /\ lg2[i] = log[i]
  BY <1>1, <1>5
<1> QED BY <1>2, <1>3, <1>4, <1>6, <1>7 DEF t, st2, lg2, x

LEMMA EarlyStep ==
  ASSUME IInv, StartInv, EarlyInv, Kinds, [Next]_vars
  PROVE  EarlyInv'
<1>1. (synchronizing' => synchronizing) /\ sync.framecount \in Nat
  BY StartStep, SyncFacts DEF EndpointsKept
<1>2. ASSUME NEW k \in Players, NEW frame \in Nat, NEW bits \in Bits,
             Arrives(k, frame, bits)
      PROVE  EarlyInv'
  <2>1. sync'.framecount = sync.framecount
        /\ (k # LocalPlayer => status'[LocalPlayer] = status[LocalPlayer])
    BY <1>2, ArrivesFields, PlayersArranged
  <2>2. \/ pc = "app" /\ pc' = "frame" /\ ~synchronizing
        \/ pc = "events" /\ UNCHANGED pc /\ k # LocalPlayer
    BY <1>2 DEF Arrives
  <2> QED BY <1>1, <2>1, <2>2 DEF EarlyInv, Resting, Stages
<1>3. ASSUME NEW k \in Remotes, NEW syncto \in Frames, Drops(k, syncto)
      PROVE  EarlyInv'
  <2>1. status'[LocalPlayer] = status[LocalPlayer] /\ pc \in Resting
    <3>1. k # LocalPlayer /\ LocalPlayer \in Players
      BY PlayersArranged
    <3>2. \A i \in Players \ {k} : status'[i] = status[i]
      BY <1>3, DropsFields
    <3> QED BY <1>3, <3>1, <3>2 DEF Drops
  <2>2. \/ UNCHANGED <<sync, pc>>
        \/ pc' \notin Stages /\ UNCHANGED sync
        \/ pc' = "replay" /\ sync.framecount > 0
    BY <1>3, DropsFields
  <2> QED BY <1>1, <2>1, <2>2 DEF EarlyInv, Resting, Stages
<1>4. CASE CheckSimulation
  <2>1. pc = "check" /\ UNCHANGED status
        /\ (UNCHANGED sync \/ AdjustSimulation(SeekTo(sync), "poll"))
    BY <1>4 DEF CheckSimulation
  <2>2. ~synchronizing'
    BY <1>1, <2>1 DEF StartInv
  <2>3. AdjustSimulation(SeekTo(sync), "poll") => pc' \notin Resting
    BY AdjustLeads DEF Resting, Stages
  <2> QED BY <2>1, <2>2, <2>3 DEF EarlyInv, Resting, Stages
<1>5. CASE AdvanceFrame \/ Replay
  <2>1. pc \in {"frame", "replay"} /\ \E next : SimulateFrame(next)
    BY <1>5 DEF AdvanceFrame, Replay
  <2>2. ~synchronizing'
    BY <1>1, <2>1 DEF EarlyInv
  <2>3. pc' \in Resting => sync'.framecount # 0
    <3>1. CASE ~SynchronizeInputsAsserts(sync, status)
      BY <2>1, <3>1 DEF SimulateFrame, Resting, Stages
    <3>2. CASE SynchronizeInputsAsserts(sync, status)
      <4> DEFINE u == SynchronizeInputs(sync, status)
      <4>1. sync' = IncrementFrame(u, game')
        BY <2>1, <3>2 DEF SimulateFrame
      <4>2. /\ u \in SyncType(Histories, [Players -> QueueType])
            /\ u.framecount = sync.framecount
        <5>1. /\ sync \in SyncType(Histories, [Players -> QueueType])
              /\ \A i \in Players : GetInput(sync.queues[i], sync.framecount) \in QueueType
          BY SyncFacts, GetInputType
        <5> QED BY <5>1 DEF SynchronizeInputs, SyncType
      <4> HIDE DEF u
      <4>3. sync'.framecount = u.framecount + 1
        BY <4>1, <4>2, IncrementFields
      <4> QED BY <1>1, <4>2, <4>3
    <3> QED BY <3>1, <3>2
  <2> QED BY <2>2, <2>3 DEF EarlyInv
<1>6. CASE Confirm
  <2>1. pc = "confirm" /\ pc' \notin {"frame", "replay"} /\ UNCHANGED status
    BY <1>6 DEF Confirm
  <2>2. sync'.framecount = sync.framecount
    <3>1. sync \in SyncType(Histories, [Players -> QueueType])
      BY SyncFacts
    <3> QED BY <1>6, <3>1 DEF Confirm, SetLastConfirmedFrame, SyncType
  <2> QED BY <1>1, <2>1, <2>2 DEF EarlyInv, Resting, Stages
<1>7. CASE PushToSpectators
  <2>1. UNCHANGED <<sync, status>> /\ pc = "confirm" /\ pc' \in {pc, "GetConfirmedInput"}
    BY <1>7 DEF PushToSpectators
  <2> QED BY <1>1, <2>1 DEF EarlyInv, Resting, Stages
<1>8. CASE Stays
  BY <1>1, <1>8 DEF Stays, EarlyInv, Resting, Stages
<1> QED BY <1>2, <1>3, <1>4, <1>5, <1>6, <1>7, <1>8 DEF Kinds

(* Of a player who has been disconnected only an earlier frame is adopted.     *)
LEMMA StaysGone ==
  ASSUME IInv, Kinds, NEW i \in Players, status[i].disconnected
  PROVE  status'[i].disconnected /\ status'[i].last_frame <= status[i].last_frame
<1>1. status[i].last_frame \in Int
  BY SyncFacts DEF Status, Frames, NullFrame
<1>2. ASSUME NEW k \in Players, NEW frame \in Nat, NEW bits \in Bits,
             Arrives(k, frame, bits)
      PROVE  status'[i] = status[i]
  BY <1>2, ArrivesFields
<1>3. ASSUME NEW k \in Remotes, NEW syncto \in Frames, Drops(k, syncto)
      PROVE  status'[i].disconnected /\ status'[i].last_frame <= status[i].last_frame
  <2>1. CASE i = k
    <3>1. status'[i] = [disconnected |-> TRUE, last_frame |-> syncto]
      BY <1>3, <2>1, DropsFields
    <3>2. syncto < status[i].last_frame /\ syncto \in Int
      BY <1>3, <2>1 DEF Drops, Frames, NullFrame
    <3> QED BY <1>1, <3>1, <3>2
  <2>2. CASE i # k
    <3>1. \A j \in Players \ {k} : status'[j] = status[j]
      BY <1>3, DropsFields
    <3>2. status'[i] = status[i]
      BY <2>2, <3>1
    <3> QED BY <1>1, <3>2
  <2> QED BY <2>1, <2>2
<1>4. CASE CheckSimulation \/ AdvanceFrame \/ Replay \/ PushToSpectators
           \/ Confirm \/ Stays
  <2>1. UNCHANGED status
    BY <1>4 DEF CheckSimulation, AdvanceFrame, Replay, PushToSpectators, Confirm, Stays
  <2> QED BY <1>1, <2>1
<1> QED BY <1>1, <1>2, <1>3, <1>4 DEF Kinds

(* What a peer says of a player never goes back, nor does it change once the  *)
(* peer has disconnected that player.                                         *)
LEMMA ReportsKept ==
  ASSUME IInv, ReportsInv, [Next]_vars, NEW e \in Remotes, NEW i \in Players
  PROVE  /\ claims'[e][i].last_frame >= claims[e][i].last_frame
         /\ claims[e][i].disconnected => claims'[e][i] = claims[e][i]
<1>0. /\ claims \in [Players -> [Players -> Status]] /\ e \in Players
      /\ last_received \in [Endpoints -> Frames]
  BY PlayersArranged DEF IInv, NetworkInv
<1>1. claims[e][i] \in Status /\ claims[e][i].last_frame \in Int
  BY <1>0 DEF Status, Frames, NullFrame
<1>2. ASSUME NEW k \in Remotes, NEW bits \in Made[k], InputArrives(k, bits)
      PROVE  /\ claims'[e][i].last_frame >= claims[e][i].last_frame
             /\ claims[e][i].disconnected => claims'[e][i] = claims[e][i]
  <2> DEFINE frame == IF last_received[k] = NullFrame THEN RemoteDelay
                      ELSE last_received[k] + 1
  <2>1. /\ claims' = [claims EXCEPT ![k][k].last_frame = frame] /\ k \in Players
        /\ k \in Endpoints
    BY <1>2, PlayersArranged, RemotesArranged DEF InputArrives
  <2>2. frame \in Nat /\ frame >= last_received[k]
    BY <1>0, <2>1 DEF Frames, NullFrame
  <2> HIDE DEF frame
  <2>3. CASE e = k /\ i = k
    <3>1. claims'[e][i].last_frame = frame
      BY <1>0, <1>1, <2>1, <2>3 DEF Status
    <3> QED BY <1>0, <2>1, <2>2, <2>3, <3>1 DEF ReportsInv
  <2>4. CASE ~(e = k /\ i = k)
    BY <1>0, <1>1, <2>1, <2>4
  <2> QED BY <2>3, <2>4
<1>3. ASSUME NEW k \in Players, NEW j \in Players,
             NEW claim \in [disconnected : BOOLEAN, last_frame : 0 .. MaxFrame - 1],
             PeerClaims(k, j, claim)
      PROVE  /\ claims'[e][i].last_frame >= claims[e][i].last_frame
             /\ claims[e][i].disconnected => claims'[e][i] = claims[e][i]
  <2>1. /\ claims' = [claims EXCEPT ![k][j] = claim]
        /\ ~claims[k][j].disconnected
        /\ claim.last_frame \in Int
    BY <1>3 DEF PeerClaims
  <2>2. CASE e = k /\ i = j
    <3>1. claims'[e][i] = claim /\ claim.last_frame >= Max2(claims[e][i].last_frame, 0)
      BY <1>0, <1>1, <1>3, <2>1, <2>2 DEF PeerClaims, Max2, Min2
    <3> QED BY <1>1, <2>1, <2>2, <3>1 DEF Max2
  <2>3. CASE ~(e = k /\ i = j)
    BY <1>0, <1>1, <2>1, <2>3
  <2> QED BY <2>2, <2>3
<1>4. CASE UNCHANGED claims
  BY <1>1, <1>4
<1>5. Application => UNCHANGED claims
  BY DEF Application, AddLocal, AdvanceFrame, Idle, DisconnectRemote,
         DisconnectLocal, network
<1>6. (\E k \in Endpoints : Synchronized(k) \/ Disconnected(k) \/ Shutdown(k))
         => UNCHANGED claims
  BY DEF Synchronized, Disconnected, Shutdown, network
<1>7. DoPoll => UNCHANGED claims
  BY DEF DoPoll, Pumped, OnSynchronized, OnInput, OnDisconnected, Take,
         EventsDone, CheckSimulation, Replay, PollPlayer, PollDone,
         PushToSpectators, Confirm, network
<1>8. Exited \/ UNCHANGED vars => UNCHANGED claims
  BY DEF Exited, vars, network
<1> QED BY <1>2, <1>3, <1>4, <1>5, <1>6, <1>7, <1>8 DEF Next, Network

LEMMA BehindStep ==
  ASSUME IInv, RingInvs, ReportedInv, BehindInv, Kinds, [Next]_vars
  PROVE  BehindInv'
<1> DEFINE c == sync.last_confirmed_frame
<1> SUFFICES ASSUME NEW e \in Remotes, NEW i \in Players, Behind(e, i)'
             PROVE  sync'.last_confirmed_frame <= claims'[e][i].last_frame
  BY DEF BehindInv
<1>0. /\ e \in Players /\ e \in Endpoints
      /\ claims[e][i].last_frame \in Int /\ claims'[e][i].last_frame \in Int
      /\ claims'[e][i].last_frame >= NullFrame
      /\ c \in Int /\ status[i].last_frame \in Int /\ status'[i].last_frame \in Int
      /\ claims'[e][i].disconnected /\ NumPlayers > 2
  <2>1. /\ claims \in [Players -> [Players -> Status]]
        /\ claims' \in [Players -> [Players -> Status]] /\ e \in Players
    BY NetworkStep, PlayersArranged DEF IInv, NetworkInv
  <2>2. claims[e][i] \in Status /\ claims'[e][i] \in Status
    BY <2>1
  <2>3. status[i] \in Status /\ status'[i] \in Status
    BY SessionStep, SyncFacts DEF StepKeeps, SessionTypes
  <2>4. c \in Frames
    BY SyncFacts DEF SyncType
  <2> QED BY <2>1, <2>2, <2>3, <2>4, RemotesArranged DEF Status, Frames, NullFrame, Behind
<1>1. /\ claims'[e][i].last_frame >= claims[e][i].last_frame
      /\ claims[e][i].disconnected => claims'[e][i] = claims[e][i]
  BY ReportsKept DEF RingInvs
<1>2. CASE Confirm
  <2>1. UNCHANGED <<status, claims, endpoint>> /\ Polling /\ poll.queue >= NumPlayers
    BY <1>2 DEF Confirm, network, Polling, IInv, SessionInv, PollInv, Stages
  <2>2. Behind(e, i) /\ i < poll.queue
    BY <2>1, SyncFacts DEF Behind, Players
  <2> QED BY <2>1, <2>2 DEF ReportedInv
<1>3. CASE ~Confirm
  <2>1. sync'.last_confirmed_frame = c
    BY <1>3, LastConfirmedKept
  <2>2. CASE endpoint[e] # "running"
    <3>1. EndpointsMove /\ endpoint'[e] = "running"
      BY StartStep DEF EndpointsKept, RingInvs, Behind
    <3>2. endpoint[e] = "syncing"
      BY <1>0, <2>2, <3>1 DEF EndpointsMove
    <3>3. c = NullFrame
      BY <3>2, RemotesArranged DEF RingInvs, StartInv
    <3> QED BY <1>0, <2>1, <3>3
  <2>3. CASE endpoint[e] = "running" /\ ~claims[e][i].disconnected
    <3>1. c <= claims[e][i].last_frame
      BY <1>0, <2>3 DEF RingInvs, ConfirmedInv, Counts
    <3> QED BY <1>0, <1>1, <2>1, <3>1
  <2>4. CASE endpoint[e] = "running" /\ claims[e][i].disconnected
    <3>1. claims'[e][i] = claims[e][i]
      BY <1>1, <2>4
    <3>2. Behind(e, i)
      <4>1. CASE ~status[i].disconnected
        BY <1>0, <2>4, <4>1 DEF Behind
      <4>2. CASE status[i].disconnected
        <5>1. status'[i].disconnected /\ status'[i].last_frame <= status[i].last_frame
          BY <4>2, StaysGone
        <5>2. status'[i].last_frame > claims[e][i].last_frame
          BY <3>1, <5>1 DEF Behind
        <5> QED BY <1>0, <2>4, <5>1, <5>2 DEF Behind
      <4> QED BY <4>1, <4>2
    <3> QED BY <2>1, <3>1, <3>2 DEF BehindInv
  <2> QED BY <2>2, <2>3, <2>4
<1> QED BY <1>2, <1>3
-----------------------------------------------------------------------------
(* The simulation.                                                            *)

(* A misprediction is of a frame after the last confirmed one: the rollback   *)
(* that corrects it keeps everything that was settled.                        *)
LEMMA SeekToSettled ==
  ASSUME IInv, SimInv, pc = "check", FirstIncorrectFrames(sync) # {}
  PROVE  /\ SeekTo(sync) \in Frames /\ SeekTo(sync) < sync.framecount
         /\ sync.last_confirmed_frame <= SeekTo(sync)
         /\ SeekTo(sync) \in FirstIncorrectFrames(sync)
         /\ \A f \in FirstIncorrectFrames(sync) : SeekTo(sync) <= f
<1> DEFINE frame == SeekTo(sync)
           c == sync.last_confirmed_frame
           S == FirstIncorrectFrames(sync)
<1>1. \A f \in S : f \in Frames /\ f \in Int /\ -1 <= f /\ f < sync.framecount /\ c <= f
  <2> SUFFICES ASSUME NEW i \in Players, sync.queues[i].first_incorrect_frame # NullFrame
               PROVE  LET f == sync.queues[i].first_incorrect_frame
                      IN  /\ f \in Frames /\ f \in Int /\ -1 <= f
                          /\ f < sync.framecount /\ c <= f
    BY DEF FirstIncorrectFrames
  <2>1. QueuesInv(sync, game, status, log) /\ Held(sync, game, status, log)
    BY RestingInv DEF IInv, SimInv, Resting, Stages
  <2>2. sync.queues[i].first_incorrect_frame \in Frames /\ c \in Frames
    BY SyncFacts DEF QueueType, SyncType
  <2> QED BY <2>1, <2>2 DEF QueuesInv, Held, Frames, NullFrame
<1> HIDE DEF S
<1>2. S \in SUBSET Int /\ S # {} /\ \A n \in S : -1 <= n
  BY <1>1 DEF S
<1>3. \E n \in S : \A m \in S : n <= m
  BY <1>2, LeastInteger
<1>4. frame \in S /\ \A m \in S : frame <= m
  BY <1>3 DEF SeekTo, S
<1> QED BY <1>1, <1>4 DEF S

LEMMA CheckSim ==
  ASSUME IInv, SimInv, CheckSimulation
  PROVE  SimInv'
<1>1. pc = "check" /\ pc \in Resting /\ UNCHANGED <<status, log>>
  BY DEF CheckSimulation, Resting, Stages
<1>2. CASE FirstIncorrectFrames(sync) = {}
  <2>1. UNCHANGED <<sync, game>> /\ pc' = "poll"
    BY <1>2 DEF CheckSimulation
  <2>2. NoneWrong(sync)
    BY <1>2 DEF FirstIncorrectFrames, NoneWrong
  <2>3. pc' \in Resting
    BY <2>1 DEF Resting, Stages
  <2> QED BY <1>1, <2>1, <2>2, <2>3, QuietSim
<1>3. CASE FirstIncorrectFrames(sync) # {}
  <2> DEFINE frame == SeekTo(sync)
  <2>1. AdjustSimulation(frame, "poll")
    BY <1>3 DEF CheckSimulation
  <2>2. /\ frame \in Frames /\ frame < sync.framecount
        /\ sync.last_confirmed_frame <= frame
    BY <1>1, <1>3, SeekToSettled
  <2> HIDE DEF frame
  <2>3. Leaves(sync, status, status', frame)
    BY <1>1 DEF Leaves
  <2> QED BY <1>1, <2>1, <2>2, <2>3, AdjustSim
<1> QED BY <1>2, <1>3

LEMMA StaysSim ==
  ASSUME IInv, SimInv, EarlyInv, Stays
  PROVE  SimInv'
<1>1. CASE UNCHANGED pc \/ pc' \notin Stages
  BY <1>1, QuietSim DEF Stays
<1>2. CASE pc \in {"app", "pump", "poll"} /\ pc' \in Resting
  <2>1. pc \in Resting /\ NoneWrong(sync)
    BY <1>2 DEF SimInv, Resting, Stages
  <2> QED BY <1>2, <2>1, QuietSim DEF Stays
<1>3. CASE pc = "events" /\ pc' = "check"
  <2>1. pc \in Resting /\ pc' \in Resting
    BY <1>3 DEF Resting, Stages
  <2> QED BY <1>3, <2>1, QuietSim DEF Stays
<1>4. CASE pc = "events" /\ pc' = "app" /\ synchronizing
  <2>1. pc \in Resting /\ pc' \in Resting /\ sync.framecount = 0
    BY <1>4 DEF Resting, Stages, EarlyInv
  <2>2. NoneWrong(sync)
    <3>1. QueuesInv(sync, game, status, log)
      BY <2>1, RestingInv DEF IInv, Resting
    <3> SUFFICES ASSUME NEW i \in Players
                 PROVE  sync.queues[i].first_incorrect_frame = NullFrame
      BY DEF NoneWrong
    <3>2. sync.queues[i].first_incorrect_frame \in Frames
      BY SyncFacts DEF QueueType
    <3> QED BY <2>1, <3>1, <3>2 DEF QueuesInv, Frames, NullFrame
  <2> QED BY <2>1, <2>2, QuietSim DEF Stays
<1> QED BY <1>1, <1>2, <1>3, <1>4 DEF Stays

LEMMA SimStep ==
  ASSUME IInv, BarrierInv, RingInvs, EarlyInv, SimInv, Kinds
  PROVE  SimInv'
<1>1. ASSUME NEW k \in Players, NEW frame \in Nat, NEW bits \in Bits,
             Arrives(k, frame, bits)
      PROVE  SimInv'
  BY <1>1, ArrivesSim
<1>2. ASSUME NEW k \in Remotes, NEW syncto \in Frames, Drops(k, syncto)
      PROVE  SimInv'
  BY <1>2, DropsSim
<1>3. CASE CheckSimulation
  BY <1>3, CheckSim
<1>4. CASE AdvanceFrame
  <2>1. pc \in {"frame", "replay"} /\ SimulateFrame("pump") /\ UNCHANGED <<status, log>>
    BY <1>4 DEF AdvanceFrame
  <2> QED BY <2>1, SimulateSim
<1>5. CASE Replay
  <2> DEFINE next == IF sync.framecount + 1 = replay.until THEN replay.resume ELSE "replay"
  <2>1. pc = "replay" /\ SimulateFrame(next) /\ UNCHANGED <<status, log>>
    BY <1>5 DEF Replay
  <2> HIDE DEF next
  <2> QED BY <2>1, SimulateSim
<1>6. CASE PushToSpectators
  BY <1>6, QuietSim DEF PushToSpectators, Stages
<1>7. CASE Confirm
  BY <1>7, ConfirmSim DEF RingInvs
<1>8. CASE Stays
  BY <1>8, StaysSim
<1> QED BY <1>1, <1>2, <1>3, <1>4, <1>5, <1>6, <1>7, <1>8 DEF Kinds

LEMMA SimInit == ASSUME Init PROVE SimInv /\ EarlyInv /\ BehindInv
<1> PICK delay \in LocalDelays :
      sync = [InitSync EXCEPT !.queues[LocalPlayer] = SetFrameDelay(@, delay)]
  BY DEF Init
<1>1. /\ sync.framecount = 0 /\ sync.last_confirmed_frame = NullFrame
      /\ \A i \in Players : sync.queues[i] \in {InitQueue, SetFrameDelay(InitQueue, delay)}
  BY PlayersArranged DEF InitSync
<1>2. /\ status = [i \in Players |-> [disconnected |-> FALSE, last_frame |-> NullFrame]]
      /\ claims = [e \in Players |-> status] /\ pc = "app"
  BY DEF Init
<1>3. delay \in Nat /\ LocalPlayer \in Players
  BY PlayersArranged
<1>4. \A i \in Players : /\ sync.queues[i].first_incorrect_frame = NullFrame
                         /\ Oldest(sync.queues[i]) = 0
  <2> SUFFICES ASSUME NEW i \in Players
               PROVE  /\ sync.queues[i].first_incorrect_frame = NullFrame
                      /\ Oldest(sync.queues[i]) = 0
    OBVIOUS
  <2>1. sync.queues[i].first_incorrect_frame = NullFrame
    BY <1>1 DEF InitQueue, SetFrameDelay
  <2> DEFINE x == sync.queues[i]
  <2>2. x \in {InitQueue, SetFrameDelay(InitQueue, delay)}
    BY <1>1
  <2> HIDE DEF x
  <2>3. Oldest(x) = 0
    BY <1>3, <2>2, QueueInvInit
  <2> QED BY <2>1, <2>3 DEF x
<1>5. SimInv
  BY <1>1, <1>2, <1>4 DEF SimInv, Held, LeftSettled, NoneWrong, Max2, NullFrame
<1>6. EarlyInv
  BY <1>1, <1>2, <1>3 DEF EarlyInv
<1>7. BehindInv
  BY <1>2, PlayersArranged DEF BehindInv, Behind
<1> QED BY <1>5, <1>6, <1>7

(* A frame before the first known error of a player's queue has been played   *)
(* right: the player was absent from it, or its input was the one added.      *)
LEMMA PlayedRight ==
  ASSUME IInv, SimInv, pc \in Stages, NEW i \in Players,
         NEW f \in 0 .. sync.framecount - 1,
         \/ sync.queues[i].first_incorrect_frame = NullFrame
         \/ f < sync.queues[i].first_incorrect_frame
  PROVE  /\ status[i].disconnected /\ f > status[i].last_frame => game[f][i] = Gone
         /\ status[i].disconnected /\ f <= status[i].last_frame =>
              f < Arrivals(sync.queues[i]) /\ game[f][i] = log[i][f]
         /\ ~status[i].disconnected /\ f < Arrivals(sync.queues[i]) =>
              game[f][i] = log[i][f]
<1> DEFINE x == sync.queues[i]
           n == sync.framecount
           d == status[i].last_frame
           c == sync.last_confirmed_frame
           p == Column(game, i)
<1>1. /\ QueuesInv(sync, game, status, log) /\ Held(sync, game, status, log)
      /\ x \in QueueType /\ n \in Nat /\ d \in Int /\ d >= -1
      /\ x.last_added_frame \in Int /\ f \in Int
  BY SMTT(60), SyncFacts DEF IInv, SessionInv, SimInv, QueueType, Status, Frames, NullFrame
<1>2. p[f] = game[f][i]
  <2>1. DOMAIN game = 0 .. n - 1
    BY SyncFacts
  <2> QED BY <2>1 DEF Column
<1>3. CASE ~status[i].disconnected
  <2>1. QueueInv(x, n, log[i], p)
    BY <1>1, <1>3 DEF QueuesInv, Connected
  <2> HIDE DEF x, n, p
  <2>2. f < Arrivals(x) => p[f] = log[i][f]
    BY <2>1, PlayedBeforeError DEF x, n
  <2> QED BY <1>2, <1>3, <2>2 DEF x, n
<1>4. CASE status[i].disconnected
  <2>1. Left(x, n, d, c, log[i], p)
    BY <1>1, <1>4 DEF Held
  <2>2. f > d => p[f] = Gone
    BY <2>1 DEF Left
  <2>3. f <= d => f < Arrivals(x)
    BY <1>1, <2>1 DEF Left, Arrivals
  <2>4. ASSUME f <= d PROVE p[f] = log[i][f]
    <3>1. CASE Closed(n, d, c)
      BY <1>1, <2>1, <2>4, <3>1 DEF Left
    <3>2. CASE ~Closed(n, d, c)
      <4> DEFINE m == Min2(n, d + 1)
      <4>1. QueueInv(x, m, log[i], p)
        BY <2>1, <3>2 DEF Left
      <4>2. f \in 0 .. m - 1
        BY <1>1, <2>4 DEF Min2
      <4>3. x.first_incorrect_frame = NullFrame \/ f < x.first_incorrect_frame
        OBVIOUS
      <4> HIDE DEF x, n, m, p
      <4> QED BY <2>3, <2>4, <4>1, <4>2, <4>3, PlayedBeforeError
    <3> QED BY <3>1, <3>2
  <2> QED BY <1>2, <1>4, <2>2, <2>3, <2>4
<1> QED BY <1>3, <1>4

LEMMA ConsistentNow == ASSUME IInv, SimInv PROVE SimulationConsistent
<1> SUFFICES ASSUME pc = "app", NEW f \in DOMAIN game, NEW i \in Players
             PROVE  game[f][i] = Expected(i, f)
  BY DEF SimulationConsistent
<1> DEFINE x == sync.queues[i]
           n == sync.framecount
<1>1. /\ f \in 0 .. n - 1 /\ pc \in Stages /\ f \in Int
      /\ x.first_incorrect_frame = NullFrame
      /\ x.last_added_frame \in Int /\ x.last_added_frame >= -1
      /\ status[i].last_frame \in Int
      /\ log[i] \in [0 .. Arrivals(x) - 1 -> Bits]
  <2>1. f \in 0 .. n - 1 /\ f \in Int
    BY SyncFacts
  <2>2. x.first_incorrect_frame = NullFrame
    BY DEF SimInv, NoneWrong, Stages
  <2>3. x \in QueueType /\ status[i] \in Status
    BY SyncFacts
  <2>4. log[i] \in [0 .. Arrivals(x) - 1 -> Bits]
    BY SyncFacts DEF Logs
  <2> HIDE DEF x, n
  <2> QED BY <2>1, <2>2, <2>3, <2>4 DEF Stages, QueueType, Status, Frames, NullFrame
<1>2. /\ status[i].disconnected /\ f > status[i].last_frame => game[f][i] = Gone
      /\ status[i].disconnected /\ f <= status[i].last_frame =>
           f < Arrivals(sync.queues[i]) /\ game[f][i] = log[i][f]
      /\ ~status[i].disconnected /\ f < Arrivals(sync.queues[i]) =>
           game[f][i] = log[i][f]
  BY <1>1, PlayedRight
<1>3. DOMAIN log[i] = 0 .. Arrivals(x) - 1 /\ Arrivals(x) \in Nat
  BY <1>1 DEF Arrivals
<1>4. f \in DOMAIN log[i] <=> f < Arrivals(x)
  BY <1>1, <1>3
<1>5. CASE status[i].disconnected \/ f < Arrivals(x)
  BY <1>1, <1>2, <1>4, <1>5 DEF Expected
<1>6. CASE ~status[i].disconnected /\ ~(f < Arrivals(x))
  <2>1. QueueInv(x, n, log[i], Column(game, i))
    BY <1>1, <1>6 DEF IInv, SessionInv, QueuesInv, Connected
  <2>2. Column(game, i)[f] = LastBits(x, log[i])
    <3> HIDE DEF x, n
    <3>1. f >= Arrivals(x)
      BY <1>1, <1>3, <1>6
    <3> QED BY <1>1, <2>1, <3>1, PlayedIsLogged DEF x
  <2>3. game[f][i] = LastBits(x, log[i])
    BY <2>2 DEF Column
  <2>4. DOMAIN log[i] = {} <=> Arrivals(x) = 0
    <3> DEFINE a == Arrivals(x)
    <3>1. a \in Nat /\ DOMAIN log[i] = 0 .. a - 1
      BY <1>3
    <3> HIDE DEF a
    <3>2. 0 .. a - 1 = {} <=> a = 0
      BY <3>1
    <3> QED BY <3>1, <3>2 DEF a
  <2>5. Cardinality(DOMAIN log[i]) = Arrivals(x)
    <3> DEFINE a == Arrivals(x) - 1
    <3>1. a \in Int /\ Cardinality(0 .. a) = IF 0 > a THEN 0 ELSE a - 0 + 1
      BY <1>3, FS_Interval
    <3> QED BY <1>3, <3>1
  <2> HIDE DEF x
  <2> QED BY <1>4, <1>6, <2>3, <2>4, <2>5 DEF Expected, LastBits
<1> QED BY <1>5, <1>6
-----------------------------------------------------------------------------
(* The frames for the spectators.                                             *)

(* What a spectator has to be told of player i in frame f.                    *)
Told(st, lg, i, f) ==
    IF st[i].disconnected /\ f > st[i].last_frame THEN NoBits ELSE lg[i][f]

(* Between two confirmations the spectators have been told exactly the        *)
(* confirmed frames, and in the course of one not more than it confirms.      *)
FeedInv ==
    pc \in Stages =>
        /\ \/ Len(fed) <= sync.last_confirmed_frame + 1
           \/ pc = "confirm" /\ Len(fed) <= poll.total + 1
        /\ NumSpectators > 0 => Len(fed) >= sync.last_confirmed_frame + 1
        /\ \A f \in 0 .. Len(fed) - 1, i \in Players :
               fed[f + 1][i] = Told(status, log, i, f)

(* A frame is confirmed in one stage only.                                    *)
LEMMA ConfirmStage ==
  ASSUME pc = "confirm", [Next]_vars
  PROVE  PushToSpectators \/ Confirm \/ UNCHANGED vars
<1>1. ~Application
  BY DEF Application, AddLocal, AdvanceFrame, Idle, DisconnectRemote, DisconnectLocal
<1>2. ~Network
  BY DEF Network, Synchronized, Disconnected, Shutdown, InputArrives, PeerClaims,
         QueueEvent
<1>3. DoPoll => PushToSpectators \/ Confirm
  BY DEF DoPoll, Pumped, OnSynchronized, OnInput, OnDisconnected, Take,
         EventsDone, CheckSimulation, Replay, PollPlayer, PollDone
<1>4. ~Exited
  BY DEF Exited, Stages
<1> QED BY <1>1, <1>2, <1>3, <1>4 DEF Next

(* What the spectators were told stays true as long as it does in the frames  *)
(* up to the last confirmed one.                                              *)
LEMMA FeedKept ==
  ASSUME IInv, FeedInv, pc \in Stages \ {"confirm"}, UNCHANGED fed,
         sync'.last_confirmed_frame = sync.last_confirmed_frame,
         \A i \in Players : \A f \in 0 .. sync.last_confirmed_frame :
             Told(status, log, i, f)' = Told(status, log, i, f)
  PROVE  FeedInv'
<1> DEFINE c == sync.last_confirmed_frame
<1>1. /\ Len(fed) <= c + 1
      /\ NumSpectators > 0 => Len(fed) >= c + 1
      /\ \A f \in 0 .. Len(fed) - 1, i \in Players :
             fed[f + 1][i] = Told(status, log, i, f)
  BY DEF FeedInv
<1>2. Len(fed) \in Nat /\ c \in Int
  <2>1. fed \in Seq([Players -> Bits])
    BY DEF IInv, NetworkInv
  <2> QED BY <2>1, SyncFacts DEF SyncType, Frames, NullFrame
<1>3. \A f \in 0 .. Len(fed) - 1 : f \in 0 .. c
  BY <1>1, <1>2
<1>4. ASSUME NEW f \in 0 .. Len(fed) - 1, NEW i \in Players
      PROVE  fed[f + 1][i] = Told(status, log, i, f)'
  BY <1>1, <1>3
<1> QED BY <1>1, <1>4 DEF FeedInv

LEMMA FeedArrives ==
  ASSUME IInv, BarrierInv, FeedInv, NEW k, NEW frame, NEW bits, Arrives(k, frame, bits)
  PROVE  FeedInv'
<1> DEFINE c == sync.last_confirmed_frame
           x == sync.queues[k]
<1>1. /\ sync'.last_confirmed_frame = c
      /\ NoneBehind(status, status')
      /\ \A i \in Players :
            i # k \/ status[i].disconnected => status'[i] = status[i] /\ log'[i] = log[i]
      /\ \A f \in 0 .. x.last_added_frame : log'[k][f] = log[k][f]
  BY ArrivesFields
<1>2. /\ pc \in Stages \ {"confirm"} /\ UNCHANGED fed
      /\ k \in Connected(status) /\ k \in Players /\ pc \in Resting
  BY DEF Arrives, Connected, Stages, Resting
<1>3. c <= x.last_added_frame /\ c \in Int /\ x.last_added_frame \in Int
  <2>1. QueuesInv(sync, game, status, log)
    BY <1>2, RestingInv DEF IInv, Resting
  <2>2. c \in Frames /\ x.last_added_frame \in Frames
    BY <1>2, SyncFacts DEF SyncType, QueueType
  <2> QED BY <1>2, <2>1, <2>2 DEF BarrierInv, QueuesInv, Frames, NullFrame
<1>4. ASSUME NEW i \in Players, NEW f \in 0 .. c
      PROVE  Told(status, log, i, f)' = Told(status, log, i, f)
  <2>1. CASE i # k
    <3>1. status'[i] = status[i] /\ log'[i] = log[i]
      BY <1>1, <2>1
    <3> QED BY <3>1 DEF Told
  <2>2. CASE i = k
    <3>1. ~status[i].disconnected /\ ~status'[i].disconnected
      BY <1>1, <1>2, <2>2 DEF NoneBehind, Connected
    <3>2. log'[i][f] = log[i][f]
      BY <1>1, <1>3, <2>2
    <3> QED BY <3>1, <3>2 DEF Told
  <2> QED BY <2>1, <2>2
<1> QED BY <1>1, <1>2, <1>4, FeedKept

LEMMA FeedDrops ==
  ASSUME IInv, FeedInv, NEW k, NEW syncto, Drops(k, syncto), pc # "confirm",
         sync'.last_confirmed_frame = sync.last_confirmed_frame
  PROVE  FeedInv'
<1> DEFINE c == sync.last_confirmed_frame
<1>1. /\ pc \in Stages \ {"confirm"} /\ UNCHANGED <<fed, log>> /\ k \in Players
      /\ c <= syncto /\ syncto \in Int /\ c \in Int
      /\ status[k].disconnected => syncto < status[k].last_frame
      /\ status[k].last_frame \in Int
  BY SyncFacts, PlayersArranged
     DEF Drops, Resting, SyncType, Status, Frames, NullFrame
<1>2. /\ status'[k] = [disconnected |-> TRUE, last_frame |-> syncto]
      /\ \A i \in Players \ {k} : status'[i] = status[i]
  BY DropsFields
<1>3. ASSUME NEW i \in Players, NEW f \in 0 .. c
      PROVE  Told(status, log, i, f)' = Told(status, log, i, f)
  <2>1. CASE i # k
    <3>1. status'[i] = status[i]
      BY <1>2, <2>1
    <3> QED BY <1>1, <3>1 DEF Told
  <2>2. CASE i = k
    <3>1. Told(status, log, k, f) = log[k][f]
      BY <1>1 DEF Told
    <3>2. Told(status, log, k, f)' = log[k][f]
      BY <1>1, <1>2 DEF Told
    <3> QED BY <2>2, <3>1, <3>2
  <2> QED BY <2>1, <2>2
<1> QED BY <1>1, <1>3, FeedKept

LEMMA FeedConfirm ==
  ASSUME IInv, EarlyInv, ConfirmedInv, FeedInv, Confirm
  PROVE  FeedInv'
<1> SUFFICES ASSUME pc' \in Stages PROVE FeedInv'
  BY DEF FeedInv
<1>1. /\ pc = "confirm" /\ ~ToPush /\ UNCHANGED <<status, log, fed>>
      /\ sync' = SetLastConfirmedFrame(sync, poll.total)
  BY DEF Confirm, Stages
<1>2. /\ poll.total \in Nat /\ sync.last_confirmed_frame <= poll.total
      /\ sync.last_confirmed_frame \in Int
  BY <1>1, Confirms, SyncFacts DEF SyncType, Frames, NullFrame
<1>3. sync'.last_confirmed_frame = poll.total
  <2>1. sync \in SyncType(Histories, [Players -> QueueType])
    BY SyncFacts
  <2> QED BY <1>1, <2>1 DEF SetLastConfirmedFrame, SyncType
<1>4. Len(fed) \in Nat
  <2>1. fed \in Seq([Players -> Bits])
    BY DEF IInv, NetworkInv
  <2> QED BY <2>1
<1>5. /\ Len(fed) <= poll.total + 1
      /\ \A f \in 0 .. Len(fed) - 1, i \in Players :
             fed[f + 1][i] = Told(status, log, i, f)
  BY <1>1, <1>2, <1>4 DEF FeedInv, Stages
<1>6. NumSpectators > 0 => Len(fed) >= poll.total + 1
  BY <1>1, <1>2, <1>4 DEF ToPush, next_spectator_frame
<1>7. \A f \in 0 .. Len(fed) - 1, i \in Players :
             fed[f + 1][i] = Told(status, log, i, f)'
  BY <1>1, <1>5 DEF Told
<1> QED BY <1>1, <1>3, <1>5, <1>6, <1>7 DEF FeedInv

(* What GetConfirmedInputs writes: every queue of a player who is not absent  *)
(* still has the frame that the spectators have not been told yet.            *)
LEMMA FeedPush ==
  ASSUME IInv, EarlyInv, ConfirmedInv, SimInv, FeedInv, PushToSpectators
  PROVE  FeedInv'
<1> SUFFICES ASSUME pc' \in Stages PROVE FeedInv'
  BY DEF FeedInv
<1> DEFINE f == Len(fed)
           n == sync.framecount
           c == sync.last_confirmed_frame
<1>1. /\ pc = "confirm" /\ pc \in Stages /\ ToPush
      /\ UNCHANGED <<sync, status, log, poll, pc>>
      /\ \E v \in ConfirmedInputs(sync, status, f) : fed' = Append(fed, v)
  BY DEF PushToSpectators, Stages, next_spectator_frame
<1> PICK v \in ConfirmedInputs(sync, status, f) : fed' = Append(fed, v)
  BY <1>1
<1>2. /\ f \in Nat /\ c \in Int /\ n \in Nat /\ fed \in Seq([Players -> Bits])
      /\ v \in [Players -> Bits]
  <2>1. fed \in Seq([Players -> Bits])
    BY DEF IInv, NetworkInv
  <2> QED BY <2>1, SyncFacts DEF SyncType, Frames, NullFrame, ConfirmedInputs
<1>3. /\ poll.total \in Nat /\ \A i \in Connected(status) : poll.total <= status[i].last_frame
      /\ f <= poll.total
  BY <1>1, Confirms DEF ToPush, next_spectator_frame
<1>4. f >= c + 1
  BY <1>1, <1>2 DEF FeedInv, ToPush
<1>5. ASSUME NEW i \in Players PROVE v[i] = Told(status, log, i, f)
  <2> DEFINE x == sync.queues[i]
             d == status[i].last_frame
  <2>1. /\ QueuesInv(sync, game, status, log) /\ Held(sync, game, status, log)
        /\ x \in QueueType /\ d \in Int /\ d >= -1 /\ x.last_added_frame \in Int
        /\ c \in Frames /\ d \in Frames
    <3>1. QueuesInv(sync, game, status, log) /\ Held(sync, game, status, log)
      BY <1>1 DEF IInv, SessionInv, SimInv
    <3>2. x \in QueueType /\ status[i] \in Status /\ c \in Frames
      BY SyncFacts DEF SyncType
    <3> HIDE DEF x, c
    <3>3. d \in Frames
      BY <3>2 DEF Status
    <3>4. x.last_added_frame \in Frames
      BY <3>2 DEF QueueType
    <3> HIDE DEF d
    <3> QED BY <3>1, <3>2, <3>3, <3>4 DEF Frames, NullFrame
  <2>2. v[i] \in IF i \in Absent(status, f) THEN {NoBits}
                 ELSE IF HasConfirmed(x, f) THEN {ConfirmedBits(x, f)} ELSE Bits
    BY DEF ConfirmedInputs
  <2>3. CASE i \in Absent(status, f)
    BY <2>2, <2>3 DEF Absent, Told
  <2>4. CASE i \notin Absent(status, f)
    <3>1. status[i].disconnected => f <= d
      BY <1>2, <2>1, <2>4 DEF Absent
    <3>2. Ring(x, log[i]) /\ Oldest(x) <= Max2(c, 0) /\ f <= x.last_added_frame
      <4>1. CASE status[i].disconnected
        <5>1. Left(x, n, d, c, log[i], Column(game, i))
          BY <2>1, <4>1 DEF Held
        <5>2. ~Closed(n, d, c)
          BY <1>2, <1>4, <2>1, <3>1, <4>1 DEF Closed
        <5>3. QueueInv(x, Min2(n, d + 1), log[i], Column(game, i))
              /\ Oldest(x) <= Max2(c, 0) /\ d <= x.last_added_frame
          BY <5>1, <5>2 DEF Left
        <5> QED BY <1>2, <2>1, <3>1, <4>1, <5>3 DEF QueueInv
      <4>2. CASE ~status[i].disconnected
        <5>1. /\ QueueInv(x, n, log[i], Column(game, i)) /\ d = x.last_added_frame
              /\ poll.total <= d
          BY <1>3, <2>1, <4>2 DEF QueuesInv, Connected
        <5>2. Oldest(x) <= Max2(c, 0)
          BY <2>1, <4>2 DEF Held
        <5> QED BY <1>2, <1>3, <2>1, <5>1, <5>2 DEF QueueInv
      <4> QED BY <4>1, <4>2
    <3>3. f \in Oldest(x) .. Arrivals(x) - 1
      <4>1. Oldest(x) \in Int
        BY <2>1 DEF Oldest, Arrivals, QueueType
      <4>2. Max2(c, 0) <= f /\ Max2(c, 0) \in Int
        BY <1>2, <1>4 DEF Max2
      <4>3. f <= Arrivals(x) - 1 /\ Arrivals(x) \in Int
        BY <1>2, <2>1, <3>2 DEF Arrivals
      <4> HIDE DEF x, f, c
      <4> QED BY <1>2, <3>2, <4>1, <4>2, <4>3
    <3> HIDE DEF x, f
    <3>4. x.inputs[f % L].frame = f /\ x.inputs[f % L].bits = log[i][f]
      BY <2>1, <3>2, <3>3, SlotRead
    <3>5. v[i] = log[i][f]
      BY <2>2, <2>4, <3>4 DEF HasConfirmed, ConfirmedBits, L
    <3>6. ~(status[i].disconnected /\ f > status[i].last_frame)
      BY <2>4 DEF Absent
    <3> QED BY <3>5, <3>6 DEF Told
  <2> QED BY <2>3, <2>4
<1>6. /\ Len(fed') = f + 1 /\ fed'[f + 1] = v
      /\ \A g \in 0 .. f - 1 : fed'[g + 1] = fed[g + 1]
  BY <1>2
<1>7. ASSUME NEW g \in 0 .. Len(fed') - 1, NEW i \in Players
      PROVE  fed'[g + 1][i] = Told(status, log, i, g)'
  <2>1. Told(status, log, i, g)' = Told(status, log, i, g)
    BY <1>1 DEF Told
  <2>2. CASE g = f
    BY <1>5, <1>6, <2>1, <2>2
  <2>3. CASE g # f
    <3>1. g \in 0 .. f - 1
      BY <1>2, <1>6, <2>3
    <3>2. fed[g + 1][i] = Told(status, log, i, g)
      BY <1>1, <3>1 DEF FeedInv
    <3> QED BY <1>6, <2>1, <3>1, <3>2
  <2> QED BY <2>2, <2>3
<1>8. Len(fed') <= poll.total + 1 /\ Len(fed') >= c + 1
  BY <1>2, <1>3, <1>4, <1>6
<1> QED BY <1>1, <1>7, <1>8 DEF FeedInv

LEMMA FeedStep ==
  ASSUME IInv, BarrierInv, RingInvs, EarlyInv, SimInv, FeedInv, Kinds, [Next]_vars
  PROVE  FeedInv'
<1>1. CASE PushToSpectators
  BY <1>1, FeedPush DEF RingInvs
<1>2. CASE Confirm
  BY <1>2, FeedConfirm DEF RingInvs
<1>3. CASE pc = "confirm" /\ UNCHANGED vars
  BY <1>3 DEF vars, FeedInv, Told
<1>4. CASE pc # "confirm" /\ ~Confirm
  <2>1. sync'.last_confirmed_frame = sync.last_confirmed_frame
    BY <1>4, LastConfirmedKept
  <2>2. ASSUME NEW k \in Players, NEW frame \in Nat, NEW bits \in Bits,
               Arrives(k, frame, bits)
        PROVE  FeedInv'
    BY <2>2, FeedArrives
  <2>3. ASSUME NEW k \in Remotes, NEW syncto \in Frames, Drops(k, syncto)
        PROVE  FeedInv'
    BY <1>4, <2>1, <2>3, FeedDrops
  <2>4. CASE UNCHANGED <<status, log, fed>> /\ pc \in Stages
    <3>1. \A i \in Players : \A f \in 0 .. sync.last_confirmed_frame :
             Told(status, log, i, f)' = Told(status, log, i, f)
      BY <2>4 DEF Told
    <3> QED BY <1>4, <2>1, <2>4, <3>1, FeedKept
  <2>5. CheckSimulation \/ AdvanceFrame \/ Replay =>
           UNCHANGED <<status, log, fed>> /\ pc \in Stages
    BY DEF CheckSimulation, AdvanceFrame, Replay, Stages
  <2>6. Stays => UNCHANGED <<status, log, fed>> /\ (pc \in Stages \/ pc' \notin Stages)
    BY DEF Stays, Stages
  <2>7. CASE pc' \notin Stages
    BY <2>7 DEF FeedInv
  <2> QED BY <1>1, <1>4, <2>2, <2>3, <2>4, <2>5, <2>6, <2>7 DEF Kinds
<1> QED BY <1>1, <1>2, <1>3, <1>4, ConfirmStage

(* What they were told is what the game plays.                                *)
LEMMA FinalNow ==
  ASSUME IInv, BarrierInv, RingInvs, EarlyInv, SimInv, FeedInv, pc \in Stages
  PROVE  SpectatorFeedFinal
<1> SUFFICES ASSUME NEW f \in DOMAIN game, f < Len(fed)
             PROVE  fed[f + 1] = [i \in Players |-> Erased(game[f][i])]
  BY DEF SpectatorFeedFinal, next_spectator_frame
<1> DEFINE c == sync.last_confirmed_frame
<1>1. /\ f \in 0 .. sync.framecount - 1 /\ f \in Nat /\ c \in Int
      /\ fed \in Seq([Players -> Bits]) /\ Len(fed) \in Nat
  <2>1. fed \in Seq([Players -> Bits])
    BY DEF IInv, NetworkInv
  <2> QED BY <2>1, SyncFacts DEF SyncType, Frames, NullFrame
<1>2. /\ f \in 0 .. Len(fed) - 1 /\ fed[f + 1] \in [Players -> Bits]
  BY <1>1
<1>3. f <= c \/ (pc = "confirm" /\ f <= poll.total)
  <2>1. pc = "confirm" => poll.total \in Nat
    BY Confirms DEF RingInvs
  <2> QED BY <1>1, <2>1 DEF FeedInv
<1>4. ASSUME NEW i \in Players PROVE fed[f + 1][i] = Erased(game[f][i])
  <2> DEFINE x == sync.queues[i]
  <2>1. /\ QueuesInv(sync, game, status, log) /\ Held(sync, game, status, log)
        /\ x.first_incorrect_frame \in Int /\ x.last_added_frame \in Int
        /\ status[i].last_frame \in Int
        /\ log[i] \in [0 .. Arrivals(x) - 1 -> Bits]
    BY SMTT(60), SyncFacts DEF IInv, SessionInv, SimInv, QueueType, Status, Frames, NullFrame, Logs
  <2>2. x.first_incorrect_frame = NullFrame \/ f < x.first_incorrect_frame
    <3>1. CASE f <= c
      BY <1>1, <2>1, <3>1 DEF Held
    <3>2. CASE pc = "confirm"
      BY <3>2 DEF SimInv, NoneWrong, Stages
    <3> QED BY <1>3, <3>1, <3>2
  <2>3. ~status[i].disconnected => f < Arrivals(x)
    <3> SUFFICES ASSUME ~status[i].disconnected PROVE f < Arrivals(x)
      OBVIOUS
    <3>1. i \in Connected(status) /\ status[i].last_frame = x.last_added_frame
      BY <2>1 DEF QueuesInv, Connected
    <3>2. c <= status[i].last_frame
      BY <3>1 DEF BarrierInv
    <3>3. pc = "confirm" => poll.total \in Nat /\ poll.total <= status[i].last_frame
      BY <3>1, Confirms DEF RingInvs
    <3> QED BY <1>1, <1>3, <2>1, <3>1, <3>2, <3>3 DEF Arrivals
  <2>4. /\ status[i].disconnected /\ f > status[i].last_frame => game[f][i] = Gone
        /\ status[i].disconnected /\ f <= status[i].last_frame =>
             f < Arrivals(sync.queues[i]) /\ game[f][i] = log[i][f]
        /\ ~status[i].disconnected /\ f < Arrivals(sync.queues[i]) =>
             game[f][i] = log[i][f]
    BY <1>1, <2>2, PlayedRight
  <2>5. fed[f + 1][i] = Told(status, log, i, f)
    BY <1>2 DEF FeedInv
  <2>6. CASE status[i].disconnected /\ f > status[i].last_frame
    BY <2>4, <2>5, <2>6 DEF Told, Erased
  <2>7. CASE ~(status[i].disconnected /\ f > status[i].last_frame)
    <3>1. f < Arrivals(x) /\ game[f][i] = log[i][f]
      BY <1>1, <2>1, <2>3, <2>4, <2>7
    <3>2. log[i][f] \in Bits
      BY <1>1, <2>1, <3>1 DEF Arrivals
    <3> QED BY <2>5, <2>7, <3>1, <3>2 DEF Told, Erased
  <2> QED BY <2>6, <2>7
<1> QED BY <1>2, <1>4

(* Nothing is simulated and nobody is told anything by a step that ends the   *)
(* process.                                                                   *)
LEMMA ExitKeeps ==
  ASSUME IInv, Kinds, pc' \notin Stages
  PROVE  UNCHANGED <<game, fed>>
<1>1. ASSUME NEW k \in Players, NEW frame \in Nat, NEW bits \in Bits,
             Arrives(k, frame, bits)
      PROVE  UNCHANGED <<game, fed>>
  BY <1>1 DEF Arrives
<1>2. ASSUME NEW k \in Remotes, NEW syncto \in Frames, Drops(k, syncto)
      PROVE  UNCHANGED <<game, fed>>
  <2>1. pc' # "replay"
    BY DEF Stages
  <2> QED BY <1>2, <2>1, DropsFields DEF Drops
<1>3. CheckSimulation => UNCHANGED <<game, fed>>
  BY DEF CheckSimulation, AdjustSimulation, Stages
<1>4. AdvanceFrame => UNCHANGED <<game, fed>>
  BY DEF AdvanceFrame, SimulateFrame, Stages
<1>5. Replay => UNCHANGED <<game, fed>>
  <2> DEFINE next == IF sync.framecount + 1 = replay.until THEN replay.resume ELSE "replay"
  <2>1. next \in Stages
    BY SyncFacts DEF Callers, Stages
  <2> HIDE DEF next
  <2>2. Replay => SimulateFrame(next) /\ UNCHANGED fed
    BY DEF Replay, next
  <2> QED BY <2>1, <2>2 DEF SimulateFrame
<1>6. PushToSpectators \/ Confirm \/ Stays => UNCHANGED <<game, fed>>
  BY DEF PushToSpectators, Confirm, Stays, Stages
<1> QED BY <1>1, <1>2, <1>3, <1>4, <1>5, <1>6 DEF Kinds
-----------------------------------------------------------------------------
ConsistencyInv == BehindInv /\ EarlyInv /\ SimInv /\ FeedInv

LEMMA ConsistencyInit == ASSUME Init PROVE ConsistencyInv
<1>1. sync.last_confirmed_frame = NullFrame /\ fed = <<>>
  BY DEF Init, InitSync
<1>2. FeedInv
  BY <1>1 DEF FeedInv, NullFrame
<1> QED BY <1>2, SimInit DEF ConsistencyInv

LEMMA ConsistencyStep ==
  ASSUME IInv, BarrierInv, RingInvs, ReportedInv, ConsistencyInv,
         LocalPlayer \notin Leavers, [Next]_vars
  PROVE  ConsistencyInv' /\ Kinds
<1>1. BehindInv /\ EarlyInv /\ SimInv /\ FeedInv /\ StartInv
  BY DEF ConsistencyInv, RingInvs
<1>2. Kinds
  BY <1>1, StepKinds
<1>3. BehindInv' /\ EarlyInv' /\ SimInv' /\ FeedInv'
  BY <1>1, <1>2, BehindStep, EarlyStep, SimStep, FeedStep
<1> QED BY <1>2, <1>3 DEF ConsistencyInv

LEMMA FinalStep ==
  ASSUME IInv, BarrierInv, RingInvs, ReportedInv, ConsistencyInv,
         LocalPlayer \notin Leavers, SpectatorFeedFinal, [Next]_vars
  PROVE  pc' \in Stages \/ SpectatorFeedFinal'
<1>1. pc' \notin Stages => UNCHANGED <<game, fed>>
  BY ConsistencyStep, ExitKeeps
<1>2. UNCHANGED <<game, fed>> => SpectatorFeedFinal'
  BY DEF SpectatorFeedFinal, next_spectator_frame
<1> QED BY <1>1, <1>2

THEOREM ConsistencyInvariant ==
  NumPlayers <= 3 /\ LocalPlayer \notin Leavers => (Spec => []ConsistencyInv)
<1> SUFFICES ASSUME NumPlayers <= 3, LocalPlayer \notin Leavers
             PROVE  Spec => []ConsistencyInv
  OBVIOUS
<1>1. Init => ConsistencyInv
  BY ConsistencyInit
<1>2. IInv /\ BarrierInv /\ RingInvs /\ ReportedInv /\ ConsistencyInv /\ [Next]_vars
         => ConsistencyInv'
  BY ConsistencyStep
<1> QED BY <1>1, <1>2, Invariant, BarrierInvariant, RingInvariant, ReportedInvariant,
           PTL DEF Spec

(* p2p.cpp:101, sync.cpp:128: with up to three players, whenever a call       *)
(* returns to the application its game is the one that the inputs known by    *)
(* then produce in every frame back to the first, whatever arrived late,      *)
(* whoever was disconnected and at whichever frame, and whichever rollbacks   *)
(* that caused -- as long as the application does not disconnect its own      *)
(* player, which rolls nothing back.                                          *)
THEOREM GameConsistent ==
  NumPlayers <= 3 /\ LocalPlayer \notin Leavers => (Spec => []SimulationConsistent)
<1> SUFFICES ASSUME NumPlayers <= 3, LocalPlayer \notin Leavers
             PROVE  Spec => []SimulationConsistent
  OBVIOUS
<1>1. IInv /\ ConsistencyInv => SimulationConsistent
  BY ConsistentNow DEF ConsistencyInv
<1> QED BY <1>1, Invariant, ConsistencyInvariant, PTL

(* p2p.cpp:130: under the same conditions a frame that was pushed to the      *)
(* spectators, which cannot be taken back, is what this peer's own game plays *)
(* in that frame ever after, up to the end of the process.                    *)
THEOREM FeedFinal ==
  NumPlayers <= 3 /\ LocalPlayer \notin Leavers => (Spec => []SpectatorFeedFinal)
<1> SUFFICES ASSUME NumPlayers <= 3, LocalPlayer \notin Leavers
             PROVE  Spec => []SpectatorFeedFinal
  OBVIOUS
<1> DEFINE Running == pc \in Stages
<1>1. Init => SpectatorFeedFinal
  BY DEF Init, NewGame, SpectatorFeedFinal
<1>2. IInv /\ BarrierInv /\ RingInvs /\ ConsistencyInv /\ Running => SpectatorFeedFinal
  BY FinalNow DEF ConsistencyInv
<1>3. IInv /\ BarrierInv /\ RingInvs /\ ReportedInv /\ ConsistencyInv
        /\ SpectatorFeedFinal /\ [Next]_vars => SpectatorFeedFinal' \/ Running'
  BY FinalStep
<1> HIDE DEF Running
<1> QED BY <1>1, <1>2, <1>3, Invariant, BarrierInvariant, RingInvariant,
           ReportedInvariant, ConsistencyInvariant, PTL DEF Spec
-----------------------------------------------------------------------------
(* Who has left.                                                              *)

(* A player is absent from the game in no frame that it was not disconnected  *)
(* at or before, also while mispredictions are known.                         *)
GoneInv ==
    \A i \in Players : \A f \in DOMAIN game :
        game[f][i] = Gone => status[i].disconnected /\ f > status[i].last_frame

(* What a step makes of the history: a beginning of it, and at most one frame *)
(* more, in which the players are absent who are.                             *)
LEMMA HistoryStep ==
  ASSUME IInv, SimInv, Kinds, NEW f \in DOMAIN game', NEW i \in Players
  PROVE  \/ f \in DOMAIN game /\ game'[f] = game[f]
         \/ /\ UNCHANGED status /\ f = sync.framecount
            /\ game'[f][i] = Gone => i \in Absent(status, f)
<1> DEFINE n == sync.framecount
           kept == f \in DOMAIN game /\ game'[f] = game[f]
<1>1. n \in Nat /\ DOMAIN game = 0 .. n - 1
    BY SyncFacts
<1>2. ASSUME NEW frame \in Frames, frame < n, NEW resume, pc \in Resting,
             AdjustSimulation(frame, resume)
      PROVE  kept
  <2>1. CASE UNCHANGED game
      BY <2>1
  <2>2. CASE /\ frame \in Nat /\ DOMAIN game' = 0 .. frame - 1
             /\ SameBefore(frame, game, game')
      BY <1>1, <1>2, <2>2 DEF SameBefore
  <2> QED BY <1>2, <2>1, <2>2, AdjustFields
<1>3. ASSUME NEW k \in Players, NEW frame \in Nat, NEW bits \in Bits,
             Arrives(k, frame, bits)
      PROVE  kept
    BY <1>3 DEF Arrives
<1>4. ASSUME NEW k \in Remotes, NEW syncto \in Frames, Drops(k, syncto)
      PROVE  kept
  <2>1. pc \in Resting /\ (UNCHANGED game \/ (syncto < n /\ AdjustSimulation(syncto, pc)))
      BY <1>4 DEF Drops, DisconnectPlayerQueue
  <2> QED BY <1>2, <2>1
<1>5. CASE CheckSimulation
  <2>1. pc = "check" /\ pc \in Resting
      BY <1>5 DEF CheckSimulation, Resting, Stages
  <2>2. CASE FirstIncorrectFrames(sync) = {}
      BY <1>5, <2>2 DEF CheckSimulation
  <2>3. CASE FirstIncorrectFrames(sync) # {}
    <3>1. AdjustSimulation(SeekTo(sync), "poll")
        BY <1>5, <2>3 DEF CheckSimulation
    <3>2. SeekTo(sync) \in Frames /\ SeekTo(sync) < n
        BY <2>1, <2>3, SeekToSettled
    <3> QED BY <1>2, <2>1, <3>1, <3>2
  <2> QED BY <2>2, <2>3
<1>6. CASE AdvanceFrame \/ Replay
  <2>1. PICK next : SimulateFrame(next) /\ UNCHANGED status
      BY <1>6 DEF AdvanceFrame, Replay
  <2>2. CASE UNCHANGED game
      BY <2>2
  <2>3. CASE game' = AdvanceGame(sync, status, game)
    <3>1. /\ sync \in SyncType(Histories, [Players -> QueueType])
          /\ sync.queues \in [Players -> QueueType]
        BY SyncFacts DEF SyncType
    <3>2. f \in 0 .. n - 1 \/ f = n
        BY <1>1, <2>3, SyncFacts DEF AdvanceGame
    <3>3. CASE f \in 0 .. n - 1
        BY <1>1, <2>3, <3>3, SyncFacts DEF AdvanceGame
    <3>4. CASE f = n
      <4>1. game'[n][i] = IF i \in Absent(status, n) THEN Gone
                          ELSE GetInputBits(sync.queues[i], n)
          BY <1>1, <2>3, SyncFacts DEF AdvanceGame, SynchronizedInputs
      <4>2. GetInputBits(sync.queues[i], n) \in Bits
          BY <1>1, <3>1, GetInputType
      <4>3. game'[n][i] = Gone => i \in Absent(status, n)
          BY <4>1, <4>2, SyncAssumption
      <4> QED BY <2>1, <3>4, <4>3
    <3> QED BY <3>2, <3>3, <3>4
  <2> QED BY <2>1, <2>2, <2>3 DEF SimulateFrame
<1>7. CASE PushToSpectators \/ Confirm \/ Stays
    BY <1>7 DEF PushToSpectators, Confirm, Stays
<1> QED BY <1>3, <1>4, <1>5, <1>6, <1>7 DEF Kinds

LEMMA GoneStep ==
  ASSUME IInv, SimInv, Kinds, GoneInv, [Next]_vars
  PROVE  GoneInv'
<1> SUFFICES ASSUME NEW i \in Players, NEW f \in DOMAIN game', game'[f][i] = Gone
             PROVE  status'[i].disconnected /\ f > status'[i].last_frame
    BY DEF GoneInv
<1>1. CASE f \in DOMAIN game /\ game'[f] = game[f]
  <2>1. status[i].disconnected /\ f > status[i].last_frame
      BY <1>1 DEF GoneInv
  <2>2. status'[i].disconnected /\ status'[i].last_frame <= status[i].last_frame
      BY <2>1, StaysGone
  <2>3. f \in Int /\ status[i].last_frame \in Int
      BY <1>1, SyncFacts DEF Status, Frames, NullFrame
  <2>4. status'[i].last_frame \in Int
      BY SessionStep DEF StepKeeps, SessionTypes, Status, Frames, NullFrame
  <2> QED BY <2>1, <2>2, <2>3, <2>4
<1>2. CASE UNCHANGED status /\ i \in Absent(status, f)
    BY <1>2 DEF Absent
<1> QED BY <1>1, <1>2, HistoryStep

(* Who has been absent once is absent from then on, because it has left.      *)
LEMMA GoneNow ==
  ASSUME IInv, SimInv, GoneInv, pc \in Stages
  PROVE  GoneStaysGone
<1> SUFFICES ASSUME NEW i \in Players, NEW f \in DOMAIN game, NEW g \in DOMAIN game,
                    f < g, game[f][i] = Gone
             PROVE  game[g][i] = Gone
    BY DEF GoneStaysGone
<1>1. status[i].disconnected /\ f > status[i].last_frame
    BY DEF GoneInv
<1>2. /\ DOMAIN game = 0 .. sync.framecount - 1 /\ sync.framecount \in Nat
      /\ status[i].last_frame \in Int
    BY SyncFacts DEF Status, Frames, NullFrame
<1>3. Left(sync.queues[i], sync.framecount, status[i].last_frame,
           sync.last_confirmed_frame, log[i], Column(game, i))
    BY <1>1 DEF SimInv, Held
<1>4. g \in 0 .. sync.framecount - 1 /\ g > status[i].last_frame
    BY <1>1, <1>2
<1>5. Column(game, i)[g] = Gone
    BY <1>3, <1>4 DEF Left
<1> QED BY <1>5 DEF Column

(* ggponet.h:474: with up to three players a player who was absent in a frame *)
(* is absent from every later one, whatever rollbacks and disconnects come,   *)
(* unless the application disconnects its own player, which raises the last   *)
(* frame of players who had left.                                             *)
THEOREM GoneForGood ==
  NumPlayers <= 3 /\ LocalPlayer \notin Leavers => (Spec => []GoneStaysGone)
<1> SUFFICES ASSUME NumPlayers <= 3, LocalPlayer \notin Leavers
             PROVE  Spec => []GoneStaysGone
    OBVIOUS
<1> DEFINE Running == pc \in Stages
<1>1. Init => GoneInv /\ GoneStaysGone
    BY DEF Init, NewGame, GoneInv, GoneStaysGone
<1>2. IInv /\ BarrierInv /\ RingInvs /\ ReportedInv /\ ConsistencyInv /\ GoneInv
        /\ [Next]_vars => GoneInv'
    BY ConsistencyStep, GoneStep DEF ConsistencyInv
<1>3. IInv /\ ConsistencyInv /\ GoneInv /\ Running => GoneStaysGone
    BY GoneNow DEF ConsistencyInv
<1>4. IInv /\ BarrierInv /\ RingInvs /\ ReportedInv /\ ConsistencyInv
        /\ GoneStaysGone /\ [Next]_vars => GoneStaysGone' \/ Running'
  <2> SUFFICES ASSUME IInv, BarrierInv, RingInvs, ReportedInv, ConsistencyInv,
                      GoneStaysGone, [Next]_vars, pc' \notin Stages
               PROVE  GoneStaysGone'
      OBVIOUS
  <2>1. UNCHANGED game
      BY ConsistencyStep, ExitKeeps
  <2> QED BY <2>1 DEF GoneStaysGone
<1> HIDE DEF Running
<1> QED BY <1>1, <1>2, <1>3, <1>4, Invariant, BarrierInvariant, RingInvariant,
           ReportedInvariant, ConsistencyInvariant, PTL DEF Spec
-----------------------------------------------------------------------------
(* The queue of a player who has left is asked for nothing any more, but its  *)
(* confirmed frames are still discarded.                                      *)

(* What can be discarded is what is left of the ring, up to the last frame    *)
(* requested, until all of it lies before the last confirmed frame c: then    *)
(* the tail is put at the head, again and again.                              *)
Spent(x, c, l) ==
    /\ x \in QueueType
    /\ \/ /\ Ring(x, l) /\ Oldest(x) <= Max2(c, 0)
          /\ \/ x.last_frame_requested = NullFrame
             \/ Oldest(x) <= x.last_frame_requested + 1
       \/ /\ x.length >= 0 /\ x.last_added_frame < c
          /\ \/ x.last_frame_requested = NullFrame
             \/ x.last_frame_requested >= x.last_added_frame

(* A queue under its contract is one.                                         *)
LEMMA SpentWhileAsked ==
  ASSUME NEW x, NEW n, NEW l, NEW p, QueueInv(x, n, l, p), NEW c,
         Oldest(x) <= Max2(c, 0), Oldest(x) <= n
  PROVE  Spent(x, c, l)
<1>1. x \in QueueType /\ Ring(x, l) /\ n \in Nat /\ x.last_frame_requested \in {NullFrame, n - 1}
  BY DEF QueueInv, Consistent
<1>2. Oldest(x) \in Nat
  BY <1>1, Numbers
<1> HIDE DEF Oldest
<1>3. x.last_frame_requested = n - 1 => Oldest(x) <= x.last_frame_requested + 1
  BY <1>1, <1>2
<1> QED BY <1>1, <1>3 DEF Spent

LEMMA SpentReset ==
  ASSUME NEW x, NEW c, NEW l, Spent(x, c, l)
  PROVE  Spent(ResetPrediction(x), c, l)
<1> DEFINE y == ResetPrediction(x)
<1>1. /\ y \in QueueType /\ SameInputs(x, y) /\ y.last_frame_requested = NullFrame
  BY ResetFields, ResetType DEF Spent
<1>2. /\ Arrivals(y) = Arrivals(x) /\ Oldest(y) = Oldest(x)
      /\ Ring(x, l) => Ring(y, l)
  BY <1>1, SameRing
<1>3. y.length = x.length /\ y.last_added_frame = x.last_added_frame
  BY <1>1 DEF SameInputs
<1> HIDE DEF y
<1> QED BY <1>1, <1>2, <1>3 DEF Spent, y

(* What a poll confirms, e, leaves it so, and no ASSERT fires.                *)
LEMMA SpentDiscards ==
  ASSUME NEW x, NEW c \in Frames, NEW l, Spent(x, c, l), NEW e \in Nat \ {0}, c <= e
  PROVE  /\ DiscardConfirmedFramesAsserts(x, e - 1)
         /\ Spent(DiscardConfirmedFrames(x, e - 1), e, l)
<1> DEFINE f == e - 1
           k == DiscardTo(x, f)
           y == DiscardConfirmedFrames(x, f)
<1>0. /\ f \in Nat /\ e = f + 1 /\ c \in Int /\ Max2(e, 0) = e /\ Max2(c, 0) <= e
  BY DEF Frames, NullFrame, Max2
<1>1. /\ x \in QueueType /\ x.last_added_frame \in Int /\ x.last_added_frame >= -1
      /\ x.last_frame_requested \in Nat \cup {-1} /\ x.length \in Int
      /\ NullFrame = -1
  BY DEF Spent, QueueType, Frames, NullFrame
<1>2. /\ k \in Int /\ k <= f
      /\ k = f \/ k = x.last_frame_requested
      /\ x.last_frame_requested = -1 => k = f
      /\ x.last_frame_requested # -1 => k <= x.last_frame_requested
  BY <1>0, <1>1 DEF DiscardTo
<1>3. /\ Discarded(x, k, y) /\ SamePrediction(x, y) /\ y \in QueueType
  BY <1>0, <1>1, DiscardFields, DiscardType
<1> SUFFICES DiscardConfirmedFramesAsserts(x, f) /\ Spent(y, e, l)
  OBVIOUS
<1>4. CASE k < x.last_added_frame
  <2>1. Ring(x, l) /\ Oldest(x) <= Max2(c, 0) /\ k >= Oldest(x) - 1
    <3> HIDE DEF f, k, y
    <3>1. Ring(x, l) => Oldest(x) \in Nat
      BY <1>1, Numbers
    <3>2. Max2(c, 0) \in Int
      BY <1>0 DEF Max2
    <3> HIDE DEF Oldest
    <3> QED BY <1>0, <1>1, <1>2, <1>4, <3>1, <3>2 DEF Spent
  <2>2. DiscardConfirmedFramesAsserts(x, f)
    BY <1>0, <1>1, <1>4, <2>1, DiscardAssertsRing
  <2>3. Ring(y, l) /\ Oldest(y) = k + 1 /\ y.last_frame_requested = x.last_frame_requested
    BY <1>0, <1>1, <1>4, <2>1, DiscardKeepsRing DEF SamePrediction
  <2> HIDE DEF f, k, y, Oldest
  <2>4. k + 1 <= e /\ (x.last_frame_requested # -1 => k + 1 <= x.last_frame_requested + 1)
    BY <1>0, <1>1, <1>2
  <2>5. Oldest(y) <= Max2(e, 0)
    BY <1>0, <2>3, <2>4
  <2>6. y.last_frame_requested = NullFrame \/ Oldest(y) <= y.last_frame_requested + 1
    BY <1>1, <2>3, <2>4
  <2>7. Spent(y, e, l)
    BY Zenon, <1>3, <2>3, <2>5, <2>6 DEF Spent
  <2> QED BY <2>2, <2>7
<1>5. CASE ~(k < x.last_added_frame)
  <2>1. y = [x EXCEPT !.tail = x.head]
    <3> HIDE DEF f
    <3> QED BY <1>1, <1>2, <1>5 DEF DiscardConfirmedFrames
  <2>2. /\ y.length = x.length /\ y.last_added_frame = x.last_added_frame
        /\ y.last_frame_requested = x.last_frame_requested
    <3> HIDE DEF y
    <3> QED BY <1>1, <2>1 DEF QueueType
  <2>3. x.length >= 0
    BY DEF Spent, Ring
  <2>4. DiscardConfirmedFramesAsserts(x, f)
    <3> HIDE DEF f, k, y
    <3>1. y.length >= 0
      BY <2>2, <2>3
    <3> QED BY <1>0, <1>2, <1>5, <3>1, <1>1 DEF DiscardConfirmedFramesAsserts, y, k
  <2> HIDE DEF f, k, y
  <2>5. x.last_added_frame < e
    BY <1>0, <1>1, <1>2, <1>5
  <2>6. y.last_frame_requested = NullFrame \/ y.last_frame_requested >= y.last_added_frame
    BY <1>1, <1>2, <1>5, <2>2
  <2>7. y.length >= 0 /\ y.last_added_frame < e
    BY <2>2, <2>3, <2>5
  <2>8. Spent(y, e, l)
    BY Zenon, <1>3, <2>6, <2>7 DEF Spent
  <2> QED BY <2>4, <2>8
<1> QED BY <1>4, <1>5
-----------------------------------------------------------------------------
(* All the queues, with room for what is to come.                             *)

(* The queue x of a player who has left after frame d, n being the current    *)
(* frame, holds nothing but what may still be asked for.                      *)
LeftRoom(x, n, d, c, l) ==
    /\ Spent(x, c, l)
    /\ Closed(n, d, c) \/ Oldest(x) <= Min2(n, d + 1)

(* The queues of connected players hold no frame before low and none but the  *)
(* next after the current one is the oldest.                                  *)
Rooms(s, st, lg, low) ==
    \A i \in Players :
        LET x == s.queues[i]
        IN  /\ ~st[i].disconnected =>
                 Oldest(x) <= s.framecount /\ low <= Oldest(x)
            /\ st[i].disconnected =>
                 LeftRoom(x, s.framecount, st[i].last_frame, s.last_confirmed_frame, lg[i])

LEMMA SimulateRooms ==
  ASSUME NEW States, NEW s \in SyncType(States, [Players -> QueueType]),
         NEW st \in [Players -> Status], NEW lg, NEW g, NEW low,
         Held(s, g, st, lg), Rooms(s, st, lg, low),
         NEW t, t.framecount = s.framecount + 1,
         t.last_confirmed_frame = s.last_confirmed_frame,
         t.queues = SynchronizeInputs(s, st).queues
  PROVE  Rooms(t, st, lg, low)
<1> DEFINE n == s.framecount
           c == s.last_confirmed_frame
<1>1. n \in Nat /\ s.queues \in [Players -> QueueType] /\ c \in Frames /\ c \in Int
  BY DEF SyncType, Frames, NullFrame
<1> SUFFICES ASSUME NEW i \in Players
             PROVE  LET y == t.queues[i]
                        d == st[i].last_frame
                    IN  /\ ~st[i].disconnected => Oldest(y) <= n + 1 /\ low <= Oldest(y)
                        /\ st[i].disconnected => LeftRoom(y, n + 1, d, c, lg[i])
  BY DEF Rooms
<1> DEFINE x == s.queues[i]
           y == t.queues[i]
           d == st[i].last_frame
<1>2. x \in QueueType /\ d \in Int
  BY <1>1 DEF Status, Frames, NullFrame
<1>3. /\ ~st[i].disconnected => Oldest(x) <= n /\ low <= Oldest(x)
      /\ st[i].disconnected => /\ LeftRoom(x, n, d, c, lg[i])
                               /\ Left(x, n, d, c, lg[i], Column(g, i))
  BY DEF Rooms, Held
<1>4. Oldest(x) \in Int
  BY <1>2 DEF Oldest, Arrivals, QueueType, Frames, NullFrame
<1>5. CASE i \in Absent(st, n)
  <2>1. y = x /\ st[i].disconnected /\ n > d
    BY <1>5 DEF SynchronizeInputs, Absent, SyncType
  <2> HIDE DEF x, y, n, c, d, Oldest
  <2>2. Closed(n, d, c) => Closed(n + 1, d, c)
    BY <1>1, <1>2 DEF Closed
  <2>3. Min2(n, d + 1) = Min2(n + 1, d + 1)
    BY <1>1, <1>2, <2>1 DEF Min2
  <2>4. LeftRoom(y, n + 1, d, c, lg[i])
    BY <1>3, <2>1, <2>2, <2>3 DEF LeftRoom
  <2> QED BY <2>1, <2>4 DEF y, d
<1>6. CASE i \notin Absent(st, n)
  <2>1. y = GetInput(x, n) /\ (st[i].disconnected => n <= d)
    BY <1>1, <1>2, <1>6 DEF SynchronizeInputs, Absent, SyncType
  <2> HIDE DEF x, y, n, c, d
  <2>2. /\ SameInputs(x, y) /\ y \in QueueType /\ y.last_frame_requested = n
        /\ Oldest(y) = Oldest(x) /\ (Ring(x, lg[i]) => Ring(y, lg[i]))
    BY <1>1, <1>2, <2>1, GetInputFields, GetInputType, SameRing
  <2> HIDE DEF Oldest
  <2>3. CASE ~st[i].disconnected
    BY <1>1, <1>3, <1>4, <2>2, <2>3 DEF y
  <2>4. CASE st[i].disconnected
    <3>1. ~Closed(n, d, c) /\ Min2(n, d + 1) = n /\ Min2(n + 1, d + 1) = n + 1
      BY <1>1, <1>2, <2>1, <2>4 DEF Closed, Min2
    <3>2. Ring(x, lg[i]) /\ Oldest(x) <= Max2(c, 0) /\ Oldest(x) <= n
      BY <1>3, <2>4, <3>1 DEF Left, QueueInv, LeftRoom
    <3>3. Spent(y, c, lg[i])
      BY <1>1, <1>4, <2>2, <3>2 DEF Spent
    <3>4. Oldest(y) <= n + 1
      BY <1>1, <1>4, <2>2, <3>2
    <3>5. LeftRoom(y, n + 1, d, c, lg[i])
      BY <3>1, <3>3, <3>4 DEF LeftRoom
    <3> QED BY <2>4, <3>5 DEF y, d
  <2> QED BY <2>3, <2>4
<1> QED BY <1>5, <1>6

(* A rollback to a frame no earlier than the last confirmed one.              *)
LEMMA RollbackRooms ==
  ASSUME NEW States, NEW s \in SyncType(States, [Players -> QueueType]),
         NEW st \in [Players -> Status], NEW st2, NEW lg, NEW low,
         NEW g, NEW h, QueuesInv(s, g, st, lg), Held(s, g, st, lg), Rooms(s, st, lg, low),
         NEW frame \in Nat, s.last_confirmed_frame <= frame,
         Leaves(s, st, st2, frame), frame < s.framecount,
         NEW t, t.framecount = frame, t.last_confirmed_frame = s.last_confirmed_frame,
         t.queues = [i \in Players |-> ResetPrediction(s.queues[i])],
         Held(t, h, st2, lg)
  PROVE  Rooms(t, st2, lg, low)
<1> DEFINE n == s.framecount
           c == s.last_confirmed_frame
<1>1. /\ n \in Nat /\ s.queues \in [Players -> QueueType] /\ c \in Frames /\ c \in Int
      /\ c <= frame /\ Max2(c, 0) <= frame /\ Max2(c, 0) \in Nat /\ c <= Max2(c, 0)
      /\ c >= 0 => Max2(c, 0) = c
  BY DEF SyncType, Frames, NullFrame, Max2
<1> SUFFICES ASSUME NEW i \in Players
             PROVE  LET y == t.queues[i]
                        e == st2[i].last_frame
                    IN  /\ ~st2[i].disconnected => Oldest(y) <= frame /\ low <= Oldest(y)
                        /\ st2[i].disconnected => LeftRoom(y, frame, e, c, lg[i])
  BY DEF Rooms
<1> DEFINE x == s.queues[i]
           y == t.queues[i]
           d == st[i].last_frame
           e == st2[i].last_frame
<1>2. /\ x \in QueueType /\ y = ResetPrediction(x) /\ d \in Frames /\ d \in Int
      /\ e \in Int /\ e >= -1
  BY <1>1 DEF Status, Frames, NullFrame, Leaves
<1>3. /\ ~st[i].disconnected => /\ Oldest(x) <= n /\ low <= Oldest(x)
                                /\ Oldest(x) <= Max2(c, 0)
                                /\ QueueInv(x, n, lg[i], Column(g, i))
      /\ st[i].disconnected => Spent(x, c, lg[i])
      /\ ~st2[i].disconnected => ~st[i].disconnected
      /\ st2[i].disconnected => Left(y, frame, e, c, lg[i], Column(h, i))
  BY DEF Rooms, Held, LeftRoom, QueuesInv, Connected, Leaves
<1> HIDE DEF x, y, n, c, d, e
<1>4. Oldest(y) = Oldest(x) /\ Oldest(x) \in Int
  <2>1. Oldest(y) = Oldest(x)
    BY <1>2, ResetFields, SameRing
  <2> QED BY <1>2, <2>1 DEF Oldest, Arrivals, QueueType, Frames, NullFrame
<1> HIDE DEF Oldest
<1>5. CASE ~st2[i].disconnected
  BY <1>1, <1>3, <1>4, <1>5 DEF y
<1>6. CASE st2[i].disconnected
  <2>1. Spent(x, c, lg[i])
    BY <1>3, SpentWhileAsked
  <2>2. Spent(y, c, lg[i])
    BY <1>2, <2>1, SpentReset
  <2>3. ASSUME ~Closed(frame, e, c) PROVE Oldest(y) <= Min2(frame, e + 1)
    <3>1. Oldest(y) <= Max2(c, 0)
      BY <1>3, <1>6, <2>3 DEF Left
    <3>2. Max2(c, 0) <= Min2(frame, e + 1) /\ Min2(frame, e + 1) \in Int
      BY <1>1, <1>2, <2>3 DEF Closed, Min2, Max2
    <3> QED BY <1>1, <1>4, <3>1, <3>2
  <2>4. LeftRoom(y, frame, e, c, lg[i])
    BY <2>2, <2>3 DEF LeftRoom
  <2> QED BY <1>6, <2>4 DEF y, e
<1> QED BY <1>5, <1>6

(* A player disconnected after a frame that is still to be simulated.         *)
LEMMA LeavesRooms ==
  ASSUME NEW States, NEW s \in SyncType(States, [Players -> QueueType]),
         NEW st \in [Players -> Status], NEW st2, NEW lg, NEW low, NEW g,
         QueuesInv(s, g, st, lg), Held(s, g, st, lg), Rooms(s, st, lg, low),
         NEW frame \in Frames, s.framecount <= frame, Leaves(s, st, st2, frame)
  PROVE  Rooms(s, st2, lg, low)
<1> DEFINE n == s.framecount
           c == s.last_confirmed_frame
<1>1. n \in Nat /\ c \in Int /\ frame \in Int /\ n <= frame
  BY DEF SyncType, Frames, NullFrame
<1> SUFFICES ASSUME NEW i \in Players
             PROVE  LET x == s.queues[i]
                        e == st2[i].last_frame
                    IN  /\ ~st2[i].disconnected => Oldest(x) <= n /\ low <= Oldest(x)
                        /\ st2[i].disconnected => LeftRoom(x, n, e, c, lg[i])
  BY DEF Rooms
<1>2. CASE st2[i] = st[i]
  BY <1>2 DEF Rooms
<1>3. CASE st2[i] # st[i]
  <2> DEFINE x == s.queues[i]
             d == st[i].last_frame
  <2>1. /\ st2[i] = [disconnected |-> TRUE, last_frame |-> frame]
        /\ st[i].disconnected => frame < d
    BY <1>3 DEF Leaves
  <2>2. d \in Int
    BY DEF Status, Frames, NullFrame
  <2>3. Spent(x, c, lg[i]) /\ Oldest(x) <= n
    <3>1. CASE st[i].disconnected
      <4>1. ~Closed(n, d, c) /\ Min2(n, d + 1) = n
        BY <1>1, <2>1, <2>2, <3>1 DEF Closed, Min2
      <4>2. LeftRoom(x, n, d, c, lg[i])
        BY <3>1 DEF Rooms
      <4> QED BY <4>1, <4>2 DEF LeftRoom
    <3>2. CASE ~st[i].disconnected
      <4>1. /\ QueueInv(x, n, lg[i], Column(g, i)) /\ Oldest(x) <= Max2(c, 0)
            /\ Oldest(x) <= n
        BY <3>2 DEF QueuesInv, Connected, Held, Rooms
      <4> QED BY <4>1, SpentWhileAsked
    <3> QED BY <3>1, <3>2
  <2> HIDE DEF x, n, c
  <2>4. Min2(n, frame + 1) = n
    BY <1>1 DEF Min2
  <2>5. LeftRoom(x, n, frame, c, lg[i])
    BY <2>3, <2>4 DEF LeftRoom
  <2> QED BY <2>1, <2>5 DEF x
<1> QED BY <1>2, <1>3

(* An input for a player who is connected.                                    *)
LEMMA AddRooms ==
  ASSUME NEW States, NEW s \in SyncType(States, [Players -> QueueType]),
         NEW st \in [Players -> Status], NEW lg, NEW g, NEW low,
         QueuesInv(s, g, st, lg), Settled(s, st), Logs(s, lg), Rooms(s, st, lg, low),
         NEW k \in Connected(st), NEW frame \in Nat, NEW bits \in Bits,
         NEW t, NEW st2, NEW lg2, Adds(s, st, lg, k, frame, bits, t, st2, lg2),
         t.last_confirmed_frame = s.last_confirmed_frame
  PROVE  Rooms(t, st2, lg2, low)
<1> DEFINE x == s.queues[k]
           n == s.framecount
           target == TargetFrame(x, frame)
           y == AddInput(x, frame, bits)
<1>1. /\ k \in Players /\ ~st[k].disconnected /\ n \in Nat
      /\ s.queues \in [Players -> QueueType] /\ DOMAIN lg = Players
      /\ QueueInv(x, n, lg[k], Column(g, k)) /\ x.last_frame_requested = n - 1
      /\ x \in QueueType
  BY DEF Connected, SyncType, Logs, QueuesInv, Settled
<1>2. /\ AddInputAsserts(x, frame)
      /\ t.framecount = n
      /\ t.queues = [s.queues EXCEPT ![k] = y]
      /\ st2 = IF target = NullFrame THEN st
               ELSE [st EXCEPT ![k].last_frame = target]
      /\ lg2 = IF target = NullFrame THEN lg
               ELSE [lg EXCEPT ![k] = LogAfter(x, bits, target, lg[k])]
  BY DEF Adds
<1>3. Oldest(y) = Oldest(x)
  <2>1. CASE target = NullFrame
    <3>1. SameInputs(x, y)
      BY <1>1, <2>1, DroppedInputFields
    <3> QED BY <3>1, SameRing
  <2>2. CASE target # NullFrame
    <3>1. x.length + target - ExpectedFrame(x) + 1 <= L
      BY <1>2, <2>2 DEF AddInputAsserts, L
    <3> HIDE DEF x, n
    <3> QED BY <1>1, <2>2, <3>1, AddKeeps
  <2> QED BY <2>1, <2>2
<1>4. /\ t.queues[k] = y /\ ~st2[k].disconnected
      /\ \A i \in Players : i # k =>
           t.queues[i] = s.queues[i] /\ st2[i] = st[i] /\ lg2[i] = lg[i]
  <2> HIDE DEF x, y, target, n
  <2>1. t.queues[k] = y /\ \A i \in Players : i # k => t.queues[i] = s.queues[i]
    BY <1>1, <1>2
  <2>2. ~st2[k].disconnected /\ \A i \in Players : i # k => st2[i] = st[i]
    <3>1. st[k] \in Status
      BY <1>1
    <3> QED BY <1>1, <1>2, <3>1 DEF Status
  <2>3. \A i \in Players : i # k => lg2[i] = lg[i]
    BY <1>1, <1>2
  <2> QED BY <2>1, <2>2, <2>3
<1> HIDE DEF y, target
<1> SUFFICES ASSUME NEW i \in Players
             PROVE  LET z == t.queues[i]
                    IN  /\ ~st2[i].disconnected => Oldest(z) <= n /\ low <= Oldest(z)
                        /\ st2[i].disconnected =>
                             LeftRoom(z, n, st2[i].last_frame, s.last_confirmed_frame, lg2[i])
  BY <1>2 DEF Rooms
<1>5. CASE i = k
  BY <1>1, <1>3, <1>4, <1>5 DEF Rooms
<1>6. CASE i # k
  BY <1>4, <1>6 DEF Rooms
<1> QED BY <1>5, <1>6

(* What a queue of a connected player still holds after frames before e, all  *)
(* of which it has, are discarded.                                            *)
LEMMA DiscardsFollow ==
  ASSUME NEW x, NEW n \in Nat \ {0}, NEW l, NEW p, QueueInv(x, n, l, p),
         x.last_frame_requested = n - 1, Oldest(x) <= n,
         NEW e \in Nat \ {0}, e <= x.last_added_frame, Oldest(x) <= e
  PROVE  /\ DiscardConfirmedFramesAsserts(x, e - 1)
         /\ Oldest(DiscardConfirmedFrames(x, e - 1)) = Min2(e, n)
<1> DEFINE f == e - 1
           k == DiscardTo(x, f)
<1>1. f \in Nat /\ f + 1 = e /\ x \in QueueType /\ Ring(x, l)
  BY DEF QueueInv
<1>2. Oldest(x) \in Nat /\ x.last_added_frame \in Int
  BY <1>1, Numbers
<1>3. k = Min2(f, n - 1)
  BY <1>1 DEF DiscardTo, NullFrame, Min2
<1>4. Min2(f, n - 1) + 1 = Min2(e, n)
  BY <1>1 DEF Min2
<1> HIDE DEF f, k, Oldest
<1>5. f < x.last_added_frame /\ k >= Oldest(x) - 1
  BY <1>1, <1>2, <1>3 DEF Min2
<1>6. /\ DiscardConfirmedFramesAsserts(x, f)
      /\ Oldest(DiscardConfirmedFrames(x, f)) = k + 1
  BY <1>1, <1>5, DiscardAssertsFollow, DiscardKeeps DEF k
<1> QED BY <1>3, <1>4, <1>6 DEF f

LEMMA ConfirmRooms ==
  ASSUME NEW States, NEW s \in SyncType(States, [Players -> QueueType]),
         NEW st \in [Players -> Status], NEW lg, NEW g, NEW low,
         QueuesInv(s, g, st, lg), Settled(s, st), LeftSettled(s, st),
         Held(s, g, st, lg), Rooms(s, st, lg, low),
         s.framecount # 0, NEW e \in Nat, s.last_confirmed_frame <= e,
         \A i \in Connected(st) : e <= st[i].last_frame,
         LET t == SetLastConfirmedFrame(s, e)
         IN  SetLastConfirmedFrameAsserts(s, e) => Held(t, g, st, lg)
  PROVE  /\ SetLastConfirmedFrameAsserts(s, e)
         /\ Rooms(SetLastConfirmedFrame(s, e), st, lg, Min2(e, s.framecount))
<1> DEFINE n == s.framecount
           c == s.last_confirmed_frame
           t == SetLastConfirmedFrame(s, e)
<1>1. /\ n \in Nat \ {0} /\ s.queues \in [Players -> QueueType]
      /\ c \in Frames /\ c \in Int /\ c >= -1
  BY DEF SyncType, Frames, NullFrame
<1>2. /\ t.framecount = n /\ t.last_confirmed_frame = e
      /\ \A i \in Players : t.queues[i] = DiscardedTo(s.queues[i], e)
  <2>1. /\ t.framecount = n /\ t.last_confirmed_frame = e
        /\ t.queues = IF e <= 0 THEN s.queues
                      ELSE [i \in Players |-> DiscardConfirmedFrames(s.queues[i], e - 1)]
    BY DEF SetLastConfirmedFrame, SyncType
  <2> QED BY <2>1 DEF DiscardedTo
<1>3. ASSUME NEW i \in Players
      PROVE  /\ e > 0 => DiscardConfirmedFramesAsserts(s.queues[i], e - 1)
             /\ ~st[i].disconnected => \/ Oldest(t.queues[i]) = Min2(e, n)
                                       \/ (e = 0 /\ t.queues[i] = s.queues[i])
             /\ st[i].disconnected => Spent(t.queues[i], e, lg[i])
  <2> DEFINE x == s.queues[i]
             y == t.queues[i]
  <2>1. y = DiscardedTo(x, e) /\ x \in QueueType
    BY <1>1, <1>2
  <2>2. CASE e = 0
    <3>1. y = x
      BY <2>1, <2>2 DEF DiscardedTo
    <3>2. st[i].disconnected => Spent(x, c, lg[i])
      BY DEF Rooms, LeftRoom
    <3>3. Max2(c, 0) = 0 /\ Max2(e, 0) = 0
      BY <1>1, <2>2 DEF Max2
    <3>4. x.last_added_frame \in Int
      BY <2>1 DEF QueueType, Frames, NullFrame
    <3> HIDE DEF x, y, c
    <3>5. Max2(c, 0) = Max2(e, 0) /\ (x.last_added_frame < c => x.last_added_frame < e)
      <4>1. c <= e /\ e \in Int
        BY DEF c
      <4> QED BY <1>1, <3>3, <3>4, <4>1
    <3>6. Spent(x, c, lg[i]) => Spent(x, e, lg[i])
      BY Zenon, <3>5 DEF Spent
    <3> QED BY <2>2, <3>1, <3>2, <3>6 DEF x, y
  <2>3. CASE e # 0
    <3>1. y = DiscardConfirmedFrames(x, e - 1) /\ e \in Nat \ {0}
      BY <2>1, <2>3 DEF DiscardedTo
    <3>2. CASE st[i].disconnected
      <4>1. Spent(x, c, lg[i])
        BY <3>2 DEF Rooms, LeftRoom
      <4> HIDE DEF c, x, y
      <4>2. DiscardConfirmedFramesAsserts(x, e - 1) /\ Spent(y, e, lg[i])
        BY <1>1, <3>1, <4>1, SpentDiscards DEF c
      <4> QED BY <3>2, <4>2 DEF x, y
    <3>3. CASE ~st[i].disconnected
      <4>1. /\ QueueInv(x, n, lg[i], Column(g, i)) /\ x.last_frame_requested = n - 1
            /\ Oldest(x) <= n /\ Oldest(x) <= Max2(c, 0)
            /\ e <= x.last_added_frame
        BY <3>3 DEF QueuesInv, Settled, Connected, Rooms, Held
      <4>2. Oldest(x) <= e
        <5>1. Max2(c, 0) <= e /\ Max2(c, 0) \in Int
          BY <1>1 DEF Max2
        <5>2. Oldest(x) \in Int
          BY <2>1 DEF Oldest, Arrivals, QueueType, Frames, NullFrame
        <5> HIDE DEF Oldest
        <5> QED BY <4>1, <5>1, <5>2
      <4> HIDE DEF x, y, n
      <4>3. DiscardConfirmedFramesAsserts(x, e - 1) /\ Oldest(y) = Min2(e, n)
        BY <1>1, <3>1, <4>1, <4>2, DiscardsFollow
      <4> QED BY <3>3, <4>3 DEF x, y, n
    <3> QED BY <3>2, <3>3
  <2> QED BY <2>2, <2>3
<1>4. SetLastConfirmedFrameAsserts(s, e)
  BY <1>3 DEF SetLastConfirmedFrameAsserts
<1>5. Held(t, g, st, lg)
  BY <1>4
<1> SUFFICES ASSUME NEW i \in Players
             PROVE  LET y == t.queues[i]
                        d == st[i].last_frame
                    IN  /\ ~st[i].disconnected => Oldest(y) <= n /\ Min2(e, n) <= Oldest(y)
                        /\ st[i].disconnected => LeftRoom(y, n, d, e, lg[i])
  BY <1>2, <1>4 DEF Rooms
<1> DEFINE x == s.queues[i]
           y == t.queues[i]
           d == st[i].last_frame
<1>6. Min2(e, n) <= n /\ Min2(e, n) <= e /\ Min2(e, n) \in Nat
  BY <1>1 DEF Min2
<1>7. CASE ~st[i].disconnected
  <2>1. CASE Oldest(y) = Min2(e, n)
    <3> HIDE DEF t, y, n, Oldest
    <3> QED BY <1>1, <1>6, <1>7, <2>1 DEF y
  <2>2. CASE e = 0 /\ y = x
    <3>1. Oldest(x) <= n /\ x \in QueueType /\ Ring(x, lg[i])
      BY <1>7 DEF Rooms, QueuesInv, Connected, QueueInv
    <3>2. Oldest(x) \in Nat /\ Min2(e, n) = 0
      BY <1>1, <2>2, <3>1, Numbers DEF Min2
    <3> HIDE DEF t, x, y, n, Oldest
    <3> QED BY <1>1, <1>6, <1>7, <2>2, <3>1, <3>2 DEF y
  <2> QED BY <1>3, <1>7, <2>1, <2>2
<1>8. CASE st[i].disconnected
  <2>1. Spent(y, e, lg[i]) /\ Left(y, n, d, e, lg[i], Column(g, i))
    BY <1>2, <1>3, <1>5, <1>8 DEF Held
  <2>2. /\ d \in Int /\ d <= y.last_added_frame /\ y.last_added_frame \in Int
        /\ Oldest(y) \in Int
    BY <2>1 DEF Left, Spent, QueueType, Status, Frames, NullFrame, Oldest, Arrivals
  <2>3. d >= n => y.last_frame_requested = n - 1
    <3>1. x \in QueueType /\ (d >= n => x.last_frame_requested = n - 1)
      BY <1>1, <1>8 DEF LeftSettled
    <3>2. y.last_frame_requested = x.last_frame_requested
      <4>1. y = DiscardedTo(x, e)
        BY <1>2
      <4>2. e - 1 \in Nat \/ e <= 0
        OBVIOUS
      <4> HIDE DEF x, y
      <4> QED BY <3>1, <4>1, <4>2, DiscardFields DEF DiscardedTo, SamePrediction
    <3> QED BY <3>1, <3>2
  <2> HIDE DEF t, x, y, n, d
  <2>4. ASSUME ~Closed(n, d, e) PROVE Oldest(y) <= Min2(n, d + 1)
    <3>1. CASE d < n
      <4>1. Min2(n, d + 1) = d + 1 /\ e <= d /\ Max2(e, 0) = e
        BY <1>1, <2>2, <2>4, <3>1 DEF Closed, Min2, Max2
      <4>2. Oldest(y) <= Max2(e, 0)
        BY <2>1, <2>4 DEF Left
      <4> HIDE DEF Oldest
      <4> QED BY <2>2, <4>1, <4>2
    <3>2. CASE ~(d < n)
      <4>1. Min2(n, d + 1) = n /\ y.last_frame_requested = n - 1 /\ n - 1 # NullFrame
            /\ n - 1 < y.last_added_frame
        BY <1>1, <2>2, <2>3, <3>2 DEF Min2, NullFrame
      <4>2. Oldest(y) <= y.last_frame_requested + 1
        <5> HIDE DEF Oldest
        <5> QED BY <1>1, <2>1, <2>2, <4>1 DEF Spent
      <4> HIDE DEF Oldest
      <4> QED BY <1>1, <2>2, <4>1, <4>2
    <3> QED BY <3>1, <3>2
  <2>5. LeftRoom(y, n, d, e, lg[i])
    BY <2>1, <2>4 DEF LeftRoom
  <2> QED BY <1>8, <2>5 DEF y, d
<1> QED BY <1>7, <1>8
-----------------------------------------------------------------------------
(* How far the simulation has come.                                           *)

(* The frame it has reached, or is to reach again.                            *)
Reached == IF pc = "replay" THEN replay.until ELSE sync.framecount

(* The thread has polled, and is to simulate the next frame before it does so *)
(* again.                                                                     *)
ToApp == pc \in {"app", "frame"} \/ (pc = "replay" /\ replay.resume = "app")

(* No queue of a player who is connected holds a frame before this one: the   *)
(* last poll discarded what it confirmed, but not beyond the last frame       *)
(* requested.                                                                 *)
Low == Min2(sync.last_confirmed_frame, IF ToApp THEN Reached ELSE Reached - 1)

RoomInv == pc \in Stages => Rooms(sync, status, log, Low)

LEMMA RoomsLower ==
  ASSUME NEW s, s.queues \in [Players -> QueueType], NEW st, NEW lg,
         NEW low \in Int, NEW low2 \in Int, low2 <= low, Rooms(s, st, lg, low)
  PROVE  Rooms(s, st, lg, low2)
<1> SUFFICES ASSUME NEW i \in Players
             PROVE  LET x == s.queues[i]
                    IN  /\ ~st[i].disconnected => Oldest(x) <= s.framecount /\ low2 <= Oldest(x)
                        /\ st[i].disconnected =>
                             LeftRoom(x, s.framecount, st[i].last_frame,
                                      s.last_confirmed_frame, lg[i])
  BY DEF Rooms
<1> DEFINE x == s.queues[i]
<1>1. /\ ~st[i].disconnected => Oldest(x) <= s.framecount /\ low <= Oldest(x)
      /\ st[i].disconnected =>
           LeftRoom(x, s.framecount, st[i].last_frame, s.last_confirmed_frame, lg[i])
  BY DEF Rooms
<1>2. Oldest(x) \in Int
  BY DEF Oldest, Arrivals, QueueType, Frames, NullFrame
<1> HIDE DEF x, Oldest
<1> QED BY <1>1, <1>2 DEF x

(* A rollback leaves the frame to be reached as it is.                        *)
LEMMA AdjustReaches ==
  ASSUME NEW frame, NEW resume, AdjustSimulation(frame, resume), pc' \in Stages
  PROVE  pc' = "replay" /\ replay'.until = sync.framecount /\ replay'.resume = resume
BY DEF AdjustSimulation, Stages

LEMMA DisconnectReaches ==
  ASSUME NEW queue, NEW syncto, NEW resume, resume # "replay",
         DisconnectPlayerQueue(queue, syncto, resume), pc = resume, pc' \in Stages
  PROVE  Reached' = Reached /\ (ToApp' => ToApp)
<1>1. CASE syncto < sync.framecount
  <2>1. pc' = "replay" /\ replay'.until = sync.framecount /\ replay'.resume = resume
    BY <1>1, AdjustReaches DEF DisconnectPlayerQueue
  <2> QED BY <2>1 DEF Reached, ToApp
<1>2. CASE ~(syncto < sync.framecount)
  BY <1>2 DEF DisconnectPlayerQueue, Reached, ToApp
<1> QED BY <1>1, <1>2

LEMMA ReachedStep ==
  ASSUME IInv, RingInvs, [Next]_vars, pc' \in Stages
  PROVE  /\ AdvanceFrame => Reached' = Reached + 1 /\ ToApp /\ ~ToApp'
         /\ ~AdvanceFrame => Reached' = Reached
         /\ ToApp' => \/ ToApp \/ Confirm
                      \/ sync.last_confirmed_frame = NullFrame
<1> DEFINE Goal == /\ AdvanceFrame => Reached' = Reached + 1 /\ ToApp /\ ~ToApp'
                   /\ ~AdvanceFrame => Reached' = Reached
                   /\ ToApp' => \/ ToApp \/ Confirm
                                \/ sync.last_confirmed_frame = NullFrame
<1>0. /\ sync.framecount \in Nat /\ replay.until \in Nat /\ replay.resume \in Callers
      /\ sync.last_confirmed_frame \in Frames /\ poll.total \in Frames
  BY SyncFacts DEF SyncType
<1>1. ASSUME UNCHANGED <<sync, replay>>,
             \/ UNCHANGED pc
             \/ pc = "app" /\ pc' \in {"frame", "pump"}
             \/ pc \notin {"frame", "replay"} /\ pc' \in {"events", "check", "poll", "confirm"},
             ~AdvanceFrame
      PROVE  Goal
  BY <1>1 DEF Reached, ToApp
<1>2. CASE Application
  <2>1. ASSUME NEW bits \in Made[LocalPlayer], AddLocal(bits) PROVE Goal
    <3>1. pc = "app" /\ pc' = "frame" /\ ~AdvanceFrame
      BY <2>1 DEF AddLocal, Stages, AdvanceFrame
    <3>2. sync'.framecount = sync.framecount
      BY <2>1, AddLocalArrives, ArrivesFields
    <3> QED BY <3>1, <3>2 DEF Reached, ToApp
  <2>2. CASE AdvanceFrame
    <3>1. pc = "frame" /\ pc' = "pump" /\ sync'.framecount = sync.framecount + 1
      <4>1. pc = "frame" /\ pc' = "pump"
            /\ sync' = IncrementFrame(SynchronizeInputs(sync, status), game')
        BY <2>2 DEF AdvanceFrame, SimulateFrame, Stages
      <4>2. SynchronizeInputs(sync, status).framecount = sync.framecount
        BY SyncFacts DEF SynchronizeInputs, SyncType
      <4>3. /\ SynchronizeInputs(sync, status) \in SyncType(Histories, [Players -> QueueType])
        <5>1. \A i \in Players : GetInput(sync.queues[i], sync.framecount) \in QueueType
          BY SyncFacts, GetInputType
        <5> QED BY <5>1, SyncFacts DEF SynchronizeInputs, SyncType
      <4> QED BY <4>1, <4>2, <4>3, IncrementFields
    <3> QED BY <2>2, <3>1 DEF Reached, ToApp
  <2>3. CASE Idle
    BY <1>1, <2>3 DEF Idle, AdvanceFrame
  <2>4. ASSUME NEW k \in Players, DisconnectRemote(k) PROVE Goal
    BY <2>4, DisconnectReaches DEF DisconnectRemote, AdvanceFrame
  <2>5. CASE DisconnectLocal
    BY <1>1, <2>5 DEF DisconnectLocal, AdvanceFrame
  <2> QED BY <1>2, <2>1, <2>2, <2>3, <2>4, <2>5 DEF Application
<1>3. CASE Network
  <2>1. pc = "pump" /\ UNCHANGED <<sync, replay, pc>>
    BY ZenonT(60), <1>3 DEF Network, Synchronized, Disconnected, Shutdown, InputArrives,
                PeerClaims, QueueEvent
  <2> QED BY <1>1, <2>1 DEF AdvanceFrame
<1>4. CASE DoPoll
  <2>1. CASE Pumped
    BY <1>1, <2>1 DEF Pumped, AdvanceFrame
  <2>2. ASSUME NEW e \in Endpoints, OnSynchronized(e) PROVE Goal
    BY <1>1, <2>2 DEF OnSynchronized, Take, AdvanceFrame
  <2>3. ASSUME NEW e \in Endpoints, OnInput(e) PROVE Goal
    <3>1. pc = "events" /\ UNCHANGED <<pc, replay>>
      BY <2>3 DEF OnInput, Take, Stages
    <3>2. sync'.framecount = sync.framecount
      BY <2>3, OnInputArrives, ArrivesFields
    <3> QED BY <3>1, <3>2 DEF Reached, ToApp, AdvanceFrame
  <2>4. ASSUME NEW e \in Endpoints, OnDisconnected(e) PROVE Goal
    <3>1. pc = "events" /\ ~AdvanceFrame
      BY <2>4 DEF OnDisconnected, Take, AdvanceFrame
    <3>2. CASE UNCHANGED <<sync, pc, replay>>
      BY <1>1, <3>1, <3>2
    <3>3. CASE ~UNCHANGED <<sync, pc, replay>>
      <4>1. DisconnectPlayerQueue(e, status[e].last_frame, "events")
        BY <2>4, <3>3 DEF OnDisconnected
      <4> QED BY <3>1, <4>1, DisconnectReaches
    <3> QED BY <3>2, <3>3
  <2>5. CASE EventsDone
    <3>1. /\ pc = "events" /\ UNCHANGED <<sync, replay>> /\ ~AdvanceFrame
          /\ pc' = "check" \/ (pc' = "app" /\ sync.last_confirmed_frame = NullFrame)
      BY <2>5 DEF EventsDone, AdvanceFrame, RingInvs, StartInv
    <3> QED BY <3>1 DEF Reached, ToApp
  <2>6. CASE CheckSimulation
    <3>1. pc = "check" /\ ~AdvanceFrame
      BY <2>6 DEF CheckSimulation, AdvanceFrame
    <3>2. CASE FirstIncorrectFrames(sync) = {}
      BY <1>1, <2>6, <3>1, <3>2 DEF CheckSimulation
    <3>3. CASE FirstIncorrectFrames(sync) # {}
      <4>1. AdjustSimulation(SeekTo(sync), "poll")
        BY <2>6, <3>3 DEF CheckSimulation
      <4>2. pc' = "replay" /\ replay'.until = sync.framecount /\ replay'.resume = "poll"
        BY <4>1, AdjustReaches
      <4> QED BY <3>1, <4>2 DEF Reached, ToApp
    <3> QED BY <3>2, <3>3
  <2>7. CASE Replay
    <3> DEFINE next == IF sync.framecount + 1 = replay.until THEN replay.resume ELSE "replay"
    <3>1. pc = "replay" /\ SimulateFrame(next) /\ UNCHANGED replay /\ ~AdvanceFrame
      BY <2>7 DEF Replay, AdvanceFrame
    <3>2. pc' = next /\ sync' = IncrementFrame(SynchronizeInputs(sync, status), game')
      <4> HIDE DEF next
      <4> QED BY <3>1 DEF SimulateFrame, Stages
    <3>3. sync'.framecount = sync.framecount + 1
      <4>1. SynchronizeInputs(sync, status).framecount = sync.framecount
        BY SyncFacts DEF SynchronizeInputs, SyncType
      <4>2. /\ SynchronizeInputs(sync, status) \in SyncType(Histories, [Players -> QueueType])
        <5>1. \A i \in Players : GetInput(sync.queues[i], sync.framecount) \in QueueType
          BY SyncFacts, GetInputType
        <5> QED BY <5>1, SyncFacts DEF SynchronizeInputs, SyncType
      <4> QED BY <3>2, <4>1, <4>2, IncrementFields
    <3>4. CASE next = "replay"
      BY <3>1, <3>2, <3>4 DEF Reached, ToApp
    <3>5. CASE next # "replay"
      <4>1. sync.framecount + 1 = replay.until /\ next = replay.resume
        BY <3>5
      <4> HIDE DEF next
      <4> QED BY <1>0, <3>1, <3>2, <3>3, <4>1 DEF Reached, ToApp, Callers
    <3> QED BY <3>4, <3>5
  <2>8. CASE PollPlayer
    <3>1. pc = "poll" /\ ~AdvanceFrame
      BY <2>8 DEF PollPlayer, AdvanceFrame
    <3>2. CASE UNCHANGED <<sync, pc, replay>>
      BY <1>1, <3>1, <3>2
    <3>3. CASE ~UNCHANGED <<sync, pc, replay>>
      <4> DEFINE queue == poll.queue
                 syncto == DisconnectFrame(queue)
      <4>1. DisconnectPlayerQueue(queue, syncto, "poll")
        BY <2>8, <3>3 DEF PollPlayer
      <4> HIDE DEF queue, syncto
      <4> QED BY <3>1, <4>1, DisconnectReaches
    <3> QED BY <3>2, <3>3
  <2>9. CASE PollDone
    <3>1. pc = "poll" /\ UNCHANGED <<sync, replay>> /\ ~AdvanceFrame
      BY <2>9 DEF PollDone, AdvanceFrame
    <3>2. CASE pc' = "confirm"
      BY <1>1, <3>1, <3>2
    <3>3. CASE pc' # "confirm"
      <4>1. pc' = "app" /\ poll.total < 0
        BY <1>0, <2>9, <3>3 DEF PollDone, Stages, Frames, NullFrame
      <4>2. sync.last_confirmed_frame <= poll.total
        BY <3>1 DEF RingInvs, ConfirmedInv, Polling
      <4>3. sync.last_confirmed_frame = NullFrame
        BY <1>0, <4>1, <4>2 DEF Frames, NullFrame
      <4> QED BY <3>1, <4>1, <4>3 DEF Reached, ToApp
    <3> QED BY <3>2, <3>3
  <2>10. CASE PushToSpectators
    BY <1>1, <2>10 DEF PushToSpectators, AdvanceFrame, Stages
  <2>11. CASE Confirm
    <3>1. /\ pc = "confirm" /\ pc' = "app" /\ ~AdvanceFrame /\ UNCHANGED replay
          /\ sync' = SetLastConfirmedFrame(sync, poll.total)
      BY <2>11 DEF Confirm, AdvanceFrame, Stages
    <3>2. sync'.framecount = sync.framecount
      BY <3>1, SyncFacts DEF SetLastConfirmedFrame, SyncType
    <3> QED BY <2>11, <3>1, <3>2 DEF Reached, ToApp
  <2> QED BY <1>4, <2>1, <2>2, <2>3, <2>4, <2>5, <2>6, <2>7, <2>8, <2>9, <2>10, <2>11
          DEF DoPoll
<1>5. CASE Exited \/ UNCHANGED vars
  <2>1. UNCHANGED <<sync, replay, pc>> /\ ~AdvanceFrame
    <3>1. UNCHANGED <<sync, replay, pc>>
      BY <1>5 DEF Exited, vars
    <3> QED BY <3>1, Zenon DEF AdvanceFrame, SimulateFrame, Stages
  <2> QED BY <1>1, <2>1
<1> QED BY <1>2, <1>3, <1>4, <1>5 DEF Next

LEMMA LowStep ==
  ASSUME IInv, RingInvs, [Next]_vars, pc' \in Stages, StepKeeps
  PROVE  /\ Low \in Int /\ Low' \in Int
         /\ sync'.queues \in [Players -> QueueType]
         /\ ~Confirm => Low' <= Low
         /\ Confirm => Low' = Min2(poll.total, sync.framecount)
<1>1. /\ sync \in Syncs /\ sync.framecount \in Nat /\ replay.until \in Nat
      /\ sync.last_confirmed_frame \in Frames /\ poll.total \in Frames
  BY SyncFacts DEF SyncType, Syncs
<1>2. /\ sync' \in Syncs /\ replay'.until \in Nat
  BY DEF StepKeeps, SessionTypes
<1>3. /\ sync'.framecount \in Nat /\ sync'.last_confirmed_frame \in Frames
      /\ sync'.queues \in [Players -> QueueType]
  BY <1>2 DEF Syncs, SyncType
<1>4. Reached \in Nat /\ Reached' \in Nat
  BY <1>1, <1>2, <1>3 DEF Reached
<1>5. /\ AdvanceFrame => Reached' = Reached + 1 /\ ToApp /\ ~ToApp'
      /\ ~AdvanceFrame => Reached' = Reached
      /\ ToApp' => ToApp \/ Confirm \/ sync.last_confirmed_frame = NullFrame
  BY ReachedStep
<1>6. ~Confirm => sync'.last_confirmed_frame = sync.last_confirmed_frame
  BY LastConfirmedKept
<1>7. CASE Confirm
  <2>1. /\ pc = "confirm" /\ pc' = "app" /\ ~AdvanceFrame
        /\ sync'.last_confirmed_frame = poll.total
        /\ sync'.framecount = sync.framecount
    <3>1. /\ pc = "confirm" /\ pc' = "app"
          /\ sync' = SetLastConfirmedFrame(sync, poll.total)
      BY <1>7 DEF Confirm, Stages
    <3> QED BY <1>1, <3>1 DEF SetLastConfirmedFrame, Syncs, SyncType, AdvanceFrame
  <2>2. Low' = Min2(poll.total, sync.framecount)
    BY <2>1 DEF Low, ToApp, Reached
  <2> QED BY <1>1, <1>3, <1>4, <1>7, <2>2 DEF Low, Min2, Frames, NullFrame
<1>8. CASE ~Confirm
  <2> DEFINE c == sync.last_confirmed_frame
             r == IF ToApp THEN Reached ELSE Reached - 1
             r2 == IF ToApp' THEN Reached' ELSE Reached' - 1
  <2>1. Low = Min2(c, r) /\ Low' = Min2(c, r2)
    BY <1>6, <1>8 DEF Low
  <2>2. /\ ToApp => r = Reached
        /\ ~ToApp => r = Reached - 1
        /\ ToApp' => r2 = Reached'
        /\ ~ToApp' => r2 = Reached' - 1
    BY Zenon
  <2>3. c \in Int /\ c >= -1 /\ (c = NullFrame => c = -1)
    BY <1>1 DEF Frames, NullFrame
  <2> HIDE DEF r, r2
  <2>4. r \in Int /\ r >= -1 /\ r2 \in Int /\ r2 >= -1
    <3>1. (r = Reached \/ r = Reached - 1) /\ (r2 = Reached' \/ r2 = Reached' - 1)
      BY Zenon, <2>2
    <3> QED BY <1>4, <3>1
  <2>5. c = -1 \/ r2 <= r
    <3>1. CASE AdvanceFrame
      <4>1. r = Reached /\ r2 = Reached' - 1 /\ Reached' = Reached + 1
        BY Zenon, <1>5, <2>2, <3>1
      <4> QED BY <1>4, <4>1
    <3>2. CASE ~AdvanceFrame
      <4>1. Reached' = Reached
        BY Zenon, <1>5, <3>2
      <4>2. CASE ToApp
        <5>1. r = Reached /\ (r2 = Reached' \/ r2 = Reached' - 1)
          BY Zenon, <2>2, <4>2
        <5> QED BY <1>4, <4>1, <5>1
      <4>3. CASE ~ToApp /\ ToApp'
        BY <1>5, <1>8, <2>3, <4>3
      <4>4. CASE ~ToApp /\ ~ToApp'
        <5>1. r = Reached - 1 /\ r2 = Reached' - 1
          BY Zenon, <2>2, <4>4
        <5> QED BY <1>4, <4>1, <5>1
      <4> QED BY Zenon, <4>2, <4>3, <4>4
    <3> QED BY <3>1, <3>2
  <2> HIDE DEF c
  <2> QED BY <1>3, <1>8, <2>1, <2>3, <2>4, <2>5 DEF Min2
<1> QED BY <1>7, <1>8

(* A rollback begins, a player leaves.                                        *)
LEMMA AdjustRooms ==
  ASSUME IInv, SimInv, SimInv', pc \in Resting, NEW low, Rooms(sync, status, log, low),
         NEW frame \in Frames, frame < sync.framecount,
         sync.last_confirmed_frame <= frame, NEW resume,
         AdjustSimulation(frame, resume), UNCHANGED log,
         Leaves(sync, status, status', frame), pc' \in Stages
  PROVE  Rooms(sync', status', log', low)
<1> DEFINE t == sync'
           h == game'
           st2 == status'
<1>1. /\ frame \in Nat
      /\ t.framecount = frame
      /\ t.last_confirmed_frame = sync.last_confirmed_frame
      /\ t.queues = [i \in Players |-> ResetPrediction(sync.queues[i])]
  BY AdjustFields DEF Stages
<1>2. QueuesInv(sync, game, status, log) /\ Held(sync, game, status, log)
  BY RestingInv DEF IInv, Resting, SimInv
<1>3. /\ sync \in SyncType(Histories, [Players -> QueueType])
      /\ status \in [Players -> Status] /\ Leaves(sync, status, st2, frame)
  BY SyncFacts
<1>4. Held(t, h, st2, log)
  BY DEF SimInv
<1> HIDE DEF t, h, st2
<1>5. Rooms(t, st2, log, low)
  BY <1>1, <1>2, <1>3, <1>4, RollbackRooms
<1> QED BY <1>5 DEF t, st2

LEMMA DropsRooms ==
  ASSUME IInv, SimInv, SimInv', NEW low, Rooms(sync, status, log, low),
         NEW queue, NEW syncto, Drops(queue, syncto), pc' \in Stages
  PROVE  Rooms(sync', status', log', low)
<1> DEFINE gone == [disconnected |-> TRUE, last_frame |-> syncto]
           st2 == status'
<1>1. /\ pc \in Resting /\ queue \in Players /\ syncto \in Frames
      /\ sync.last_confirmed_frame <= syncto
      /\ syncto <= sync.queues[queue].last_added_frame
      /\ status[queue].disconnected => syncto < status[queue].last_frame
      /\ DisconnectPlayerQueue(queue, syncto, pc) /\ UNCHANGED log
      /\ status \in [Players -> Status]
  BY SyncFacts, PlayersArranged DEF Drops
<1>2. /\ st2[queue] = gone
      /\ \A i \in Players : i # queue => st2[i] = status[i]
  <2>1. status' = [status EXCEPT ![queue] = gone]
    BY <1>1 DEF DisconnectPlayerQueue
  <2> HIDE DEF gone
  <2> QED BY <1>1, <2>1
<1> HIDE DEF st2
<1>3. Leaves(sync, status, st2, syncto)
  BY <1>1, <1>2 DEF Leaves
<1>4. CASE syncto < sync.framecount
  <2>1. AdjustSimulation(syncto, pc) /\ Leaves(sync, status, status', syncto)
    BY <1>1, <1>3, <1>4 DEF DisconnectPlayerQueue, st2
  <2> QED BY <1>1, <1>4, <2>1, AdjustRooms
<1>5. CASE ~(syncto < sync.framecount)
  <2>1. UNCHANGED sync
    BY <1>1, <1>5 DEF DisconnectPlayerQueue
  <2>2. QueuesInv(sync, game, status, log) /\ Held(sync, game, status, log)
    BY <1>1, RestingInv DEF IInv, Resting, SimInv
  <2>3. /\ sync \in SyncType(Histories, [Players -> QueueType])
        /\ sync.framecount <= syncto
    <3>1. sync.framecount \in Nat /\ syncto \in Int
      BY <1>1, SyncFacts DEF Frames, NullFrame
    <3> QED BY <1>5, <3>1, SyncFacts
  <2>4. Rooms(sync, st2, log, low)
    BY <1>1, <1>3, <2>2, <2>3, LeavesRooms
  <2> QED BY <1>1, <2>1, <2>4 DEF st2
<1> QED BY <1>4, <1>5

LEMMA CheckRooms ==
  ASSUME IInv, SimInv, SimInv', NEW low, Rooms(sync, status, log, low),
         CheckSimulation, pc' \in Stages
  PROVE  Rooms(sync', status', log', low)
<1>1. pc = "check" /\ pc \in Resting /\ UNCHANGED <<status, log>>
  BY DEF CheckSimulation, Resting, Stages
<1>2. CASE FirstIncorrectFrames(sync) = {}
  BY <1>1, <1>2 DEF CheckSimulation
<1>3. CASE FirstIncorrectFrames(sync) # {}
  <2> DEFINE frame == SeekTo(sync)
  <2>1. AdjustSimulation(frame, "poll")
    BY <1>3 DEF CheckSimulation
  <2>2. /\ frame \in Frames /\ frame < sync.framecount
        /\ sync.last_confirmed_frame <= frame
    BY <1>1, <1>3, SeekToSettled
  <2> HIDE DEF frame
  <2>3. Leaves(sync, status, status', frame)
    BY <1>1 DEF Leaves
  <2> QED BY <1>1, <2>1, <2>2, <2>3, AdjustRooms
<1> QED BY <1>2, <1>3

(* A frame simulated, for the first time or again.                            *)
LEMMA SimulatedFields ==
  ASSUME IInv, NEW next, SimulateFrame(next), pc' \in Stages
  PROVE  /\ pc' = next /\ SynchronizeInputsAsserts(sync, status)
         /\ game' = AdvanceGame(sync, status, game)
         /\ sync'.framecount = sync.framecount + 1
         /\ sync'.last_confirmed_frame = sync.last_confirmed_frame
         /\ sync'.queues = SynchronizeInputs(sync, status).queues
<1> DEFINE u == SynchronizeInputs(sync, status)
           t == IncrementFrame(u, game')
<1>1. /\ game' = AdvanceGame(sync, status, game) /\ sync' = t /\ pc' = next
      /\ SynchronizeInputsAsserts(sync, status)
  BY DEF SimulateFrame, Stages
<1>2. /\ sync \in SyncType(Histories, [Players -> QueueType])
      /\ sync.framecount \in Nat /\ sync.queues \in [Players -> QueueType]
  BY SyncFacts
<1>3. /\ u \in SyncType(Histories, [Players -> QueueType])
      /\ u.framecount = sync.framecount
      /\ u.last_confirmed_frame = sync.last_confirmed_frame
  <2>1. \A i \in Players : GetInput(sync.queues[i], sync.framecount) \in QueueType
    BY <1>2, GetInputType
  <2> QED BY <1>2, <2>1 DEF SynchronizeInputs, SyncType
<1> HIDE DEF u
<1>4. /\ t.framecount = u.framecount + 1 /\ t.queues = u.queues
      /\ t.last_confirmed_frame = u.last_confirmed_frame
  BY <1>3, IncrementFields
<1> HIDE DEF t
<1> QED BY <1>1, <1>3, <1>4 DEF u

LEMMA SimulatedRooms ==
  ASSUME IInv, SimInv, pc \in {"frame", "replay"}, NEW low, Rooms(sync, status, log, low),
         NEW next, SimulateFrame(next), UNCHANGED <<status, log>>, pc' \in Stages
  PROVE  Rooms(sync', status', log', low)
<1> DEFINE t == sync'
<1>1. /\ t.framecount = sync.framecount + 1
      /\ t.last_confirmed_frame = sync.last_confirmed_frame
      /\ t.queues = SynchronizeInputs(sync, status).queues
  BY SimulatedFields
<1>2. /\ sync \in SyncType(Histories, [Players -> QueueType])
      /\ status \in [Players -> Status] /\ Held(sync, game, status, log)
  BY SyncFacts DEF SimInv, Stages
<1> HIDE DEF t
<1>3. Rooms(t, status, log, low)
  BY <1>1, <1>2, SimulateRooms
<1> QED BY <1>3 DEF t

(* An input added.                                                            *)
LEMMA ArrivesRooms ==
  ASSUME IInv, NEW low, Rooms(sync, status, log, low),
         NEW k, NEW frame, NEW bits, Arrives(k, frame, bits)
  PROVE  Rooms(sync', status', log', low)
<1> DEFINE t == sync'
           st2 == status'
           lg2 == log'
<1>1. /\ k \in Connected(status) /\ frame \in Nat /\ bits \in Bits
      /\ Adds(sync, status, log, k, frame, bits, t, st2, lg2)
      /\ t.last_confirmed_frame = sync.last_confirmed_frame
      /\ pc \in Resting
  BY DEF Arrives, Resting, Stages
<1>2. /\ QueuesInv(sync, game, status, log) /\ Settled(sync, status)
      /\ sync \in SyncType(Histories, [Players -> QueueType])
      /\ status \in [Players -> Status] /\ Logs(sync, log)
  BY <1>1, RestingInv, SyncFacts DEF IInv, Resting
<1> HIDE DEF t, st2, lg2
<1>3. Rooms(t, st2, lg2, low)
  BY <1>1, <1>2, AddRooms
<1> QED BY <1>3 DEF t, st2, lg2

(* What is confirmed leaves the queues, and no ASSERT fires.                  *)
LEMMA ConfirmedRooms ==
  ASSUME IInv, EarlyInv, ConfirmedInv, SimInv, pc = "confirm",
         NEW low, Rooms(sync, status, log, low)
  PROVE  LET t == SetLastConfirmedFrame(sync, poll.total)
         IN  /\ SetLastConfirmedFrameAsserts(sync, poll.total)
             /\ Rooms(t, status, log, Min2(poll.total, sync.framecount))
<1> DEFINE total == poll.total
           t == SetLastConfirmedFrame(sync, total)
<1>1. /\ total \in Nat /\ \A i \in Connected(status) : total <= status[i].last_frame
      /\ sync.framecount # 0 /\ sync.last_confirmed_frame <= total
  BY Confirms
<1>2. /\ QueuesInv(sync, game, status, log) /\ Held(sync, game, status, log)
      /\ LeftSettled(sync, status) /\ NoneWrong(sync) /\ Settled(sync, status)
  BY RestingInv DEF IInv, SimInv, Resting, Stages
<1>3. /\ sync \in SyncType(Histories, [Players -> QueueType])
      /\ status \in [Players -> Status]
  BY SyncFacts
<1> HIDE DEF total
<1>4. SetLastConfirmedFrameAsserts(sync, total) => Held(t, game, status, log)
  BY <1>1, <1>2, <1>3, ConfirmHolds
<1>5. /\ SetLastConfirmedFrameAsserts(sync, total)
      /\ Rooms(t, status, log, Min2(total, sync.framecount))
  BY <1>1, <1>2, <1>3, <1>4, ConfirmRooms
<1> QED BY <1>5 DEF total

LEMMA RoomStep ==
  ASSUME IInv, RingInvs, EarlyInv, SimInv, SimInv', RoomInv, Kinds, [Next]_vars
  PROVE  RoomInv'
<1> SUFFICES ASSUME pc' \in Stages PROVE Rooms(sync', status', log', Low')
  BY DEF RoomInv
<1> DEFINE low == Low
           low2 == Low'
           t == sync'
           st2 == status'
           lg2 == log'
<1>1. /\ low \in Int /\ low2 \in Int /\ t.queues \in [Players -> QueueType]
      /\ ~Confirm => low2 <= low
      /\ Confirm => low2 = Min2(poll.total, sync.framecount)
  BY LowStep, SessionStep
<1>2. pc \in Stages
  BY DEF Kinds, Arrives, Drops, Resting, CheckSimulation, AdvanceFrame, Replay,
         PushToSpectators, Confirm, Stays, Stages
<1>3. Rooms(sync, status, log, low)
  BY <1>2 DEF RoomInv
<1> HIDE DEF low, low2
<1>4. CASE Confirm
  <2>1. /\ pc = "confirm" /\ pc' = "app" /\ UNCHANGED <<status, log>>
        /\ t = SetLastConfirmedFrame(sync, poll.total)
    BY <1>4 DEF Confirm, Stages
  <2>2. Rooms(SetLastConfirmedFrame(sync, poll.total), status, log, low2)
    BY <1>1, <1>3, <1>4, <2>1, ConfirmedRooms DEF RingInvs
  <2> QED BY <2>1, <2>2 DEF low2
<1>5. CASE ~Confirm
  <2>1. Rooms(sync', status', log', low)
    <3>1. ASSUME NEW k \in Players, NEW frame \in Nat, NEW bits \in Bits,
                 Arrives(k, frame, bits)
          PROVE  Rooms(sync', status', log', low)
      BY <1>3, <3>1, ArrivesRooms
    <3>2. ASSUME NEW k \in Remotes, NEW syncto \in Frames, Drops(k, syncto)
          PROVE  Rooms(sync', status', log', low)
      BY <1>3, <3>2, DropsRooms
    <3>3. CASE CheckSimulation
      BY <1>3, <3>3, CheckRooms
    <3>4. CASE AdvanceFrame
      <4>1. pc \in {"frame", "replay"} /\ SimulateFrame("pump") /\ UNCHANGED <<status, log>>
        BY <3>4 DEF AdvanceFrame
      <4> QED BY <1>3, <4>1, SimulatedRooms
    <3>5. CASE Replay
      <4> DEFINE next == IF sync.framecount + 1 = replay.until THEN replay.resume
                         ELSE "replay"
      <4>1. pc = "replay" /\ SimulateFrame(next) /\ UNCHANGED <<status, log>>
        BY <3>5 DEF Replay
      <4> HIDE DEF next
      <4> QED BY <1>3, <4>1, SimulatedRooms
    <3>6. CASE PushToSpectators \/ Stays
      <4>1. UNCHANGED <<sync, status, log>>
        BY <3>6 DEF PushToSpectators, Stays
      <4> QED BY <1>3, <4>1
    <3> QED BY <1>5, <3>1, <3>2, <3>3, <3>4, <3>5, <3>6 DEF Kinds
  <2> HIDE DEF t, st2, lg2
  <2>2. Rooms(t, st2, lg2, low)
    BY <2>1 DEF t, st2, lg2
  <2>3. Rooms(t, st2, lg2, low2)
    BY <1>1, <1>5, <2>2, RoomsLower
  <2> QED BY <2>3 DEF t, st2, lg2, low2
<1> QED BY <1>4, <1>5

LEMMA RoomInit == ASSUME Init PROVE RoomInv
<1>1. pc = "app" /\ sync.framecount = 0 /\ sync.last_confirmed_frame = -1
      /\ \A i \in Players : ~status[i].disconnected /\ Oldest(sync.queues[i]) = 0
  <2>1. PICK delay \in LocalDelays :
          sync = [InitSync EXCEPT !.queues[LocalPlayer] = SetFrameDelay(@, delay)]
    BY DEF Init
  <2>2. /\ sync.framecount = 0 /\ sync.last_confirmed_frame = NullFrame
        /\ sync.queues = [InitSync.queues EXCEPT ![LocalPlayer] = SetFrameDelay(@, delay)]
    BY <2>1 DEF InitSync
  <2>3. \A i \in Players : sync.queues[i] \in {InitQueue, SetFrameDelay(InitQueue, delay)}
    <3>1. InitSync.queues = [i \in Players |-> InitQueue]
      BY DEF InitSync
    <3> QED BY <2>2, <3>1, PlayersArranged
  <2>4. \A i \in Players : Oldest(sync.queues[i]) = 0
    <3>1. ASSUME NEW i \in Players PROVE Oldest(sync.queues[i]) = 0
      <4> DEFINE x == sync.queues[i]
      <4>1. x \in {InitQueue, SetFrameDelay(InitQueue, delay)} /\ delay \in Nat
        BY <2>3
      <4> HIDE DEF x
      <4>2. Oldest(x) = 0
        BY <4>1, QueueInvInit
      <4> QED BY <4>2 DEF x
    <3> QED BY <3>1
  <2> QED BY <2>2, <2>4 DEF Init, NullFrame
<1>2. Low = -1
  BY <1>1 DEF Low, ToApp, Reached, Min2
<1> QED BY <1>1, <1>2 DEF RoomInv, Rooms
-----------------------------------------------------------------------------
(* The frames that the players' inputs are of.                                *)

(* Every input has been added under one delay, so none was dropped and none   *)
(* repeated; the local player has made one for every frame reached.           *)
UserInv ==
    pc \in Stages =>
        /\ \A i \in Connected(status) :
              LET x == sync.queues[i]
              IN  x.last_added_frame =
                    IF x.last_user_added_frame = NullFrame THEN NullFrame
                    ELSE x.last_user_added_frame + x.frame_delay
        /\ LET x == sync.queues[LocalPlayer]
           IN  /\ x.frame_delay \in LocalDelays /\ x.last_added_frame < MaxFrame
               /\ x.last_user_added_frame = IF pc = "frame" THEN Reached ELSE Reached - 1

SameUse(x, y) ==
    /\ y.last_user_added_frame = x.last_user_added_frame
    /\ y.last_added_frame = x.last_added_frame
    /\ y.frame_delay = x.frame_delay

LEMMA UseKept ==
  ASSUME NEW x \in QueueType, NEW f
  PROVE  /\ SameUse(x, GetInput(x, f)) /\ SameUse(x, ResetPrediction(x))
         /\ SameUse(x, DiscardConfirmedFrames(x, f)) /\ SameUse(x, x)
BY DEF QueueType, GetInput, ResetPrediction, DiscardConfirmedFrames, SameUse

(* Only an input that is added changes this.                                  *)
LEMMA UseStep ==
  ASSUME IInv, SimInv, Kinds, pc' \in Stages,
         ~ \E k \in Players, frame \in Nat, bits \in Bits : Arrives(k, frame, bits),
         NEW i \in Players
  PROVE  SameUse(sync.queues[i], sync'.queues[i])
<1> DEFINE x == sync.queues[i]
           y == sync'.queues[i]
<1>1. x \in QueueType /\ sync.queues \in [Players -> QueueType]
  BY SyncFacts
<1>2. CASE y \in {x, ResetPrediction(x), GetInput(x, sync.framecount),
                  DiscardConfirmedFrames(x, poll.total - 1)}
  <2> HIDE DEF x, y
  <2>1. SameUse(x, y)
    BY <1>1, <1>2, UseKept
  <2> QED BY <2>1 DEF x, y
<1>3. ASSUME NEW frame \in Frames, frame < sync.framecount, pc \in Resting,
             NEW resume, AdjustSimulation(frame, resume)
      PROVE  y = ResetPrediction(x)
  BY <1>3, AdjustFields DEF Stages
<1>4. CASE CheckSimulation
  <2>1. CASE FirstIncorrectFrames(sync) = {}
    BY <1>2, <1>4, <2>1 DEF CheckSimulation
  <2>2. CASE FirstIncorrectFrames(sync) # {}
    <3>1. pc = "check" /\ AdjustSimulation(SeekTo(sync), "poll") /\ pc \in Resting
      BY <1>4, <2>2 DEF CheckSimulation, Resting, Stages
    <3>2. SeekTo(sync) \in Frames /\ SeekTo(sync) < sync.framecount
      BY <2>2, <3>1, SeekToSettled
    <3> QED BY <1>2, <1>3, <3>1, <3>2
  <2> QED BY <2>1, <2>2
<1>5. ASSUME NEW k \in Remotes, NEW syncto \in Frames, Drops(k, syncto)
      PROVE  SameUse(x, y)
  <2>1. CASE syncto < sync.framecount
    <3>1. AdjustSimulation(syncto, pc) /\ pc \in Resting
      BY <1>5, <2>1 DEF Drops, DisconnectPlayerQueue
    <3> QED BY <1>2, <1>3, <2>1, <3>1
  <2>2. CASE ~(syncto < sync.framecount)
    BY <1>2, <1>5, <2>2 DEF Drops, DisconnectPlayerQueue
  <2> QED BY <2>1, <2>2
<1>6. ASSUME NEW next, SimulateFrame(next)
      PROVE  SameUse(x, y)
  <2>1. sync'.queues = SynchronizeInputs(sync, status).queues
    BY <1>6, SimulatedFields
  <2>2. y = x \/ y = GetInput(x, sync.framecount)
    BY <2>1, SyncFacts DEF SynchronizeInputs, SyncType
  <2> QED BY <1>2, <2>2
<1>7. CASE AdvanceFrame \/ Replay
  <2>1. CASE AdvanceFrame
    BY <1>6, <2>1 DEF AdvanceFrame
  <2>2. CASE Replay
    <3> DEFINE next == IF sync.framecount + 1 = replay.until THEN replay.resume
                       ELSE "replay"
    <3>1. SimulateFrame(next)
      BY <2>2 DEF Replay
    <3> HIDE DEF next
    <3> QED BY <1>6, <3>1
  <2> QED BY <1>7, <2>1, <2>2
<1>8. CASE Confirm
  <2>1. sync' = SetLastConfirmedFrame(sync, poll.total)
    BY <1>8 DEF Confirm, Stages
  <2>2. y = x \/ y = DiscardConfirmedFrames(x, poll.total - 1)
    BY <1>1, <2>1, SyncFacts DEF SetLastConfirmedFrame, SyncType
  <2> QED BY <1>2, <2>2
<1>9. CASE PushToSpectators \/ Stays
  <2>1. UNCHANGED sync
    BY <1>9 DEF PushToSpectators, Stays
  <2> QED BY <1>2, <2>1
<1> HIDE DEF x, y
<1>10. SameUse(x, y)
  BY <1>4, <1>5, <1>7, <1>8, <1>9, UseKept, <1>1 DEF Kinds, x, y
<1> QED BY <1>10 DEF x, y

(* When the thread is about to simulate a new frame.                          *)
LEMMA FrameStage ==
  ASSUME IInv, Kinds, pc' \in Stages
  PROVE  /\ pc = "frame" => AdvanceFrame \/ pc' = "frame"
         /\ pc' = "frame" => \/ pc = "frame" /\ ~AdvanceFrame
                             \/ \E frame \in Nat, bits \in Bits :
                                    pc = "app" /\ Arrives(LocalPlayer, frame, bits)
<1>1. replay.resume # "frame"
  BY SyncFacts DEF Callers
<1>2. ASSUME NEW k \in Players, NEW frame \in Nat, NEW bits \in Bits, Arrives(k, frame, bits)
      PROVE  /\ pc # "frame"
             /\ pc' = "frame" => pc = "app" /\ k = LocalPlayer
  BY <1>2 DEF Arrives
<1>3. ASSUME NEW k \in Remotes, NEW syncto \in Frames, Drops(k, syncto)
      PROVE  pc # "frame" /\ pc' # "frame"
  <2>1. pc \in Resting /\ DisconnectPlayerQueue(k, syncto, pc)
    BY <1>3 DEF Drops
  <2>2. pc' = pc \/ pc' = "replay"
    BY <2>1, AdjustReaches DEF DisconnectPlayerQueue
  <2> QED BY <2>1, <2>2 DEF Resting
<1>4. CASE CheckSimulation
  <2>1. pc = "check" /\ (pc' = "poll" \/ AdjustSimulation(SeekTo(sync), "poll"))
    BY <1>4 DEF CheckSimulation
  <2> QED BY <2>1, AdjustReaches
<1>5. CASE AdvanceFrame
  BY <1>5 DEF AdvanceFrame, SimulateFrame
<1>6. CASE Replay
  BY <1>1, <1>6 DEF Replay, SimulateFrame
<1>7. CASE PushToSpectators \/ Confirm
  BY <1>7 DEF PushToSpectators, Confirm
<1>8. CASE Stays
  <2>1. ~AdvanceFrame \/ pc' # "frame"
    BY DEF AdvanceFrame, SimulateFrame, Stages
  <2> QED BY <1>8, <2>1 DEF Stays, Resting
<1> QED BY <1>2, <1>3, <1>4, <1>5, <1>6, <1>7, <1>8 DEF Kinds

(* The input of the next user frame lands where the delay says.               *)
LEMMA NextUserFrame ==
  ASSUME NEW x, NEW n, NEW l, NEW p, QueueInv(x, n, l, p),
         x.last_added_frame = IF x.last_user_added_frame = NullFrame THEN NullFrame
                              ELSE x.last_user_added_frame + x.frame_delay,
         NEW frame \in Nat,
         x.last_user_added_frame = NullFrame \/ frame = x.last_user_added_frame + 1,
         NEW bits \in Bits
  PROVE  /\ TargetFrame(x, frame) = frame + x.frame_delay
         /\ TargetFrame(x, frame) # NullFrame
         /\ AddInput(x, frame, bits).last_user_added_frame = frame
         /\ AddInput(x, frame, bits).last_added_frame = frame + x.frame_delay
         /\ AddInput(x, frame, bits).frame_delay = x.frame_delay
<1>1. /\ x \in QueueType /\ ExpectedFrame(x) = x.last_added_frame + 1
      /\ x.frame_delay \in Nat
  BY AddAssertsFollow DEF QueueInv, QueueType
<1>2. ExpectedFrame(x) <= frame + x.frame_delay /\ frame + x.frame_delay \in Nat
  <2>1. CASE x.last_user_added_frame = NullFrame
    <3>1. x.last_added_frame = NullFrame
      BY <2>1
    <3> QED BY <1>1, <3>1 DEF NullFrame
  <2>2. CASE x.last_user_added_frame # NullFrame
    <3>1. /\ x.last_added_frame = x.last_user_added_frame + x.frame_delay
          /\ frame = x.last_user_added_frame + 1 /\ x.last_user_added_frame \in Int
      BY <1>1, <2>2 DEF QueueType, Frames, NullFrame
    <3> QED BY <1>1, <3>1
  <2> QED BY <2>1, <2>2
<1>3. TargetFrame(x, frame) = frame + x.frame_delay /\ TargetFrame(x, frame) # NullFrame
  <2>1. ExpectedFrame(x) \in Nat
    BY <1>1, LastInputType
  <2>2. ~(ExpectedFrame(x) > frame + x.frame_delay)
    BY <1>2, <2>1
  <2> QED BY <1>2, <2>2 DEF TargetFrame, NullFrame
<1>4. Added(x, bits, TargetFrame(x, frame), AddInput(x, frame, bits))
  BY <1>1, <1>3, AddInputFields
<1>5. /\ AddInput(x, frame, bits).last_user_added_frame = frame
      /\ AddInput(x, frame, bits).frame_delay = x.frame_delay
  BY <1>1 DEF AddInput, AddDelayedInputs, QueueType
<1> QED BY <1>3, <1>4, <1>5 DEF Added

LEMMA UserArrives ==
  ASSUME IInv, UserInv, StepKeeps, NEW k, NEW frame, NEW bits, Arrives(k, frame, bits),
         Reached' = Reached
  PROVE  UserInv'
<1> DEFINE x == sync.queues[k]
           y == AddInput(x, frame, bits)
           n == sync.framecount
<1>1. /\ k \in Connected(status) /\ k \in Players /\ pc \in Resting
      /\ frame \in Nat /\ bits \in Bits
      /\ sync \in SyncType(Histories, [Players -> QueueType])
      /\ QueuesInv(sync, game, status, log)
  BY SyncFacts, RestingInv DEF Arrives, Connected, IInv, Resting, Stages
<1>2. QueueInv(x, n, log[k], Column(game, k))
  BY <1>1 DEF QueuesInv
<1>3. /\ AddInputAsserts(x, frame)
      /\ sync'.queues = [sync.queues EXCEPT ![k] = y]
  <2> DEFINE t == sync'
             st2 == status'
             lg2 == log'
  <2>1. Adds(sync, status, log, k, frame, bits, t, st2, lg2)
    BY DEF Arrives
  <2> HIDE DEF t, st2, lg2
  <2>2. AddInputAsserts(x, frame) /\ t.queues = [sync.queues EXCEPT ![k] = y]
    BY <2>1 DEF Adds
  <2> QED BY <2>2 DEF t
<1>4. /\ sync'.queues[k] = y
      /\ \A i \in Players \ {k} : sync'.queues[i] = sync.queues[i]
  <2> HIDE DEF y, x
  <2> QED BY <1>1, <1>3 DEF SyncType
<1>5. x.last_added_frame = IF x.last_user_added_frame = NullFrame THEN NullFrame
                           ELSE x.last_user_added_frame + x.frame_delay
  BY <1>1 DEF UserInv, Resting
<1>6. x.last_user_added_frame = NullFrame \/ frame = x.last_user_added_frame + 1
  BY <1>3 DEF AddInputAsserts
<1> HIDE DEF x
<1>7. /\ y.last_user_added_frame = frame /\ y.last_added_frame = frame + x.frame_delay
      /\ y.frame_delay = x.frame_delay
  BY <1>1, <1>2, <1>5, <1>6, NextUserFrame
<1> HIDE DEF y
<1>8. ASSUME NEW i \in Connected(status')
      PROVE  LET z == sync'.queues[i]
             IN  z.last_added_frame =
                   IF z.last_user_added_frame = NullFrame THEN NullFrame
                   ELSE z.last_user_added_frame + z.frame_delay
  <2>1. i \in Connected(status) /\ i \in Players
    BY DEF StepKeeps, Fewer, Connected
  <2>2. CASE i = k
    BY <1>1, <1>4, <1>7, <2>2 DEF NullFrame
  <2>3. CASE i # k
    BY <1>1, <1>4, <2>1, <2>3 DEF UserInv, Resting
  <2> QED BY <2>2, <2>3
<1>9. LET z == sync'.queues[LocalPlayer]
      IN  /\ z.frame_delay \in LocalDelays /\ z.last_added_frame < MaxFrame
          /\ z.last_user_added_frame = IF pc' = "frame" THEN Reached' ELSE Reached' - 1
  <2>1. CASE pc = "app"
    <3>1. /\ pc' = "frame" /\ k = LocalPlayer /\ frame = n
          /\ frame + x.frame_delay < MaxFrame
      BY <2>1 DEF Arrives, x
    <3>2. x.frame_delay \in LocalDelays
      BY <2>1, <3>1 DEF UserInv, Stages, x
    <3>3. Reached' = n
      BY <2>1 DEF Reached
    <3> QED BY <1>4, <1>7, <3>1, <3>2, <3>3
  <2>2. CASE pc # "app"
    <3>1. pc = "events" /\ pc' = pc /\ k # LocalPlayer
      BY <2>2 DEF Arrives
    <3>2. sync'.queues[LocalPlayer] = sync.queues[LocalPlayer]
      BY <1>4, <3>1, PlayersArranged
    <3> QED BY <3>1, <3>2 DEF UserInv, Stages
  <2> QED BY <2>1, <2>2
<1> QED BY <1>8, <1>9 DEF UserInv

LEMMA UserStep ==
  ASSUME IInv, RingInvs, SimInv, UserInv, Kinds, [Next]_vars, StepKeeps
  PROVE  UserInv'
<1> SUFFICES ASSUME pc' \in Stages PROVE UserInv'
  BY DEF UserInv
<1>1. pc \in Stages
  BY DEF Kinds, Arrives, Drops, Resting, CheckSimulation, AdvanceFrame, Replay,
         PushToSpectators, Confirm, Stays, Stages
<1>2. /\ AdvanceFrame => Reached' = Reached + 1
      /\ ~AdvanceFrame => Reached' = Reached
  BY ReachedStep
<1>3. ASSUME NEW k \in Players, NEW frame \in Nat, NEW bits \in Bits,
             Arrives(k, frame, bits)
      PROVE  UserInv'
  <2>1. ~AdvanceFrame
    BY <1>3 DEF Arrives, AdvanceFrame
  <2> QED BY <1>2, <1>3, <2>1, UserArrives
<1>4. CASE ~ \E k \in Players, frame \in Nat, bits \in Bits : Arrives(k, frame, bits)
  <2>1. \A i \in Players : SameUse(sync.queues[i], sync'.queues[i])
    BY <1>4, UseStep
  <2>2. \A i \in Connected(status') : i \in Connected(status) /\ i \in Players
    BY DEF StepKeeps, Fewer, Connected
  <2>3. /\ LocalPlayer \in Players /\ Reached \in Nat
        /\ sync.queues[LocalPlayer].last_user_added_frame
             = IF pc = "frame" THEN Reached ELSE Reached - 1
        /\ sync.queues[LocalPlayer].frame_delay \in LocalDelays
        /\ sync.queues[LocalPlayer].last_added_frame < MaxFrame
    BY <1>1, SyncFacts, PlayersArranged DEF UserInv, Reached
  <2>4. /\ pc = "frame" => AdvanceFrame \/ pc' = "frame"
        /\ pc' = "frame" => pc = "frame" /\ ~AdvanceFrame
    BY <1>4, FrameStage, PlayersArranged
  <2>5. AdvanceFrame => pc = "frame" /\ pc' # "frame"
    BY DEF AdvanceFrame, SimulateFrame
  <2>6. sync'.queues[LocalPlayer].last_user_added_frame
          = IF pc' = "frame" THEN Reached' ELSE Reached' - 1
    <3>1. SameUse(sync.queues[LocalPlayer], sync'.queues[LocalPlayer])
      BY <2>1, <2>3
    <3>2. CASE AdvanceFrame
      BY <1>2, <2>3, <2>5, <3>1, <3>2 DEF SameUse
    <3>3. CASE ~AdvanceFrame
      BY <1>2, <2>3, <2>4, <3>1, <3>3 DEF SameUse
    <3> QED BY <3>2, <3>3
  <2>7. ASSUME NEW i \in Connected(status')
        PROVE  LET z == sync'.queues[i]
               IN  z.last_added_frame =
                     IF z.last_user_added_frame = NullFrame THEN NullFrame
                     ELSE z.last_user_added_frame + z.frame_delay
    BY <1>1, <2>1, <2>2 DEF SameUse, UserInv
  <2>8. /\ sync'.queues[LocalPlayer].frame_delay \in LocalDelays
        /\ sync'.queues[LocalPlayer].last_added_frame < MaxFrame
    BY <2>1, <2>3 DEF SameUse
  <2> QED BY <2>6, <2>7, <2>8 DEF UserInv
<1> QED BY <1>3, <1>4

LEMMA UserInit == ASSUME Init PROVE UserInv
<1>1. PICK delay \in LocalDelays :
        sync = [InitSync EXCEPT !.queues[LocalPlayer] = SetFrameDelay(@, delay)]
  BY DEF Init
<1>2. /\ sync.framecount = 0 /\ pc = "app"
      /\ sync.queues = [InitSync.queues EXCEPT ![LocalPlayer] = SetFrameDelay(@, delay)]
      /\ InitSync.queues = [i \in Players |-> InitQueue]
  BY <1>1 DEF InitSync, Init
<1>3. /\ sync.queues[LocalPlayer] = SetFrameDelay(InitQueue, delay)
      /\ \A i \in Players : sync.queues[i] \in {InitQueue, SetFrameDelay(InitQueue, delay)}
  BY <1>2, PlayersArranged
<1>4. \A x \in {InitQueue, SetFrameDelay(InitQueue, delay)} :
         x.last_added_frame = -1 /\ x.last_user_added_frame = -1
  BY DEF InitQueue, SetFrameDelay, NullFrame
<1>5. SetFrameDelay(InitQueue, delay).frame_delay = delay
  BY DEF InitQueue, SetFrameDelay
<1>6. Reached = 0
  BY <1>2 DEF Reached
<1> QED BY <1>2, <1>3, <1>4, <1>5, <1>6 DEF UserInv, Connected, NullFrame
-----------------------------------------------------------------------------
(* The inputs that an endpoint has queued.                                    *)

(* The frame after f, or the first one that a remote player sends.            *)
Following(f) == IF f = NullFrame THEN RemoteDelay ELSE f + 1

(* The inputs in the queue box are of the frames from first to last.          *)
Inputs(box) == {n \in 1 .. Len(box) : box[n].type = "input"}

InOrder(box, first, last) ==
    /\ \A n \in Inputs(box) : box[n].frame \in first .. last
    /\ \A m, n \in Inputs(box) : m < n => box[m].frame < box[n].frame
    /\ \A f \in first .. last : \E n \in Inputs(box) : box[n].frame = f

(* A remote player's inputs stay within its own prediction barrier, and those *)
(* between the last one added for it and the last one received are queued.    *)
ReceivedInv ==
    \A e \in Remotes :
        last_received[e] # NullFrame =>
            /\ last_received[e] - RemoteDelay
                 < Max2(status[LocalPlayer].last_frame, 0) + MAX_PREDICTION_FRAMES
            /\ last_received[e] < MaxFrame

OrderInv ==
    pc \in Stages =>
        \A e \in Remotes :
            ~status[e].disconnected =>
                LET last == status[e].last_frame
                IN  /\ InOrder(inbox[e], Following(last), last_received[e])
                    /\ \/ last_received[e] = last
                       \/ last_received[e] >= Following(last)

(* A notice at either end of the queue.                                       *)
LEMMA NoticeTaken ==
  ASSUME NEW box \in Seq(Events), box # <<>>, Head(box).type # "input",
         NEW first \in Int, NEW last \in Int, InOrder(box, first, last)
  PROVE  InOrder(Tail(box), first, last)
<1> DEFINE rest == Tail(box)
<1>1. /\ Len(rest) = Len(box) - 1 /\ Len(box) \in Nat \ {0}
      /\ \A n \in 1 .. Len(rest) : rest[n] = box[n + 1]
      /\ box[1].type # "input"
  <2>1. Len(box) \in Nat \ {0}
    BY EmptySeq
  <2> QED BY <2>1
<1> HIDE DEF rest
<1>2. \A n \in Inputs(rest) : n + 1 \in Inputs(box) /\ rest[n] = box[n + 1] /\ n \in Int
  BY <1>1 DEF Inputs
<1>3. \A n \in Inputs(box) : n - 1 \in Inputs(rest) /\ rest[n - 1] = box[n]
  BY <1>1 DEF Inputs
<1>4. ASSUME NEW n \in Inputs(rest) PROVE rest[n].frame \in first .. last
  <2>1. n + 1 \in Inputs(box) /\ rest[n] = box[n + 1]
    BY <1>2
  <2>2. \A j \in Inputs(box) : box[j].frame \in first .. last
    BY DEF InOrder
  <2> QED BY <2>1, <2>2
<1>5. ASSUME NEW m \in Inputs(rest), NEW n \in Inputs(rest), m < n
      PROVE  rest[m].frame < rest[n].frame
  <2>1. m + 1 < n + 1 /\ m + 1 \in Inputs(box) /\ n + 1 \in Inputs(box)
    BY <1>2, <1>5
  <2> QED BY <1>2, <2>1 DEF InOrder
<1>6. ASSUME NEW f \in first .. last PROVE \E n \in Inputs(rest) : rest[n].frame = f
  <2>1. PICK n \in Inputs(box) : box[n].frame = f
    BY DEF InOrder
  <2>2. n - 1 \in Inputs(rest) /\ rest[n - 1].frame = f
    BY <1>3, <2>1
  <2> QED BY <2>2
<1> QED BY <1>4, <1>5, <1>6 DEF InOrder, rest

LEMMA NoticeQueued ==
  ASSUME NEW box \in Seq(Events), NEW event, event.type # "input",
         NEW first \in Int, NEW last \in Int, InOrder(box, first, last)
  PROVE  InOrder(Append(box, event), first, last)
<1> DEFINE more == Append(box, event)
<1>1. /\ Len(more) = Len(box) + 1 /\ Len(box) \in Nat
      /\ \A n \in 1 .. Len(box) : more[n] = box[n]
      /\ more[Len(box) + 1] = event
  OBVIOUS
<1> HIDE DEF more
<1>2. Inputs(more) = Inputs(box) /\ \A n \in Inputs(box) : more[n] = box[n]
  <2>1. \A n \in 1 .. Len(more) : n \in 1 .. Len(box) \/ n = Len(box) + 1
    BY <1>1
  <2> QED BY <1>1, <2>1 DEF Inputs
<1> QED BY <1>2 DEF InOrder, more

(* The first input taken is the next one; the next one is received.           *)
LEMMA InputTaken ==
  ASSUME NEW box \in Seq(Events), box # <<>>, Head(box).type = "input",
         NEW first \in Int, NEW last \in Int, InOrder(box, first, last)
  PROVE  /\ Head(box).frame = first /\ first <= last
         /\ InOrder(Tail(box), first + 1, last)
<1> DEFINE rest == Tail(box)
<1>1. /\ Len(rest) = Len(box) - 1 /\ Len(box) \in Nat \ {0}
      /\ \A n \in 1 .. Len(rest) : rest[n] = box[n + 1]
      /\ box[1] = Head(box)
  <2>1. Len(box) \in Nat \ {0}
    BY EmptySeq
  <2> QED BY <2>1
<1>2. 1 \in Inputs(box) /\ \A n \in Inputs(box) : n = 1 \/ (n \in Int /\ 1 < n)
  BY <1>1 DEF Inputs
<1>3. /\ box[1].frame \in first .. last
      /\ \A n \in Inputs(box) : box[n].frame \in Int
  BY <1>2 DEF InOrder
<1>4. box[1].frame = first /\ first <= last
  <2>1. first \in first .. last /\ first <= last
    BY <1>3
  <2>2. PICK n \in Inputs(box) : box[n].frame = first
    BY <2>1 DEF InOrder
  <2>3. CASE n = 1
    BY <2>1, <2>2, <2>3
  <2>4. CASE 1 < n
    <3>1. box[1].frame < box[n].frame
      BY <1>2, <2>4 DEF InOrder
    <3> QED BY <1>3, <2>2, <3>1
  <2> QED BY <1>2, <2>3, <2>4
<1> HIDE DEF rest
<1>5. \A n \in Inputs(rest) : n + 1 \in Inputs(box) /\ rest[n] = box[n + 1] /\ n \in Int /\ 1 < n + 1
  BY <1>1 DEF Inputs
<1>6. \A n \in Inputs(box) : n # 1 => n - 1 \in Inputs(rest) /\ rest[n - 1] = box[n]
  BY <1>1, <1>2 DEF Inputs
<1>7. \A n \in Inputs(rest) : rest[n].frame \in first + 1 .. last
  <2>1. ASSUME NEW n \in Inputs(rest) PROVE rest[n].frame \in first + 1 .. last
    <3>1. /\ box[1].frame < box[n + 1].frame
          /\ box[n + 1].frame \in first .. last
      BY <1>2, <1>5 DEF InOrder
    <3> QED BY <1>4, <1>5, <3>1
  <2> QED BY <2>1
<1>8. \A m, n \in Inputs(rest) : m < n => rest[m].frame < rest[n].frame
  BY <1>5 DEF InOrder
<1>9. \A f \in first + 1 .. last : \E n \in Inputs(rest) : rest[n].frame = f
  <2>1. ASSUME NEW f \in first + 1 .. last PROVE \E n \in Inputs(rest) : rest[n].frame = f
    <3>1. f \in first .. last /\ f # first
      OBVIOUS
    <3>2. PICK n \in Inputs(box) : box[n].frame = f
      BY <3>1 DEF InOrder
    <3>3. n # 1
      BY <1>4, <3>1, <3>2
    <3> QED BY <1>6, <3>2, <3>3
  <2> QED BY <2>1
<1> QED BY <1>1, <1>4, <1>7, <1>8, <1>9 DEF InOrder, rest

LEMMA InputQueued ==
  ASSUME NEW box \in Seq(Events), NEW event, event.type = "input",
         NEW first \in Int, NEW last \in Int, InOrder(box, first, last),
         NEW frame \in Int, event.frame = frame, first <= frame,
         last < frame, \A f \in first .. frame - 1 : f <= last
  PROVE  InOrder(Append(box, event), first, frame)
<1> DEFINE more == Append(box, event)
           k == Len(box) + 1
<1>1. /\ Len(more) = k /\ Len(box) \in Nat
      /\ \A n \in 1 .. Len(box) : more[n] = box[n]
      /\ more[k] = event
  OBVIOUS
<1> HIDE DEF more
<1>2. /\ k \in Inputs(more)
      /\ \A n \in Inputs(box) : n \in Inputs(more) /\ more[n] = box[n] /\ n \in Int /\ n < k
      /\ \A n \in Inputs(more) : n = k \/ n \in Inputs(box)
  <2>1. \A n \in 1 .. Len(more) : n \in 1 .. Len(box) \/ n = k
    BY <1>1
  <2> QED BY <1>1, <2>1 DEF Inputs
<1>3. \A n \in Inputs(box) : box[n].frame \in first .. last
  BY DEF InOrder
<1> HIDE DEF k
<1>4. \A n \in Inputs(more) : more[n].frame \in first .. frame
  BY <1>1, <1>2, <1>3
<1>5. ASSUME NEW m \in Inputs(more), NEW n \in Inputs(more), m < n
      PROVE  more[m].frame < more[n].frame
  <2>1. CASE m \in Inputs(box) /\ n \in Inputs(box)
    BY <1>2, <1>5, <2>1 DEF InOrder
  <2>2. CASE m \in Inputs(box) /\ n = k
    <3>1. more[m].frame \in first .. last /\ more[n].frame = frame
      BY <1>1, <1>2, <1>3, <2>2
    <3> QED BY <3>1
  <2>3. CASE m = k
    <3>1. n = k \/ (n < k /\ n \in Int)
      BY <1>2
    <3> QED BY <1>1, <1>5, <2>3, <3>1 DEF k
  <2> QED BY <1>2, <2>1, <2>2, <2>3
<1>6. ASSUME NEW f \in first .. frame PROVE \E n \in Inputs(more) : more[n].frame = f
  <2>1. CASE f = frame
    BY <1>1, <1>2, <2>1
  <2>2. CASE f # frame
    <3>1. f \in first .. frame - 1
      BY <2>2
    <3>2. f \in first .. last
      BY <3>1
    <3> QED BY <1>2, <3>2 DEF InOrder
  <2> QED BY <2>1, <2>2
<1> QED BY <1>4, <1>5, <1>6 DEF InOrder, more

(* Of a player who stays connected nothing but an input taken from its queue  *)
(* changes the status.                                                        *)
LEMMA StatusStays ==
  ASSUME IInv, [Next]_vars, NEW e \in Remotes, ~status'[e].disconnected, pc' \in Stages
  PROVE  OnInput(e) \/ status'[e] = status[e]
<1>0. status \in [Players -> Status] /\ e \in Players /\ e # LocalPlayer
  BY SyncFacts, PlayersArranged DEF Remotes
<1>1. ASSUME NEW queue \in Players, NEW syncto, NEW resume,
             DisconnectPlayerQueue(queue, syncto, resume)
      PROVE  status'[e] = status[e]
  <2> DEFINE gone == [disconnected |-> TRUE, last_frame |-> syncto]
  <2>1. status' = [status EXCEPT ![queue] = gone] /\ gone.disconnected
    BY <1>1 DEF DisconnectPlayerQueue
  <2> HIDE DEF gone
  <2> QED BY <1>0, <2>1
<1>2. CASE Application
  <2>1. ASSUME NEW bits \in Made[LocalPlayer], AddLocal(bits) PROVE status'[e] = status[e]
    <3> DEFINE target == TargetFrame(sync.queues[LocalPlayer], sync.framecount)
    <3>1. \/ UNCHANGED status
          \/ status' = [status EXCEPT ![LocalPlayer].last_frame = target]
      BY <2>1 DEF AddLocal
    <3> HIDE DEF target
    <3> QED BY <1>0, <3>1
  <2>2. ASSUME NEW k \in Players, DisconnectRemote(k) PROVE status'[e] = status[e]
    BY <1>1, <2>2 DEF DisconnectRemote
  <2>3. CASE DisconnectLocal
    BY <1>0, <2>3 DEF DisconnectLocal
  <2>4. CASE AdvanceFrame \/ Idle
    BY <2>4 DEF AdvanceFrame, Idle
  <2> QED BY <1>2, <2>1, <2>2, <2>3, <2>4 DEF Application
<1>3. CASE Network
  BY ZenonT(60), <1>3 DEF Network, Synchronized, Disconnected, Shutdown, InputArrives,
              PeerClaims
<1>4. CASE DoPoll
  <2>1. ASSUME NEW k \in Endpoints, OnInput(k), k # e PROVE status'[e] = status[e]
    <3>1. \/ UNCHANGED status
          \/ status' = [status EXCEPT ![k].last_frame = Head(inbox[k]).frame]
      BY <2>1 DEF OnInput
    <3> QED BY <1>0, <2>1, <3>1
  <2>2. ASSUME NEW k \in Endpoints, OnDisconnected(k) PROVE status'[e] = status[e]
    <3>1. CASE UNCHANGED status
      BY <3>1
    <3>2. CASE ~UNCHANGED status
      <4>1. DisconnectPlayerQueue(k, status[k].last_frame, "events") /\ k \in Players
        BY <2>2, <3>2 DEF OnDisconnected, Endpoints
      <4> QED BY <1>1, <4>1
    <3> QED BY <3>1, <3>2
  <2>3. CASE PollPlayer
    <3>1. CASE UNCHANGED status
      BY <3>1
    <3>2. CASE ~UNCHANGED status
      <4> DEFINE queue == poll.queue
                 syncto == DisconnectFrame(queue)
      <4>1. DisconnectPlayerQueue(queue, syncto, "poll") /\ queue \in Players
        BY <2>3, <3>2 DEF PollPlayer
      <4> HIDE DEF queue, syncto
      <4> QED BY <1>1, <4>1
    <3> QED BY <3>1, <3>2
  <2>4. ASSUME NEW k \in Endpoints, OnSynchronized(k) PROVE status'[e] = status[e]
    BY <2>4 DEF OnSynchronized
  <2>5. CASE Pumped \/ EventsDone \/ CheckSimulation \/ Replay \/ PollDone
             \/ PushToSpectators \/ Confirm
    BY <2>5 DEF Pumped, EventsDone, CheckSimulation, Replay, PollDone,
                PushToSpectators, Confirm
  <2> QED BY <1>4, <2>1, <2>2, <2>3, <2>4, <2>5 DEF DoPoll
<1>5. CASE Exited \/ UNCHANGED vars
  BY <1>5 DEF Exited, vars
<1> QED BY <1>2, <1>3, <1>4, <1>5 DEF Next

(* What a step does to the queue of endpoint e.                               *)
LEMMA InboxMoves ==
  ASSUME IInv, [Next]_vars, NEW e \in Remotes
  PROVE  \/ /\ inbox'[e] = inbox[e] /\ last_received'[e] = last_received[e] /\ ~OnInput(e)
         \/ /\ \E event \in Notices : inbox'[e] = Append(inbox[e], event)
            /\ last_received'[e] = last_received[e] /\ UNCHANGED <<status, pc>>
         \/ /\ \E bits \in Made[e] : InputArrives(e, bits)
         \/ /\ inbox[e] # <<>> /\ Head(inbox[e]).type # "input" /\ ~OnInput(e)
            /\ inbox'[e] = Tail(inbox[e]) /\ last_received'[e] = last_received[e]
         \/ OnInput(e) /\ last_received'[e] = last_received[e]
<1>0. /\ inbox \in [Endpoints -> Seq(Events)] /\ last_received \in [Endpoints -> Frames]
      /\ e \in Endpoints
  BY RemotesArranged DEF IInv, NetworkInv
<1> DEFINE Goal ==
         \/ /\ inbox'[e] = inbox[e] /\ last_received'[e] = last_received[e] /\ ~OnInput(e)
         \/ /\ \E event \in Notices : inbox'[e] = Append(inbox[e], event)
            /\ last_received'[e] = last_received[e] /\ UNCHANGED <<status, pc>>
         \/ /\ \E bits \in Made[e] : InputArrives(e, bits)
         \/ /\ inbox[e] # <<>> /\ Head(inbox[e]).type # "input" /\ ~OnInput(e)
            /\ inbox'[e] = Tail(inbox[e]) /\ last_received'[e] = last_received[e]
         \/ OnInput(e) /\ last_received'[e] = last_received[e]
<1>1. ASSUME inbox'[e] = inbox[e], last_received'[e] = last_received[e]
      PROVE  Goal
  BY <1>1
<1>2. ASSUME NEW k \in Endpoints, NEW event \in Notices, QueueEvent(k, event),
             UNCHANGED <<last_received, status, pc>>
      PROVE  Goal
  <2>1. inbox' = [inbox EXCEPT ![k] = Append(@, event)]
    BY <1>2 DEF QueueEvent
  <2>2. CASE k = e
    <3>1. inbox'[e] = Append(inbox[e], event)
      BY <1>0, <2>1, <2>2
    <3> QED BY <1>2, <3>1
  <2>3. CASE k # e
    <3>1. inbox'[e] = inbox[e]
      BY <1>0, <2>1, <2>3
    <3> QED BY <1>1, <1>2, <3>1
  <2> QED BY <2>2, <2>3
<1>3. ASSUME NEW k \in Endpoints, NEW type, Take(k, type)
      PROVE  /\ k # e => Goal
             /\ k = e => /\ inbox[e] # <<>> /\ Head(inbox[e]).type = type
                         /\ inbox'[e] = Tail(inbox[e])
                         /\ last_received'[e] = last_received[e]
  <2>1. inbox' = [inbox EXCEPT ![k] = Tail(@)] /\ UNCHANGED last_received
    BY <1>3 DEF Take
  <2>2. CASE k = e
    BY <1>0, <1>3, <2>1, <2>2 DEF Take, IsNext, Waiting
  <2>3. CASE k # e
    <3>1. inbox'[e] = inbox[e]
      BY <1>0, <2>1, <2>3
    <3> QED BY <1>1, <2>1, <2>3, <3>1
  <2> QED BY <2>2, <2>3
<1>4. CASE Application
  <2>1. UNCHANGED <<inbox, last_received>>
    BY ZenonT(60), <1>4 DEF Application, AddLocal, AdvanceFrame, Idle, DisconnectRemote,
                DisconnectLocal, network
  <2> QED BY <1>1, <2>1
<1>5. CASE Network
  <2>1. ASSUME NEW k \in Endpoints, Synchronized(k) PROVE Goal
    <3> DEFINE event == [type |-> "synchronized"]
    <3>1. /\ event \in Notices /\ QueueEvent(k, event)
          /\ UNCHANGED <<last_received, status, pc>>
      BY <2>1 DEF Synchronized, Notices
    <3> HIDE DEF event
    <3> QED BY <1>2, <3>1
  <2>2. ASSUME NEW k \in Endpoints, Disconnected(k) PROVE Goal
    <3> DEFINE event == [type |-> "disconnected"]
    <3>1. event \in Notices
      BY DEF Notices
    <3>2. QueueEvent(k, event) /\ UNCHANGED <<last_received, status>>
      BY <2>2 DEF Disconnected
    <3>3. UNCHANGED pc
      BY <2>2 DEF Disconnected
    <3> HIDE DEF event
    <3> QED BY <1>2, <3>1, <3>2, <3>3
  <2>3. ASSUME NEW k \in Remotes, NEW bits \in Made[k], InputArrives(k, bits) PROVE Goal
    <3>1. CASE k = e
      BY <2>3, <3>1
    <3>2. CASE k # e
      <4> DEFINE frame == IF last_received[k] = NullFrame THEN RemoteDelay
                          ELSE last_received[k] + 1
                 event == [type |-> "input", frame |-> frame, bits |-> bits]
      <4>1. /\ QueueEvent(k, event)
            /\ last_received' = [last_received EXCEPT ![k] = frame]
        BY <2>3 DEF InputArrives
      <4> HIDE DEF frame, event
      <4>2. inbox'[e] = inbox[e] /\ last_received'[e] = last_received[e]
        BY <1>0, <3>2, <4>1 DEF QueueEvent
      <4> QED BY <1>1, <4>2
    <3> QED BY <3>1, <3>2
  <2>4. CASE UNCHANGED <<inbox, last_received>>
    BY <1>1, <2>4
  <2> QED BY <1>5, <2>1, <2>2, <2>3, <2>4 DEF Network, Shutdown, PeerClaims, network
<1>6. CASE DoPoll
  <2>1. ASSUME NEW k \in Endpoints, OnSynchronized(k) PROVE Goal
    <3>1. Take(k, "synchronized")
      BY <2>1 DEF OnSynchronized
    <3> QED BY <1>3, <3>1 DEF OnInput, Take
  <2>2. ASSUME NEW k \in Endpoints, OnDisconnected(k) PROVE Goal
    <3>1. Take(k, "disconnected")
      BY <2>2 DEF OnDisconnected
    <3> QED BY <1>3, <3>1 DEF OnInput, Take
  <2>3. ASSUME NEW k \in Endpoints, OnInput(k) PROVE Goal
    <3>1. Take(k, "input")
      BY <2>3 DEF OnInput
    <3> QED BY <1>3, <2>3, <3>1
  <2>4. CASE UNCHANGED <<inbox, last_received>>
    BY <1>1, <2>4
  <2>5. Pumped \/ EventsDone \/ CheckSimulation \/ Replay \/ PollPlayer \/ PollDone
          \/ PushToSpectators \/ Confirm => UNCHANGED <<inbox, last_received>>
    BY DEF Pumped, EventsDone, CheckSimulation, Replay, PollPlayer, PollDone,
           PushToSpectators, Confirm, network
  <2> QED BY <1>6, <2>1, <2>2, <2>3, <2>4, <2>5 DEF DoPoll
<1>7. CASE Exited \/ UNCHANGED vars
  BY <1>1, <1>7 DEF Exited, vars, network
<1> QED BY <1>4, <1>5, <1>6, <1>7 DEF Next

LEMMA ReceivedStep ==
  ASSUME IInv, ReceivedInv, [Next]_vars, StepKeeps
  PROVE  ReceivedInv'
<1> SUFFICES ASSUME NEW e \in Remotes, last_received'[e] # NullFrame
             PROVE  /\ last_received'[e] - RemoteDelay
                         < Max2(status'[LocalPlayer].last_frame, 0) + MAX_PREDICTION_FRAMES
                    /\ last_received'[e] < MaxFrame
    BY DEF ReceivedInv
<1>1. /\ status[LocalPlayer].last_frame \in Int /\ status'[LocalPlayer].last_frame \in Int
      /\ status'[LocalPlayer].last_frame >= status[LocalPlayer].last_frame
      /\ e \in Endpoints /\ last_received[e] \in Int
      /\ last_received \in [Endpoints -> Frames]
    BY PlayersArranged DEF StepKeeps, SessionTypes, Fewer, Connected, IInv, NetworkInv,
       Status, Frames, NullFrame, Endpoints
<1>2. last_received'[e] = last_received[e] \/ \E bits \in Made[e] : InputArrives(e, bits)
    BY InboxMoves, Zenon
<1>3. CASE last_received'[e] = last_received[e]
  <2>1. /\ last_received[e] - RemoteDelay
             < Max2(status[LocalPlayer].last_frame, 0) + MAX_PREDICTION_FRAMES
        /\ last_received[e] < MaxFrame
      BY <1>3, Zenon DEF ReceivedInv
  <2> QED BY <2>1, <1>1, <1>3 DEF Max2
<1>4. CASE \E bits \in Made[e] : InputArrives(e, bits)
  <2>1. PICK bits \in Made[e] : InputArrives(e, bits) BY <1>4
  <2> DEFINE frame == IF last_received[e] = NullFrame THEN RemoteDelay
                      ELSE last_received[e] + 1
  <2>2. /\ frame - RemoteDelay < Max2(status[LocalPlayer].last_frame, 0)
                                   + MAX_PREDICTION_FRAMES
        /\ frame < MaxFrame /\ UNCHANGED status
        /\ last_received'[e] = frame
      BY <2>1, <1>1 DEF InputArrives
  <2> QED BY <2>2
<1> QED BY <1>2, <1>3, <1>4

(* The thread is in no stage after it has left them.                          *)
LEMMA StagesBefore ==
  ASSUME IInv, [Next]_vars, pc' \in Stages
  PROVE  pc \in Stages
<1>1. CASE pc \in Stages BY <1>1
<1>2. CASE pc \notin Stages
  <2>1. /\ ~Application /\ ~Network /\ ~DoPoll
      BY <1>2 DEF Application, Network, DoPoll, AddLocal, AdvanceFrame, Idle,
         DisconnectRemote, DisconnectLocal, Synchronized, Disconnected, Shutdown,
         InputArrives, PeerClaims, Pumped, OnSynchronized, OnInput, OnDisconnected,
         EventsDone, CheckSimulation, Replay, PollPlayer, PollDone, PushToSpectators,
         Confirm, QueueEvent, Take, Stages
  <2>2. UNCHANGED vars BY <2>1, Zenon DEF Next, Exited
  <2> QED BY <2>2, <1>2 DEF vars
<1> QED BY <1>1, <1>2

LEMMA OrderStep ==
  ASSUME IInv, OrderInv, [Next]_vars, StepKeeps
  PROVE  OrderInv'
<1> SUFFICES ASSUME pc' \in Stages, NEW e \in Remotes, ~status'[e].disconnected
             PROVE  LET last == status'[e].last_frame
                    IN  /\ InOrder(inbox'[e], Following(last), last_received'[e])
                        /\ \/ last_received'[e] = last
                           \/ last_received'[e] >= Following(last)
    BY DEF OrderInv, InOrder, Inputs, Following
<1> DEFINE last == status[e].last_frame
           first == Following(last)
           recv == last_received[e]
<1>1. /\ e \in Players /\ e \in Endpoints /\ last \in Frames /\ recv \in Frames
      /\ inbox \in [Endpoints -> Seq(Events)] /\ inbox[e] \in Seq(Events)
      /\ status \in [Players -> Status] /\ status' \in [Players -> Status]
      /\ last_received \in [Endpoints -> Frames]
    BY PlayersArranged, Zenon, RemotesArranged
       DEF StepKeeps, SessionTypes, IInv, NetworkInv, Status
<1>2. first \in Nat /\ first \in Int /\ last \in Int /\ recv \in Int /\ recv >= -1
      /\ first = IF last = NullFrame THEN RemoteDelay ELSE last + 1
    BY <1>1 DEF Following, Frames, NullFrame
<1>3. pc \in Stages BY StagesBefore
<1>4. ~status[e].disconnected
    BY <1>1 DEF StepKeeps, Fewer, Connected
<1>5. InOrder(inbox[e], first, recv) /\ (recv = last \/ recv >= first)
    BY <1>3, <1>4, Zenon DEF OrderInv
<1>6. CASE status'[e] = status[e] /\ inbox'[e] = inbox[e] /\ last_received'[e] = recv
    BY <1>6, <1>5, Zenon
<1>7. CASE /\ \E event \in Notices : inbox'[e] = Append(inbox[e], event)
           /\ last_received'[e] = recv /\ UNCHANGED status
  <2>1. PICK event \in Notices : inbox'[e] = Append(inbox[e], event) BY <1>7
  <2>2. event.type # "input" BY DEF Notices
  <2>3. InOrder(inbox[e], first, recv) BY <1>5
  <2>4. InOrder(inbox'[e], first, recv)
    <3> HIDE DEF first, recv, last
    <3>1. InOrder(Append(inbox[e], event), first, recv)
        BY <2>2, <1>1, <1>2, <2>3, NoticeQueued, Zenon
    <3> QED BY <2>1, <3>1
  <2> QED BY <2>4, <1>7, <1>5, Zenon
<1>8. CASE \E bits \in Made[e] : InputArrives(e, bits)
  <2>1. PICK bits \in Made[e] : InputArrives(e, bits) BY <1>8
  <2> DEFINE frame == IF recv = NullFrame THEN RemoteDelay ELSE recv + 1
             event == [type |-> "input", frame |-> frame, bits |-> bits]
  <2>2. /\ inbox'[e] = Append(inbox[e], event) /\ last_received'[e] = frame
        /\ status' = status
      BY <2>1, <1>1, Zenon DEF InputArrives, QueueEvent
  <2>3. /\ frame \in Int /\ first <= frame /\ recv < frame
        /\ \A f \in first .. frame - 1 : f <= recv
      BY <1>2, <1>5 DEF NullFrame
  <2>4. event.type = "input" /\ event.frame = frame OBVIOUS
  <2>5. InOrder(Append(inbox[e], event), first, frame)
    <3>1. InOrder(inbox[e], first, recv) BY <1>5
    <3> HIDE DEF event, frame, first, recv, last
    <3> QED BY <2>3, <2>4, <1>1, <1>2, <3>1, InputQueued, Zenon
  <2> QED BY <2>2, <2>3, <2>5, Zenon
<1>9. CASE /\ inbox[e] # <<>> /\ Head(inbox[e]).type # "input"
           /\ inbox'[e] = Tail(inbox[e]) /\ last_received'[e] = recv
           /\ status'[e] = status[e]
  <2>0. InOrder(inbox[e], first, recv) BY <1>5
  <2>1. InOrder(inbox'[e], first, recv)
    <3> HIDE DEF first, recv, last
    <3>1. InOrder(Tail(inbox[e]), first, recv)
        BY <1>9, <1>1, <1>2, <2>0, NoticeTaken, Zenon
    <3> QED BY <1>9, <3>1
  <2> QED BY <2>1, <1>9, <1>5, Zenon
<1>10. CASE OnInput(e) /\ last_received'[e] = recv
  <2> DEFINE frame == Head(inbox[e]).frame
  <2>1. /\ inbox'[e] = Tail(inbox[e]) /\ inbox[e] # <<>> /\ Head(inbox[e]).type = "input"
      BY <1>10, <1>1 DEF OnInput, Take, IsNext, Waiting
  <2>2. status' = [status EXCEPT ![e].last_frame = frame]
      BY <1>10, <1>4 DEF OnInput, Stages
  <2>3. status'[e].last_frame = frame
      BY <2>2, <1>1 DEF Status
  <2>4. /\ frame = first /\ first <= recv /\ InOrder(Tail(inbox[e]), first + 1, recv)
    <3> HIDE DEF first, recv
    <3> QED BY <2>1, <1>1, <1>2, <1>5, InputTaken
  <2>5. Following(frame) = first + 1
      BY <2>4, <1>2 DEF Following, NullFrame
  <2>6. recv = frame \/ recv >= first + 1
      BY <2>4, <1>2
  <2> QED BY <2>1, <2>3, <2>4, <2>5, <2>6, <1>10, Zenon
<1> QED
  BY InboxMoves, StatusStays, <1>6, <1>7, <1>8, <1>9, <1>10, Zenon

LEMMA OrderInit == ASSUME Init PROVE ReceivedInv /\ OrderInv
<1>1. /\ \A e \in Remotes : inbox[e] = <<>> /\ last_received[e] = NullFrame
      /\ \A e \in Remotes : status[e].last_frame = NullFrame
    BY PlayersArranged, RemotesArranged DEF Init
<1>2. \A e \in Remotes : InOrder(inbox[e], RemoteDelay, NullFrame)
    BY <1>1 DEF InOrder, Inputs, NullFrame
<1> QED BY <1>1, <1>2 DEF ReceivedInv, OrderInv, Following
-----------------------------------------------------------------------------
(* The ASSERTs, one member function after the other.                          *)
(* A frame that the ring of saved states still has was saved with a state.    *)
LEMMA AdjustExits ==
  ASSUME IInv, pc \in Resting, NEW frame \in Frames, frame < sync.framecount,
         NEW resume, AdjustSimulation(frame, resume)
  PROVE  OtherAssertsHold'
<1>0. /\ sync \in SyncType(Histories, [Players -> QueueType])
      /\ sync.framecount \in Nat /\ frame \in Int
    BY SyncFacts DEF Frames, NullFrame
<1>1. AtRest(sync, game)
    BY RestingInv DEF IInv, Resting
<1>2. CASE FindSavedFrameIndexAsserts(sync, frame)
  <2>1. sync.framecount # 0
    <3> SUFFICES ASSUME sync.framecount = 0 PROVE FALSE
        OBVIOUS
    <3>1. frame = -1 /\ \A slot \in SaveSlots : sync.saved[slot].frame = 0
        BY <1>1 DEF AtRest, Untouched, Frames, NullFrame
    <3> QED BY <1>2, <3>1 DEF FindSavedFrameIndexAsserts, SavedAt
  <2>2. RingInv(sync, sync.framecount)
      BY <1>1, <2>1 DEF AtRest, StatesInv
  <2>3. frame \in Kept(sync.framecount)
      BY <1>0, <1>2, <2>2, FrameIsLost
  <2>4. LoadFrameAsserts(sync, frame)
      BY <1>0, <2>2, <2>3, FrameIsFound
  <2> QED BY <1>2, <2>4 DEF AdjustSimulation, OtherAssertsHold, Stages
<1>3. CASE ~FindSavedFrameIndexAsserts(sync, frame)
    BY <1>3 DEF AdjustSimulation, OtherAssertsHold
<1> QED BY <1>2, <1>3

LEMMA DisconnectExits ==
  ASSUME IInv, pc \in Resting, NEW queue, NEW syncto \in Frames,
         NEW resume \in Stages, DisconnectPlayerQueue(queue, syncto, resume)
  PROVE  OtherAssertsHold'
<1>1. CASE syncto < sync.framecount
    BY <1>1, AdjustExits DEF DisconnectPlayerQueue
<1>2. CASE ~(syncto < sync.framecount)
    BY <1>2 DEF DisconnectPlayerQueue, OtherAssertsHold
<1> QED BY <1>1, <1>2

LEMMA CheckExits ==
  ASSUME IInv, SimInv, CheckSimulation
  PROVE  OtherAssertsHold'
<1>1. pc = "check" /\ pc \in Resting BY DEF CheckSimulation, Resting, Stages
<1>2. CASE FirstIncorrectFrames(sync) = {}
    BY <1>2 DEF CheckSimulation, OtherAssertsHold, Stages
<1>3. CASE FirstIncorrectFrames(sync) # {}
  <2>1. SeekTo(sync) \in Frames /\ SeekTo(sync) < sync.framecount
      BY <1>1, <1>3, SeekToSettled
  <2>2. AdjustSimulation(SeekTo(sync), "poll")
      BY <1>3 DEF CheckSimulation
  <2> QED BY <1>1, <2>1, <2>2, AdjustExits
<1> QED BY <1>2, <1>3

(* Every queue that is asked for the frame has it, or predicts it.            *)
LEMMA RequestsHold ==
  ASSUME IInv, SimInv, RoomInv, pc \in {"frame", "replay"}
  PROVE  SynchronizeInputsAsserts(sync, status)
<1> DEFINE n == sync.framecount
           c == sync.last_confirmed_frame
<1>1. /\ n \in Nat /\ status \in [Players -> Status] /\ c \in Frames
      /\ QueuesInv(sync, game, status, log)
      /\ Held(sync, game, status, log) /\ NoneWrong(sync)
      /\ Rooms(sync, status, log, Low)
    BY SyncFacts DEF IInv, SessionInv, SimInv, RoomInv, Stages, SyncType
<1> SUFFICES ASSUME NEW i \in Players \ Absent(status, n)
             PROVE  GetInputAsserts(sync.queues[i], n)
    BY DEF SynchronizeInputsAsserts
<1> DEFINE x == sync.queues[i]
           l == log[i]
           p == Column(game, i)
           d == status[i].last_frame
<1>2. x.first_incorrect_frame = NullFrame
    BY <1>1 DEF NoneWrong
<1>3. CASE ~status[i].disconnected
  <2>1. QueueInv(x, n, l, p) /\ Oldest(x) <= n
      BY <1>1, <1>3 DEF QueuesInv, Rooms, Connected
  <2> HIDE DEF x, n, l, p
  <2> QED BY <1>2, <2>1, GetInputAssertsFollow DEF n, x
<1>4. CASE status[i].disconnected
  <2>1. d \in Int /\ c \in Int /\ n <= d
      BY <1>1, <1>4 DEF Absent, Status, Frames, NullFrame
  <2>2. Left(x, n, d, c, l, p) /\ LeftRoom(x, n, d, c, l)
      BY <1>1, <1>4 DEF Held, Rooms
  <2>3. ~Closed(n, d, c) /\ Min2(n, d + 1) = n
      BY <1>1, <2>1 DEF Closed, Min2
  <2> HIDE DEF x, n, l, p, c, d
  <2>4. QueueInv(x, n, l, p) /\ Oldest(x) <= n
      BY <2>2, <2>3 DEF Left, LeftRoom
  <2> QED BY <1>2, <2>4, GetInputAssertsFollow DEF n, x
<1> QED BY <1>3, <1>4

LEMMA SimulateExits ==
  ASSUME IInv, SimInv, RoomInv, pc \in {"frame", "replay"},
         NEW next \in Stages, SimulateFrame(next)
  PROVE  OtherAssertsHold'
BY RequestsHold DEF SimulateFrame, OtherAssertsHold

(* The rings have room for the frames that the barriers of both sides let in: *)
(* 128 in the code, where a barrier is 8 frames and a delay is a few.         *)
RoomForDelays ==
    \A d \in LocalDelays :
        2 * MAX_PREDICTION_FRAMES + d + RemoteDelay <= INPUT_QUEUE_LENGTH + 1

(* An input of the next user frame, with room for it.                         *)
LEMMA NextInputFits ==
  ASSUME NEW x, NEW n, NEW l, NEW p, QueueInv(x, n, l, p),
         x.last_added_frame = IF x.last_user_added_frame = NullFrame THEN NullFrame
                              ELSE x.last_user_added_frame + x.frame_delay,
         NEW frame \in Nat, NEW bits \in Bits,
         x.last_user_added_frame = NullFrame \/ frame = x.last_user_added_frame + 1,
         frame + x.frame_delay + 1 - Oldest(x) <= INPUT_QUEUE_LENGTH
  PROVE  /\ AddInputAsserts(x, frame)
         /\ x.length + TargetFrame(x, frame) - ExpectedFrame(x) + 1
              <= INPUT_QUEUE_LENGTH
         /\ TargetFrame(x, frame) # NullFrame
<1>1. TargetFrame(x, frame) = frame + x.frame_delay /\ TargetFrame(x, frame) # NullFrame
    BY NextUserFrame
<1>2. /\ ExpectedFrame(x) = x.last_added_frame + 1
      /\ Predicting(x) => ExpectedFrame(x) = x.prediction.frame
    BY AddAssertsFollow
<1>3. /\ Arrivals(x) - Oldest(x) = x.length /\ x.last_added_frame = Arrivals(x) - 1
      /\ Arrivals(x) \in Nat /\ Oldest(x) \in Nat /\ x.frame_delay \in Nat
    BY Numbers, x \in QueueType /\ Ring(x, l) DEF QueueInv
<1>4. x.length + (frame + x.frame_delay) - (x.last_added_frame + 1) + 1
        <= INPUT_QUEUE_LENGTH
    BY <1>3
<1>5. x.length + TargetFrame(x, frame) - ExpectedFrame(x) + 1 <= INPUT_QUEUE_LENGTH
    BY <1>1, <1>2, <1>4
<1> QED BY <1>1, <1>2, <1>5, Zenon DEF AddInputAsserts

(* What the invariants say of the queue of a player who is connected.         *)
LEMMA QueueFacts ==
  ASSUME IInv, RoomInv, UserInv, pc \in Stages, NEW i \in Connected(status)
  PROVE  LET x == sync.queues[i]
         IN  /\ QueueInv(x, sync.framecount, log[i], Column(game, i))
             /\ status[i].last_frame = x.last_added_frame
             /\ Low <= Oldest(x) /\ Oldest(x) \in Nat
             /\ x.last_user_added_frame \in Frames /\ x.frame_delay \in Nat
             /\ x.last_added_frame =
                  IF x.last_user_added_frame = NullFrame THEN NullFrame
                  ELSE x.last_user_added_frame + x.frame_delay
<1> DEFINE x == sync.queues[i]
<1>1. /\ QueuesInv(sync, game, status, log) /\ Rooms(sync, status, log, Low)
      /\ i \in Players /\ ~status[i].disconnected
      /\ sync.queues \in [Players -> QueueType]
    BY SyncFacts DEF IInv, SessionInv, RoomInv, Connected
<1>2. /\ QueueInv(x, sync.framecount, log[i], Column(game, i))
      /\ status[i].last_frame = x.last_added_frame /\ Low <= Oldest(x)
    BY <1>1 DEF QueuesInv, Rooms
<1>3. x.last_added_frame = IF x.last_user_added_frame = NullFrame THEN NullFrame
                           ELSE x.last_user_added_frame + x.frame_delay
    BY DEF UserInv
<1>4. x \in QueueType BY <1>1
<1> HIDE DEF x
<1>5. Oldest(x) \in Nat
  <2>1. Ring(x, log[i]) BY <1>2 DEF QueueInv
  <2> QED BY <1>4, <2>1, Numbers
<1>6. x.last_user_added_frame \in Frames /\ x.frame_delay \in Nat
    BY <1>4 DEF QueueType
<1> QED BY <1>2, <1>3, <1>5, <1>6 DEF x

LEMMA LocalFits ==
  ASSUME IInv, RoomInv, UserInv, RoomForDelays, pc = "app", ~BarrierReached(sync)
  PROVE  LET x == sync.queues[LocalPlayer]
             frame == sync.framecount
         IN  /\ x.last_user_added_frame = NullFrame
                  \/ frame = x.last_user_added_frame + 1
             /\ frame + x.frame_delay + 1 - Oldest(x) <= INPUT_QUEUE_LENGTH
             /\ x.frame_delay \in LocalDelays
<1> DEFINE x == sync.queues[LocalPlayer]
           n == sync.framecount
           c == sync.last_confirmed_frame
           d == x.frame_delay
           o == Oldest(x)
<1>1. /\ pc \in Stages /\ LocalPlayer \in Connected(status) /\ n \in Nat
      /\ c \in Int /\ c >= -1
    BY SyncFacts DEF Stages, SyncType, Frames, NullFrame
<1>2. Low <= o /\ o \in Nat /\ x.last_user_added_frame \in Frames
    BY <1>1, QueueFacts
<1>3. Low = Min2(c, n)
    BY <1>1 DEF Low, ToApp, Reached
<1>4. d \in LocalDelays /\ x.last_user_added_frame = n - 1 /\ d \in Nat
    BY <1>1 DEF UserInv, Reached, Stages
<1>5. n < MAX_PREDICTION_FRAMES \/ n - c < MAX_PREDICTION_FRAMES
    BY <1>1 DEF BarrierReached
<1>6. 2 * MAX_PREDICTION_FRAMES + d + RemoteDelay <= INPUT_QUEUE_LENGTH + 1
    BY <1>4 DEF RoomForDelays
<1> HIDE DEF x, n, c, d, o
<1>7. n + d + 1 - o <= INPUT_QUEUE_LENGTH
    BY <1>1, <1>2, <1>3, <1>4, <1>5, <1>6 DEF Min2
<1> QED BY <1>4, <1>7, <1>1 DEF x, n, d, o, NullFrame

LEMMA AddLocalExits ==
  ASSUME IInv, RoomInv, UserInv, RoomForDelays,
         NEW bits \in Made[LocalPlayer], AddLocal(bits)
  PROVE  OtherAssertsHold'
<1> DEFINE x == sync.queues[LocalPlayer]
           frame == sync.framecount
<1>1. /\ pc = "app" /\ ~BarrierReached(sync) /\ pc \in Stages
      /\ LocalPlayer \in Connected(status) /\ frame \in Nat
    BY SyncFacts DEF AddLocal, Stages
<1>2. bits \in Bits BY LocalIsPlayer
<1>3. /\ x.last_user_added_frame = NullFrame \/ frame = x.last_user_added_frame + 1
      /\ frame + x.frame_delay + 1 - Oldest(x) <= INPUT_QUEUE_LENGTH
    BY <1>1, LocalFits
<1>4. /\ QueueInv(x, frame, log[LocalPlayer], Column(game, LocalPlayer))
      /\ x.last_added_frame = IF x.last_user_added_frame = NullFrame THEN NullFrame
                              ELSE x.last_user_added_frame + x.frame_delay
    BY <1>1, QueueFacts
<1> HIDE DEF x
<1>5. AddInputAsserts(x, frame)
    BY <1>1, <1>2, <1>3, <1>4, NextInputFits
<1> QED BY <1>5 DEF AddLocal, OtherAssertsHold, Stages, x

(* The input that is taken next is of the next frame, and fits.               *)
LEMMA RemoteFits ==
  ASSUME IInv, HorizonInv, RoomInv, UserInv, ReceivedInv, OrderInv, RoomForDelays,
         NEW e \in Remotes, pc = "events", ~status[e].disconnected,
         inbox[e] # <<>>, Head(inbox[e]).type = "input"
  PROVE  LET x == sync.queues[e]
             frame == Head(inbox[e]).frame
         IN  /\ frame = Following(status[e].last_frame)
             /\ frame \in Nat /\ Head(inbox[e]).bits \in Bits
             /\ x.last_user_added_frame = NullFrame
                  \/ frame = x.last_user_added_frame + 1
             /\ frame + x.frame_delay + 1 - Oldest(x) <= INPUT_QUEUE_LENGTH
             /\ x.frame_delay = 0 /\ frame < MaxFrame
<1> DEFINE x == sync.queues[e]
           y == sync.queues[LocalPlayer]
           frame == Head(inbox[e]).frame
           n == sync.framecount
           c == sync.last_confirmed_frame
           last == status[e].last_frame
           local == status[LocalPlayer].last_frame
           recv == last_received[e]
           d == y.frame_delay
           o == Oldest(x)
<1>1. /\ pc \in Stages /\ LocalPlayer \in Connected(status) /\ e \in Connected(status)
      /\ n \in Nat /\ c \in Int /\ c >= -1 /\ e \in Players
    BY SyncFacts, PlayersArranged DEF Stages, SyncType, Frames, NullFrame, Connected
<1>2. /\ inbox[e] \in Seq(Events) /\ recv \in Int /\ last \in Frames
  <2>1. inbox[e] \in Seq(Events) /\ recv \in Int
      BY RemotesArranged DEF IInv, NetworkInv, Frames, NullFrame
  <2>2. last \in Frames
      BY <1>1, SyncFacts DEF Status
  <2> QED BY <2>1, <2>2
<1>3. /\ last = x.last_added_frame
      /\ Low <= o /\ o \in Nat /\ x.last_user_added_frame \in Frames
      /\ x.last_added_frame = IF x.last_user_added_frame = NullFrame THEN NullFrame
                              ELSE x.last_user_added_frame + x.frame_delay
      /\ x.frame_delay = 0
    BY <1>1, QueueFacts DEF IInv, SessionTypes
<1>4. /\ local = IF y.last_user_added_frame = NullFrame THEN NullFrame
                 ELSE y.last_user_added_frame + d
      /\ y.last_user_added_frame = n - 1 /\ d \in LocalDelays /\ d \in Nat
  <2>1. y.last_user_added_frame = n - 1 /\ d \in LocalDelays
      BY <1>1 DEF UserInv, Reached
  <2>2. local = IF y.last_user_added_frame = NullFrame THEN NullFrame
                ELSE y.last_user_added_frame + d
      BY <1>1, QueueFacts
  <2> QED BY <2>1, <2>2
<1>5. /\ InOrder(inbox[e], Following(last), recv)
    BY <1>1 DEF OrderInv, Connected
<1>6. Following(last) \in Nat
    BY <1>2 DEF Following, Frames, NullFrame
<1>7. /\ frame = Following(last) /\ Following(last) <= recv
  <2> HIDE DEF last, recv
  <2> QED BY <1>2, <1>5, <1>6, InputTaken
<1>8. Head(inbox[e]) \in Events
    BY <1>2
<1>9. Head(inbox[e]).bits \in Bits /\ frame \in Nat
    BY <1>8 DEF Events
<1>10. /\ recv - RemoteDelay < Max2(local, 0) + MAX_PREDICTION_FRAMES
       /\ recv < MaxFrame
    BY <1>6, <1>7, <1>2 DEF ReceivedInv, NullFrame
<1>11. Low = Min2(c, n - 1)
    BY <1>1 DEF Low, ToApp, Reached
<1>12. n <= Max2(c, 0) + MAX_PREDICTION_FRAMES
    BY DEF HorizonInv
<1>13. 2 * MAX_PREDICTION_FRAMES + d + RemoteDelay <= INPUT_QUEUE_LENGTH + 1
    BY <1>4 DEF RoomForDelays
<1> HIDE DEF n, c, d, o, last, local, recv, frame
<1>14. /\ local \in Int /\ Max2(local, 0) <= Max2(n - 1 + d, 0)
    BY <1>1, <1>4 DEF Max2, NullFrame
<1>15. frame + 1 <= RemoteDelay + Max2(n - 1 + d, 0) + MAX_PREDICTION_FRAMES
    BY <1>1, <1>2, <1>4, <1>6, <1>7, <1>9, <1>10, <1>14 DEF Max2
<1>16. frame + 1 - o <= INPUT_QUEUE_LENGTH
    BY <1>1, <1>3, <1>4, <1>9, <1>11, <1>12, <1>13, <1>15 DEF Max2, Min2
<1>17. x.last_user_added_frame = NullFrame \/ frame = x.last_user_added_frame + 1
    BY <1>3, <1>7 DEF Following, Frames, NullFrame
<1>18. frame < MaxFrame
    BY <1>2, <1>7, <1>9, <1>10
<1>19. frame + x.frame_delay + 1 - o <= INPUT_QUEUE_LENGTH
    BY <1>3, <1>16, <1>9
<1> QED BY <1>3, <1>7, <1>9, <1>17, <1>18, <1>19, Zenon DEF x, o, frame, last

LEMMA OnInputExits ==
  ASSUME IInv, HorizonInv, RoomInv, UserInv, ReceivedInv, OrderInv, RoomForDelays,
         NEW e \in Endpoints, OnInput(e)
  PROVE  OtherAssertsHold'
<1> DEFINE x == sync.queues[e]
           frame == Head(inbox[e]).frame
           bits == Head(inbox[e]).bits
<1>1. /\ pc = "events" /\ inbox[e] # <<>> /\ Head(inbox[e]).type = "input"
      /\ Take(e, "input")
    BY DEF OnInput, Take, IsNext, Waiting
<1>2. e \in Remotes
  <2>1. e # LocalPlayer /\ (e \in Spectators => Head(inbox[e]) \in Notices)
      BY <1>1, NetworkTaken DEF IInv
  <2> QED BY <1>1, <2>1 DEF Notices, Endpoints, Remotes
<1>3. CASE status[e].disconnected
    BY <1>1, <1>3 DEF OnInput, OtherAssertsHold, Stages
<1>4. CASE ~status[e].disconnected
  <2>1. /\ frame = Following(status[e].last_frame)
        /\ frame \in Nat /\ bits \in Bits
        /\ x.last_user_added_frame = NullFrame \/ frame = x.last_user_added_frame + 1
        /\ frame + x.frame_delay + 1 - Oldest(x) <= INPUT_QUEUE_LENGTH
      BY <1>1, <1>2, <1>4, RemoteFits
  <2>2. e \in Connected(status) /\ pc \in Stages
      BY <1>1, <1>2, <1>4, PlayersArranged DEF Connected, Stages
  <2>3. /\ QueueInv(x, sync.framecount, log[e], Column(game, e))
        /\ x.last_added_frame = IF x.last_user_added_frame = NullFrame THEN NullFrame
                                ELSE x.last_user_added_frame + x.frame_delay
      BY <2>2, QueueFacts
  <2>4. status[e].last_frame = NullFrame \/ frame = status[e].last_frame + 1
      BY <2>1 DEF Following
  <2> HIDE DEF x, frame, bits
  <2>5. AddInputAsserts(x, frame)
      BY <2>1, <2>3, NextInputFits
  <2> QED BY <1>1, <1>4, <2>4, <2>5 DEF OnInput, OtherAssertsHold, Stages, x, frame
<1> QED BY <1>3, <1>4

(* A poll that ends has looked at the local player, who is connected.         *)
LEMMA PollDoneExits ==
  ASSUME IInv, UserInv, RoomInv, MaxFrame <= MAX_INT, PollDone
  PROVE  OtherAssertsHold'
<1>1. pc = "poll" /\ poll.queue \notin Players /\ pc \in Stages BY DEF PollDone, Stages
<1>2. LocalPlayer < poll.queue
    BY <1>1, SyncFacts, PlayersArranged DEF Players
<1>3. LocalPlayer \in Connected(status) BY SyncFacts
<1>4. poll.total <= status[LocalPlayer].last_frame
    BY <1>1, <1>2, <1>3 DEF IInv, SessionInv, PollInv, Polling
<1>5. status[LocalPlayer].last_frame = sync.queues[LocalPlayer].last_added_frame
    BY <1>1, <1>3, QueueFacts
<1>6. sync.queues[LocalPlayer].last_added_frame < MaxFrame
    BY <1>1 DEF UserInv
<1>7. poll.total \in Int /\ status[LocalPlayer].last_frame \in Int
    BY <1>3, SyncFacts DEF Connected, Status, Frames, NullFrame
<1>8. poll.total # MAX_INT
    BY <1>4, <1>5, <1>6, <1>7 DEF MAX_INT
<1> QED BY <1>8 DEF PollDone, OtherAssertsHold, Stages

LEMMA PushExits ==
  ASSUME SimInv, PushToSpectators
  PROVE  OtherAssertsHold'
<1>1. pc = "confirm" /\ NoneWrong(sync)
    BY DEF PushToSpectators, SimInv, Stages
<1>2. ConfirmedInputsAsserts(sync, status, next_spectator_frame)
    BY <1>1 DEF NoneWrong, ConfirmedInputsAsserts, GetConfirmedInputAsserts
<1> QED BY <1>1, <1>2 DEF PushToSpectators, OtherAssertsHold, Stages

LEMMA ConfirmExits ==
  ASSUME IInv, EarlyInv, ConfirmedInv, SimInv, RoomInv, Confirm
  PROVE  OtherAssertsHold'
<1>1. pc = "confirm" /\ pc \in Stages BY DEF Confirm, Stages
<1>2. Rooms(sync, status, log, Low) BY <1>1 DEF RoomInv
<1>3. SetLastConfirmedFrameAsserts(sync, poll.total)
    BY <1>1, <1>2, ConfirmedRooms
<1> QED BY <1>3 DEF Confirm, OtherAssertsHold, Stages
-----------------------------------------------------------------------------
(* Every step.                                                                *)
AssertsInv == RoomInv /\ UserInv /\ ReceivedInv /\ OrderInv

LEMMA AssertsInit == ASSUME Init PROVE AssertsInv /\ OtherAssertsHold
<1>1. OtherAssertsHold BY DEF Init, OtherAssertsHold, Stages
<1> QED BY <1>1, RoomInit, UserInit, OrderInit DEF AssertsInv

LEMMA AssertsStep ==
  ASSUME IInv, BarrierInv, RingInvs, ReportedInv, ConsistencyInv, AssertsInv,
         LocalPlayer \notin Leavers, [Next]_vars
  PROVE  AssertsInv'
<1>1. EarlyInv /\ SimInv /\ RoomInv /\ UserInv /\ ReceivedInv /\ OrderInv
    BY DEF ConsistencyInv, AssertsInv
<1>2. Kinds /\ SimInv'
    BY ConsistencyStep DEF ConsistencyInv
<1>3. StepKeeps BY SessionStep
<1>4. RoomInv' BY <1>1, <1>2, RoomStep
<1>5. UserInv' BY <1>1, <1>2, <1>3, UserStep
<1>6. ReceivedInv' BY <1>1, <1>3, ReceivedStep
<1>7. OrderInv' BY <1>1, <1>3, OrderStep
<1> QED BY <1>4, <1>5, <1>6, <1>7 DEF AssertsInv

LEMMA AssertsFollow ==
  ASSUME IInv, RingInvs, ConsistencyInv, AssertsInv, RoomForDelays,
         MaxFrame <= MAX_INT, OtherAssertsHold, [Next]_vars
  PROVE  OtherAssertsHold'
<1>0. /\ EarlyInv /\ SimInv /\ RoomInv /\ UserInv /\ ReceivedInv /\ OrderInv
      /\ HorizonInv /\ ConfirmedInv
    BY DEF ConsistencyInv, AssertsInv, RingInvs
<1>1. CASE Application
  <2>1. ASSUME NEW bits \in Made[LocalPlayer], AddLocal(bits) PROVE OtherAssertsHold'
      BY <1>0, <2>1, AddLocalExits
  <2>2. CASE AdvanceFrame
    <3>1. pc \in {"frame", "replay"} /\ SimulateFrame("pump") /\ "pump" \in Stages
        BY <2>2 DEF AdvanceFrame, Stages
    <3> QED BY <1>0, <3>1, SimulateExits
  <2>3. CASE Idle
      BY <2>3 DEF Idle, OtherAssertsHold, Stages
  <2>4. ASSUME NEW queue \in Players, DisconnectRemote(queue) PROVE OtherAssertsHold'
    <3>1. /\ pc \in Resting /\ "app" \in Stages
          /\ DisconnectPlayerQueue(queue, status[queue].last_frame, "app")
        BY <2>4 DEF DisconnectRemote, Resting, Stages
    <3>2. status[queue].last_frame \in Frames
        BY SyncFacts DEF Status
    <3> QED BY <3>1, <3>2, DisconnectExits
  <2>5. CASE DisconnectLocal
      BY <2>5 DEF DisconnectLocal, OtherAssertsHold
  <2> QED BY <1>1, <2>1, <2>2, <2>3, <2>4, <2>5 DEF Application
<1>2. CASE Network
  <2>1. UNCHANGED pc
      BY <1>2 DEF Network, Synchronized, Disconnected, Shutdown, InputArrives, PeerClaims,
         QueueEvent
  <2> QED BY <2>1 DEF OtherAssertsHold
<1>3. CASE DoPoll
  <2>1. CASE Pumped \/ EventsDone
      BY <2>1 DEF Pumped, EventsDone, OtherAssertsHold, Stages
  <2>2. ASSUME NEW e \in Endpoints, OnSynchronized(e) PROVE OtherAssertsHold'
      BY <2>2 DEF OnSynchronized, OtherAssertsHold
  <2>3. ASSUME NEW e \in Endpoints, OnInput(e) PROVE OtherAssertsHold'
      BY <1>0, <2>3, OnInputExits
  <2>4. ASSUME NEW e \in Endpoints, OnDisconnected(e) PROVE OtherAssertsHold'
    <3>1. pc \in Resting /\ "events" \in Stages
        BY <2>4 DEF OnDisconnected, Take, Resting, Stages
    <3>2. CASE e \in Spectators \/ status[e].disconnected
        BY <2>4, <3>2 DEF OnDisconnected, OtherAssertsHold
    <3>3. CASE ~(e \in Spectators \/ status[e].disconnected)
      <4>1. DisconnectPlayerQueue(e, status[e].last_frame, "events")
          BY <2>4, <3>3 DEF OnDisconnected
      <4>2. status[e].last_frame \in Frames
          BY <3>3, SyncFacts DEF Status, Endpoints
      <4> QED BY <3>1, <4>1, <4>2, DisconnectExits
    <3> QED BY <3>2, <3>3
  <2>5. CASE CheckSimulation
      BY <1>0, <2>5, CheckExits
  <2>6. CASE Replay
    <3> DEFINE next == IF sync.framecount + 1 = replay.until THEN replay.resume
                       ELSE "replay"
    <3>1. pc \in {"frame", "replay"} /\ SimulateFrame(next)
        BY <2>6 DEF Replay
    <3>2. next \in Stages
        BY SyncFacts DEF Callers, Stages
    <3> HIDE DEF next
    <3> QED BY <1>0, <3>1, <3>2, SimulateExits
  <2>7. CASE PollPlayer
    <3>1. pc \in Resting /\ "poll" \in Stages /\ poll.queue \in Players
        BY <2>7 DEF PollPlayer, Resting, Stages
    <3>2. CASE ToDisconnect(poll.queue)
      <4>1. /\ DisconnectPlayerQueue(poll.queue, DisconnectFrame(poll.queue), "poll")
            /\ DisconnectFrame(poll.queue) \in Frames
          BY <2>7, <3>1, <3>2, TotalNeverGrows DEF PollPlayer
      <4> QED BY <3>1, <4>1, DisconnectExits
    <3>3. CASE ~ToDisconnect(poll.queue)
        BY <2>7, <3>3 DEF PollPlayer, OtherAssertsHold
    <3> QED BY <3>2, <3>3
  <2>8. CASE PollDone
      BY <1>0, <2>8, PollDoneExits
  <2>9. CASE PushToSpectators
      BY <1>0, <2>9, PushExits
  <2>10. CASE Confirm
      BY <1>0, <2>10, ConfirmExits
  <2> QED BY <1>3, <2>1, <2>2, <2>3, <2>4, <2>5, <2>6, <2>7, <2>8, <2>9, <2>10 DEF DoPoll
<1>4. CASE UNCHANGED vars
    BY <1>4 DEF vars, OtherAssertsHold
<1> QED BY <1>1, <1>2, <1>3, <1>4 DEF Next, Exited

LEMMA AssertsInvariant ==
  NumPlayers <= 3 /\ LocalPlayer \notin Leavers => (Spec => []AssertsInv)
<1> SUFFICES ASSUME NumPlayers <= 3, LocalPlayer \notin Leavers
             PROVE  Spec => []AssertsInv
    OBVIOUS
<1>1. Init => AssertsInv
    BY AssertsInit
<1>2. IInv /\ BarrierInv /\ RingInvs /\ ReportedInv /\ ConsistencyInv /\ AssertsInv
        /\ [Next]_vars => AssertsInv'
    BY AssertsStep
<1> QED BY <1>1, <1>2, Invariant, BarrierInvariant, RingInvariant, ReportedInvariant,
           ConsistencyInvariant, PTL DEF Spec

(* input_queue.cpp:91, sync.cpp:238: with up to three players no ASSERT of    *)
(* the Sync, of the input queues and of the backend ends the process but the  *)
(* two of a rollback that goes back too far, whatever arrives when and        *)
(* whoever leaves -- as long as the application does not disconnect its own   *)
(* player, keeps one frame delay, and its ring has room for the frames that   *)
(* the prediction barriers of both sides let in.                              *)
THEOREM NoOtherAssert ==
  /\ NumPlayers <= 3 /\ LocalPlayer \notin Leavers
  /\ RoomForDelays /\ MaxFrame <= MAX_INT
  => (Spec => []OtherAssertsHold)
<1> SUFFICES ASSUME NumPlayers <= 3, LocalPlayer \notin Leavers,
                    RoomForDelays, MaxFrame <= MAX_INT
             PROVE  Spec => []OtherAssertsHold
    OBVIOUS
<1>1. Init => OtherAssertsHold
    BY AssertsInit
<1>2. IInv /\ RingInvs /\ ConsistencyInv /\ AssertsInv /\ OtherAssertsHold /\ [Next]_vars
        => OtherAssertsHold'
    BY AssertsFollow
<1> QED BY <1>1, <1>2, Invariant, RingInvariant, ConsistencyInvariant, AssertsInvariant,
           PTL DEF Spec
-----------------------------------------------------------------------------
(* The contract of the queues.  A step changes the queue of a player who is   *)
(* connected as one call of the contract does, or leaves alone what the       *)
(* contract speaks of.                                                        *)
Contract(i) == Client(i)!Next \/ UNCHANGED Client(i)!vars

(* Its functions are those of the queue.                                      *)
LEMMA ClientFunctions ==
  ASSUME NEW i
  PROVE  /\ Client(i)!NullFrame = NullFrame
         /\ \A x, f : /\ Client(i)!GetInput(x, f) = GetInput(x, f)
                      /\ Client(i)!GetInputBits(x, f) = GetInputBits(x, f)
                      /\ Client(i)!DiscardConfirmedFrames(x, f)
                           = DiscardConfirmedFrames(x, f)
                      /\ Client(i)!TargetFrame(x, f) = TargetFrame(x, f)
         /\ \A x : /\ Client(i)!ResetPrediction(x) = ResetPrediction(x)
                   /\ Client(i)!ExpectedFrame(x) = ExpectedFrame(x)
         /\ \A x, f, b : Client(i)!AddInput(x, f, b) = AddInput(x, f, b)
         /\ \A x, b, t, f : Client(i)!DelayedBits(x, b, t, f) = DelayedBits(x, b, t, f)
<1> USE DEF Client!NullFrame, NullFrame, Client!PreviousSlot, PreviousSlot,
            Client!LastInput, LastInput, Client!TailFrame, TailFrame,
            Client!Predicting, Predicting, Client!ExpectedFrame, ExpectedFrame,
            Client!InQueue, InQueue, Client!DelayedBits, DelayedBits
<1>1. \A x, f : /\ Client(i)!GetInput(x, f) = GetInput(x, f)
               /\ Client(i)!TargetFrame(x, f) = TargetFrame(x, f)
    BY Zenon DEF Client!GetInput, GetInput, Client!TargetFrame, TargetFrame
<1>2. \A x, f : Client(i)!GetInputBits(x, f) = GetInputBits(x, f)
    BY Zenon DEF Client!GetInputBits, GetInputBits, Client!GetInput, GetInput
<1>3. \A x, f : Client(i)!DiscardConfirmedFrames(x, f) = DiscardConfirmedFrames(x, f)
    BY Zenon DEF Client!DiscardConfirmedFrames, DiscardConfirmedFrames, Client!DiscardTo,
       DiscardTo
<1>4. \A x, f, b : Client(i)!AddInput(x, f, b) = AddInput(x, f, b)
  <2>1. \A x, b, t : Client(i)!FirstIncorrectOf(x, b, t) = FirstIncorrectOf(x, b, t)
      BY Zenon DEF Client!FirstIncorrectOf, FirstIncorrectOf
  <2>2. \A x, b, t : Client(i)!AddDelayedInputs(x, b, t) = AddDelayedInputs(x, b, t)
    <3> SUFFICES ASSUME NEW x, NEW b, NEW t
                 PROVE  Client(i)!AddDelayedInputs(x, b, t) = AddDelayedInputs(x, b, t)
        OBVIOUS
    <3> QED BY <2>1, Zenon DEF Client!AddDelayedInputs, AddDelayedInputs, Client!Slots, Slots
  <2>3. \A x, f : Client(i)!TargetFrame(x, f) = TargetFrame(x, f)
      BY <1>1
  <2> QED BY <2>2, <2>3, Zenon DEF Client!AddInput, AddInput
<1>5. \A x : Client(i)!ResetPrediction(x) = ResetPrediction(x)
    BY Zenon DEF Client!ResetPrediction, ResetPrediction
<1>6. \A x : Client(i)!ExpectedFrame(x) = ExpectedFrame(x)
    BY Zenon
<1>7. \A x, b, t, f : Client(i)!DelayedBits(x, b, t, f) = DelayedBits(x, b, t, f)
    BY Zenon
<1> HIDE DEF Client!NullFrame, NullFrame, Client!PreviousSlot, PreviousSlot,
             Client!LastInput, LastInput, Client!TailFrame, TailFrame,
             Client!Predicting, Predicting, Client!ExpectedFrame, ExpectedFrame,
             Client!InQueue, InQueue, Client!DelayedBits, DelayedBits
<1>8. Client(i)!NullFrame = NullFrame
    BY DEF Client!NullFrame, NullFrame
<1> QED BY <1>1, <1>2, <1>3, <1>4, <1>5, <1>6, <1>7, <1>8, Zenon

LEMMA ContractSame ==
  ASSUME NEW i \in Players, sync'.queues[i] = sync.queues[i],
         sync'.framecount = sync.framecount, log'[i] = log[i], UNCHANGED game
  PROVE  Contract(i)
BY DEF Contract, Client!vars

(* A frame simulated asks the queue for it.                                   *)
LEMMA ContractRequest ==
  ASSUME IInv, SimInv, pc \in {"frame", "replay"}, NEW next, SimulateFrame(next),
         UNCHANGED <<status, log>>, NEW i \in Connected(status), pc' \in Stages
  PROVE  Contract(i)
<1> DEFINE x == sync.queues[i]
           n == sync.framecount
<1>1. /\ sync'.framecount = n + 1 /\ game' = AdvanceGame(sync, status, game)
      /\ sync'.queues = SynchronizeInputs(sync, status).queues
    BY SimulatedFields
<1>2. /\ n \in Nat /\ sync \in SyncType(Histories, [Players -> QueueType])
      /\ sync.queues \in [Players -> QueueType]
      /\ game \in [0 .. n - 1 -> Vectors] /\ i \in Players
      /\ i \notin Absent(status, n)
    BY SyncFacts DEF Connected, Absent
<1>3. sync'.queues[i] = GetInput(x, n)
    BY <1>1, <1>2 DEF SynchronizeInputs, SyncType
<1>4. x.first_incorrect_frame = NullFrame
    BY <1>2 DEF SimInv, NoneWrong, Stages
<1>5. n < MaxFrame
    BY <1>2, SyncFacts DEF IInv, SessionInv, StageInv, Stages
<1>6. /\ DOMAIN game = 0 .. n - 1 /\ DOMAIN game' = 0 .. n
      /\ \A f \in 0 .. n - 1 : game'[f] = game[f]
      /\ game'[n][i] = GetInputBits(x, n)
  <2>1. DOMAIN game = 0 .. n - 1 /\ DOMAIN game' = 0 .. n
      BY <1>1, <1>2 DEF AdvanceGame
  <2>2. \A f \in 0 .. n - 1 : game'[f] = game[f]
      BY <1>1, <1>2 DEF AdvanceGame
  <2>3. game'[n] = SynchronizedInputs(sync, status)
      BY <1>1, <1>2 DEF AdvanceGame
  <2> QED BY <1>2, <2>1, <2>2, <2>3 DEF SynchronizedInputs
<1>7. [f \in DOMAIN game' |-> game'[f][i]]
        = [f \in 0 .. n |-> IF f < n THEN [m \in DOMAIN game |-> game[m][i]][f]
                            ELSE Client(i)!GetInputBits(x, n)]
  <2>0. Client(i)!GetInputBits(x, n) = GetInputBits(x, n) BY ClientFunctions, Zenon
  <2>1. \A f \in 0 .. n : game'[f][i] = IF f < n THEN [m \in DOMAIN game |-> game[m][i]][f]
                                        ELSE Client(i)!GetInputBits(x, n)
    <3> SUFFICES ASSUME NEW f \in 0 .. n
                 PROVE  game'[f][i] = IF f < n THEN [m \in DOMAIN game |-> game[m][i]][f]
                                      ELSE GetInputBits(x, n)
        BY <2>0, Zenon
    <3>1. CASE f < n
      <4>1. f \in 0 .. n - 1 BY <1>2, <3>1
      <4> QED BY <1>6, <3>1, <4>1
    <3>2. CASE ~(f < n)
      <4>1. f = n BY <1>2, <3>2
      <4> QED BY <1>6, <3>2, <4>1
    <3> QED BY <3>1, <3>2
  <2> QED BY <1>6, <2>1, Zenon
<1>8. log'[i] = log[i] OBVIOUS
<1>9. /\ x.first_incorrect_frame = Client(i)!NullFrame
      /\ sync'.queues[i] = Client(i)!GetInput(x, n)
  <2>1. Client(i)!NullFrame = NullFrame /\ Client(i)!GetInput(x, n) = GetInput(x, n)
      BY ClientFunctions, Zenon
  <2> QED BY <1>3, <1>4, <2>1
<1>10. Client(i)!CanRequest
    BY <1>9 DEF Client!CanRequest
<1>11. Client(i)!Request
    BY <1>1, <1>5, <1>7, <1>8, <1>9, <1>10, Zenon DEF Client!Request
<1> QED BY <1>11 DEF Contract, Client!Next

(* A rollback resets it, at a frame that it still holds.                      *)
LEMMA ContractRollback ==
  ASSUME IInv, SimInv, pc \in Resting, NEW frame \in Frames, frame < sync.framecount,
         sync.last_confirmed_frame <= frame, NEW resume,
         AdjustSimulation(frame, resume), UNCHANGED log,
         NEW i \in Connected(status), pc' \in Stages
  PROVE  Contract(i)
<1> DEFINE x == sync.queues[i]
           n == sync.framecount
           c == sync.last_confirmed_frame
<1>1. /\ frame \in Nat /\ ResetPredictionsAsserts(sync, frame)
      /\ sync'.framecount = frame
      /\ sync'.queues = [j \in Players |-> ResetPrediction(sync.queues[j])]
      /\ DOMAIN game' = 0 .. frame - 1 /\ SameBefore(frame, game, game')
    BY AdjustFields DEF Stages
<1>2. /\ n \in Nat /\ c \in Int /\ DOMAIN game = 0 .. n - 1 /\ i \in Players
      /\ ~status[i].disconnected /\ sync.queues \in [Players -> QueueType]
    BY SyncFacts DEF Connected, SyncType, Frames, NullFrame
<1>3. /\ Oldest(x) <= Max2(c, 0) /\ QueueInv(x, n, log[i], Column(game, i))
    BY <1>2, RestingInv DEF SimInv, Held, IInv, Resting, QueuesInv
<1>4. sync'.queues[i] = ResetPrediction(x)
    BY <1>1, <1>2
<1>5. x.first_incorrect_frame = NullFrame \/ frame <= x.first_incorrect_frame
    BY <1>1, <1>2 DEF ResetPredictionsAsserts, ResetPredictionAsserts
<1>6. Oldest(x) \in Nat /\ Oldest(x) <= frame
  <2>1. x \in QueueType /\ Ring(x, log[i]) BY <1>3 DEF QueueInv
  <2> HIDE DEF x
  <2>2. Oldest(x) \in Nat BY <2>1, Numbers
  <2> QED BY <2>2, <1>1, <1>2, <1>3 DEF Max2
<1>7. [f \in DOMAIN game' |-> game'[f][i]]
        = [f \in 0 .. frame - 1 |-> [m \in DOMAIN game |-> game[m][i]][f]]
  <2>1. \A f \in 0 .. frame - 1 : f \in DOMAIN game /\ game'[f] = game[f]
      BY <1>1, <1>2 DEF SameBefore
  <2> QED BY <1>1, <2>1, Zenon
<1>8. frame \in 0 .. n - 1 /\ frame \in Oldest(x) .. n - 1
  <2> HIDE DEF x
  <2> QED BY <1>1, <1>2, <1>6
<1>9. Client(i)!CanReset(frame)
    BY <1>5, <1>8, ClientFunctions, Zenon DEF Client!CanReset, Client!Floor, Client!Arrived, Oldest, Arrivals
<1>10. Client(i)!Rollback(frame)
    BY <1>1, <1>4, <1>7, <1>9, ClientFunctions, Zenon DEF Client!Rollback
<1> QED BY <1>8, <1>10, Zenon DEF Contract, Client!Next

(* What is confirmed, up to the frame before the total, is discarded.         *)
LEMMA ContractConfirm ==
  ASSUME IInv, EarlyInv, ConfirmedInv, SimInv, Confirm,
         NEW i \in Connected(status), pc' \in Stages
  PROVE  Contract(i)
<1> DEFINE x == sync.queues[i]
           n == sync.framecount
           c == sync.last_confirmed_frame
           total == poll.total
<1>1. /\ pc = "confirm" /\ sync' = SetLastConfirmedFrame(sync, total)
      /\ UNCHANGED <<game, log>>
    BY DEF Confirm, Stages
<1>2. /\ total \in Nat /\ total <= status[i].last_frame /\ n # 0 /\ c <= total
    BY <1>1, Confirms
<1>3. /\ n \in Nat /\ c \in Int /\ i \in Players /\ ~status[i].disconnected
      /\ sync \in SyncType(Histories, [Players -> QueueType])
      /\ sync.queues \in [Players -> QueueType]
    BY SyncFacts DEF Connected, SyncType, Frames, NullFrame
<1>4. /\ Oldest(x) <= Max2(c, 0) /\ QueueInv(x, n, log[i], Column(game, i))
      /\ x.last_frame_requested = n - 1 /\ x.first_incorrect_frame = NullFrame
      /\ status[i].last_frame = x.last_added_frame
    BY <1>1, <1>3, RestingInv
       DEF SimInv, Held, IInv, Resting, QueuesInv, Settled, NoneWrong, Stages
<1>5. /\ sync'.framecount = n
      /\ sync'.queues = IF total <= 0 THEN sync.queues
                        ELSE [j \in Players |->
                                DiscardConfirmedFrames(sync.queues[j], total - 1)]
    BY <1>1, <1>3 DEF SetLastConfirmedFrame, SyncType
<1>6. CASE total <= 0
  <2>1. sync'.queues[i] = x /\ log'[i] = log[i] /\ game' = game
      BY <1>1, <1>5, <1>6
  <2> QED BY <1>3, <1>5, <2>1, ContractSame, Zenon
<1>7. CASE ~(total <= 0)
  <2>1. sync'.queues[i] = DiscardConfirmedFrames(x, total - 1)
      BY <1>3, <1>5, <1>7
  <2>2. Oldest(x) \in Int /\ x.last_added_frame \in Int
    <3>1. x \in QueueType /\ Ring(x, log[i]) BY <1>4 DEF QueueInv
    <3> HIDE DEF x
    <3> QED BY <3>1, Numbers
  <2>3. /\ total - 1 \in 0 .. x.last_added_frame - 1
        /\ total - 1 >= Oldest(x) - 1
        /\ total - 1 \in 0 .. x.last_added_frame
        /\ n > 0
    <3> HIDE DEF x, n, c, total
    <3> QED BY <1>2, <1>3, <1>4, <1>7, <2>2 DEF Max2
  <2>4. Client(i)!CanDiscard(total - 1)
      BY <1>4, <2>3, ClientFunctions, Zenon DEF Client!CanDiscard, Client!Settled, Client!Floor,
         Client!Arrived, Oldest, Arrivals
  <2>5. /\ [f \in DOMAIN game' |-> game'[f][i]] = [f \in DOMAIN game |-> game[f][i]]
        /\ log'[i] = log[i]
      BY <1>1
  <2>6. sync'.queues[i] = Client(i)!DiscardConfirmedFrames(x, total - 1)
    <3>1. Client(i)!DiscardConfirmedFrames(x, total - 1)
            = DiscardConfirmedFrames(x, total - 1)
        BY ClientFunctions, Zenon
    <3> QED BY <2>1, <3>1
  <2>7. Client(i)!Discard(total - 1)
      BY <1>5, <2>4, <2>5, <2>6 DEF Client!Discard
  <2> QED BY <2>3, <2>7, Zenon DEF Contract, Client!Next
<1> QED BY <1>6, <1>7

(* An input added for k, no other queue being touched.                        *)
LEMMA ContractAdd ==
  ASSUME IInv, HorizonInv, RoomInv, UserInv, ReceivedInv, OrderInv, RoomForDelays,
         NEW k \in Players, NEW frame \in Nat, NEW bits \in Bits, Arrives(k, frame, bits),
         NEW i \in Connected(status)
  PROVE  Contract(i)
<1> DEFINE x == sync.queues[i]
           t == sync'
           st2 == status'
           lg2 == log'
           target == TargetFrame(sync.queues[k], frame)
<1>1. /\ k \in Connected(status) /\ UNCHANGED game
      /\ Adds(sync, status, log, k, frame, bits, t, st2, lg2)
    BY DEF Arrives
<1>2. i \in Players /\ pc \in Stages /\ DOMAIN log = Players
      /\ sync.queues \in [Players -> QueueType] /\ pc \in Resting
    BY SyncFacts DEF Arrives, Stages, Resting, Connected, Logs
<1> HIDE DEF t, st2, lg2
<1>3. /\ t.framecount = sync.framecount
      /\ t.queues = [sync.queues EXCEPT ![k] = AddInput(@, frame, bits)]
      /\ lg2 = IF target = NullFrame THEN log
               ELSE [log EXCEPT ![k] = LogAfter(sync.queues[k], bits, target, log[k])]
    BY <1>1 DEF Adds
<1>4. CASE i # k
  <2>1. t.queues[i] = sync.queues[i] /\ lg2[i] = log[i]
      BY <1>2, <1>3, <1>4
  <2>2. /\ sync'.queues[i] = sync.queues[i] /\ log'[i] = log[i] /\ game' = game
        /\ sync'.framecount = sync.framecount
      BY <1>1, <1>3, <2>1 DEF t, lg2
  <2> QED BY <1>2, <2>2, ContractSame, Zenon
<1>5. CASE i = k
  <2>1. /\ x.last_user_added_frame = NullFrame \/ frame = x.last_user_added_frame + 1
        /\ frame + x.frame_delay + 1 - Oldest(x) <= INPUT_QUEUE_LENGTH
        /\ frame + x.frame_delay < MaxFrame
        /\ x.last_user_added_frame = NullFrame => frame \in {0, RemoteDelay}
    <3>1. CASE pc = "app"
      <4>1. k = LocalPlayer /\ frame = sync.framecount /\ frame + x.frame_delay < MaxFrame
          BY <1>5, <3>1 DEF Arrives
      <4>2. ~BarrierReached(sync)
          BY <3>1 DEF Arrives
      <4>3. /\ x.last_user_added_frame = NullFrame \/ frame = x.last_user_added_frame + 1
            /\ frame + x.frame_delay + 1 - Oldest(x) <= INPUT_QUEUE_LENGTH
          BY <1>5, <3>1, <4>1, <4>2, LocalFits
      <4>4. x.last_user_added_frame = sync.framecount - 1
          BY <1>2, <1>5, <3>1, <4>1 DEF UserInv, Reached
      <4>5. x.last_user_added_frame = NullFrame => frame = 0
          BY <4>1, <4>4, SyncFacts DEF NullFrame
      <4> QED BY <4>1, <4>3, <4>5
    <3>2. CASE pc # "app"
      <4>1. /\ pc = "events" /\ k \in Remotes /\ ~status[k].disconnected
            /\ inbox[k] # <<>> /\ Head(inbox[k]).type = "input"
            /\ frame = Head(inbox[k]).frame
          BY <1>1, <3>2, PlayersArranged DEF Arrives, Connected
      <4>2. /\ frame = Following(status[k].last_frame)
            /\ x.last_user_added_frame = NullFrame \/ frame = x.last_user_added_frame + 1
            /\ frame + x.frame_delay + 1 - Oldest(x) <= INPUT_QUEUE_LENGTH
            /\ x.frame_delay = 0 /\ frame < MaxFrame
          BY <1>5, <4>1, RemoteFits
      <4>3. x.last_user_added_frame = NullFrame => status[k].last_frame = NullFrame
          BY <1>2, <1>5, QueueFacts
      <4> QED BY <4>2, <4>3 DEF Following
    <3> QED BY <3>1, <3>2
  <2>2. x.last_user_added_frame # NullFrame => frame = x.last_user_added_frame + 1
      BY <2>1
  <2>3. frame \in Client(i)!NextUserFrames
      BY <2>1, <2>2, ClientFunctions, Zenon DEF Client!NextUserFrames
  <2>4. /\ QueueInv(x, sync.framecount, log[i], Column(game, i))
        /\ x.last_frame_requested = sync.framecount - 1
        /\ x.last_added_frame =
             IF x.last_user_added_frame = NullFrame THEN NullFrame
             ELSE x.last_user_added_frame + x.frame_delay
      BY <1>2, QueueFacts, RestingInv DEF IInv, Settled
  <2>5. /\ x.length + TargetFrame(x, frame) - ExpectedFrame(x) + 1 <= INPUT_QUEUE_LENGTH
        /\ target # NullFrame
    <3> HIDE DEF x
    <3>1. /\ x.length + TargetFrame(x, frame) - ExpectedFrame(x) + 1 <= INPUT_QUEUE_LENGTH
          /\ TargetFrame(x, frame) # NullFrame
        BY <2>1, <2>4, NextInputFits
    <3> QED BY <1>5, <3>1 DEF x
  <2>14. /\ Client(i)!TargetFrame(x, frame) = TargetFrame(x, frame)
         /\ Client(i)!ExpectedFrame(x) = ExpectedFrame(x)
      BY ClientFunctions, Zenon
  <2>15. x.length + Client(i)!TargetFrame(x, frame) - Client(i)!ExpectedFrame(x) + 1
           <= INPUT_QUEUE_LENGTH
      BY <2>5, <2>14
  <2>6. Client(i)!CanAdd(frame)
      BY <2>1, <2>3, <2>4, <2>15, Zenon DEF Client!CanAdd, Client!Settled
  <2>7. t.queues[i] = AddInput(x, frame, bits)
      BY <1>2, <1>3, <1>5
  <2>8. lg2[i] = [f \in 0 .. target |-> IF f <= x.last_added_frame THEN log[i][f]
                                        ELSE Client(i)!DelayedBits(x, bits, target, f)]
    <3>1. lg2[i] = LogAfter(x, bits, target, log[i])
        BY <1>2, <1>3, <1>5, <2>5
    <3>2. \A f \in 0 .. target :
            (IF f <= x.last_added_frame THEN log[i][f] ELSE DelayedBits(x, bits, target, f))
              = IF f <= x.last_added_frame THEN log[i][f]
                ELSE Client(i)!DelayedBits(x, bits, target, f)
      <4>1. ASSUME NEW f
            PROVE  Client(i)!DelayedBits(x, bits, target, f)
                     = DelayedBits(x, bits, target, f)
        <5> HIDE DEF x, target
        <5> QED BY ClientFunctions, SMT
      <4> QED BY <4>1
    <3>3. LogAfter(x, bits, target, log[i])
            = [f \in 0 .. target |-> IF f <= x.last_added_frame THEN log[i][f]
                                     ELSE Client(i)!DelayedBits(x, bits, target, f)]
        BY <3>2, Zenon DEF LogAfter
    <3> QED BY <3>1, <3>3
  <2>9. [f \in DOMAIN game' |-> game'[f][i]] = [f \in DOMAIN game |-> game[f][i]]
      BY <1>1
  <2>10. /\ sync'.queues[i] = AddInput(x, frame, bits)
         /\ sync'.framecount = sync.framecount
         /\ log'[i] = [f \in 0 .. target |-> IF f <= x.last_added_frame THEN log[i][f]
                                             ELSE Client(i)!DelayedBits(x, bits, target, f)]
      BY <1>3, <2>7, <2>8, Zenon DEF t, lg2
  <2>11. Client(i)!TargetFrame(x, frame) = target
      BY <1>5, ClientFunctions, Zenon
  <2>16. /\ sync'.queues[i] = Client(i)!AddInput(x, frame, bits)
         /\ target # Client(i)!NullFrame
    <3>1. Client(i)!AddInput(x, frame, bits) = AddInput(x, frame, bits)
        BY ClientFunctions, SMT
    <3>2. Client(i)!NullFrame = NullFrame
        BY ClientFunctions, Zenon
    <3> QED BY <2>5, <2>10, <3>1, <3>2
  <2>17. log'[i] = IF target = Client(i)!NullFrame THEN log[i]
                   ELSE [f \in 0 .. target |->
                           IF f <= x.last_added_frame THEN log[i][f]
                           ELSE Client(i)!DelayedBits(x, bits, target, f)]
      BY <2>10, <2>16, Zenon
  <2>12. Client(i)!Add(frame, bits)
      BY <2>6, <2>9, <2>10, <2>11, <2>16, <2>17, Zenon DEF Client!Add
  <2>13. frame \in 0 .. MaxFrame
    <3> HIDE DEF x
    <3>1. x.frame_delay \in Nat
        BY <2>4 DEF QueueInv, QueueType
    <3> QED BY <2>1, <3>1
  <2> QED BY <2>12, <2>13, Zenon DEF Contract, Client!Next
<1> QED BY <1>4, <1>5

(* A disconnect rolls the queues back or leaves them alone.                   *)
LEMMA ContractDrops ==
  ASSUME IInv, SimInv, NEW k, NEW syncto \in Frames, Drops(k, syncto),
         NEW i \in Connected(status)
  PROVE  Contract(i)
<1>1. /\ pc \in Resting /\ sync.last_confirmed_frame <= syncto /\ UNCHANGED log
      /\ i \in Players
    BY DEF Drops, Connected
<1>2. CASE syncto < sync.framecount /\ pc' \in Stages
  <2>1. AdjustSimulation(syncto, pc)
      BY <1>2 DEF Drops, DisconnectPlayerQueue
  <2> QED BY <1>1, <1>2, <2>1, ContractRollback
<1>3. CASE ~(syncto < sync.framecount)
  <2>1. UNCHANGED <<sync, game>>
      BY <1>3 DEF Drops, DisconnectPlayerQueue
  <2> QED BY <1>1, <2>1, ContractSame
<1>4. CASE syncto < sync.framecount /\ pc' \notin Stages
  <2>1. UNCHANGED <<sync, game>>
      BY <1>4 DEF Drops, DisconnectPlayerQueue, AdjustSimulation, Stages
  <2> QED BY <1>1, <2>1, ContractSame
<1> QED BY <1>2, <1>3, <1>4

(* So does CheckSimulation.                                                   *)
LEMMA ContractCheck ==
  ASSUME IInv, SimInv, CheckSimulation, NEW i \in Connected(status)
  PROVE  Contract(i)
<1>1. pc = "check" /\ pc \in Resting /\ UNCHANGED log /\ i \in Players
    BY DEF CheckSimulation, Connected, Resting, Stages
<1>2. CASE FirstIncorrectFrames(sync) # {} /\ pc' \in Stages
  <2>1. AdjustSimulation(SeekTo(sync), "poll")
      BY <1>2 DEF CheckSimulation
  <2>2. /\ SeekTo(sync) \in Frames /\ SeekTo(sync) < sync.framecount
        /\ sync.last_confirmed_frame <= SeekTo(sync)
      BY <1>1, <1>2, SeekToSettled
  <2> QED BY <1>1, <1>2, <2>1, <2>2, ContractRollback
<1>3. CASE FirstIncorrectFrames(sync) = {}
  <2>1. UNCHANGED <<sync, game>>
      BY <1>3 DEF CheckSimulation
  <2> QED BY <1>1, <2>1, ContractSame
<1>4. CASE FirstIncorrectFrames(sync) # {} /\ pc' \notin Stages
  <2>1. UNCHANGED <<sync, game>>
      BY <1>4 DEF CheckSimulation, AdjustSimulation, Stages
  <2> QED BY <1>1, <2>1, ContractSame
<1> QED BY <1>2, <1>3, <1>4

(* A frame simulated asks every queue for it, unless the process stops.       *)
LEMMA ContractSimulate ==
  ASSUME IInv, SimInv, AdvanceFrame \/ Replay, NEW i \in Connected(status)
  PROVE  Contract(i)
<1> DEFINE next == IF pc = "frame" THEN "pump"
                   ELSE IF sync.framecount + 1 = replay.until THEN replay.resume
                   ELSE "replay"
<1>1. /\ pc \in {"frame", "replay"} /\ SimulateFrame(next)
      /\ UNCHANGED <<status, log>>
    BY DEF AdvanceFrame, Replay
<1>0. next \in Stages
    BY SyncFacts DEF Callers, Stages
<1> HIDE DEF next
<1>2. i \in Players
    BY DEF Connected
<1>3. CASE pc' \in Stages
  BY <1>1, <1>3, ContractRequest
<1>4. CASE pc' \notin Stages
  <2>1. UNCHANGED <<sync, game>>
      BY <1>0, <1>1, <1>4 DEF SimulateFrame
  <2> QED BY <1>1, <1>2, <2>1, ContractSame
<1> QED BY <1>3, <1>4

(* Every step keeps the contract of every player's queue who is connected     *)
(* after it.                                                                  *)
LEMMA ContractStep ==
  ASSUME IInv, BarrierInv, RingInvs, EarlyInv, SimInv, AssertsInv, RoomForDelays, Kinds,
         NEW i \in Players, ~status'[i].disconnected
  PROVE  Contract(i)
<1>1. i \in Connected(status)
    BY StaysGone DEF Connected
<1>2. ASSUME NEW k \in Players, NEW frame \in Nat, NEW bits \in Bits,
             Arrives(k, frame, bits)
      PROVE  Contract(i)
    BY <1>1, <1>2, ContractAdd DEF RingInvs, AssertsInv
<1>3. ASSUME NEW k \in Remotes, NEW syncto \in Frames, Drops(k, syncto)
      PROVE  Contract(i)
    BY <1>1, <1>3, ContractDrops
<1>4. CASE CheckSimulation
    BY <1>1, <1>4, ContractCheck
<1>5. CASE AdvanceFrame \/ Replay
    BY <1>1, <1>5, ContractSimulate
<1>6. CASE PushToSpectators \/ Stays
    BY <1>6, ContractSame DEF PushToSpectators, Stays
<1>7. CASE Confirm
  <2>1. CASE pc' \in Stages
      BY <1>1, <1>7, <2>1, ContractConfirm DEF RingInvs
  <2>2. CASE pc' \notin Stages
    <3>1. UNCHANGED <<sync, game, log>>
        BY <1>7, <2>2 DEF Confirm, Stages
    <3> QED BY <3>1, ContractSame
  <2> QED BY <2>1, <2>2
<1> QED BY <1>2, <1>3, <1>4, <1>5, <1>6, <1>7 DEF Kinds

(* input_queue.cpp, sync.cpp: under the same conditions every step of a       *)
(* session does to the queue of a player who stays connected what the         *)
(* contract of the queue allows, or nothing: it adds an input only where      *)
(* there is room and the next one is due, asks for a frame only while no      *)
(* misprediction is known, rolls back to no frame that was discarded, and     *)
(* discards only what has arrived.  From that contract InputQueueSafety       *)
(* proves that mispredictions are caught and confirmed inputs are kept.       *)
THEOREM ContractKept ==
  NumPlayers <= 3 /\ LocalPlayer \notin Leavers /\ RoomForDelays
  => (Spec => QueueContract)
<1> SUFFICES ASSUME NumPlayers <= 3, LocalPlayer \notin Leavers, RoomForDelays
             PROVE  Spec => QueueContract
    OBVIOUS
<1>1. IInv /\ BarrierInv /\ RingInvs /\ ReportedInv /\ ConsistencyInv /\ AssertsInv
        /\ [Next]_vars
      => [\A i \in Players :
            status'[i].disconnected \/ Client(i)!Next \/ UNCHANGED Client(i)!vars]_vars
  <2> SUFFICES ASSUME IInv, BarrierInv, RingInvs, ReportedInv, ConsistencyInv, AssertsInv,
                      [Next]_vars, NEW i \in Players, ~status'[i].disconnected
               PROVE  Client(i)!Next \/ UNCHANGED Client(i)!vars
      OBVIOUS
  <2>1. Kinds /\ EarlyInv /\ SimInv
      BY ConsistencyStep DEF ConsistencyInv
  <2>2. Contract(i)
      BY <2>1, ContractStep
  <2> QED BY <2>2 DEF Contract
<1> QED BY <1>1, Invariant, BarrierInvariant, RingInvariant, ReportedInvariant,
           ConsistencyInvariant, AssertsInvariant, PTL DEF Spec, QueueContract
=============================================================================
