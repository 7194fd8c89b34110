-------------------------------- MODULE Room --------------------------------
(***************************************************************************)
(* GameServer/Lobby.cpp, Room.cpp and the lobby and room part of           *)
(* GamePacketHandler.cpp and GameSession.cpp. Lobby and rooms are task     *)
(* objects: packet handlers, OnDisconnect, the standby timer and the match *)
(* post tasks to them, and each runs its own tasks one at a time, in order *)
(* (that is what SerialActor promises; here it is a queue per object). A   *)
(* task looks at the world as it is when it runs, not as it was when it    *)
(* was posted, and that is where the interesting behaviour is.             *)
(*                                                                         *)
(* Packets that only read (refresh, chat, room info) are left out, and a   *)
(* request the server answers by disconnecting the client is Disconnect.   *)
(* Of the match only what it does to room and sessions is here; a match is *)
(* named by its room, which never has two at a time.                       *)
(***************************************************************************)
EXTENDS Naturals, Sequences, FiniteSets

CONSTANTS Sessions,
          MaxRooms,           (* bound on the rooms ever created           *)
          MAX_PLAYER_NUMBER,
          STANDBY_COUNT,
          MaxPackets,         (* of each session: a bound on its packets   *)
          MaxTasks,           (* a packet is sent only while no task queue *)
                              (* is this long                              *)
          MaxTimers,          (* bound on the names of standby timers      *)
          None                (* nullptr, of any type                      *)

ASSUME SizesPositive == /\ MAX_PLAYER_NUMBER \in Nat \ {0}
                        /\ STANDBY_COUNT \in Nat \ {0}
ASSUME BoundsNat     == MaxRooms \in Nat /\ MaxTimers \in Nat
ASSUME NoneFresh     == None \notin Sessions
ASSUME PacketsBounded == MaxPackets \in [Sessions -> Nat]

Rooms == 1 .. MaxRooms
Seats == 0 .. MAX_PLAYER_NUMBER - 1

VARIABLES
    online,           (* the session has not been disconnected             *)
    sessionState,     (* GameSession::state_                               *)
    room_, match_,    (* GameSession::room_ and match_ (by its room)       *)
    sent,             (* packets sent so far                               *)
    lobbyTasks, rooms_, roomIDGenerator,
    roomTasks, state_, sessionSlots_, numberOfPlayers_,
    armed,            (* the standby timers that may still fire            *)
    standbyTimerHandle_,
    matchPhase,       (* of the room's match_: none, init, running, over   *)
    players, gone     (* its sessions, and those that are DISCONNECTED     *)

sessionVars == <<online, sessionState, room_, match_>>
lobbyVars   == <<lobbyTasks, rooms_, roomIDGenerator>>
seatVars    == <<state_, sessionSlots_, numberOfPlayers_>>
timerVars   == <<armed, standbyTimerHandle_>>
matchVars   == <<matchPhase, players, gone>>
vars == <<sessionVars, sent, lobbyVars, roomTasks, seatVars, timerVars, matchVars>>

Free == [session |-> None, ready |-> FALSE]

Task(op, s, arg) == [op |-> op, session |-> s, arg |-> arg]

TimerIds == 0 .. MaxTimers

TypeOK ==
    /\ online \in [Sessions -> BOOLEAN]
    /\ sessionState \in [Sessions -> {"NONE", "LOBBY", "ROOM", "MATCH"}]
    /\ room_ \in [Sessions -> Rooms \cup {None}] /\ match_ \in [Sessions -> Rooms \cup {None}]
    /\ \A s \in Sessions : sent[s] \in 0 .. MaxPackets[s]
    /\ \A i \in DOMAIN lobbyTasks : lobbyTasks[i].op \in {"Create", "Find", "Destroy"}
    /\ rooms_ \subseteq Rooms /\ roomIDGenerator \in 1 .. MaxRooms + 1
    /\ \A r \in Rooms : \A i \in DOMAIN roomTasks[r] :
          roomTasks[r][i].op \in {"Enter", "Leave", "Ready", "StandBy", "Cleanup", "EndMatch"}
    /\ state_ \in [Rooms -> {"INVALID", "WAITING", "INGAME"}]
    /\ sessionSlots_ \in [Rooms -> [Seats -> [session : Sessions \cup {None}, ready : BOOLEAN]]]
    /\ numberOfPlayers_ \in [Rooms -> 0 .. MAX_PLAYER_NUMBER]
    /\ \A r \in Rooms : armed[r] \subseteq [id : TimerIds, count : 0 .. STANDBY_COUNT - 1]
    /\ standbyTimerHandle_ \in [Rooms -> TimerIds \cup {None}]
    /\ matchPhase \in [Rooms -> {"none", "init", "running", "over"}]
    /\ players \in [Rooms -> SUBSET Sessions] /\ gone \in [Rooms -> SUBSET Sessions]

\* Every client is connected and has been verified: it is in the lobby.
Init ==
    /\ online = [s \in Sessions |-> TRUE]
    /\ sessionState = [s \in Sessions |-> "LOBBY"]
    /\ room_ = [s \in Sessions |-> None] /\ match_ = [s \in Sessions |-> None]
    /\ sent = [s \in Sessions |-> 0]
    /\ lobbyTasks = <<>> /\ rooms_ = {} /\ roomIDGenerator = 1
    /\ roomTasks = [r \in Rooms |-> <<>>]
    /\ state_ = [r \in Rooms |-> "WAITING"]
    /\ sessionSlots_ = [r \in Rooms |-> [i \in Seats |-> Free]]
    /\ numberOfPlayers_ = [r \in Rooms |-> 0]
    /\ armed = [r \in Rooms |-> {}] /\ standbyTimerHandle_ = [r \in Rooms |-> None]
    /\ matchPhase = [r \in Rooms |-> "none"]
    /\ players = [r \in Rooms |-> {}] /\ gone = [r \in Rooms |-> {}]

-----------------------------------------------------------------------------
(* Packets. Each handler reads the session's state and posts a task.       *)

Receive(s) ==
    /\ online[s]
    /\ sent[s] < MaxPackets[s]
    /\ Len(lobbyTasks) < MaxTasks /\ \A r \in Rooms : Len(roomTasks[r]) < MaxTasks
    /\ sent' = [sent EXCEPT ![s] = @ + 1]

PostLobby(task)   == lobbyTasks' = Append(lobbyTasks, task)
PostRoom(r, task) == roomTasks' = [roomTasks EXCEPT ![r] = Append(@, task)]

\* C_VERIFY_TOKEN may be sent again at any time: ProcessEnterLobby.
VerifyToken(s) ==
    /\ Receive(s)
    /\ sessionState[s] # "LOBBY"
    /\ sessionState' = [sessionState EXCEPT ![s] = "LOBBY"]
    /\ UNCHANGED <<online, room_, match_, lobbyVars, roomTasks, seatVars, timerVars, matchVars>>

\* TryGetLobby succeeds.
CreateRoom(s) ==
    /\ Receive(s)
    /\ sessionState[s] = "LOBBY"
    /\ PostLobby(Task("Create", s, None))
    /\ UNCHANGED <<sessionVars, rooms_, roomIDGenerator, roomTasks, seatVars, timerVars, matchVars>>

EnterRoom(s, r) ==
    /\ Receive(s)
    /\ sessionState[s] = "LOBBY"
    /\ PostLobby(Task("Find", s, r))
    /\ UNCHANGED <<sessionVars, rooms_, roomIDGenerator, roomTasks, seatVars, timerVars, matchVars>>

\* TryGetRoom succeeds; the seat is the one the packet names.
LeaveRoom(s, seat) ==
    /\ Receive(s)
    /\ sessionState[s] = "ROOM" /\ room_[s] # None
    /\ PostRoom(room_[s], Task("Leave", s, seat))
    /\ UNCHANGED <<sessionVars, lobbyVars, seatVars, timerVars, matchVars>>

Ready(s, seat) ==
    /\ Receive(s)
    /\ sessionState[s] = "ROOM" /\ room_[s] # None
    /\ PostRoom(room_[s], Task("Ready", s, seat))
    /\ UNCHANGED <<sessionVars, lobbyVars, seatVars, timerVars, matchVars>>

\* OnDisconnect: PlayerDisconnected in the match, a task for the room the
\* session knows of, and ProcessLeaveLobby.
Disconnect(s) ==
    /\ online[s]
    /\ online' = [online EXCEPT ![s] = FALSE]
    /\ sessionState' = [sessionState EXCEPT ![s] = "NONE"]
    /\ match_' = [match_ EXCEPT ![s] = None]
    /\ gone' = IF match_[s] = None THEN gone ELSE [gone EXCEPT ![match_[s]] = @ \cup {s}]
    /\ IF room_[s] = None THEN UNCHANGED roomTasks
                          ELSE PostRoom(room_[s], Task("Cleanup", s, None))
    /\ UNCHANGED <<room_, sent, lobbyVars, seatVars, timerVars, matchPhase, players>>

-----------------------------------------------------------------------------
(* The lobby's tasks.                                                      *)

LobbyTask(op) == lobbyTasks # <<>> /\ Head(lobbyTasks).op = op

\* Lobby::CreateRoom; its callback posts Room::Enter to the new room.
LobbyCreate ==
    /\ LobbyTask("Create")
    /\ roomIDGenerator <= MaxRooms
    /\ rooms_' = rooms_ \cup {roomIDGenerator}
    /\ roomIDGenerator' = roomIDGenerator + 1
    /\ PostRoom(roomIDGenerator, Task("Enter", Head(lobbyTasks).session, None))
    /\ lobbyTasks' = Tail(lobbyTasks)
    /\ UNCHANGED <<sessionVars, sent, seatVars, timerVars, matchVars>>

\* The bound on rooms: creation beyond it is refused.
LobbyRefuse ==
    /\ LobbyTask("Create")
    /\ roomIDGenerator > MaxRooms
    /\ lobbyTasks' = Tail(lobbyTasks)
    /\ UNCHANGED <<sessionVars, sent, rooms_, roomIDGenerator, roomTasks, seatVars, timerVars,
                   matchVars>>

\* Lobby::FindRoom; its callback posts Room::Enter if there is such a room.
LobbyFind ==
    /\ LobbyTask("Find")
    /\ LET task == Head(lobbyTasks) IN
       IF task.arg \in rooms_ THEN PostRoom(task.arg, Task("Enter", task.session, None))
                              ELSE UNCHANGED roomTasks
    /\ lobbyTasks' = Tail(lobbyTasks)
    /\ UNCHANGED <<sessionVars, sent, rooms_, roomIDGenerator, seatVars, timerVars, matchVars>>

LobbyDestroy ==
    /\ LobbyTask("Destroy")
    /\ rooms_' = rooms_ \ {Head(lobbyTasks).arg}
    /\ lobbyTasks' = Tail(lobbyTasks)
    /\ UNCHANGED <<sessionVars, sent, roomIDGenerator, roomTasks, seatVars, timerVars, matchVars>>

-----------------------------------------------------------------------------
(* A room's tasks.                                                         *)

RoomTask(r, op) == roomTasks[r] # <<>> /\ Head(roomTasks[r]).op = op
Next1(r)        == Head(roomTasks[r])
Done(r)         == roomTasks' = [roomTasks EXCEPT ![r] = Tail(@)]

Occupant(r, i) == sessionSlots_[r][i].session

FreeSeats(r) == {i \in Seats : Occupant(r, i) = None}

FirstSeat(seats) == CHOOSE i \in seats : \A j \in seats : i <= j

\* Mutant: a refused player is counted all the same.
RoomEnterCounted(r) ==
    LET s == Next1(r).session
        i == FirstSeat(FreeSeats(r)) IN
    /\ RoomTask(r, "Enter")
    /\ Done(r)
    /\ numberOfPlayers_' = [numberOfPlayers_ EXCEPT ![r] = @ + 1]
    /\ IF state_[r] = "WAITING" /\ numberOfPlayers_[r] # MAX_PLAYER_NUMBER /\ FreeSeats(r) # {}
       THEN /\ sessionSlots_' = [sessionSlots_ EXCEPT ![r][i] = [session |-> s, ready |-> FALSE]]
            /\ sessionState' = [sessionState EXCEPT ![s] = "ROOM"]
            /\ room_' = [room_ EXCEPT ![s] = r]
       ELSE UNCHANGED <<sessionSlots_, sessionState, room_>>
    /\ UNCHANGED <<online, match_, sent, lobbyVars, state_, timerVars, matchVars>>

RoomEnter(r) ==
    LET s == Next1(r).session
        i == FirstSeat(FreeSeats(r)) IN
    /\ RoomTask(r, "Enter")
    /\ Done(r)
    /\ IF state_[r] = "WAITING" /\ numberOfPlayers_[r] # MAX_PLAYER_NUMBER /\ FreeSeats(r) # {}
       THEN /\ sessionSlots_' = [sessionSlots_ EXCEPT ![r][i] = [session |-> s, ready |-> FALSE]]
            /\ numberOfPlayers_' = [numberOfPlayers_ EXCEPT ![r] = @ + 1]
            /\ sessionState' = [sessionState EXCEPT ![s] = "ROOM"]
            /\ room_' = [room_ EXCEPT ![s] = r]
       ELSE UNCHANGED <<sessionSlots_, numberOfPlayers_, sessionState, room_>>
    /\ UNCHANGED <<online, match_, sent, lobbyVars, state_, timerVars, matchVars>>

\* Mutant: the seat is given up whoever holds it.
LeaveAnySeat(r, s, i) ==
    IF i \in Seats
    THEN /\ sessionSlots_' = [sessionSlots_ EXCEPT ![r][i] = Free]
         /\ numberOfPlayers_' = [numberOfPlayers_ EXCEPT ![r] = @ - 1]
         /\ sessionState' = [sessionState EXCEPT ![s] = "LOBBY"]
         /\ room_' = [room_ EXCEPT ![s] = None]
         /\ UNCHANGED <<state_, lobbyTasks>>
    ELSE UNCHANGED <<seatVars, sessionState, room_, lobbyTasks>>

\* Mutant: a room that is left during its match is kept.
LeaveInGame(r, s, i) ==
    IF i \in Seats /\ Occupant(r, i) = s
    THEN /\ sessionSlots_' = [sessionSlots_ EXCEPT ![r][i] = Free]
         /\ numberOfPlayers_' = [numberOfPlayers_ EXCEPT ![r] = @ - 1]
         /\ sessionState' = [sessionState EXCEPT ![s] = "LOBBY"]
         /\ room_' = [room_ EXCEPT ![s] = None]
         /\ IF numberOfPlayers_[r] = 1 /\ state_[r] = "WAITING"
            THEN /\ state_' = [state_ EXCEPT ![r] = "INVALID"]
                 /\ PostLobby(Task("Destroy", None, r))
            ELSE UNCHANGED <<state_, lobbyTasks>>
    ELSE UNCHANGED <<seatVars, sessionState, room_, lobbyTasks>>

\* Room::Leave, called by two tasks.
Leave(r, s, i) ==
    IF i \in Seats /\ Occupant(r, i) = s
    THEN /\ sessionSlots_' = [sessionSlots_ EXCEPT ![r][i] = Free]
         /\ numberOfPlayers_' = [numberOfPlayers_ EXCEPT ![r] = @ - 1]
         /\ sessionState' = [sessionState EXCEPT ![s] = "LOBBY"]
         /\ room_' = [room_ EXCEPT ![s] = None]
         /\ IF numberOfPlayers_[r] = 1
            THEN /\ state_' = [state_ EXCEPT ![r] = "INVALID"]
                 /\ PostLobby(Task("Destroy", None, r))
            ELSE UNCHANGED <<state_, lobbyTasks>>
    ELSE UNCHANGED <<seatVars, sessionState, room_, lobbyTasks>>

RoomLeave(r) ==
    /\ RoomTask(r, "Leave")
    /\ Done(r)
    /\ Leave(r, Next1(r).session, Next1(r).arg)
    /\ UNCHANGED <<online, match_, sent, rooms_, roomIDGenerator, timerVars, matchVars>>

\* GetSlotIndex for a disconnected session, and Leave in its callback.
RoomCleanup(r) ==
    LET s == Next1(r).session
        seats == {i \in Seats : Occupant(r, i) = s} IN
    /\ RoomTask(r, "Cleanup")
    /\ Done(r)
    /\ Leave(r, s, IF seats = {} THEN None ELSE FirstSeat(seats))
    /\ UNCHANGED <<online, match_, sent, rooms_, roomIDGenerator, timerVars, matchVars>>

CheckAllReady(r) == \A i \in Seats : Occupant(r, i) # None /\ sessionSlots_[r][i].ready

\* The timer of the handle, if it has not fired, does not fire any more.
RemoveTimer(r) ==
    /\ armed' = [armed EXCEPT ![r] = {t \in @ : t.id # standbyTimerHandle_[r]}]
    /\ UNCHANGED standbyTimerHandle_

FreshTimers(r) == TimerIds \ {t.id : t \in armed[r]}
FreshTimer(r)  == FirstSeat(FreshTimers(r))

AddTimer(r, count) ==
    /\ FreshTimers(r) # {}
    /\ armed' = [armed EXCEPT ![r] = @ \cup {[id |-> FreshTimer(r), count |-> count]}]
    /\ standbyTimerHandle_' = [standbyTimerHandle_ EXCEPT ![r] = FreshTimer(r)]

\* Room::ToggleReady. Making the last player ready calls StandByMatch, and so
\* does making any other player ready, which then finds not all are.
RoomReady(r) ==
    LET s == Next1(r).session
        i == Next1(r).arg
        ready == ~sessionSlots_[r][i].ready IN
    /\ RoomTask(r, "Ready")
    /\ Done(r)
    /\ IF Occupant(r, i) = s /\ state_[r] # "INGAME"
       THEN /\ sessionSlots_' = [sessionSlots_ EXCEPT ![r][i].ready = ready]
            /\ IF CheckAllReady(r)' THEN AddTimer(r, STANDBY_COUNT - 1) ELSE RemoveTimer(r)
       ELSE UNCHANGED <<sessionSlots_, timerVars>>
    /\ UNCHANGED <<sessionVars, sent, lobbyVars, state_, numberOfPlayers_, matchVars>>

\* Room::StartMatch. Match::Init is posted to the new match.
StartMatch(r) ==
    /\ state_' = [state_ EXCEPT ![r] = "INGAME"]
    /\ sessionSlots_' = [sessionSlots_ EXCEPT ![r] = [i \in Seats |-> [@[i] EXCEPT !.ready = FALSE]]]
    /\ players' = [players EXCEPT ![r] = {Occupant(r, i) : i \in Seats}]
    /\ gone' = [gone EXCEPT ![r] = {}]
    /\ matchPhase' = [matchPhase EXCEPT ![r] = "init"]

\* Mutant: readiness is not looked at again when the countdown ends.
RoomStandByBlind(r) ==
    LET count == Next1(r).arg IN
    /\ RoomTask(r, "StandBy")
    /\ Done(r)
    /\ IF count = 0 THEN StartMatch(r) /\ UNCHANGED timerVars
                    ELSE AddTimer(r, count - 1) /\ UNCHANGED <<state_, sessionSlots_, matchVars>>
    /\ UNCHANGED <<sessionVars, sent, lobbyVars, numberOfPlayers_>>

\* Mutant: the countdown does not go on if another timer has been armed since,
\* and that timer is removed as if it were its own.
RoomStandByLast(r) ==
    LET count == Next1(r).arg IN
    /\ RoomTask(r, "StandBy")
    /\ Done(r)
    /\ \/ /\ CheckAllReady(r) /\ count = 0 /\ standbyTimerHandle_[r] = None
          /\ StartMatch(r) /\ UNCHANGED timerVars
       \/ /\ CheckAllReady(r) /\ count > 0 /\ standbyTimerHandle_[r] = None
          /\ AddTimer(r, count - 1) /\ UNCHANGED <<state_, sessionSlots_, matchVars>>
       \/ /\ ~CheckAllReady(r) \/ standbyTimerHandle_[r] # None
          /\ RemoveTimer(r) /\ UNCHANGED <<state_, sessionSlots_, matchVars>>
    /\ UNCHANGED <<sessionVars, sent, lobbyVars, numberOfPlayers_>>

\* Room::StandByMatch, as the timer runs it.
RoomStandBy(r) ==
    LET count == Next1(r).arg IN
    /\ RoomTask(r, "StandBy")
    /\ Done(r)
    /\ \/ CheckAllReady(r) /\ count = 0 /\ StartMatch(r) /\ UNCHANGED timerVars
       \/ /\ CheckAllReady(r) /\ count > 0 /\ AddTimer(r, count - 1)
          /\ UNCHANGED <<state_, sessionSlots_, matchVars>>
       \/ ~CheckAllReady(r) /\ RemoveTimer(r) /\ UNCHANGED <<state_, sessionSlots_, matchVars>>
    /\ UNCHANGED <<sessionVars, sent, lobbyVars, numberOfPlayers_>>

RoomEndMatch(r) ==
    /\ RoomTask(r, "EndMatch")
    /\ Done(r)
    /\ state_' = [state_ EXCEPT ![r] = "WAITING"]
    /\ sessionSlots_' = [sessionSlots_ EXCEPT ![r] = [i \in Seats |-> [@[i] EXCEPT !.ready = FALSE]]]
    /\ matchPhase' = [matchPhase EXCEPT ![r] = "none"]
    /\ UNCHANGED <<sessionVars, sent, lobbyVars, numberOfPlayers_, timerVars, players, gone>>

\* Distribute fires a standby timer: StandByMatch is posted to the room. Its
\* handle, if it is still kept, has expired.
Fire(r, t) ==
    /\ t \in armed[r]
    /\ armed' = [armed EXCEPT ![r] = @ \ {t}]
    /\ standbyTimerHandle_' =
          [standbyTimerHandle_ EXCEPT ![r] = IF @ = t.id THEN None ELSE @]
    /\ PostRoom(r, Task("StandBy", None, t.count))
    /\ UNCHANGED <<sessionVars, sent, lobbyVars, seatVars, matchVars>>

-----------------------------------------------------------------------------
(* What a match does to its room and sessions.                             *)

\* Match::Init: ProcessEnterMatch for the sessions the room started it with.
MatchInit(r) ==
    /\ matchPhase[r] = "init"
    /\ matchPhase' = [matchPhase EXCEPT ![r] = "running"]
    /\ sessionState' = [s \in Sessions |-> IF s \in players[r] THEN "MATCH" ELSE sessionState[s]]
    /\ match_' = [s \in Sessions |-> IF s \in players[r] THEN r ELSE match_[s]]
    /\ UNCHANGED <<online, room_, sent, lobbyVars, roomTasks, seatVars, timerVars, players, gone>>

\* A player escapes, is murdered or leaves the match: ProcessLeaveMatch. Only
\* who leaves is DISCONNECTED afterwards.
MatchOut(s, leaves) ==
    /\ online[s] /\ sessionState[s] = "MATCH" /\ match_[s] # None
    /\ sessionState' = [sessionState EXCEPT ![s] = "ROOM"]
    /\ match_' = [match_ EXCEPT ![s] = None]
    /\ gone' = IF leaves THEN [gone EXCEPT ![match_[s]] = @ \cup {s}] ELSE gone
    /\ UNCHANGED <<online, room_, sent, lobbyVars, roomTasks, seatVars, timerVars, matchPhase,
                   players>>

\* Match::End: PlayerBackToRoom, then EndMatch is posted to the room.
MatchEnd(r) ==
    /\ matchPhase[r] = "running"
    /\ matchPhase' = [matchPhase EXCEPT ![r] = "over"]
    /\ LET back == players[r] \ gone[r] IN
       /\ sessionState' = [s \in Sessions |-> IF s \in back THEN "ROOM" ELSE sessionState[s]]
       /\ match_' = [s \in Sessions |-> IF s \in back THEN None ELSE match_[s]]
    /\ PostRoom(r, Task("EndMatch", None, None))
    /\ UNCHANGED <<online, room_, sent, lobbyVars, seatVars, timerVars, players, gone>>

-----------------------------------------------------------------------------
Packet(s) ==
    \/ VerifyToken(s) \/ CreateRoom(s)
    \/ \E r \in Rooms : EnterRoom(s, r)
    \/ \E i \in Seats : LeaveRoom(s, i) \/ Ready(s, i)

Lobby == LobbyCreate \/ LobbyRefuse \/ LobbyFind \/ LobbyDestroy

RunRoom(r) ==
    \/ RoomEnter(r) \/ RoomLeave(r) \/ RoomCleanup(r) \/ RoomReady(r)
    \/ RoomStandBy(r) \/ RoomEndMatch(r)

Match(r) == MatchInit(r) \/ MatchEnd(r)

Next ==
    \/ \E s \in Sessions : Packet(s) \/ Disconnect(s) \/ \E leaves \in BOOLEAN : MatchOut(s, leaves)
    \/ Lobby
    \/ \E r \in Rooms : RunRoom(r) \/ Match(r) \/ \E t \in armed[r] : Fire(r, t)

Spec == Init /\ [][Next]_vars

\* Posted tasks run (CommandTask!EveryTaskRuns), armed timers fire
\* (TimerTask!DueTimerFires) and a match begins and ends. Nobody owes a packet.
FairSpec ==
    /\ Spec
    /\ WF_vars(Lobby)
    /\ \A r \in Rooms : WF_vars(RunRoom(r)) /\ WF_vars(Match(r))
                        /\ WF_vars(\E t \in armed[r] : Fire(r, t))

-----------------------------------------------------------------------------
\* numberOfPlayers_ is the number of taken seats: a room is never refused
\* while it has a seat, never overfilled, and destroyed when the last leaves.
SeatsCounted == \A r \in Rooms :
    numberOfPlayers_[r] = Cardinality({i \in Seats : Occupant(r, i) # None})

\* A match starts only in a waiting room with every seat taken and ready,
\* whatever has been left, entered or toggled since the countdown began, and
\* never while another match of the room is on.
StartsFull == [][\A r \in Rooms :
    state_[r] # "INGAME" /\ state_'[r] = "INGAME" =>
        /\ state_[r] = "WAITING" /\ CheckAllReady(r)
        /\ matchPhase[r] = "none"]_vars

\* The players all being ready, the match starts unless one of them changes
\* that: no stale countdown or removed timer gets the room stuck.
AllReadyStarts == \A r \in Rooms :
    CheckAllReady(r) ~> state_[r] = "INGAME" \/ ~CheckAllReady(r)

\* The lobby never keeps listing a room without players: it is new and its
\* creator's Enter is on its way, or its last player left and the lobby drops
\* it, also when that happens during the room's match.
EmptyRoomGoes == \A r \in Rooms :
    r \in rooms_ /\ numberOfPlayers_[r] = 0 ~> r \notin rooms_ \/ numberOfPlayers_[r] > 0

\* OnDisconnect's comment: "Clean up used contents". A session that is gone,
\* and about which no task is on its way any more, holds no seat.
Mentions(tasks, s) == \E i \in DOMAIN tasks : tasks[i].session = s

CleanedUp == \A s \in Sessions, r \in Rooms, i \in Seats :
    ~online[s] /\ Occupant(r, i) = s =>
        Mentions(lobbyTasks, s) \/ \E q \in Rooms : Mentions(roomTasks[q], s)
=============================================================================
