----------------------------- MODULE RoomProofs -----------------------------
(***************************************************************************)
(* Theorems about Room, for any sessions, rooms, seats, length of the      *)
(* countdown and bounds.                                                   *)
(***************************************************************************)
EXTENDS Room, FiniteSetTheorems, SequenceTheorems, WellFoundedInduction, TLAPS

\* What the queues may hold.
LobbyTasks ==
    [op : {"Create"}, session : Sessions, arg : {None}]
    \cup [op : {"Find"}, session : Sessions, arg : Rooms]
    \cup [op : {"Destroy"}, session : {None}, arg : Rooms]
RoomTasks ==
    [op : {"Enter", "Cleanup"}, session : Sessions, arg : {None}]
    \cup [op : {"Leave", "Ready"}, session : Sessions, arg : Seats]
    \cup [op : {"StandBy"}, session : {None}, arg : 0 .. STANDBY_COUNT - 1]
    \cup [op : {"EndMatch"}, session : {None}, arg : {None}]

Slots == [session : Sessions \cup {None}, ready : BOOLEAN]

SessionTypes ==
    /\ online \in [Sessions -> BOOLEAN]
    /\ sessionState \in [Sessions -> {"NONE", "LOBBY", "ROOM", "MATCH"}]
    /\ room_ \in [Sessions -> Rooms \cup {None}] /\ match_ \in [Sessions -> Rooms \cup {None}]
    /\ sent \in [Sessions -> Nat] /\ \A s \in Sessions : sent[s] <= MaxPackets[s]
QueueTypes ==
    /\ lobbyTasks \in Seq(LobbyTasks) /\ roomTasks \in [Rooms -> Seq(RoomTasks)]
    /\ rooms_ \subseteq Rooms /\ roomIDGenerator \in 1 .. MaxRooms + 1
SeatTypes ==
    /\ state_ \in [Rooms -> {"INVALID", "WAITING", "INGAME"}]
    /\ sessionSlots_ \in [Rooms -> [Seats -> Slots]]
    /\ numberOfPlayers_ \in [Rooms -> Nat]
TimerTypes ==
    /\ armed \in [Rooms -> SUBSET [id : TimerIds, count : 0 .. STANDBY_COUNT - 1]]
    /\ standbyTimerHandle_ \in [Rooms -> TimerIds \cup {None}]
MatchTypes ==
    /\ matchPhase \in [Rooms -> {"none", "init", "running", "over"}]
    /\ players \in [Rooms -> SUBSET Sessions] /\ gone \in [Rooms -> SUBSET Sessions]

Types == SessionTypes /\ QueueTypes /\ SeatTypes /\ TimerTypes /\ MatchTypes

\* An EndMatch on its way is the only one, and its match is over.
EndsOnce == \A r \in Rooms : \A i \in DOMAIN roomTasks[r] : roomTasks[r][i].op = "EndMatch" =>
    /\ matchPhase[r] = "over"
    /\ \A j \in DOMAIN roomTasks[r] : roomTasks[r][j].op = "EndMatch" => i = j

\* What the state of a room tells of its match and of its seats.
StateTells == \A r \in Rooms :
    /\ state_[r] = "WAITING" => matchPhase[r] = "none"
    /\ state_[r] = "INGAME" => \A i \in Seats : ~sessionSlots_[r][i].ready
    /\ state_[r] = "INVALID" => numberOfPlayers_[r] = 0

RInv == Types /\ SeatsCounted /\ EndsOnce /\ StateTells

-----------------------------------------------------------------------------
\* The first seat, or the first free timer, is one of them.
LEMMA FirstSeatIn ==
    ASSUME NEW S \in SUBSET Nat, IsFiniteSet(S), S # {}
    PROVE  FirstSeat(S) \in S
<1> DEFINE Below(i) == {j \in S : j <= i}
           Belows   == {Below(i) : i \in S}
<1>1. PICK B \in Belows : \A C \in Belows : ~ (<<C, B>> \in StrictSubsetOrdering(S))
  <2>1. Belows # {} /\ Belows \subseteq SUBSET S
      OBVIOUS
  <2>2. IsWellFoundedOn(StrictSubsetOrdering(S), SUBSET S)
      BY FS_StrictSubsetOrderingWellFounded, FS_FiniteSubsetsOfFinite
  <2> HIDE DEF Belows
  <2> QED BY <2>1, <2>2, WFMin
<1>2. PICK i \in S : B = Below(i)
    OBVIOUS
<1>3. ASSUME NEW j \in S PROVE i <= j
  <2>1. ~ (<<Below(j), B>> \in StrictSubsetOrdering(S))
      BY <1>1
  <2>2. ~ (Below(j) \subseteq B /\ Below(j) # B)
      BY <1>2, <2>1 DEF StrictSubsetOrdering
  <2>3. CASE j <= i
    <3>1. \A k \in S : k <= j => k <= i
        BY <2>3
    <3>2. Below(j) \subseteq B
        BY <1>2, <3>1
    <3>3. i \in Below(j)
        BY <1>2, <2>2, <3>2
    <3> QED BY <3>3
  <2>4. CASE ~(j <= i)
      BY <2>4
  <2> QED BY <2>3, <2>4
<1> QED BY <1>3 DEF FirstSeat

LEMMA SeatsFinite == Seats \subseteq Nat /\ IsFiniteSet(Seats) /\ 0 \in Seats
BY SizesPositive, FS_Interval DEF Seats

LEMMA RoomNumbers == Rooms \subseteq Nat
BY DEF Rooms

LEMMA InitRInv == Init => RInv
<1> SUFFICES ASSUME Init PROVE RInv
    OBVIOUS
<1>1. SessionTypes
    BY PacketsBounded DEF Init, SessionTypes
<1>2. QueueTypes
  <2>1. lobbyTasks \in Seq(LobbyTasks) /\ roomTasks \in [Rooms -> Seq(RoomTasks)]
      BY EmptySeq DEF Init
  <2> QED BY <2>1, BoundsNat DEF Init, QueueTypes
<1>3. SeatTypes
    BY DEF Init, SeatTypes, Slots, Free
<1>4. TimerTypes /\ MatchTypes
    BY DEF Init, TimerTypes, MatchTypes
<1>5. SeatsCounted
  <2>1. \A r \in Rooms : {i \in Seats : Occupant(r, i) # None} = {}
      BY DEF Init, Occupant, Free
  <2> QED BY <2>1, FS_EmptySet DEF Init, SeatsCounted
<1>6. EndsOnce
    BY EmptySeq DEF Init, EndsOnce
<1>7. StateTells
    BY DEF Init, StateTells
<1> QED BY <1>1, <1>2, <1>3, <1>4, <1>5, <1>6, <1>7 DEF RInv, Types

-----------------------------------------------------------------------------
(* The queues.                                                             *)

\* A room's next task, and what remains when it is done.
LEMMA RoomHead ==
    ASSUME QueueTypes, NEW r \in Rooms, NEW op, RoomTask(r, op)
    PROVE  /\ Next1(r) \in RoomTasks /\ Next1(r).op = op
           /\ Tail(roomTasks[r]) \in Seq(RoomTasks)
           /\ roomTasks[r] \in Seq(RoomTasks) /\ roomTasks[r] # <<>>
<1>1. roomTasks[r] \in Seq(RoomTasks) /\ roomTasks[r] # <<>>
    BY DEF QueueTypes, RoomTask
<1>2. Head(roomTasks[r]) \in RoomTasks /\ Tail(roomTasks[r]) \in Seq(RoomTasks)
    BY <1>1, HeadTailProperties
<1> QED BY <1>1, <1>2 DEF RoomTask, Next1

LEMMA RoomSender ==
    ASSUME NEW task \in RoomTasks
    PROVE  /\ task.op \in {"Enter", "Cleanup", "Leave", "Ready"} => task.session \in Sessions
           /\ task.op \in {"Leave", "Ready"} => task.arg \in Seats
           /\ task.op = "StandBy" => task.arg \in 0 .. STANDBY_COUNT - 1
BY DEF RoomTasks

LEMMA LobbyHead ==
    ASSUME QueueTypes, NEW op, LobbyTask(op)
    PROVE  /\ Head(lobbyTasks) \in LobbyTasks /\ Head(lobbyTasks).op = op
           /\ Tail(lobbyTasks) \in Seq(LobbyTasks)
<1>1. lobbyTasks \in Seq(LobbyTasks) /\ lobbyTasks # <<>>
    BY DEF QueueTypes, LobbyTask
<1> QED BY <1>1, HeadTailProperties DEF LobbyTask

LEMMA PostTypes ==
    ASSUME QueueTypes
    PROVE  /\ \A r \in Rooms, task \in RoomTasks :
                  PostRoom(r, task) => roomTasks' \in [Rooms -> Seq(RoomTasks)]
           /\ \A task \in LobbyTasks : PostLobby(task) => lobbyTasks' \in Seq(LobbyTasks)
<1>1. ASSUME NEW r \in Rooms, NEW task \in RoomTasks, PostRoom(r, task)
      PROVE  roomTasks' \in [Rooms -> Seq(RoomTasks)]
  <2>1. Append(roomTasks[r], task) \in Seq(RoomTasks)
      BY AppendProperties DEF QueueTypes
  <2> QED BY <1>1, <2>1 DEF PostRoom, QueueTypes
<1>2. ASSUME NEW task \in LobbyTasks, PostLobby(task) PROVE lobbyTasks' \in Seq(LobbyTasks)
    BY <1>2, AppendProperties DEF PostLobby, QueueTypes
<1> QED BY <1>1, <1>2

LEMMA DoneType ==
    ASSUME QueueTypes, NEW r \in Rooms, NEW op, RoomTask(r, op), Done(r)
    PROVE  roomTasks' \in [Rooms -> Seq(RoomTasks)]
BY RoomHead DEF Done, QueueTypes

-----------------------------------------------------------------------------
(* What the actions do to the typed variables.                             *)

LEMMA ReceiveType ==
    ASSUME SessionTypes, NEW s \in Sessions, Receive(s)
    PROVE  sent' \in [Sessions -> Nat] /\ \A u \in Sessions : sent'[u] <= MaxPackets[u]
<1>1. PICK n \in Nat, m \in Nat : n = sent[s] /\ m = MaxPackets[s]
    BY PacketsBounded DEF SessionTypes
<1>2. n + 1 <= m /\ sent' = [sent EXCEPT ![s] = n + 1]
    BY <1>1 DEF Receive
<1> QED BY <1>1, <1>2 DEF SessionTypes

LEMMA LeaveTypes ==
    ASSUME Types, SeatsCounted, NEW r \in Rooms, NEW s \in Sessions, NEW i, Leave(r, s, i)
    PROVE  /\ SeatTypes' /\ lobbyTasks' \in Seq(LobbyTasks)
           /\ sessionState' \in [Sessions -> {"NONE", "LOBBY", "ROOM", "MATCH"}]
           /\ room_' \in [Sessions -> Rooms \cup {None}]
<1>0. SessionTypes /\ QueueTypes /\ SeatTypes
    BY DEF Types
<1>1. CASE UNCHANGED <<seatVars, sessionState, room_, lobbyTasks>>
    BY <1>0, <1>1 DEF seatVars, SessionTypes, QueueTypes, SeatTypes
<1>2. CASE i \in Seats /\ Occupant(r, i) = s
  <2>1. PICK n \in Nat : n = numberOfPlayers_[r]
      BY <1>0 DEF SeatTypes
  <2>2. n - 1 \in Nat
    <3>1. i \in {j \in Seats : Occupant(r, j) # None}
        BY <1>2, NoneFresh
    <3>2. IsFiniteSet({j \in Seats : Occupant(r, j) # None})
        BY SeatsFinite, FS_Subset
    <3>3. Cardinality({j \in Seats : Occupant(r, j) # None}) # 0
        BY <3>1, <3>2, FS_EmptySet
    <3> QED BY <2>1, <3>3 DEF SeatsCounted
  <2>3. /\ sessionSlots_' = [sessionSlots_ EXCEPT ![r][i] = Free]
        /\ numberOfPlayers_' = [numberOfPlayers_ EXCEPT ![r] = n - 1]
        /\ sessionState' = [sessionState EXCEPT ![s] = "LOBBY"]
        /\ room_' = [room_ EXCEPT ![s] = None]
      BY <1>2, <2>1 DEF Leave
  <2>4. sessionSlots_' \in [Rooms -> [Seats -> Slots]]
    <3>1. Free \in Slots
        BY DEF Free, Slots
    <3> QED BY <1>0, <2>3, <3>1 DEF SeatTypes
  <2>5. numberOfPlayers_' \in [Rooms -> Nat]
      BY <1>0, <2>2, <2>3 DEF SeatTypes
  <2>6. \/ state_' = [state_ EXCEPT ![r] = "INVALID"] /\ PostLobby(Task("Destroy", None, r))
        \/ UNCHANGED <<state_, lobbyTasks>>
      BY <1>2 DEF Leave
  <2>7. lobbyTasks' \in Seq(LobbyTasks)
    <3>1. Task("Destroy", None, r) \in LobbyTasks
        BY DEF Task, LobbyTasks
    <3> QED BY <1>0, <2>6, <3>1, PostTypes DEF QueueTypes
  <2>8. state_' \in [Rooms -> {"INVALID", "WAITING", "INGAME"}]
      BY <1>0, <2>6 DEF SeatTypes
  <2> QED BY <1>0, <2>3, <2>4, <2>5, <2>7, <2>8 DEF SeatTypes, SessionTypes
<1> QED BY <1>1, <1>2 DEF Leave

LEMMA AddTimerTypes ==
    ASSUME TimerTypes, NEW r \in Rooms, NEW count \in 0 .. STANDBY_COUNT - 1, AddTimer(r, count)
    PROVE  TimerTypes'
<1>1. FreshTimers(r) \in SUBSET Nat /\ IsFiniteSet(FreshTimers(r)) /\ FreshTimers(r) # {}
  <2>1. IsFiniteSet(TimerIds) /\ TimerIds \subseteq Nat
      BY BoundsNat, FS_Interval DEF TimerIds
  <2>2. FreshTimers(r) \subseteq TimerIds
      BY DEF FreshTimers
  <2> QED BY <2>1, <2>2, FS_Subset DEF AddTimer
<1>2. FreshTimer(r) \in TimerIds
  <2>1. FirstSeat(FreshTimers(r)) \in FreshTimers(r)
      BY <1>1, FirstSeatIn
  <2> QED BY <2>1 DEF FreshTimer, FreshTimers
<1>3. [id |-> FreshTimer(r), count |-> count] \in [id : TimerIds, count : 0 .. STANDBY_COUNT - 1]
    BY <1>2
<1> QED BY <1>2, <1>3 DEF AddTimer, TimerTypes

LEMMA RemoveTimerTypes ==
    ASSUME TimerTypes, NEW r \in Rooms, RemoveTimer(r)
    PROVE  TimerTypes'
<1>1. {t \in armed[r] : t.id # standbyTimerHandle_[r]} \subseteq armed[r]
    OBVIOUS
<1> QED BY <1>1 DEF RemoveTimer, TimerTypes

\* Nobody is ready any more, and everybody keeps the seat.
LEMMA UnreadySlots ==
    ASSUME SeatTypes, NEW r \in Rooms,
           sessionSlots_' = [sessionSlots_ EXCEPT ![r] = [i \in Seats |-> [@[i] EXCEPT !.ready = FALSE]]]
    PROVE  /\ sessionSlots_' \in [Rooms -> [Seats -> Slots]]
           /\ \A q \in Rooms, i \in Seats : Occupant(q, i)' = Occupant(q, i)
           /\ \A i \in Seats : sessionSlots_'[r][i].ready = FALSE
           /\ \A q \in Rooms : q # r => sessionSlots_'[q] = sessionSlots_[q]
<1>1. \A i \in Seats : sessionSlots_[r][i] \in Slots
    BY DEF SeatTypes
<1>2. \A i \in Seats : /\ [sessionSlots_[r][i] EXCEPT !.ready = FALSE] \in Slots
                       /\ [sessionSlots_[r][i] EXCEPT !.ready = FALSE].ready = FALSE
                       /\ [sessionSlots_[r][i] EXCEPT !.ready = FALSE].session = sessionSlots_[r][i].session
    BY <1>1 DEF Slots
<1>3. /\ sessionSlots_'[r] = [i \in Seats |-> [sessionSlots_[r][i] EXCEPT !.ready = FALSE]]
      /\ \A q \in Rooms : q # r => sessionSlots_'[q] = sessionSlots_[q]
    BY DEF SeatTypes
<1>4. sessionSlots_' \in [Rooms -> [Seats -> Slots]]
  <2>1. [i \in Seats |-> [sessionSlots_[r][i] EXCEPT !.ready = FALSE]] \in [Seats -> Slots]
      BY <1>2
  <2> QED BY <2>1 DEF SeatTypes
<1> QED BY <1>2, <1>3, <1>4 DEF Occupant

\* The seat that Room::Enter gives, if it gives one.
EnterAt(r, s, i) ==
    /\ state_[r] = "WAITING" /\ numberOfPlayers_[r] # MAX_PLAYER_NUMBER /\ Occupant(r, i) = None
    /\ sessionSlots_' = [sessionSlots_ EXCEPT ![r][i] = [session |-> s, ready |-> FALSE]]
    /\ numberOfPlayers_' = [numberOfPlayers_ EXCEPT ![r] = @ + 1]
    /\ sessionState' = [sessionState EXCEPT ![s] = "ROOM"]
    /\ room_' = [room_ EXCEPT ![s] = r]

LEMMA EnterStep ==
    ASSUME QueueTypes, NEW r \in Rooms, RoomEnter(r)
    PROVE  \/ UNCHANGED <<sessionSlots_, numberOfPlayers_, sessionState, room_>>
           \/ \E s \in Sessions, i \in Seats : EnterAt(r, s, i)
<1> DEFINE s == Next1(r).session
           i == FirstSeat(FreeSeats(r))
<1>1. s \in Sessions
  <2>1. Next1(r) \in RoomTasks /\ Next1(r).op = "Enter"
      BY RoomHead DEF RoomEnter
  <2> QED BY <2>1, RoomSender
<1>2. CASE /\ state_[r] = "WAITING" /\ numberOfPlayers_[r] # MAX_PLAYER_NUMBER
           /\ FreeSeats(r) # {}
  <2>1. FreeSeats(r) \in SUBSET Nat /\ IsFiniteSet(FreeSeats(r))
      BY SeatsFinite, FS_Subset DEF FreeSeats
  <2>2. i \in FreeSeats(r)
      BY <1>2, <2>1, FirstSeatIn
  <2>3. i \in Seats /\ Occupant(r, i) = None
      BY <2>2 DEF FreeSeats
  <2>4. EnterAt(r, s, i)
      BY <1>2, <2>3 DEF RoomEnter, EnterAt
  <2> QED BY <1>1, <2>3, <2>4
<1>3. CASE ~(/\ state_[r] = "WAITING" /\ numberOfPlayers_[r] # MAX_PLAYER_NUMBER
             /\ FreeSeats(r) # {})
    BY <1>3 DEF RoomEnter
<1> QED BY <1>2, <1>3

LEMMA EnterTypes ==
    ASSUME SessionTypes, SeatTypes, NEW r \in Rooms, NEW s \in Sessions, NEW i \in Seats,
           EnterAt(r, s, i)
    PROVE  /\ sessionSlots_' \in [Rooms -> [Seats -> Slots]]
           /\ numberOfPlayers_' \in [Rooms -> Nat]
           /\ sessionState' \in [Sessions -> {"NONE", "LOBBY", "ROOM", "MATCH"}]
           /\ room_' \in [Sessions -> Rooms \cup {None}]
<1>1. [session |-> s, ready |-> FALSE] \in Slots
    BY DEF Slots
<1>2. PICK n \in Nat : n = numberOfPlayers_[r]
    BY DEF SeatTypes
<1>3. numberOfPlayers_' = [numberOfPlayers_ EXCEPT ![r] = n + 1]
    BY <1>2 DEF EnterAt
<1>4. numberOfPlayers_' \in [Rooms -> Nat]
    BY <1>3 DEF SeatTypes
<1>5. sessionSlots_' \in [Rooms -> [Seats -> Slots]]
    BY <1>1 DEF EnterAt, SeatTypes
<1> QED BY <1>4, <1>5 DEF EnterAt, SessionTypes

LEMMA PacketTypes ==
    ASSUME Types, NEW s \in Sessions, Packet(s) \/ Disconnect(s)
    PROVE  Types'
<1> USE DEF sessionVars, lobbyVars, seatVars, timerVars, matchVars
<1>0. SessionTypes /\ QueueTypes /\ SeatTypes /\ TimerTypes /\ MatchTypes
    BY DEF Types
<1>1. CASE VerifyToken(s)
  <2>1. SessionTypes'
      BY <1>0, <1>1, ReceiveType DEF VerifyToken, SessionTypes
  <2> QED BY <1>0, <1>1, <2>1 DEF VerifyToken, Types, QueueTypes, SeatTypes, TimerTypes, MatchTypes
<1>2. ASSUME Receive(s), UNCHANGED sessionVars PROVE SessionTypes'
    BY <1>0, <1>2, ReceiveType DEF SessionTypes
<1>3. ASSUME NEW task \in LobbyTasks, PostLobby(task), Receive(s),
             UNCHANGED <<sessionVars, rooms_, roomIDGenerator, roomTasks, seatVars, timerVars, matchVars>>
      PROVE  Types'
  <2>1. QueueTypes'
      BY <1>0, <1>3, PostTypes DEF QueueTypes
  <2> QED BY <1>0, <1>2, <1>3, <2>1 DEF Types, SeatTypes, TimerTypes, MatchTypes
<1>4. ASSUME NEW r \in Rooms, NEW task \in RoomTasks, PostRoom(r, task), Receive(s),
             UNCHANGED <<sessionVars, lobbyVars, seatVars, timerVars, matchVars>>
      PROVE  Types'
  <2>1. QueueTypes'
      BY <1>0, <1>4, PostTypes DEF QueueTypes
  <2> QED BY <1>0, <1>2, <1>4, <2>1 DEF Types, SeatTypes, TimerTypes, MatchTypes
<1>5. CASE CreateRoom(s)
  <2>1. Task("Create", s, None) \in LobbyTasks
      BY DEF Task, LobbyTasks
  <2> QED BY <1>3, <1>5, <2>1 DEF CreateRoom
<1>6. ASSUME NEW r \in Rooms, EnterRoom(s, r) PROVE Types'
  <2>1. Task("Find", s, r) \in LobbyTasks
      BY DEF Task, LobbyTasks
  <2> QED BY <1>3, <1>6, <2>1 DEF EnterRoom
<1>7. ASSUME NEW i \in Seats, LeaveRoom(s, i) PROVE Types'
  <2>1. Task("Leave", s, i) \in RoomTasks
      BY DEF Task, RoomTasks
  <2>2. room_[s] \in Rooms
      BY <1>0, <1>7 DEF LeaveRoom, SessionTypes
  <2> QED BY <1>4, <1>7, <2>1, <2>2 DEF LeaveRoom
<1>8. ASSUME NEW i \in Seats, Ready(s, i) PROVE Types'
  <2>1. Task("Ready", s, i) \in RoomTasks
      BY DEF Task, RoomTasks
  <2>2. room_[s] \in Rooms
      BY <1>0, <1>8 DEF Ready, SessionTypes
  <2> QED BY <1>4, <1>8, <2>1, <2>2 DEF Ready
<1>9. CASE Disconnect(s)
  <2>1. SessionTypes'
      BY <1>0, <1>9 DEF Disconnect, SessionTypes
  <2>2. gone' \in [Rooms -> SUBSET Sessions]
    <3>1. CASE match_[s] = None
        BY <1>0, <1>9, <3>1 DEF Disconnect, MatchTypes
    <3>2. CASE match_[s] # None
      <4>1. match_[s] \in Rooms
          BY <1>0, <3>2 DEF SessionTypes
      <4>2. gone' = [gone EXCEPT ![match_[s]] = gone[match_[s]] \cup {s}]
          BY <1>9, <3>2 DEF Disconnect
      <4> QED BY <1>0, <4>1, <4>2 DEF MatchTypes
    <3> QED BY <3>1, <3>2
  <2>3. roomTasks' \in [Rooms -> Seq(RoomTasks)]
    <3>1. Task("Cleanup", s, None) \in RoomTasks
        BY DEF Task, RoomTasks
    <3>2. room_[s] # None => room_[s] \in Rooms
        BY <1>0 DEF SessionTypes
    <3> QED BY <1>0, <1>9, <3>1, <3>2, PostTypes DEF Disconnect, QueueTypes
  <2> QED BY <1>0, <1>9, <2>1, <2>2, <2>3 DEF Disconnect, Types, QueueTypes, SeatTypes, TimerTypes, MatchTypes
<1> QED BY <1>1, <1>5, <1>6, <1>7, <1>8, <1>9 DEF Packet

LEMMA LobbyTypes ==
    ASSUME Types, Lobby
    PROVE  Types'
<1> USE DEF sessionVars, lobbyVars, seatVars, timerVars, matchVars
<1>0. SessionTypes /\ QueueTypes /\ SeatTypes /\ TimerTypes /\ MatchTypes
    BY DEF Types
<1>1. ASSUME QueueTypes', UNCHANGED <<sessionVars, sent, seatVars, timerVars, matchVars>>
      PROVE  Types'
    BY <1>0, <1>1 DEF Types, SessionTypes, SeatTypes, TimerTypes, MatchTypes
<1>2. CASE LobbyCreate
  <2>1. Head(lobbyTasks) \in LobbyTasks /\ Head(lobbyTasks).op = "Create"
        /\ lobbyTasks' \in Seq(LobbyTasks)
      BY <1>0, <1>2, LobbyHead DEF LobbyCreate
  <2>2. Task("Enter", Head(lobbyTasks).session, None) \in RoomTasks
      BY <2>1 DEF Task, LobbyTasks, RoomTasks
  <2>3. PICK n \in Nat : n = roomIDGenerator /\ n \in Rooms /\ n + 1 \in 1 .. MaxRooms + 1
      BY <1>0, <1>2, BoundsNat DEF LobbyCreate, QueueTypes, Rooms
  <2>4. roomTasks' \in [Rooms -> Seq(RoomTasks)]
      BY <1>0, <1>2, <2>2, <2>3, PostTypes DEF LobbyCreate
  <2>5. rooms_' = rooms_ \cup {n} /\ roomIDGenerator' = n + 1
      BY <1>2, <2>3 DEF LobbyCreate
  <2>6. QueueTypes'
      BY <1>0, <2>1, <2>3, <2>4, <2>5 DEF QueueTypes
  <2> QED BY <1>1, <1>2, <2>6 DEF LobbyCreate
<1>3. CASE LobbyRefuse
  <2>1. lobbyTasks' \in Seq(LobbyTasks)
      BY <1>0, <1>3, LobbyHead DEF LobbyRefuse
  <2>2. QueueTypes'
      BY <1>0, <1>3, <2>1 DEF LobbyRefuse, QueueTypes
  <2> QED BY <1>1, <1>3, <2>2 DEF LobbyRefuse
<1>4. CASE LobbyFind
  <2>1. Head(lobbyTasks) \in LobbyTasks /\ Head(lobbyTasks).op = "Find"
        /\ lobbyTasks' \in Seq(LobbyTasks)
      BY <1>0, <1>4, LobbyHead DEF LobbyFind
  <2>2. /\ Task("Enter", Head(lobbyTasks).session, None) \in RoomTasks
        /\ Head(lobbyTasks).arg \in Rooms
      BY <2>1 DEF Task, LobbyTasks, RoomTasks
  <2>3. roomTasks' \in [Rooms -> Seq(RoomTasks)]
    <3>1. CASE UNCHANGED roomTasks
        BY <1>0, <3>1 DEF QueueTypes
    <3>2. CASE PostRoom(Head(lobbyTasks).arg, Task("Enter", Head(lobbyTasks).session, None))
        BY <1>0, <2>2, <3>2, PostTypes
    <3> QED BY <1>4, <3>1, <3>2 DEF LobbyFind
  <2>4. QueueTypes'
      BY <1>0, <1>4, <2>1, <2>3 DEF LobbyFind, QueueTypes
  <2> QED BY <1>1, <1>4, <2>4 DEF LobbyFind
<1>5. CASE LobbyDestroy
  <2>1. lobbyTasks' \in Seq(LobbyTasks)
      BY <1>0, <1>5, LobbyHead DEF LobbyDestroy
  <2>2. QueueTypes'
      BY <1>0, <1>5, <2>1 DEF LobbyDestroy, QueueTypes
  <2> QED BY <1>1, <1>5, <2>2 DEF LobbyDestroy
<1> QED BY <1>2, <1>3, <1>4, <1>5 DEF Lobby

LEMMA RunRoomTypes ==
    ASSUME Types, SeatsCounted, NEW r \in Rooms, RunRoom(r)
    PROVE  Types'
<1> USE DEF sessionVars, lobbyVars, seatVars, timerVars, matchVars
<1>0. SessionTypes /\ QueueTypes /\ SeatTypes /\ TimerTypes /\ MatchTypes
    BY DEF Types
<1>1. CASE RoomEnter(r)
  <2>1. roomTasks' \in [Rooms -> Seq(RoomTasks)]
      BY <1>0, <1>1, DoneType DEF RoomEnter
  <2>2. QueueTypes' /\ TimerTypes' /\ MatchTypes'
      BY <1>0, <1>1, <2>1 DEF RoomEnter, QueueTypes, TimerTypes, MatchTypes
  <2>3. CASE UNCHANGED <<sessionSlots_, numberOfPlayers_, sessionState, room_>>
      BY <1>0, <1>1, <2>2, <2>3 DEF RoomEnter, Types, SessionTypes, SeatTypes
  <2>4. ASSUME NEW s \in Sessions, NEW i \in Seats, EnterAt(r, s, i) PROVE Types'
    <3>1. /\ sessionSlots_' \in [Rooms -> [Seats -> Slots]]
          /\ numberOfPlayers_' \in [Rooms -> Nat]
          /\ sessionState' \in [Sessions -> {"NONE", "LOBBY", "ROOM", "MATCH"}]
          /\ room_' \in [Sessions -> Rooms \cup {None}]
        BY <1>0, <2>4, EnterTypes
    <3>2. UNCHANGED <<online, match_, sent, state_>>
        BY <1>1 DEF RoomEnter
    <3> QED BY <1>0, <2>2, <3>1, <3>2 DEF Types, SessionTypes, SeatTypes
  <2> QED BY <1>0, <1>1, <2>3, <2>4, EnterStep
<1>2. ASSUME NEW op, NEW s \in Sessions, NEW i, RoomTask(r, op), Done(r), Leave(r, s, i),
             UNCHANGED <<online, match_, sent, rooms_, roomIDGenerator, timerVars, matchVars>>
      PROVE  Types'
  <2>1. roomTasks' \in [Rooms -> Seq(RoomTasks)]
      BY <1>0, <1>2, DoneType
  <2>2. /\ SeatTypes' /\ lobbyTasks' \in Seq(LobbyTasks)
        /\ sessionState' \in [Sessions -> {"NONE", "LOBBY", "ROOM", "MATCH"}]
        /\ room_' \in [Sessions -> Rooms \cup {None}]
      BY <1>2, LeaveTypes
  <2> QED BY <1>0, <1>2, <2>1, <2>2 DEF Types, SessionTypes, QueueTypes, TimerTypes, MatchTypes
<1>3. CASE RoomLeave(r)
  <2>1. Next1(r).session \in Sessions
      BY <1>0, <1>3, RoomHead, RoomSender DEF RoomLeave
  <2> QED BY <1>2, <1>3, <2>1 DEF RoomLeave
<1>4. CASE RoomCleanup(r)
  <2>1. Next1(r).session \in Sessions
      BY <1>0, <1>4, RoomHead, RoomSender DEF RoomCleanup
  <2> QED BY <1>2, <1>4, <2>1 DEF RoomCleanup
<1>5. ASSUME NEW op, RoomTask(r, op), Done(r), SeatTypes', TimerTypes', MatchTypes',
             UNCHANGED <<sessionVars, sent, lobbyVars>>
      PROVE  Types'
  <2>1. roomTasks' \in [Rooms -> Seq(RoomTasks)]
      BY <1>0, <1>5, DoneType
  <2> QED BY <1>0, <1>5, <2>1 DEF Types, SessionTypes, QueueTypes
<1>6. CASE RoomReady(r)
  <2>1. PICK i \in Seats : i = Next1(r).arg
      BY <1>0, <1>6, RoomHead, RoomSender DEF RoomReady
  <2>2. PICK ready \in BOOLEAN : ready = ~sessionSlots_[r][i].ready
      OBVIOUS
  <2>3. SeatTypes'
    <3>1. CASE UNCHANGED sessionSlots_
        BY <1>0, <1>6, <3>1 DEF RoomReady, SeatTypes
    <3>2. CASE sessionSlots_' = [sessionSlots_ EXCEPT ![r][i].ready = ready]
      <4>1. [sessionSlots_[r][i] EXCEPT !.ready = ready] \in Slots
        <5>1. sessionSlots_[r][i] \in Slots
            BY <1>0 DEF SeatTypes
        <5>2. PICK q \in Sessions \cup {None}, b \in BOOLEAN :
                  sessionSlots_[r][i] = [session |-> q, ready |-> b]
            BY <5>1 DEF Slots
        <5>3. [sessionSlots_[r][i] EXCEPT !.ready = ready] = [session |-> q, ready |-> ready]
            BY <5>2
        <5>4. [session |-> q, ready |-> ready] \in Slots
            BY DEF Slots
        <5> QED BY <5>3, <5>4
      <4>2. sessionSlots_' \in [Rooms -> [Seats -> Slots]]
          BY <1>0, <3>2, <4>1 DEF SeatTypes
      <4> QED BY <1>0, <1>6, <4>2 DEF RoomReady, SeatTypes
    <3> QED BY <1>6, <2>1, <2>2, <3>1, <3>2 DEF RoomReady
  <2>4. TimerTypes'
    <3>1. CASE UNCHANGED timerVars
        BY <1>0, <3>1 DEF TimerTypes
    <3>2. CASE AddTimer(r, STANDBY_COUNT - 1)
      <4>1. STANDBY_COUNT - 1 \in 0 .. STANDBY_COUNT - 1
          BY SizesPositive
      <4> QED BY <1>0, <3>2, <4>1, AddTimerTypes
    <3>3. CASE RemoveTimer(r)
        BY <1>0, <3>3, RemoveTimerTypes
    <3> QED BY <1>6, <3>1, <3>2, <3>3 DEF RoomReady
  <2>5. MatchTypes'
      BY <1>0, <1>6 DEF RoomReady, MatchTypes
  <2> QED BY <1>5, <1>6, <2>3, <2>4, <2>5 DEF RoomReady
<1>7. CASE RoomStandBy(r)
  <2>1. PICK count \in 0 .. STANDBY_COUNT - 1 : count = Next1(r).arg
      BY <1>0, <1>7, RoomHead, RoomSender DEF RoomStandBy
  <2>2. CASE CheckAllReady(r) /\ StartMatch(r) /\ UNCHANGED timerVars
    <3>1. SeatTypes'
      <4>1. sessionSlots_' \in [Rooms -> [Seats -> Slots]]
          BY <1>0, <2>2, UnreadySlots DEF StartMatch
      <4> QED BY <1>0, <1>7, <2>2, <4>1 DEF RoomStandBy, StartMatch, SeatTypes
    <3>2. MatchTypes'
      <4>1. {Occupant(r, i) : i \in Seats} \subseteq Sessions
        <5>1. \A i \in Seats : Occupant(r, i) \in Sessions \cup {None}
            BY <1>0 DEF SeatTypes, Slots, Occupant
        <5> QED BY <2>2, <5>1 DEF CheckAllReady
      <4> QED BY <1>0, <2>2, <4>1 DEF StartMatch, MatchTypes
    <3> QED BY <1>0, <1>5, <1>7, <2>2, <3>1, <3>2 DEF RoomStandBy, TimerTypes
  <2>3. CASE /\ UNCHANGED <<state_, sessionSlots_, matchVars>>
             /\ RemoveTimer(r) \/ (count > 0 /\ AddTimer(r, count - 1))
    <3>1. SeatTypes' /\ MatchTypes'
        BY <1>0, <1>7, <2>3 DEF RoomStandBy, SeatTypes, MatchTypes
    <3>2. count > 0 => count - 1 \in 0 .. STANDBY_COUNT - 1
        BY SizesPositive
    <3>3. TimerTypes'
        BY <1>0, <2>3, <3>2, AddTimerTypes, RemoveTimerTypes
    <3> QED BY <1>5, <1>7, <3>1, <3>3 DEF RoomStandBy
  <2> QED BY <1>7, <2>1, <2>2, <2>3 DEF RoomStandBy
<1>8. CASE RoomEndMatch(r)
  <2>1. sessionSlots_' \in [Rooms -> [Seats -> Slots]]
      BY <1>0, <1>8, UnreadySlots DEF RoomEndMatch
  <2>2. SeatTypes' /\ MatchTypes' /\ TimerTypes'
      BY <1>0, <1>8, <2>1 DEF RoomEndMatch, SeatTypes, MatchTypes, TimerTypes
  <2> QED BY <1>5, <1>8, <2>2 DEF RoomEndMatch
<1> QED BY <1>1, <1>3, <1>4, <1>6, <1>7, <1>8 DEF RunRoom

LEMMA OutsideTypes ==
    ASSUME Types, NEW r \in Rooms,
           \/ MatchInit(r) \/ MatchEnd(r)
           \/ \E t \in armed[r] : Fire(r, t)
           \/ \E s \in Sessions, leaves \in BOOLEAN : MatchOut(s, leaves)
    PROVE  Types'
<1> USE DEF sessionVars, lobbyVars, seatVars, timerVars, matchVars
<1>0. SessionTypes /\ QueueTypes /\ SeatTypes /\ TimerTypes /\ MatchTypes
    BY DEF Types
<1>1. CASE MatchInit(r)
  <2>1. SessionTypes' /\ MatchTypes'
      BY <1>0, <1>1 DEF MatchInit, SessionTypes, MatchTypes
  <2> QED BY <1>0, <1>1, <2>1 DEF MatchInit, Types, QueueTypes, SeatTypes, TimerTypes
<1>2. CASE MatchEnd(r)
  <2>1. SessionTypes' /\ MatchTypes'
      BY <1>0, <1>2 DEF MatchEnd, SessionTypes, MatchTypes
  <2>2. QueueTypes'
    <3>1. Task("EndMatch", None, None) \in RoomTasks
        BY DEF Task, RoomTasks
    <3> QED BY <1>0, <1>2, <3>1, PostTypes DEF MatchEnd, QueueTypes
  <2> QED BY <1>0, <1>2, <2>1, <2>2 DEF MatchEnd, Types, SeatTypes, TimerTypes
<1>3. ASSUME NEW t \in armed[r], Fire(r, t) PROVE Types'
  <2>1. t \in [id : TimerIds, count : 0 .. STANDBY_COUNT - 1]
      BY <1>0 DEF TimerTypes
  <2>2. QueueTypes'
    <3>1. Task("StandBy", None, t.count) \in RoomTasks
        BY <2>1 DEF Task, RoomTasks
    <3> QED BY <1>0, <1>3, <3>1, PostTypes DEF Fire, QueueTypes
  <2>3. TimerTypes'
      BY <1>0, <1>3 DEF Fire, TimerTypes
  <2> QED BY <1>0, <1>3, <2>2, <2>3 DEF Fire, Types, SessionTypes, SeatTypes, MatchTypes
<1>4. ASSUME NEW s \in Sessions, NEW leaves \in BOOLEAN, MatchOut(s, leaves) PROVE Types'
  <2>1. match_[s] \in Rooms
      BY <1>0, <1>4 DEF MatchOut, SessionTypes
  <2>2. gone' \in [Rooms -> SUBSET Sessions]
    <3>1. CASE gone' = gone
        BY <1>0, <3>1 DEF MatchTypes
    <3>2. CASE gone' = [gone EXCEPT ![match_[s]] = gone[match_[s]] \cup {s}]
        BY <1>0, <2>1, <3>2 DEF MatchTypes
    <3> QED BY <1>4, <3>1, <3>2 DEF MatchOut
  <2>3. SessionTypes'
      BY <1>0, <1>4 DEF MatchOut, SessionTypes
  <2> QED BY <1>0, <1>4, <2>2, <2>3 DEF MatchOut, Types, QueueTypes, SeatTypes, TimerTypes, MatchTypes
<1> QED BY <1>1, <1>2, <1>3, <1>4

-----------------------------------------------------------------------------
(* Seats.                                                                  *)

Taken(r) == {i \in Seats : Occupant(r, i) # None}

LEMMA TakenFinite ==
    ASSUME NEW r \in Rooms
    PROVE  IsFiniteSet(Taken(r)) /\ Cardinality(Taken(r)) \in Nat
BY SeatsFinite, FS_Subset, FS_CardinalityType DEF Taken

LEMMA SeatsSame ==
    ASSUME SeatsCounted, UNCHANGED numberOfPlayers_,
           \A r \in Rooms, i \in Seats : Occupant(r, i)' = Occupant(r, i)
    PROVE  SeatsCounted'
<1>1. \A r \in Rooms : {i \in Seats : Occupant(r, i)' # None} = {i \in Seats : Occupant(r, i) # None}
    OBVIOUS
<1> QED BY <1>1 DEF SeatsCounted

LEMMA EnterSeats ==
    ASSUME SeatTypes, SeatsCounted, NEW r \in Rooms, NEW s \in Sessions, NEW i \in Seats,
           EnterAt(r, s, i)
    PROVE  SeatsCounted'
<1>1. /\ \A q \in Rooms : q # r => /\ sessionSlots_'[q] = sessionSlots_[q]
                                  /\ numberOfPlayers_'[q] = numberOfPlayers_[q]
      /\ \A j \in Seats : sessionSlots_'[r][j].session =
                             IF j = i THEN s ELSE sessionSlots_[r][j].session
      /\ numberOfPlayers_'[r] = numberOfPlayers_[r] + 1
    BY DEF EnterAt, SeatTypes
<1>2. {j \in Seats : Occupant(r, j)' # None} = Taken(r) \cup {i}
    BY <1>1, NoneFresh DEF Taken, Occupant
<1>3. i \notin Taken(r)
    BY DEF EnterAt, Taken
<1>4. Cardinality(Taken(r) \cup {i}) = Cardinality(Taken(r)) + 1
    BY <1>3, TakenFinite, FS_AddElement
<1>5. numberOfPlayers_[r] = Cardinality(Taken(r))
    BY DEF SeatsCounted, Taken
<1>6. ASSUME NEW q \in Rooms, q # r
      PROVE  {j \in Seats : Occupant(q, j)' # None} = {j \in Seats : Occupant(q, j) # None}
    BY <1>1, <1>6 DEF Occupant
<1>7. ASSUME NEW q \in Rooms
      PROVE  numberOfPlayers_'[q] = Cardinality({j \in Seats : Occupant(q, j)' # None})
  <2>1. CASE q = r
      BY <1>1, <1>2, <1>4, <1>5, <2>1
  <2>2. CASE q # r
      BY <1>1, <1>6, <2>2 DEF SeatsCounted
  <2> QED BY <2>1, <2>2
<1> QED BY <1>7 DEF SeatsCounted

\* Room::Leave for someone who does hold the seat.
LeaveAt(r, s, i) ==
    /\ Occupant(r, i) = s
    /\ sessionSlots_' = [sessionSlots_ EXCEPT ![r][i] = Free]
    /\ numberOfPlayers_' = [numberOfPlayers_ EXCEPT ![r] = @ - 1]
    /\ \/ numberOfPlayers_[r] = 1 /\ state_' = [state_ EXCEPT ![r] = "INVALID"]
       \/ UNCHANGED state_

LEMMA LeaveStep ==
    ASSUME NEW r \in Rooms, NEW s \in Sessions, NEW i, Leave(r, s, i)
    PROVE  \/ UNCHANGED <<state_, sessionSlots_, numberOfPlayers_>>
           \/ i \in Seats /\ LeaveAt(r, s, i)
BY DEF Leave, LeaveAt, seatVars

LEMMA LeaveSeats ==
    ASSUME SeatTypes, SeatsCounted, NEW r \in Rooms, NEW s \in Sessions, NEW i \in Seats,
           LeaveAt(r, s, i)
    PROVE  SeatsCounted'
<1>1. /\ \A q \in Rooms : q # r => /\ sessionSlots_'[q] = sessionSlots_[q]
                                  /\ numberOfPlayers_'[q] = numberOfPlayers_[q]
      /\ \A j \in Seats : sessionSlots_'[r][j].session =
                             IF j = i THEN None ELSE sessionSlots_[r][j].session
      /\ numberOfPlayers_'[r] = numberOfPlayers_[r] - 1
    BY DEF LeaveAt, SeatTypes, Free
<1>2. {j \in Seats : Occupant(r, j)' # None} = Taken(r) \ {i}
    BY <1>1 DEF Taken, Occupant
<1>3. i \in Taken(r)
    BY NoneFresh DEF LeaveAt, Taken
<1>4. Cardinality(Taken(r) \ {i}) = Cardinality(Taken(r)) - 1
    BY <1>3, TakenFinite, FS_RemoveElement
<1>5. numberOfPlayers_[r] = Cardinality(Taken(r))
    BY DEF SeatsCounted, Taken
<1>6. ASSUME NEW q \in Rooms, q # r
      PROVE  {j \in Seats : Occupant(q, j)' # None} = {j \in Seats : Occupant(q, j) # None}
    BY <1>1, <1>6 DEF Occupant
<1>7. ASSUME NEW q \in Rooms
      PROVE  numberOfPlayers_'[q] = Cardinality({j \in Seats : Occupant(q, j)' # None})
  <2>1. CASE q = r
      BY <1>1, <1>2, <1>4, <1>5, <2>1
  <2>2. CASE q # r
      BY <1>1, <1>6, <2>2 DEF SeatsCounted
  <2> QED BY <2>1, <2>2
<1> QED BY <1>7 DEF SeatsCounted

\* A room in which everyone is ready has someone in it.
LEMMA ReadyNotEmpty ==
    ASSUME SeatTypes, SeatsCounted, NEW r \in Rooms, CheckAllReady(r)
    PROVE  numberOfPlayers_[r] # 0
<1>1. 0 \in Taken(r)
    BY SeatsFinite DEF CheckAllReady, Taken
<1>2. Cardinality(Taken(r)) # 0
    BY <1>1, TakenFinite, FS_EmptySet
<1> QED BY <1>2 DEF SeatsCounted, Taken

\* Making oneself ready, or not, keeps the seats.
LEMMA ReadyStep ==
    ASSUME Types, NEW r \in Rooms, RoomReady(r)
    PROVE  /\ UNCHANGED <<state_, numberOfPlayers_, matchPhase>>
           /\ \A q \in Rooms, j \in Seats : Occupant(q, j)' = Occupant(q, j)
           /\ \A q \in Rooms : q # r \/ state_[q] = "INGAME" => sessionSlots_'[q] = sessionSlots_[q]
<1>0. SeatTypes /\ QueueTypes
    BY DEF Types
<1>1. PICK i \in Seats : i = Next1(r).arg
    BY <1>0, RoomHead, RoomSender DEF RoomReady
<1>2. UNCHANGED <<state_, numberOfPlayers_, matchPhase>>
    BY DEF RoomReady, matchVars
<1>3. CASE UNCHANGED sessionSlots_
    BY <1>2, <1>3 DEF Occupant
<1>4. ASSUME NEW ready, state_[r] # "INGAME",
             sessionSlots_' = [sessionSlots_ EXCEPT ![r][i].ready = ready]
      PROVE  /\ \A q \in Rooms, j \in Seats : Occupant(q, j)' = Occupant(q, j)
             /\ \A q \in Rooms : q # r \/ state_[q] = "INGAME" => sessionSlots_'[q] = sessionSlots_[q]
  <2>1. /\ \A q \in Rooms : q # r => sessionSlots_'[q] = sessionSlots_[q]
        /\ \A j \in Seats : j # i => sessionSlots_'[r][j] = sessionSlots_[r][j]
        /\ sessionSlots_'[r][i] = [sessionSlots_[r][i] EXCEPT !.ready = ready]
      BY <1>0, <1>4 DEF SeatTypes
  <2>2. sessionSlots_[r][i] \in Slots
      BY <1>0 DEF SeatTypes
  <2>3. sessionSlots_'[r][i].session = sessionSlots_[r][i].session
      BY <2>1, <2>2 DEF Slots
  <2> QED BY <1>4, <2>1, <2>3 DEF Occupant
<1> QED BY <1>1, <1>2, <1>3, <1>4 DEF RoomReady

-----------------------------------------------------------------------------
(* The end of a match.                                                     *)

EndAt(r, i) == i \in DOMAIN roomTasks[r] /\ roomTasks[r][i].op = "EndMatch"

LEMMA EndsPost ==
    ASSUME QueueTypes, EndsOnce, NEW r \in Rooms, NEW task, PostRoom(r, task),
           task.op # "EndMatch", UNCHANGED matchPhase
    PROVE  EndsOnce'
<1>1. \A q \in Rooms : q # r => roomTasks'[q] = roomTasks[q]
    BY DEF PostRoom, QueueTypes
<1>2. roomTasks'[r] = Append(roomTasks[r], task)
    BY DEF PostRoom, QueueTypes
<1>3. PICK n \in Nat : n = Len(roomTasks[r]) /\ DOMAIN roomTasks[r] = 1 .. n
    BY LenProperties DEF QueueTypes
<1>4. /\ DOMAIN roomTasks'[r] = 1 .. n + 1 /\ roomTasks'[r][n + 1] = task
      /\ \A i \in 1 .. n : roomTasks'[r][i] = roomTasks[r][i]
    BY <1>2, <1>3 DEF QueueTypes
<1>5. \A q \in Rooms : \A i : i \in DOMAIN roomTasks'[q] /\ roomTasks'[q][i].op = "EndMatch" => EndAt(q, i)
    BY <1>1, <1>3, <1>4 DEF EndAt
<1> QED BY <1>5 DEF EndsOnce, EndAt

LEMMA TailOfTasks ==
    ASSUME QueueTypes, NEW r \in Rooms, roomTasks[r] # <<>>, Done(r)
    PROVE  /\ \A q \in Rooms : q # r => roomTasks'[q] = roomTasks[q]
           /\ \A i \in DOMAIN roomTasks'[r] : /\ i \in Nat /\ i + 1 \in DOMAIN roomTasks[r] /\ i # 0
                                             /\ roomTasks'[r][i] = roomTasks[r][i + 1]
           /\ 1 \in DOMAIN roomTasks[r] /\ roomTasks[r][1] = Head(roomTasks[r])
<1>1. /\ \A q \in Rooms : q # r => roomTasks'[q] = roomTasks[q]
      /\ roomTasks'[r] = Tail(roomTasks[r]) /\ roomTasks[r] \in Seq(RoomTasks)
    BY DEF Done, QueueTypes
<1>2. PICK n \in Nat \ {0} : n = Len(roomTasks[r]) /\ DOMAIN roomTasks[r] = 1 .. n
    BY <1>1, LenProperties, EmptySeq
<1>3. /\ DOMAIN roomTasks'[r] = 1 .. n - 1
      /\ \A i \in 1 .. n - 1 : roomTasks'[r][i] = roomTasks[r][i + 1]
    BY <1>1, <1>2, HeadTailProperties, LenProperties
<1>4. roomTasks[r][1] = Head(roomTasks[r])
    BY <1>1
<1> QED BY <1>1, <1>2, <1>3, <1>4

LEMMA EndsDone ==
    ASSUME QueueTypes, EndsOnce, NEW r \in Rooms, roomTasks[r] # <<>>, Done(r),
           \/ \A q \in Rooms : matchPhase[q] = "over" => matchPhase'[q] = "over"
           \/ /\ Next1(r).op = "EndMatch"
              /\ \A q \in Rooms : q # r => matchPhase'[q] = matchPhase[q]
    PROVE  EndsOnce'
<1>1. /\ \A q \in Rooms : q # r => roomTasks'[q] = roomTasks[q]
      /\ \A i \in DOMAIN roomTasks'[r] : /\ i \in Nat /\ i + 1 \in DOMAIN roomTasks[r] /\ i # 0
                                        /\ roomTasks'[r][i] = roomTasks[r][i + 1]
      /\ 1 \in DOMAIN roomTasks[r] /\ roomTasks[r][1] = Next1(r)
    BY TailOfTasks DEF Next1
<1>2. \A i, j \in DOMAIN roomTasks'[r] :
          roomTasks'[r][i].op = "EndMatch" /\ roomTasks'[r][j].op = "EndMatch" => i = j
  <2> SUFFICES ASSUME NEW i \in DOMAIN roomTasks'[r], NEW j \in DOMAIN roomTasks'[r],
                      roomTasks'[r][i].op = "EndMatch", roomTasks'[r][j].op = "EndMatch"
               PROVE  i = j
      OBVIOUS
  <2>1. i + 1 = j + 1
      BY <1>1 DEF EndsOnce
  <2> QED BY <1>1, <2>1
<1>3. ASSUME NEW i \in DOMAIN roomTasks'[r], roomTasks'[r][i].op = "EndMatch"
      PROVE  matchPhase'[r] = "over"
  <2>1. matchPhase[r] = "over"
      BY <1>1, <1>3 DEF EndsOnce
  <2>2. Next1(r).op # "EndMatch"
    <3> SUFFICES ASSUME Next1(r).op = "EndMatch" PROVE FALSE
        OBVIOUS
    <3>1. 1 = i + 1
        BY <1>1, <1>3 DEF EndsOnce
    <3> QED BY <1>1, <3>1
  <2> QED BY <2>1, <2>2
<1>4. ASSUME NEW q \in Rooms, q # r, NEW i \in DOMAIN roomTasks'[q], roomTasks'[q][i].op = "EndMatch"
      PROVE  /\ matchPhase'[q] = "over"
             /\ \A j \in DOMAIN roomTasks'[q] : roomTasks'[q][j].op = "EndMatch" => i = j
    BY <1>1, <1>4 DEF EndsOnce
<1> QED BY <1>2, <1>3, <1>4 DEF EndsOnce

\* Match::End posts the EndMatch: its match was running, so none is queued.
LEMMA EndsPosted ==
    ASSUME Types, EndsOnce, NEW r \in Rooms, MatchEnd(r)
    PROVE  EndsOnce'
<1>0. QueueTypes /\ MatchTypes
    BY DEF Types
<1>1. /\ \A q \in Rooms : q # r => roomTasks'[q] = roomTasks[q] /\ matchPhase'[q] = matchPhase[q]
      /\ roomTasks'[r] = Append(roomTasks[r], Task("EndMatch", None, None))
      /\ matchPhase[r] = "running" /\ matchPhase'[r] = "over"
    BY <1>0 DEF MatchEnd, PostRoom, QueueTypes, MatchTypes
<1>2. PICK n \in Nat : n = Len(roomTasks[r]) /\ DOMAIN roomTasks[r] = 1 .. n
    BY <1>0, LenProperties DEF QueueTypes
<1>3. /\ DOMAIN roomTasks'[r] = 1 .. n + 1
      /\ \A i \in 1 .. n : roomTasks'[r][i] = roomTasks[r][i]
    BY <1>0, <1>1, <1>2 DEF QueueTypes
<1>4. \A i \in 1 .. n : roomTasks'[r][i].op # "EndMatch"
    BY <1>1, <1>2, <1>3 DEF EndsOnce
<1>5. \A i \in DOMAIN roomTasks'[r] : roomTasks'[r][i].op = "EndMatch" => i = n + 1
    BY <1>3, <1>4
<1> QED BY <1>1, <1>5 DEF EndsOnce

-----------------------------------------------------------------------------
\* The part of the invariant that is not about types.
Counted == SeatsCounted /\ EndsOnce /\ StateTells

LEMMA CountedPacket ==
    ASSUME RInv, NEW s \in Sessions, Packet(s) \/ Disconnect(s)
    PROVE  Counted'
<1>0. SessionTypes /\ QueueTypes /\ SeatTypes /\ SeatsCounted /\ EndsOnce /\ StateTells
    BY DEF RInv, Types
<1>1. UNCHANGED <<seatVars, matchPhase>>
    BY DEF Packet, Disconnect, VerifyToken, CreateRoom, EnterRoom, LeaveRoom, Ready, matchVars, seatVars
<1>2. SeatsCounted' /\ StateTells'
    BY <1>0, <1>1 DEF SeatsCounted, StateTells, Occupant, seatVars
<1>3. CASE UNCHANGED roomTasks
    BY <1>0, <1>1, <1>2, <1>3 DEF EndsOnce, Counted
<1>4. ASSUME NEW r \in Rooms, NEW op, NEW arg, op # "EndMatch", PostRoom(r, Task(op, s, arg))
      PROVE  Counted'
  <2>1. Task(op, s, arg).op # "EndMatch"
      BY <1>4 DEF Task
  <2> QED BY <1>0, <1>1, <1>2, <1>4, <2>1, EndsPost DEF Counted
<1>5. room_[s] # None => room_[s] \in Rooms
    BY <1>0 DEF SessionTypes
<1>6. CASE Disconnect(s)
    BY <1>3, <1>4, <1>5, <1>6 DEF Disconnect
<1>7. ASSUME NEW i \in Seats, LeaveRoom(s, i) PROVE Counted'
    BY <1>4, <1>5, <1>7 DEF LeaveRoom
<1>8. ASSUME NEW i \in Seats, Ready(s, i) PROVE Counted'
    BY <1>4, <1>5, <1>8 DEF Ready
<1>9. CASE VerifyToken(s) \/ CreateRoom(s) \/ \E r \in Rooms : EnterRoom(s, r)
    BY <1>3, <1>9 DEF VerifyToken, CreateRoom, EnterRoom
<1> QED BY <1>6, <1>7, <1>8, <1>9 DEF Packet

LEMMA CountedLobby ==
    ASSUME RInv, Lobby
    PROVE  Counted'
<1>0. QueueTypes /\ SeatsCounted /\ EndsOnce /\ StateTells
    BY DEF RInv, Types
<1>1. UNCHANGED <<seatVars, matchPhase>>
    BY DEF Lobby, LobbyCreate, LobbyRefuse, LobbyFind, LobbyDestroy, matchVars, seatVars
<1>2. SeatsCounted' /\ StateTells'
    BY <1>0, <1>1 DEF SeatsCounted, StateTells, Occupant, seatVars
<1>3. CASE UNCHANGED roomTasks
    BY <1>0, <1>1, <1>2, <1>3 DEF EndsOnce, Counted
<1>4. ASSUME NEW r \in Rooms, NEW s, PostRoom(r, Task("Enter", s, None))
      PROVE  Counted'
  <2>1. Task("Enter", s, None).op # "EndMatch"
      BY DEF Task
  <2> QED BY <1>0, <1>1, <1>2, <1>4, <2>1, EndsPost DEF Counted
<1>5. CASE LobbyCreate
  <2>1. roomIDGenerator \in Rooms
      BY <1>0, <1>5 DEF LobbyCreate, QueueTypes, Rooms
  <2> QED BY <1>4, <1>5, <2>1 DEF LobbyCreate
<1>6. CASE LobbyFind
  <2>1. Head(lobbyTasks).arg \in rooms_ => Head(lobbyTasks).arg \in Rooms
      BY <1>0 DEF QueueTypes
  <2> QED BY <1>3, <1>4, <1>6, <2>1 DEF LobbyFind
<1>7. CASE LobbyRefuse \/ LobbyDestroy
    BY <1>3, <1>7 DEF LobbyRefuse, LobbyDestroy
<1> QED BY <1>5, <1>6, <1>7 DEF Lobby

LEMMA CountedRunRoom ==
    ASSUME RInv, NEW r \in Rooms, RunRoom(r)
    PROVE  Counted'
<1>0. Types /\ QueueTypes /\ SeatTypes /\ MatchTypes /\ SeatsCounted /\ EndsOnce /\ StateTells
    BY DEF RInv, Types
<1>1. ASSUME NEW op, RoomTask(r, op), Done(r), UNCHANGED matchPhase
      PROVE  EndsOnce'
    BY <1>0, <1>1, EndsDone DEF RoomTask
<1>2. CASE RoomEnter(r)
  <2>1. EndsOnce' /\ UNCHANGED <<state_, matchPhase>>
      BY <1>1, <1>2 DEF RoomEnter, matchVars
  <2>2. CASE UNCHANGED <<sessionSlots_, numberOfPlayers_>>
      BY <1>0, <2>1, <2>2, SeatsSame DEF Counted, StateTells, Occupant
  <2>3. ASSUME NEW s \in Sessions, NEW i \in Seats, EnterAt(r, s, i) PROVE Counted'
    <3>1. SeatsCounted'
        BY <1>0, <2>3, EnterSeats
    <3>2. /\ \A q \in Rooms : q # r => /\ sessionSlots_'[q] = sessionSlots_[q]
                                      /\ numberOfPlayers_'[q] = numberOfPlayers_[q]
          /\ state_[r] = "WAITING"
        BY <1>0, <2>3 DEF EnterAt, SeatTypes
    <3>3. StateTells'
        BY <1>0, <2>1, <3>2 DEF StateTells
    <3> QED BY <2>1, <3>1, <3>3 DEF Counted
  <2> QED BY <1>0, <1>2, <2>2, <2>3, EnterStep
<1>3. ASSUME NEW op, NEW s \in Sessions, NEW i, RoomTask(r, op), Done(r), Leave(r, s, i),
             UNCHANGED matchPhase
      PROVE  Counted'
  <2>1. EndsOnce'
      BY <1>1, <1>3
  <2>2. CASE UNCHANGED <<state_, sessionSlots_, numberOfPlayers_>>
      BY <1>0, <1>3, <2>1, <2>2, SeatsSame DEF Counted, StateTells, Occupant
  <2>3. CASE i \in Seats /\ LeaveAt(r, s, i)
    <3>1. SeatsCounted'
        BY <1>0, <1>3, <2>3, LeaveSeats
    <3>2. PICK n \in Nat : n = numberOfPlayers_[r]
        BY <1>0 DEF SeatTypes
    <3>3. /\ numberOfPlayers_'[r] = n - 1
          /\ \A q \in Rooms : q # r => /\ sessionSlots_'[q] = sessionSlots_[q]
                                      /\ numberOfPlayers_'[q] = numberOfPlayers_[q]
                                      /\ state_'[q] = state_[q]
          /\ \A j \in Seats : sessionSlots_'[r][j] = IF j = i THEN Free ELSE sessionSlots_[r][j]
        BY <1>0, <2>3, <3>2 DEF LeaveAt, SeatTypes
    <3>4. n # 0
      <4>1. i \in Taken(r)
          BY <2>3, NoneFresh DEF LeaveAt, Taken
      <4>2. Cardinality(Taken(r)) # 0
          BY <4>1, TakenFinite, FS_EmptySet
      <4> QED BY <1>0, <3>2, <4>2 DEF SeatsCounted, Taken
    <3>5. \/ n = 1 /\ state_'[r] = "INVALID"
          \/ state_'[r] = state_[r] /\ state_[r] # "INVALID"
        BY <1>0, <2>3, <3>2, <3>4 DEF LeaveAt, SeatTypes, StateTells
    <3>6. state_[r] = "INGAME" => \A j \in Seats : ~sessionSlots_'[r][j].ready
        BY <1>0, <3>3 DEF StateTells, Free
    <3>7. StateTells'
      <4>1. \A q \in Rooms : state_'[q] = "WAITING" => matchPhase'[q] = "none"
          BY <1>0, <1>3, <3>3, <3>5 DEF StateTells
      <4>2. \A q \in Rooms : state_'[q] = "INGAME" => \A j \in Seats : ~sessionSlots_'[q][j].ready
          BY <1>0, <3>3, <3>5, <3>6 DEF StateTells
      <4>3. \A q \in Rooms : state_'[q] = "INVALID" => numberOfPlayers_'[q] = 0
        <5>1. n = 1 => n - 1 = 0
            OBVIOUS
        <5> QED BY <1>0, <3>3, <3>5, <5>1 DEF StateTells
      <4> QED BY <4>1, <4>2, <4>3 DEF StateTells
    <3> QED BY <2>1, <3>1, <3>7 DEF Counted
  <2> QED BY <1>3, <2>2, <2>3, LeaveStep
<1>4. CASE RoomLeave(r)
  <2>1. Next1(r).session \in Sessions
      BY <1>0, <1>4, RoomHead, RoomSender DEF RoomLeave
  <2> QED BY <1>3, <1>4, <2>1 DEF RoomLeave, matchVars
<1>5. CASE RoomCleanup(r)
  <2>1. Next1(r).session \in Sessions
      BY <1>0, <1>5, RoomHead, RoomSender DEF RoomCleanup
  <2> QED BY <1>3, <1>5, <2>1 DEF RoomCleanup, matchVars
<1>6. CASE RoomReady(r)
  <2>1. /\ UNCHANGED <<state_, numberOfPlayers_, matchPhase>>
        /\ \A q \in Rooms, j \in Seats : Occupant(q, j)' = Occupant(q, j)
        /\ \A q \in Rooms : q # r \/ state_[q] = "INGAME" => sessionSlots_'[q] = sessionSlots_[q]
      BY <1>0, <1>6, ReadyStep
  <2>2. EndsOnce'
      BY <1>1, <1>6, <2>1 DEF RoomReady
  <2>3. SeatsCounted'
      BY <1>0, <2>1, SeatsSame
  <2>4. StateTells'
      BY <1>0, <2>1 DEF StateTells
  <2> QED BY <2>2, <2>3, <2>4 DEF Counted
<1>7. CASE RoomStandBy(r)
  <2>1. CASE UNCHANGED <<state_, sessionSlots_, matchVars>>
    <3>1. EndsOnce'
        BY <1>1, <1>7, <2>1 DEF RoomStandBy, matchVars
    <3>2. UNCHANGED numberOfPlayers_
        BY <1>7 DEF RoomStandBy
    <3>3. SeatsCounted' /\ StateTells'
        BY <1>0, <2>1, <3>2, SeatsSame DEF StateTells, Occupant, matchVars
    <3> QED BY <3>1, <3>3 DEF Counted
  <2>2. CASE CheckAllReady(r) /\ StartMatch(r)
    <3>1. state_[r] = "WAITING" /\ matchPhase[r] = "none"
      <4>1. state_[r] # "INVALID"
          BY <1>0, <2>2, ReadyNotEmpty DEF StateTells
      <4>2. state_[r] # "INGAME"
          BY <1>0, <2>2, SeatsFinite DEF StateTells, CheckAllReady
      <4> QED BY <1>0, <4>1, <4>2 DEF StateTells, SeatTypes
    <3>2. /\ \A q \in Rooms : q # r => /\ state_'[q] = state_[q] /\ matchPhase'[q] = matchPhase[q]
          /\ state_'[r] = "INGAME"
        BY <1>0, <2>2 DEF StartMatch, SeatTypes, MatchTypes
    <3>3. /\ \A q \in Rooms, i \in Seats : Occupant(q, i)' = Occupant(q, i)
          /\ \A i \in Seats : sessionSlots_'[r][i].ready = FALSE
          /\ \A q \in Rooms : q # r => sessionSlots_'[q] = sessionSlots_[q]
        BY <1>0, <2>2, UnreadySlots DEF StartMatch
    <3>4. UNCHANGED numberOfPlayers_ /\ roomTasks[r] # <<>> /\ Done(r)
        BY <1>7 DEF RoomStandBy, RoomTask
    <3>5. EndsOnce'
        BY <1>0, <3>1, <3>2, <3>4, EndsDone
    <3>6. SeatsCounted'
        BY <1>0, <3>3, <3>4, SeatsSame
    <3>7. StateTells'
        BY <1>0, <3>2, <3>3, <3>4 DEF StateTells
    <3> QED BY <3>5, <3>6, <3>7 DEF Counted
  <2> QED BY <1>7, <2>1, <2>2 DEF RoomStandBy
<1>8. CASE RoomEndMatch(r)
  <2>1. /\ \A q \in Rooms : q # r => /\ state_'[q] = state_[q] /\ matchPhase'[q] = matchPhase[q]
        /\ state_'[r] = "WAITING" /\ matchPhase'[r] = "none"
      BY <1>0, <1>8 DEF RoomEndMatch, SeatTypes, MatchTypes
  <2>2. /\ \A q \in Rooms, i \in Seats : Occupant(q, i)' = Occupant(q, i)
        /\ \A q \in Rooms : q # r => sessionSlots_'[q] = sessionSlots_[q]
      BY <1>0, <1>8, UnreadySlots DEF RoomEndMatch
  <2>3. UNCHANGED numberOfPlayers_ /\ roomTasks[r] # <<>> /\ Done(r) /\ Next1(r).op = "EndMatch"
      BY <1>8 DEF RoomEndMatch, RoomTask, Next1
  <2>4. EndsOnce'
      BY <1>0, <2>1, <2>3, EndsDone
  <2>5. SeatsCounted'
      BY <1>0, <2>2, <2>3, SeatsSame
  <2>6. StateTells'
      BY <1>0, <2>1, <2>2, <2>3 DEF StateTells
  <2> QED BY <2>4, <2>5, <2>6 DEF Counted
<1> QED BY <1>2, <1>4, <1>5, <1>6, <1>7, <1>8 DEF RunRoom

LEMMA CountedOutside ==
    ASSUME RInv, NEW r \in Rooms,
           \/ MatchInit(r) \/ MatchEnd(r)
           \/ \E t \in armed[r] : Fire(r, t)
           \/ \E s \in Sessions, leaves \in BOOLEAN : MatchOut(s, leaves)
    PROVE  Counted'
<1>0. Types /\ QueueTypes /\ MatchTypes /\ SeatsCounted /\ EndsOnce /\ StateTells
    BY DEF RInv, Types
<1>1. UNCHANGED seatVars
    BY DEF MatchInit, MatchEnd, Fire, MatchOut
<1>2. SeatsCounted'
    BY <1>0, <1>1, SeatsSame DEF seatVars, Occupant
<1>3. ASSUME \A q \in Rooms : matchPhase'[q] = matchPhase[q] \/ matchPhase[q] # "none"
      PROVE  StateTells'
    BY <1>0, <1>1, <1>3 DEF StateTells, seatVars
<1>4. CASE MatchInit(r)
  <2>1. /\ \A q \in Rooms : matchPhase'[q] = matchPhase[q] \/ matchPhase[q] \notin {"none", "over"}
        /\ UNCHANGED roomTasks
      BY <1>0, <1>4 DEF MatchInit, MatchTypes
  <2>2. EndsOnce'
      BY <1>0, <2>1 DEF EndsOnce
  <2> QED BY <1>2, <1>3, <2>1, <2>2 DEF Counted
<1>5. CASE MatchEnd(r)
  <2>1. \A q \in Rooms : matchPhase'[q] = matchPhase[q] \/ matchPhase[q] # "none"
      BY <1>0, <1>5 DEF MatchEnd, MatchTypes
  <2> QED BY <1>0, <1>2, <1>3, <1>5, <2>1, EndsPosted DEF Counted
<1>6. ASSUME NEW t \in armed[r], Fire(r, t) PROVE Counted'
  <2>1. UNCHANGED matchPhase /\ Task("StandBy", None, t.count).op # "EndMatch"
      BY <1>6 DEF Fire, matchVars, Task
  <2>2. EndsOnce'
      BY <1>0, <1>6, <2>1, EndsPost DEF Fire
  <2> QED BY <1>2, <1>3, <2>1, <2>2 DEF Counted
<1>7. ASSUME NEW s \in Sessions, NEW leaves \in BOOLEAN, MatchOut(s, leaves) PROVE Counted'
  <2>1. UNCHANGED <<matchPhase, roomTasks>>
      BY <1>7 DEF MatchOut
  <2>2. EndsOnce'
      BY <1>0, <2>1 DEF EndsOnce
  <2> QED BY <1>2, <1>3, <2>1, <2>2 DEF Counted
<1> QED BY <1>4, <1>5, <1>6, <1>7

-----------------------------------------------------------------------------
LEMMA Inductive == Spec => []RInv
<1>1. Init => RInv
    BY InitRInv
<1>2. RInv /\ [Next]_vars => RInv'
  <2> SUFFICES ASSUME RInv, [Next]_vars PROVE RInv'
      OBVIOUS
  <2>0. Types /\ SessionTypes /\ QueueTypes /\ SeatsCounted /\ EndsOnce /\ StateTells
      BY DEF RInv, Types
  <2>1. ASSUME NEW s \in Sessions, Packet(s) \/ Disconnect(s) PROVE RInv'
      BY <2>0, <2>1, PacketTypes, CountedPacket DEF RInv, Counted
  <2>2. ASSUME NEW s \in Sessions, NEW leaves \in BOOLEAN, MatchOut(s, leaves) PROVE RInv'
    <3>1. PICK r \in Rooms : r = match_[s]
        BY <2>0, <2>2 DEF MatchOut, SessionTypes
    <3>2. \E u \in Sessions, l \in BOOLEAN : MatchOut(u, l)
        BY <2>2
    <3>3. Types' /\ Counted'
        BY <2>0, <3>1, <3>2, OutsideTypes, CountedOutside
    <3> QED BY <3>3 DEF RInv, Counted
  <2>3. CASE Lobby
      BY <2>0, <2>3, LobbyTypes, CountedLobby DEF RInv, Counted
  <2>4. ASSUME NEW r \in Rooms, RunRoom(r) PROVE RInv'
      BY <2>0, <2>4, RunRoomTypes, CountedRunRoom DEF RInv, Counted
  <2>5. ASSUME NEW r \in Rooms, Match(r) \/ \E t \in armed[r] : Fire(r, t) PROVE RInv'
    <3>1. MatchInit(r) \/ MatchEnd(r) \/ \E t \in armed[r] : Fire(r, t)
        BY <2>5 DEF Match
    <3>2. Types' /\ Counted'
        BY <2>0, <3>1, OutsideTypes, CountedOutside
    <3> QED BY <3>2 DEF RInv, Counted
  <2>6. CASE UNCHANGED vars
    <3>1. Types'
        BY <2>0, <2>6 DEF vars, sessionVars, lobbyVars, seatVars, timerVars, matchVars, Types,
                          SessionTypes, QueueTypes, SeatTypes, TimerTypes, MatchTypes
    <3>2. SeatsCounted'
        BY <2>0, <2>6 DEF vars, seatVars, SeatsCounted, Occupant
    <3>3. EndsOnce' /\ StateTells'
        BY <2>0, <2>6 DEF vars, seatVars, matchVars, EndsOnce, StateTells
    <3> QED BY <3>1, <3>2, <3>3 DEF RInv
  <2> QED BY <2>1, <2>2, <2>3, <2>4, <2>5, <2>6 DEF Next
<1> QED BY <1>1, <1>2, PTL DEF Spec

\* A room never has more players than seats.
LEMMA SeatsBound ==
    ASSUME SeatTypes, SeatsCounted, NEW r \in Rooms
    PROVE  numberOfPlayers_[r] \in 0 .. MAX_PLAYER_NUMBER
<1>1. Cardinality(Seats) = MAX_PLAYER_NUMBER
  <2>1. 0 \in Int /\ MAX_PLAYER_NUMBER - 1 \in Int /\ ~ 0 > MAX_PLAYER_NUMBER - 1
      BY SizesPositive
  <2>2. Cardinality(Seats) = (MAX_PLAYER_NUMBER - 1) - 0 + 1
      BY <2>1, FS_Interval DEF Seats
  <2> QED BY <2>2, SizesPositive
<1>2. Cardinality(Taken(r)) <= Cardinality(Seats)
    BY SeatsFinite, FS_Subset DEF Taken
<1>3. numberOfPlayers_[r] = Cardinality(Taken(r))
    BY DEF SeatsCounted, Taken
<1> QED BY <1>1, <1>2, <1>3, TakenFinite, SizesPositive

\* Every variable of the lobby, of the rooms, of the sessions and of the match
\* keeps its type; in particular numberOfPlayers_ stays within the seats, in
\* spite of Room::Leave counting down and Room::Enter counting up.
THEOREM TypeCorrect == Spec => []TypeOK
<1>1. RInv => TypeOK
  <2> SUFFICES ASSUME RInv PROVE TypeOK
      OBVIOUS
  <2>0. SessionTypes /\ QueueTypes /\ SeatTypes /\ TimerTypes /\ MatchTypes /\ SeatsCounted
      BY DEF RInv, Types
  <2>1. \A s \in Sessions : sent[s] \in 0 .. MaxPackets[s]
    <3> TAKE s \in Sessions
    <3>1. PICK n \in Nat, m \in Nat : n = sent[s] /\ m = MaxPackets[s]
        BY <2>0, PacketsBounded DEF SessionTypes
    <3>2. n <= m
        BY <2>0, <3>1 DEF SessionTypes
    <3> QED BY <3>1, <3>2
  <2>2. \A i \in DOMAIN lobbyTasks : lobbyTasks[i].op \in {"Create", "Find", "Destroy"}
    <3> TAKE i \in DOMAIN lobbyTasks
    <3>1. lobbyTasks[i] \in LobbyTasks
        BY <2>0, ElementOfSeq, LenProperties DEF QueueTypes
    <3> QED BY <3>1 DEF LobbyTasks
  <2>3. \A r \in Rooms : \A i \in DOMAIN roomTasks[r] :
           roomTasks[r][i].op \in {"Enter", "Leave", "Ready", "StandBy", "Cleanup", "EndMatch"}
    <3> TAKE r \in Rooms
    <3> TAKE i \in DOMAIN roomTasks[r]
    <3>1. roomTasks[r] \in Seq(RoomTasks)
        BY <2>0 DEF QueueTypes
    <3>2. roomTasks[r][i] \in RoomTasks
        BY <3>1, ElementOfSeq, LenProperties
    <3> QED BY <3>2 DEF RoomTasks
  <2>4. numberOfPlayers_ \in [Rooms -> 0 .. MAX_PLAYER_NUMBER]
    <3>1. \A r \in Rooms : numberOfPlayers_[r] \in 0 .. MAX_PLAYER_NUMBER
        BY <2>0, SeatsBound
    <3> QED BY <2>0, <3>1 DEF SeatTypes
  <2>5. \A r \in Rooms : armed[r] \subseteq [id : TimerIds, count : 0 .. STANDBY_COUNT - 1]
      BY <2>0 DEF TimerTypes
  <2> QED BY <2>0, <2>1, <2>2, <2>3, <2>4, <2>5
          DEF TypeOK, SessionTypes, QueueTypes, SeatTypes, Slots, TimerTypes, MatchTypes
<1> QED BY <1>1, Inductive, PTL

\* numberOfPlayers_ is the number of taken seats in every reachable state, so
\* what Room::Enter refuses and when Room::Leave destroys the room are right.
THEOREM SeatsCountedAlways == Spec => []SeatsCounted
<1>1. RInv => SeatsCounted
    BY DEF RInv
<1> QED BY <1>1, Inductive, PTL

\* Whatever sends a room into the game is the last StandByMatch.
LEMMA OnlyStandByStarts ==
    ASSUME RInv, [Next]_vars, NEW r \in Rooms, state_[r] # "INGAME", state_'[r] = "INGAME"
    PROVE  RoomStandBy(r) /\ CheckAllReady(r)
<1>0. SeatTypes
    BY DEF RInv, Types
<1>1. ASSUME UNCHANGED state_ PROVE FALSE
    BY <1>1
<1>2. ASSUME NEW s \in Sessions, \/ Packet(s) \/ Disconnect(s)
                                  \/ \E leaves \in BOOLEAN : MatchOut(s, leaves)
      PROVE  FALSE
    BY <1>1, <1>2 DEF Packet, Disconnect, VerifyToken, CreateRoom, EnterRoom, LeaveRoom, Ready,
                      MatchOut, seatVars
<1>3. CASE Lobby
    BY <1>1, <1>3 DEF Lobby, LobbyCreate, LobbyRefuse, LobbyFind, LobbyDestroy, seatVars
<1>4. ASSUME NEW q \in Rooms, Match(q) \/ \E t \in armed[q] : Fire(q, t) PROVE FALSE
    BY <1>1, <1>4 DEF Match, MatchInit, MatchEnd, Fire, seatVars
<1>5. CASE UNCHANGED vars
    BY <1>1, <1>5 DEF vars, seatVars
<1>6. ASSUME NEW q \in Rooms, RunRoom(q) PROVE RoomStandBy(r) /\ CheckAllReady(r)
  <2>1. CASE RoomEnter(q) \/ RoomReady(q)
      BY <1>1, <2>1 DEF RoomEnter, RoomReady
  <2>2. CASE RoomLeave(q) \/ RoomCleanup(q)
    <3>1. UNCHANGED state_ \/ state_' = [state_ EXCEPT ![q] = "INVALID"]
        BY <2>2 DEF RoomLeave, RoomCleanup, Leave, seatVars
    <3> QED BY <1>0, <1>1, <3>1 DEF SeatTypes
  <2>3. CASE RoomEndMatch(q)
      BY <1>0, <2>3 DEF RoomEndMatch, SeatTypes
  <2>4. CASE RoomStandBy(q)
    <3>1. \/ UNCHANGED state_
          \/ CheckAllReady(q) /\ state_' = [state_ EXCEPT ![q] = "INGAME"]
        BY <2>4 DEF RoomStandBy, StartMatch
    <3>2. q = r /\ CheckAllReady(q)
        BY <1>0, <1>1, <3>1 DEF SeatTypes
    <3> QED BY <2>4, <3>2
  <2> QED BY <1>6, <2>1, <2>2, <2>3, <2>4 DEF RunRoom
<1> QED BY <1>2, <1>3, <1>4, <1>5, <1>6 DEF Next

\* Room::StartMatch starts a match only in a waiting room, all of whose seats
\* are taken and ready then, and while the room has no other match: a match
\* task of an earlier countdown never starts a second one.
THEOREM StartsFullAlways == Spec => StartsFull
<1> DEFINE Start(r) == state_[r] # "INGAME" /\ state_'[r] = "INGAME" =>
               /\ state_[r] = "WAITING" /\ CheckAllReady(r)
               /\ matchPhase[r] = "none"
<1>1. RInv /\ [Next]_vars => \A r \in Rooms : Start(r)
  <2> SUFFICES ASSUME RInv, [Next]_vars, NEW r \in Rooms,
                      state_[r] # "INGAME", state_'[r] = "INGAME"
               PROVE  /\ state_[r] = "WAITING" /\ CheckAllReady(r)
                      /\ matchPhase[r] = "none"
      OBVIOUS
  <2>0. SeatTypes /\ SeatsCounted /\ StateTells
      BY DEF RInv, Types
  <2>1. CheckAllReady(r)
      BY OnlyStandByStarts
  <2>2. numberOfPlayers_[r] # 0
      BY <2>0, <2>1, ReadyNotEmpty
  <2>3. state_[r] = "WAITING"
      BY <2>0, <2>2 DEF SeatTypes, StateTells
  <2> QED BY <2>0, <2>1, <2>3 DEF StateTells
<1> QED BY <1>1, Inductive, PTL DEF Spec, StartsFull
=============================================================================
