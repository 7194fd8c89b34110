---------------------------- MODULE MatchProofs ----------------------------
(***************************************************************************)
(* Theorems about Match, for any number of players and packets.            *)
(***************************************************************************)
EXTENDS Match, FiniteSetTheorems, SequenceTheorems, TLAPS

\* Init stores the players in the order of their indices.
Filled ==
    \E n \in 0 .. MAX_PLAYER_NUMBER :
        /\ assigned = 0 .. n - 1
        /\ pc[Mailbox] \in {"enter", "assign"} => n < MAX_PLAYER_NUMBER

\* Init is the first task and there is no second one.
OneInit == \A i \in DOMAIN tasks :
    tasks[i].kind = "Init" => i = 1 /\ assigned = {} /\ pc[Mailbox] = "idle"

Chaser == Recv(CHASER_INDEX)
Ending(a) == pc[a] \in {"timers", "back", "post"}

\* Whoever gets past the exchange is alone, and EndMatch is not posted yet.
OneEnder ==
    /\ \A a \in Actors : Ending(a) => isMatchEnded_ /\ endMatches = 0
    /\ \A a, b \in Actors : Ending(a) /\ Ending(b) => a = b
    /\ endMatches > 0 => isMatchEnded_
    /\ endMatches <= 1

\* The mailbox gets the match going only while it has not started, and the
\* chaser hits only once it has.
Phases ==
    /\ pc[Mailbox] \in {"receive", "allLoading", "alive", "allAlive", "start", "tick", "started"}
          => ~isMatchStarted_
    /\ pc[Chaser] \in {"hit", "hitStore", "hitCheck"} => isMatchStarted_ /\ hit.target \in Fugitives

\* Who is alive has reported ready, which is also true of a state about to be
\* stored by a hit.
AliveIsReady ==
    /\ \A p \in Players : state_[p] \in Alive => p \in readied
    /\ pc[Chaser] = "hitStore" /\ hit.changed \in Alive => hit.target \in readied
    /\ pc[Mailbox] \in {"start", "tick", "started"} => readied = Players

\* A killed fugitive is never alive again, but for the moment before the state
\* MURDERED is stored.
DeadStaysDead == \A f \in Fugitives : kills[f] > 0 =>
    /\ isMatchStarted_
    /\ state_[f] \notin Alive \/ (pc[Chaser] = "hitStore" /\ hit.target = f)
    /\ pc[Chaser] = "hitStore" /\ hit.target = f => hit.changed \notin Alive

\* Once End has removed the timers of a match that had started, nobody will
\* arm the tick again.
TickGone ==
    /\ startedFirst => isMatchStarted_ /\ isMatchEnded_
    /\ startedFirst /\ (endMatches > 0 \/ \E a \in Actors : pc[a] \in {"back", "post"})
          => tick # "armed"

IInv ==
    /\ TypeOK /\ Filled /\ OneInit
    /\ OneEnder
    /\ Phases /\ StartsWithEveryone /\ AliveIsReady
    /\ KilledOnce /\ DeadStaysDead
    /\ TickGone

\* Before Init begins nobody knows the match, and what comes after it finds all
\* players. Whoever went on with a player of the match has found one.
Finding == {"disconnect", "discLeave", "check", "end", "timers", "back", "post"}
InitComesFirst ==
    /\ \/ assigned = Players
       \/ pc[Mailbox] \in {"enter", "assign"}
       \/ /\ pc[Mailbox] = "idle" /\ tasks # <<>> /\ tasks[1].kind = "Init"
          /\ assigned = {} /\ match_ = {}
          /\ \A p \in Players : pc[Recv(p)] = "idle" /\ pc[Disc(p)] \in {"idle", "done"}
    /\ ~crashed => \A p \in Players : /\ pc[Disc(p)] \in Finding => p \in assigned
                                      /\ pc[Recv(p)] = "leave" => p \in assigned
    /\ isMatchStarted_ => assigned = Players

\* A null player stops the process: whoever goes on with End has seen them all.
CrashIsLast ==
    ~crashed /\ (endMatches > 0 \/ \E a \in Actors : pc[a] \in {"back", "post"})
        => assigned = Players

\* The handler or the disconnection that stored DISCONNECTED has yet to take the
\* player out of the match; a hit may store it again, but no later than that.
Leaving(p) == pc[Recv(p)] = "gone" \/ pc[Disc(p)] = "discLeave"
DisconnectedLeaves ==
    /\ \A p \in Players : state_[p] = "DISCONNECTED"
          => p \in assigned /\ (p \in match_ => Leaving(p))
    /\ pc[Chaser] = "hitStore" /\ hit.changed = "DISCONNECTED" /\ hit.target \in match_
          => Leaving(hit.target)

\* Whom PlayerBackToRoom left in the match is on the way out.
LeftBehind ==
    ~crashed /\ (endMatches > 0 \/ \E a \in Actors : pc[a] = "post")
        => \A p \in match_ : Leaving(p)

LEMMA ActorsDistinct ==
    /\ Mailbox \in Actors /\ Chaser \in Actors /\ Mailbox # Chaser
    /\ \A p \in Players : /\ Recv(p) \in Actors /\ Disc(p) \in Actors
                          /\ Mailbox # Recv(p) /\ Mailbox # Disc(p) /\ Chaser # Disc(p)
    /\ \A p, q \in Players : Recv(p) # Disc(q) /\ (Recv(p) = Recv(q) => p = q)
                             /\ (Disc(p) = Disc(q) => p = q)
    /\ CHASER_INDEX \in Players
<1>1. CHASER_INDEX \in Players
    BY PlayerCount DEF CHASER_INDEX, Players
<1> QED BY <1>1 DEF Actors, Mailbox, Chaser, Recv, Disc

\* What an actor may be doing when it is in End.
LEMMA EndActor ==
    ASSUME NEW a \in {Mailbox} \cup {Disc(p) : p \in Players}
    PROVE  a \in Actors /\ a # Chaser /\ After(a) \in {"idle", "done"}
BY ActorsDistinct DEF After

\* Every action moves one actor to a known place, or none.
LEMMA GotoPlace ==
    ASSUME pc \in [Actors -> Places], NEW a \in Actors, NEW there \in Places, Goto(a, there)
    PROVE  pc' \in [Actors -> Places]
BY DEF Goto

\* What the thread of a session does: it handles one packet after another.
RecvStep(p) == Handle(p) \/ HandlePacket(p)
RecvPlaces  == {"idle", "packet", "hit", "hitStore", "hitCheck", "escape", "leave", "gone"}
Posted(p)   == \E kind \in {"ReadyToReceive", "ReadyToStart"} : tasks' = Append(tasks, Task(kind, p))

\* It takes sessions out of the match at most, and stops at a null player only
\* on the way into a handler.
LEMMA RecvFrame ==
    ASSUME NEW p \in Players, RecvStep(p)
    PROVE  /\ ~crashed /\ \E there \in RecvPlaces : Goto(Recv(p), there)
           /\ assigned' = assigned /\ match_' \subseteq match_ /\ player_' \subseteq player_
           /\ UNCHANGED <<closed, flagVars, caller, timerVars, endMatches, readied, startedFirst>>
           /\ tasks' = tasks \/ Posted(p)
           /\ crashed' => assigned # Players /\ pc[Recv(p)] = "packet"
<1> DEFINE Goal ==
           /\ ~crashed /\ \E there \in RecvPlaces : Goto(Recv(p), there)
           /\ assigned' = assigned /\ match_' \subseteq match_ /\ player_' \subseteq player_
           /\ UNCHANGED <<closed, flagVars, caller, timerVars, endMatches, readied, startedFirst>>
           /\ tasks' = tasks \/ Posted(p)
           /\ crashed' => assigned # Players /\ pc[Recv(p)] = "packet"
<1> USE DEF At, RecvPlaces, sessionVars, recvVars, histVars
<1>1. CASE Handle(p)
    BY <1>1 DEF Handle
<1>2. ASSUME NEW kind \in {"ReadyToReceive", "ReadyToStart"}, Post(p, kind) PROVE Goal
    BY <1>2 DEF Post, Posted
<1>3. CASE InstallCCTV(p)
    BY <1>3 DEF InstallCCTV
<1>4. ASSUME NEW i \in Players, LeaveBegin(p, i) PROVE Goal
    BY <1>4 DEF LeaveBegin
<1>5. ASSUME NEW f \in Fugitives, EscapeBegin(p, f) PROVE Goal
    BY <1>5 DEF EscapeBegin, Fugitives
<1>6. ASSUME NEW f \in Fugitives, p = CHASER_INDEX, HitBegin(f) PROVE Goal
    BY <1>6 DEF HitBegin
<1>7. CASE GoneStore(p)
    BY <1>7 DEF GoneStore
<1>8. CASE GoneLeave(p)
    BY <1>8 DEF GoneLeave, ProcessLeaveMatch
<1>9. CASE p = CHASER_INDEX /\ (HitRead \/ HitStore \/ HitCheck)
  <2>1. CASE HitRead
    BY <1>9, <2>1 DEF HitRead
  <2>2. CASE HitStore
    BY <1>9, <2>2 DEF HitStore
  <2>3. CASE HitCheck
    BY <1>9, <2>3 DEF HitCheck, ProcessLeaveMatch
  <2> QED BY <1>9, <2>1, <2>2, <2>3
<1> HIDE DEF Goal
<1>10. Goal
    BY <1>1, <1>2, <1>3, <1>4, <1>5, <1>6, <1>7, <1>8, <1>9 DEF Goal, RecvStep, HandlePacket, Packet
<1> QED BY <1>10 DEF Goal

\* What the thread that runs OnDisconnect does, up to End.
DiscStep(p) == Disconnect(p) \/ DiscSearch(p) \/ DiscStore(p) \/ DiscLeave(p) \/ DiscCheck(p)
DiscPlaces  == {"search", "disconnect", "discLeave", "check", "end", "done"}

LEMMA DiscFrame ==
    ASSUME NEW p \in Players, DiscStep(p)
    PROVE  /\ ~crashed /\ \E there \in DiscPlaces : Goto(Disc(p), there)
           /\ assigned' = assigned /\ match_' \subseteq match_ /\ player_' \subseteq player_
           /\ UNCHANGED <<flagVars, caller, timerVars, hit, recvVars, endMatches, kills, readied,
                          startedFirst, tasks>>
           /\ crashed' => assigned # Players /\ pc[Disc(p)] \in {"search", "check"}
<1> DEFINE Goal ==
           /\ ~crashed /\ \E there \in DiscPlaces : Goto(Disc(p), there)
           /\ assigned' = assigned /\ match_' \subseteq match_ /\ player_' \subseteq player_
           /\ UNCHANGED <<flagVars, caller, timerVars, hit, recvVars, endMatches, kills, readied,
                          startedFirst, tasks>>
           /\ crashed' => assigned # Players /\ pc[Disc(p)] \in {"search", "check"}
<1> USE DEF At, DiscPlaces, sessionVars, histVars
<1>1. CASE Disconnect(p)
    BY <1>1 DEF Disconnect
<1>2. CASE DiscSearch(p)
    BY <1>2 DEF DiscSearch
<1>3. CASE DiscStore(p)
    BY <1>3 DEF DiscStore
<1>4. CASE DiscLeave(p)
    BY <1>4 DEF DiscLeave, ProcessLeaveMatch
<1>5. CASE DiscCheck(p)
  <2>1. CheckIsNull => assigned # Players
    BY ActorsDistinct DEF CheckIsNull, Fugitives
  <2> QED BY <1>5, <2>1 DEF DiscCheck
<1> HIDE DEF Goal
<1>6. Goal
    BY <1>1, <1>2, <1>3, <1>4, <1>5 DEF Goal, DiscStep
<1> QED BY <1>6 DEF Goal

LEMMA PcStep == TypeOK /\ [Next]_vars => pc' \in [Actors -> Places]
<1> SUFFICES ASSUME TypeOK, [Next]_vars PROVE pc' \in [Actors -> Places]
    OBVIOUS
<1>1. /\ pc \in [Actors -> Places]
      /\ {"idle", "enter", "assign", "arm", "receive", "allLoading", "spin", "alive", "allAlive",
          "start", "tick", "started", "packet", "hit", "hitStore", "hitCheck", "escape", "leave",
          "gone", "search", "disconnect", "discLeave", "check", "end", "timers", "back",
          "post", "done"} \subseteq Places
    BY DEF TypeOK, Places
<1> HIDE DEF TypeOK
<1>2. CASE Begin
  <2>1. Entry(Head(tasks)) \in Places
    BY <1>1 DEF Entry
  <2> QED BY <1>1, <1>2, <2>1, GotoPlace, ActorsDistinct DEF Begin
<1>3. CASE \/ InitEnter \/ InitAssign \/ InitArm \/ ReceiveStore \/ ReceiveCheck \/ ReceiveSend
           \/ ReadyStore \/ ReadyCheck \/ StartTimer \/ StartTick \/ StartDone
    BY <1>1, <1>3, GotoPlace, ActorsDistinct DEF InitEnter, InitAssign, InitArm, ReceiveStore,
       ReceiveCheck, ReceiveSend, ReadyStore, ReadyCheck, StartTimer, StartTick, StartDone
<1>4. ASSUME NEW a \in {Mailbox} \cup {Disc(p) : p \in Players}, End(a)
      PROVE  pc' \in [Actors -> Places]
    BY <1>1, <1>4, GotoPlace, EndActor DEF End, EndExchange, EndTimers, PlayerBackToRoom, EndPost
<1>5. ASSUME NEW p \in Players, RecvStep(p) PROVE pc' \in [Actors -> Places]
    BY <1>1, <1>5, RecvFrame, GotoPlace, ActorsDistinct DEF RecvPlaces
<1>6. ASSUME NEW p \in Players, DiscStep(p) PROVE pc' \in [Actors -> Places]
    BY <1>1, <1>6, DiscFrame, GotoPlace, ActorsDistinct DEF DiscPlaces
<1>7. CASE FireTimeOut \/ FireTick \/ Clock \/ UNCHANGED vars
    BY <1>1, <1>7 DEF FireTimeOut, FireTick, Clock, vars
<1> QED BY <1>2, <1>3, <1>4, <1>5, <1>6, <1>7
        DEF Next, RunTask, OnDisconnect, RecvStep, DiscStep

LEMMA StateNames ==
    {"NONE", "LOADING", "ALIVE", "ALIVE_CRITICAL", "DISCONNECTED", "MURDERED", "ESCAPED"}
        \subseteq States
BY DEF States, Alive, Out

LEMMA SetStateType ==
    ASSUME TypeOK, NEW p \in Players, NEW s \in States, SetState(p, s)
    PROVE  state_' \in [Players -> States] /\ wasOut' \subseteq Players
BY DEF TypeOK, SetState

LEMMA TypeStep == TypeOK /\ Filled /\ [Next]_vars => TypeOK'
<1> SUFFICES ASSUME TypeOK, Filled, [Next]_vars PROVE TypeOK'
    OBVIOUS
<1>0. pc' \in [Actors -> Places]
    BY PcStep
<1> USE <1>0, ActorsDistinct DEF TypeOK, sessionVars, flagVars, timerVars, recvVars, histVars
<1>1. CASE Begin
  <2>1. Head(tasks) \in Tasks /\ Tail(tasks) \in Seq(Tasks)
    BY <1>1, HeadTailProperties DEF Begin
  <2>2. Head(tasks).player \in Players
    BY <2>1 DEF Tasks
  <2> QED BY <1>1, <2>1, <2>2 DEF Begin
<1>2. CASE InitEnter \/ InitAssign
  <2>1. NextIndex \in Players
    <3>1. PICK n \in 0 .. MAX_PLAYER_NUMBER : assigned = 0 .. n - 1 /\ n < MAX_PLAYER_NUMBER
      BY <1>2 DEF Filled, InitEnter, InitAssign, At
    <3>2. NextIndex = n
      BY <3>1, FS_Interval, PlayerCount DEF NextIndex
    <3> QED BY <3>1, <3>2, PlayerCount DEF Players
  <2> QED BY <1>2, <2>1 DEF InitEnter, InitAssign
<1>3. CASE InitArm \/ ReceiveCheck \/ ReceiveSend \/ ReadyCheck \/ StartTimer \/ StartTick \/ StartDone
  <2>1. CASE InitArm \/ StartDone
    BY <2>1 DEF InitArm, StartDone
  <2>2. CASE ReceiveCheck \/ ReceiveSend \/ ReadyCheck
    BY <2>2 DEF ReceiveCheck, ReceiveSend, ReadyCheck
  <2>3. CASE StartTimer \/ StartTick
    BY <2>3 DEF StartTimer, StartTick
  <2> QED BY <1>3, <2>1, <2>2, <2>3
<1>4. CASE ReceiveStore \/ ReadyStore
  <2>1. state_' \in [Players -> States] /\ wasOut' \subseteq Players
    BY <1>4, SetStateType, StateNames DEF ReceiveStore, ReadyStore
  <2> QED BY <1>4, <2>1 DEF ReceiveStore, ReadyStore
<1>5. ASSUME NEW a \in {Mailbox} \cup {Disc(p) : p \in Players}, End(a) PROVE TypeOK'
  <2>1. CASE EndExchange(a)
    BY <2>1 DEF EndExchange
  <2>2. CASE EndTimers(a)
    BY <2>2 DEF EndTimers
  <2>3. CASE PlayerBackToRoom(a) \/ EndPost(a)
    BY <2>3 DEF PlayerBackToRoom, EndPost, ProcessLeaveMatch
  <2> QED BY <1>5, <2>1, <2>2, <2>3 DEF End
<1>6. ASSUME NEW p \in Players, Handle(p) \/ InstallCCTV(p) PROVE TypeOK'
  <2>1. CASE Handle(p)
    <3>1. packets' \in [Players -> Nat]
      BY <2>1 DEF Handle
    <3> QED BY <2>1, <3>1 DEF Handle
  <2>2. CASE InstallCCTV(p)
    BY <2>2 DEF InstallCCTV
  <2> QED BY <1>6, <2>1, <2>2
<1>7. ASSUME NEW p \in Players, NEW kind \in {"ReadyToReceive", "ReadyToStart"}, Post(p, kind)
      PROVE  TypeOK'
  <2>1. Append(tasks, Task(kind, p)) \in Seq(Tasks)
    BY AppendProperties DEF Task, Tasks
  <2> QED BY <1>7, <2>1 DEF Post
<1>8. ASSUME NEW p \in Players, \/ GoneStore(p) \/ GoneLeave(p)
                                \/ \E i \in Players : LeaveBegin(p, i)
                                \/ \E f \in Fugitives : EscapeBegin(p, f)
      PROVE  TypeOK'
  <2>1. CASE GoneStore(p)
    <3>1. fugitive[p] \in Players
      OBVIOUS
    <3>2. state_' \in [Players -> States] /\ wasOut' \subseteq Players
      BY <2>1, <3>1, SetStateType, StateNames DEF GoneStore
    <3> QED BY <2>1, <3>2 DEF GoneStore
  <2>2. CASE GoneLeave(p)
    BY <2>2 DEF GoneLeave, ProcessLeaveMatch
  <2>3. ASSUME NEW i \in Players, LeaveBegin(p, i) PROVE TypeOK'
    BY <2>3 DEF LeaveBegin
  <2>4. ASSUME NEW f \in Fugitives, EscapeBegin(p, f) PROVE TypeOK'
    <3>1. fugitive' \in [Players -> Players]
      BY <2>4 DEF EscapeBegin, Fugitives
    <3> QED BY <2>4, <3>1 DEF EscapeBegin
  <2> QED BY <1>8, <2>1, <2>2, <2>3, <2>4
<1>9. CASE (\E f \in Fugitives : HitBegin(f)) \/ HitRead \/ HitStore \/ HitCheck
  <2>0. hit.target \in Players /\ hit.changed \in States
    OBVIOUS
  <2>1. CASE HitRead
    <3>1. kills' \in [Players -> Nat]
      BY <2>0, <2>1 DEF HitRead
    <3>2. hit' \in [target : Players, changed : States]
      BY <2>0, <2>1, StateNames DEF HitRead
    <3> QED BY <2>1, <3>1, <3>2 DEF HitRead
  <2>2. CASE HitStore
    <3>1. state_' \in [Players -> States] /\ wasOut' \subseteq Players
      BY <2>0, <2>2, SetStateType DEF HitStore
    <3> QED BY <2>2, <3>1 DEF HitStore
  <2>3. CASE HitCheck
    BY <2>3, StateNames DEF HitCheck, NoHit, ProcessLeaveMatch
  <2>4. ASSUME NEW f \in Fugitives, HitBegin(f) PROVE TypeOK'
    <3>1. f \in Players /\ state_[f] \in States
      BY DEF Fugitives
    <3>2. hit' \in [target : Players, changed : States]
      BY <2>4, <3>1 DEF HitBegin
    <3> QED BY <2>4, <3>2 DEF HitBegin
  <2> QED BY <1>9, <2>1, <2>2, <2>3, <2>4
<1>10. ASSUME NEW p \in Players, DiscStep(p) PROVE TypeOK'
  <2>1. CASE DiscStore(p)
    <3>1. state_' \in [Players -> States] /\ wasOut' \subseteq Players
      BY <2>1, SetStateType, StateNames DEF DiscStore
    <3> QED BY <2>1, <3>1 DEF DiscStore
  <2>2. CASE DiscCheck(p)
    BY <2>2 DEF DiscCheck, CheckIsNull
  <2>3. CASE DiscSearch(p)
    <3>1. match_' \subseteq Players
      BY <2>3 DEF DiscSearch
    <3> QED BY <2>3, <3>1 DEF DiscSearch
  <2>4. CASE Disconnect(p) \/ DiscLeave(p)
    BY <2>4 DEF Disconnect, DiscLeave, ProcessLeaveMatch
  <2> QED BY <1>10, <2>1, <2>2, <2>3, <2>4 DEF DiscStep
<1>11. CASE FireTimeOut \/ FireTick \/ Clock
  <2>1. \A kind \in {"StartTimeOut", "Tick"} : Append(tasks, Task(kind, CHASER_INDEX)) \in Seq(Tasks)
    BY AppendProperties DEF Task, Tasks
  <2> QED BY <1>11, <2>1 DEF FireTimeOut, FireTick, Clock
<1>12. CASE UNCHANGED vars
    BY <1>12 DEF vars
<1> QED BY <1>1, <1>2, <1>3, <1>4, <1>5, <1>6, <1>7, <1>8, <1>9, <1>10, <1>11, <1>12
        DEF Next, RunTask, Packet, HandlePacket, OnDisconnect, DiscStep

-----------------------------------------------------------------------------
\* Goto moves one actor and leaves the others where they are.
LEMMA GotoMoves ==
    ASSUME TypeOK, NEW a \in Actors, NEW there, Goto(a, there)
    PROVE  pc'[a] = there /\ \A b \in Actors : b # a => pc'[b] = pc[b]
BY DEF TypeOK, Goto

\* What a thread other than the mailbox does to what the mailbox relies on.
OtherStep ==
    \/ FireTimeOut \/ FireTick \/ Clock \/ UNCHANGED vars
    \/ \E p \in Players : RecvStep(p) \/ DiscStep(p) \/ End(Disc(p))

LEMMA MailboxStays ==
    ASSUME TypeOK, OtherStep
    PROVE  /\ pc'[Mailbox] = pc[Mailbox]
           /\ assigned' = assigned /\ isMatchStarted_' = isMatchStarted_ /\ readied' = readied
           /\ tasks' = tasks \/ \E t \in Tasks : tasks' = Append(tasks, t) /\ t.kind # "Init"
<1> DEFINE Q == /\ pc'[Mailbox] = pc[Mailbox]
                /\ assigned' = assigned /\ isMatchStarted_' = isMatchStarted_ /\ readied' = readied
                /\ tasks' = tasks \/ \E t \in Tasks : tasks' = Append(tasks, t) /\ t.kind # "Init"
<1> USE ActorsDistinct DEF flagVars, histVars, timerVars
<1>1. ASSUME NEW p \in Players, RecvStep(p) PROVE Q
  <2>1. \A kind \in {"ReadyToReceive", "ReadyToStart"} :
            Task(kind, p) \in Tasks /\ Task(kind, p).kind # "Init"
    BY DEF Task, Tasks
  <2>2. pc'[Mailbox] = pc[Mailbox]
    BY <1>1, RecvFrame, GotoMoves
  <2> QED BY <1>1, <2>1, <2>2, RecvFrame DEF Posted
<1>2. CASE FireTimeOut \/ FireTick \/ Clock
  <2>1. \A kind \in {"StartTimeOut", "Tick"} :
            Task(kind, CHASER_INDEX) \in Tasks /\ Task(kind, CHASER_INDEX).kind # "Init"
    BY DEF Task, Tasks
  <2> QED BY <1>2, <2>1 DEF FireTimeOut, FireTick, Clock
<1>3. ASSUME NEW p \in Players, DiscStep(p) PROVE Q
  <2>1. pc'[Mailbox] = pc[Mailbox]
    BY <1>3, DiscFrame, GotoMoves
  <2> QED BY <1>3, <2>1, DiscFrame
<1>4. ASSUME NEW p \in Players, End(Disc(p)) PROVE Q
    BY <1>4, GotoMoves DEF End, EndExchange, EndTimers, PlayerBackToRoom, EndPost
<1>5. CASE UNCHANGED vars
    BY <1>5 DEF vars
<1> QED BY <1>1, <1>2, <1>3, <1>4, <1>5 DEF OtherStep

\* A step is the mailbox's, or another thread's.
LEMMA NextIsOther == [Next]_vars => RunTask \/ OtherStep
BY DEF Next, OtherStep, RecvStep, DiscStep, OnDisconnect

LEMMA FilledStep == IInv /\ [Next]_vars => Filled' /\ OneInit'
<1> SUFFICES ASSUME IInv, [Next]_vars PROVE Filled' /\ OneInit'
    OBVIOUS
<1> USE ActorsDistinct DEF At, histVars, timerVars, sessionVars, flagVars
<1>0. TypeOK /\ Filled /\ OneInit
    BY DEF IInv
<1>1. CASE Begin
  <2>1. pc'[Mailbox] = Entry(Head(tasks)) /\ assigned' = assigned /\ tasks' = Tail(tasks)
    BY <1>0, <1>1, GotoMoves DEF Begin
  <2>2. tasks \in Seq(Tasks) /\ tasks # <<>> /\ Head(tasks) = tasks[1]
    BY <1>0, <1>1 DEF Begin, TypeOK
  <2>3. \A i \in DOMAIN tasks' : tasks'[i] = tasks[i + 1] /\ i + 1 \in DOMAIN tasks /\ i + 1 # 1
    BY <2>1, <2>2
  <2>4. OneInit'
    BY <1>0, <2>3 DEF OneInit
  <2>5. pc'[Mailbox] \in {"enter", "assign"} => assigned = {}
    <3>1. pc'[Mailbox] \in {"enter", "assign"} => Head(tasks).kind = "Init"
      BY <2>1 DEF Entry
    <3>2. 1 \in DOMAIN tasks
      BY <2>2
    <3> QED BY <1>0, <2>2, <3>1, <3>2 DEF OneInit
  <2>6. Filled'
    <3>1. PICK n \in 0 .. MAX_PLAYER_NUMBER : assigned = 0 .. n - 1
      BY <1>0 DEF Filled
    <3>2. assigned = {} => n = 0
      BY <3>1
    <3>3. pc'[Mailbox] \in {"enter", "assign"} => n < MAX_PLAYER_NUMBER
      BY <2>5, <3>2, PlayerCount
    <3>4. assigned' = 0 .. n - 1
      BY <2>1, <3>1
    <3> QED BY <3>1, <3>3, <3>4 DEF Filled
  <2> QED BY <2>4, <2>6
<1>2. CASE InitEnter
  <2>1. pc[Mailbox] = "enter" /\ pc'[Mailbox] = "assign" /\ assigned' = assigned /\ tasks' = tasks
    BY <1>0, <1>2, GotoMoves DEF InitEnter
  <2> QED BY <1>0, <2>1 DEF Filled, OneInit
<1>3. CASE InitAssign
  <2>1. PICK n \in 0 .. MAX_PLAYER_NUMBER : assigned = 0 .. n - 1 /\ n < MAX_PLAYER_NUMBER
    BY <1>0, <1>3 DEF Filled, InitAssign
  <2>2. NextIndex = n
    BY <2>1, FS_Interval, PlayerCount DEF NextIndex
  <2>3. assigned' = 0 .. (n + 1) - 1 /\ n + 1 \in 0 .. MAX_PLAYER_NUMBER
    BY <1>3, <2>1, <2>2, PlayerCount DEF InitAssign
  <2>4. pc'[Mailbox] \in {"enter", "assign"} => n + 1 < MAX_PLAYER_NUMBER
    <3>1. pc'[Mailbox] = IF n + 1 \in Players THEN "enter" ELSE "arm"
      BY <1>0, <1>3, <2>2, GotoMoves DEF InitAssign
    <3> QED BY <3>1, <2>1, PlayerCount DEF Players
  <2>5. pc[Mailbox] = "assign" /\ tasks' = tasks
    BY <1>3 DEF InitAssign
  <2> QED BY <1>0, <2>3, <2>4, <2>5 DEF Filled, OneInit
<1>4. ASSUME pc'[Mailbox] \in {"enter", "assign"} => pc[Mailbox] = pc'[Mailbox],
             pc[Mailbox] = "idle" => pc'[Mailbox] = "idle",
             assigned' = assigned,
             \/ tasks' = tasks
             \/ \E t \in Tasks : tasks' = Append(tasks, t) /\ t.kind # "Init"
      PROVE  Filled' /\ OneInit'
  <2>1. Filled'
    BY <1>0, <1>4 DEF Filled
  <2>2. \A i \in DOMAIN tasks' : tasks'[i].kind = "Init" => i \in DOMAIN tasks /\ tasks'[i] = tasks[i]
    <3>1. tasks \in Seq(Tasks)
      BY <1>0 DEF TypeOK
    <3>2. CASE tasks' = tasks
      BY <3>2
    <3>3. ASSUME NEW t \in Tasks, tasks' = Append(tasks, t), t.kind # "Init"
          PROVE  \A i \in DOMAIN tasks' : tasks'[i].kind = "Init"
                                             => i \in DOMAIN tasks /\ tasks'[i] = tasks[i]
      <4>1. /\ Len(tasks') = Len(tasks) + 1
            /\ \A i \in 1 .. Len(tasks) : tasks'[i] = tasks[i]
            /\ tasks'[Len(tasks) + 1] = t
        BY <3>1, <3>3, AppendProperties
      <4>2. Len(tasks) \in Nat /\ DOMAIN tasks = 1 .. Len(tasks) /\ DOMAIN tasks' = 1 .. Len(tasks) + 1
        BY <3>1, <3>3, <4>1, AppendProperties, LenProperties
      <4> QED BY <3>3, <4>1, <4>2
    <3> QED BY <1>4, <3>2, <3>3
  <2> QED BY <1>0, <1>4, <2>1, <2>2 DEF OneInit
<1>5. CASE OtherStep
    BY <1>0, <1>4, <1>5, MailboxStays
<1>6. CASE InitArm \/ ReceiveStore \/ ReceiveCheck \/ ReceiveSend \/ ReadyStore \/ ReadyCheck
           \/ StartTimer \/ StartTick \/ StartDone
  <2>1. pc[Mailbox] # "idle" /\ pc'[Mailbox] \notin {"enter", "assign"}
    BY <1>0, <1>6, GotoMoves DEF InitArm, ReceiveStore, ReceiveCheck, ReceiveSend, ReadyStore,
       ReadyCheck, StartTimer, StartTick, StartDone
  <2>2. assigned' = assigned /\ tasks' = tasks
    BY <1>6 DEF InitArm, ReceiveStore, ReceiveCheck, ReceiveSend, ReadyStore, ReadyCheck,
       StartTimer, StartTick, StartDone
  <2> QED BY <1>4, <2>1, <2>2
<1>7. CASE End(Mailbox)
  <2>1. pc[Mailbox] # "idle" /\ pc'[Mailbox] \notin {"enter", "assign"}
    BY <1>0, <1>7, GotoMoves, EndActor DEF End, EndExchange, EndTimers, PlayerBackToRoom, EndPost
  <2>2. assigned' = assigned /\ tasks' = tasks
    BY <1>7 DEF End, EndExchange, EndTimers, PlayerBackToRoom, EndPost
  <2> QED BY <1>4, <2>1, <2>2
<1> QED BY <1>1, <1>2, <1>3, <1>5, <1>6, <1>7, NextIsOther DEF RunTask

LEMMA OneEnderStep == TypeOK /\ OneEnder /\ [Next]_vars => OneEnder'
<1> SUFFICES ASSUME TypeOK, OneEnder, [Next]_vars PROVE OneEnder'
    OBVIOUS
<1> USE ActorsDistinct DEF At, histVars, timerVars, sessionVars, flagVars
<1>1. ASSUME NEW a \in Actors, NEW there, Goto(a, there), there \notin {"timers", "back", "post"},
             isMatchEnded_' = isMatchEnded_, endMatches' = endMatches
      PROVE  OneEnder'
    BY <1>1, GotoMoves DEF OneEnder, Ending
<1>2. ASSUME pc' = pc, isMatchEnded_' = isMatchEnded_, endMatches' = endMatches
      PROVE  OneEnder'
    BY <1>2 DEF OneEnder, Ending
<1>3. CASE Begin
  <2>1. Entry(Head(tasks)) \notin {"timers", "back", "post"}
    BY DEF Entry
  <2>2. Goto(Mailbox, Entry(Head(tasks))) /\ isMatchEnded_' = isMatchEnded_ /\ endMatches' = endMatches
    BY <1>3 DEF Begin
  <2> QED BY <1>1, <2>1, <2>2
<1>4. CASE \/ InitEnter \/ InitAssign \/ InitArm \/ ReceiveStore \/ ReceiveCheck \/ ReceiveSend
           \/ ReadyStore \/ ReadyCheck \/ StartTimer \/ StartTick \/ StartDone
  <2>1. \E there : Goto(Mailbox, there) /\ there \notin {"timers", "back", "post"}
    BY <1>4 DEF InitEnter, InitAssign, InitArm, ReceiveStore, ReceiveCheck, ReceiveSend,
       ReadyStore, ReadyCheck, StartTimer, StartTick, StartDone
  <2>2. isMatchEnded_' = isMatchEnded_ /\ endMatches' = endMatches
    BY <1>4 DEF InitEnter, InitAssign, InitArm, ReceiveStore, ReceiveCheck, ReceiveSend,
       ReadyStore, ReadyCheck, StartTimer, StartTick, StartDone
  <2> QED BY <1>1, <2>1, <2>2
<1>5. ASSUME NEW a \in {Mailbox} \cup {Disc(p) : p \in Players}, End(a) PROVE OneEnder'
  <2>0. a \in Actors /\ After(a) \notin {"timers", "back", "post"} /\ endMatches \in Nat
    BY EndActor DEF TypeOK
  <2>1. CASE EndExchange(a)
    <3>1. CASE isMatchEnded_
      BY <1>1, <2>0, <2>1, <3>1 DEF EndExchange
    <3>2. CASE ~isMatchEnded_
      <4>1. /\ \A b \in Actors : ~Ending(b)
            /\ endMatches = 0
        BY <2>0, <3>2 DEF OneEnder
      <4>2. isMatchEnded_' /\ endMatches' = 0 /\ Goto(a, "timers")
        BY <2>1, <3>2, <4>1 DEF EndExchange
      <4> QED BY <2>0, <4>1, <4>2, GotoMoves DEF OneEnder, Ending
    <3> QED BY <3>1, <3>2
  <2>2. CASE EndTimers(a) \/ PlayerBackToRoom(a)
    <3>1. Ending(a) /\ isMatchEnded_' = isMatchEnded_ /\ endMatches' = endMatches
      BY <2>2 DEF EndTimers, PlayerBackToRoom, Ending
    <3>2. Goto(a, pc'[a])
      BY <2>0, <2>2, GotoMoves DEF EndTimers, PlayerBackToRoom
    <3> QED BY <2>0, <3>1, <3>2, GotoMoves DEF OneEnder, Ending
  <2>3. CASE EndPost(a)
    <3>1. Ending(a) /\ Goto(a, After(a)) /\ isMatchEnded_' = isMatchEnded_ /\ endMatches' = endMatches + 1
      BY <2>3 DEF EndPost, Ending
    <3>2. isMatchEnded_ /\ endMatches = 0 /\ \A b \in Actors : Ending(b) => a = b
      BY <2>0, <3>1 DEF OneEnder
    <3>3. \A b \in Actors : ~Ending(b)'
      BY <2>0, <3>1, <3>2, GotoMoves DEF Ending
    <3> QED BY <3>1, <3>2, <3>3 DEF OneEnder
  <2> QED BY <1>5, <2>1, <2>2, <2>3 DEF End
<1>6. ASSUME NEW p \in Players, RecvStep(p) PROVE OneEnder'
    BY <1>1, <1>6, RecvFrame DEF RecvPlaces
<1>7. ASSUME NEW p \in Players, DiscStep(p) PROVE OneEnder'
    BY <1>1, <1>7, DiscFrame DEF DiscPlaces
<1>8. CASE FireTimeOut \/ FireTick \/ Clock \/ UNCHANGED vars
    BY <1>2, <1>8 DEF FireTimeOut, FireTick, Clock, vars
<1> QED BY <1>3, <1>4, <1>5, <1>6, <1>7, <1>8, NextIsOther DEF RunTask, OtherStep

-----------------------------------------------------------------------------
\* The steps of a hit, and the step that makes a player alive, are the only
\* ones that the facts about readiness and death need to look at closely.
HitStep == (\E f \in Fugitives : HitBegin(f)) \/ HitRead \/ HitStore \/ HitCheck
HitPlaces == {"hit", "hitStore", "hitCheck"}

Calm ==
    /\ hit' = hit /\ kills' = kills /\ readied' = readied
    /\ pc'[Chaser] \in HitPlaces => pc'[Chaser] = pc[Chaser]
    /\ pc[Chaser] = "hitStore" => pc'[Chaser] = "hitStore"
    /\ isMatchStarted_ => isMatchStarted_'
    /\ \A p \in Players : state_'[p] \in Alive => state_[p] \in Alive

LEMMA CalmStep ==
    ASSUME TypeOK, [Next]_vars, ~ReadyStore, ~HitStep
    PROVE  Calm
<1> USE ActorsDistinct DEF At, histVars, timerVars, sessionVars, flagVars, HitPlaces
<1>1. ASSUME NEW p \in Players, NEW s \in {"LOADING", "DISCONNECTED", "ESCAPED"}, SetState(p, s)
      PROVE  \A q \in Players : state_'[q] \in Alive => state_[q] \in Alive
    BY <1>1 DEF SetState, TypeOK, Alive
<1>2. caller \in Players
    BY DEF TypeOK
<1>3. CASE Begin
    BY <1>3, GotoMoves DEF Begin, Calm
<1>4. CASE InitEnter \/ InitAssign \/ InitArm \/ ReceiveCheck \/ ReceiveSend
  <2>1. pc'[Chaser] = pc[Chaser]
    BY <1>4, GotoMoves DEF InitEnter, InitAssign, InitArm, ReceiveCheck, ReceiveSend
  <2> QED BY <1>4, <2>1 DEF InitEnter, InitAssign, InitArm, ReceiveCheck, ReceiveSend, Calm
<1>5. CASE ReadyCheck \/ StartTimer \/ StartTick \/ StartDone
  <2>1. pc'[Chaser] = pc[Chaser]
    BY <1>5, GotoMoves DEF ReadyCheck, StartTimer, StartTick, StartDone
  <2> QED BY <1>5, <2>1 DEF ReadyCheck, StartTimer, StartTick, StartDone, Calm
<1>6. CASE ReceiveStore
    BY <1>1, <1>2, <1>6, GotoMoves DEF ReceiveStore, Calm
<1>7. ASSUME NEW a \in {Mailbox} \cup {Disc(p) : p \in Players}, End(a) PROVE Calm
  <2>1. pc'[Chaser] = pc[Chaser]
    BY <1>7, EndActor, GotoMoves DEF End, EndExchange, EndTimers, PlayerBackToRoom, EndPost
  <2> QED BY <1>7, <2>1 DEF End, EndExchange, EndTimers, PlayerBackToRoom, EndPost, Calm
<1>8. ASSUME NEW p \in Players, RecvStep(p) PROVE Calm
  <2>1. CASE Handle(p) \/ InstallCCTV(p) \/ GoneLeave(p)
    <3>1. \/ pc'[Chaser] = pc[Chaser]
          \/ pc[Chaser] \in {"idle", "packet", "gone"} /\ pc'[Chaser] \in {"idle", "packet"}
      BY <2>1, GotoMoves DEF Handle, InstallCCTV, GoneLeave, Chaser
    <3> QED BY <2>1, <3>1 DEF Handle, InstallCCTV, GoneLeave, Calm
  <2>2. ASSUME NEW kind \in {"ReadyToReceive", "ReadyToStart"}, Post(p, kind) PROVE Calm
    <3>1. pc'[Chaser] = pc[Chaser] \/ (pc[Chaser] = "packet" /\ pc'[Chaser] = "idle")
      BY <2>2, GotoMoves DEF Post, Chaser
    <3> QED BY <2>2, <3>1 DEF Post, Calm
  <2>3. ASSUME NEW i \in Players, LeaveBegin(p, i) PROVE Calm
    <3>1. pc'[Chaser] = pc[Chaser] \/ (pc[Chaser] = "packet" /\ pc'[Chaser] \in {"gone", "leave"})
      BY <2>3, GotoMoves DEF LeaveBegin, Chaser
    <3> QED BY <2>3, <3>1 DEF LeaveBegin, Calm
  <2>4. ASSUME NEW f \in Fugitives, EscapeBegin(p, f) PROVE Calm
    <3>1. pc'[Chaser] = pc[Chaser] \/ (pc[Chaser] = "packet" /\ pc'[Chaser] \in {"idle", "escape"})
      BY <2>4, GotoMoves DEF EscapeBegin, Chaser
    <3> QED BY <2>4, <3>1 DEF EscapeBegin, Calm
  <2>5. CASE GoneStore(p)
    <3>1. \/ pc'[Chaser] = pc[Chaser]
          \/ pc[Chaser] \in {"escape", "leave"} /\ pc'[Chaser] = "gone"
      BY <2>5, GotoMoves DEF GoneStore, Chaser
    <3>2. fugitive[p] \in Players
      BY DEF TypeOK
    <3>3. \A q \in Players : state_'[q] \in Alive => state_[q] \in Alive
      BY <1>1, <2>5, <3>2 DEF GoneStore
    <3> QED BY <2>5, <3>1, <3>3 DEF GoneStore, Calm
  <2> QED BY <1>8, <2>1, <2>2, <2>3, <2>4, <2>5 DEF RecvStep, HandlePacket, Packet, HitStep
<1>9. ASSUME NEW p \in Players, DiscStep(p) PROVE Calm
  <2>1. pc'[Chaser] = pc[Chaser]
    BY <1>9, DiscFrame, GotoMoves
  <2>2. \A q \in Players : state_'[q] \in Alive => state_[q] \in Alive
    BY <1>1, <1>9 DEF DiscStep, Disconnect, DiscSearch, DiscStore, DiscLeave, DiscCheck
  <2> QED BY <1>9, <2>1, <2>2, DiscFrame DEF Calm
<1>10. CASE FireTimeOut \/ FireTick \/ Clock \/ UNCHANGED vars
    BY <1>10 DEF FireTimeOut, FireTick, Clock, vars, Calm
<1> QED BY <1>3, <1>4, <1>5, <1>6, <1>7, <1>8, <1>9, <1>10, NextIsOther DEF RunTask, OtherStep

\* The match's start, as the mailbox sees it.
LEMMA StartFrame ==
    ASSUME TypeOK, [Next]_vars
    PROVE  /\ isMatchStarted_ => isMatchStarted_'
           /\ isMatchStarted_' => isMatchStarted_ \/ pc[Mailbox] = "started"
           /\ pc'[Mailbox] \in {"receive", "allLoading", "alive", "allAlive", "start", "tick", "started"}
                 => \/ isMatchStarted_' = isMatchStarted_ /\ ~isMatchStarted_
                    \/ /\ pc[Mailbox] \in {"receive", "allLoading", "alive", "allAlive", "start",
                                           "tick", "started"}
                       /\ isMatchStarted_' = isMatchStarted_
           /\ pc'[Mailbox] \in {"start", "tick", "started"} =>
                 \/ pc[Mailbox] \in {"start", "tick", "started"}
                 \/ \A p \in Players : state_[p] = "ALIVE"
           /\ tick' = "armed" => tick = "armed" \/ pc[Mailbox] = "tick"
<1> USE ActorsDistinct DEF At, histVars, timerVars, sessionVars, flagVars
<1>1. CASE Begin
  <2>1. Entry(Head(tasks)) \in {"receive", "allLoading", "alive", "allAlive", "start", "tick", "started"}
          => ~isMatchStarted_
    BY DEF Entry
  <2>2. Entry(Head(tasks)) \notin {"start", "tick", "started"}
    BY DEF Entry
  <2> QED BY <1>1, <2>1, <2>2, GotoMoves DEF Begin
<1>2. CASE InitEnter \/ InitAssign \/ InitArm \/ ReceiveStore \/ ReceiveCheck \/ ReceiveSend
    BY <1>2, GotoMoves DEF InitEnter, InitAssign, InitArm, ReceiveStore, ReceiveCheck, ReceiveSend
<1>3. CASE ReadyStore \/ ReadyCheck \/ StartTimer \/ StartTick \/ StartDone
    BY <1>3, GotoMoves DEF ReadyStore, ReadyCheck, StartTimer, StartTick, StartDone
<1>4. CASE End(Mailbox)
    BY <1>4, GotoMoves, EndActor DEF End, EndExchange, EndTimers, PlayerBackToRoom, EndPost
<1>5. CASE OtherStep
  <2>1. pc'[Mailbox] = pc[Mailbox] /\ isMatchStarted_' = isMatchStarted_
    BY <1>5, MailboxStays
  <2>2. tick' = "armed" => tick = "armed"
    <3>1. ASSUME NEW p \in Players, End(Disc(p)) PROVE tick' = "armed" => tick = "armed"
      BY <3>1 DEF End, EndExchange, EndTimers, PlayerBackToRoom, EndPost
    <3>2. ASSUME NEW p \in Players, RecvStep(p) \/ DiscStep(p) PROVE tick' = tick
      BY <3>2, RecvFrame, DiscFrame
    <3>3. ASSUME FireTimeOut \/ FireTick \/ Clock \/ UNCHANGED vars PROVE tick' = tick
      BY <3>3 DEF FireTimeOut, FireTick, Clock, vars
    <3> QED BY <1>5, <3>1, <3>2, <3>3 DEF OtherStep
  <2> QED BY <2>1, <2>2
<1> QED BY <1>1, <1>2, <1>3, <1>4, <1>5, NextIsOther DEF RunTask

LEMMA PhasesStep == TypeOK /\ Phases /\ [Next]_vars => Phases'
<1> SUFFICES ASSUME TypeOK, Phases, [Next]_vars PROVE Phases'
    OBVIOUS
<1> DEFINE Before == {"receive", "allLoading", "alive", "allAlive", "start", "tick", "started"}
<1>1. pc'[Mailbox] \in Before => ~isMatchStarted_'
    BY StartFrame DEF Phases
<1>2. pc'[Chaser] \in HitPlaces => isMatchStarted_' /\ hit'.target \in Fugitives
  <2>1. CASE \E f \in Fugitives : HitBegin(f)
    <3>1. isMatchStarted_ /\ \E f \in Fugitives : hit' = [target |-> f, changed |-> state_[f]]
      BY <2>1 DEF HitBegin
    <3>2. isMatchStarted_'
      BY <3>1, StartFrame
    <3> QED BY <3>1, <3>2
  <2>2. CASE HitRead \/ HitStore \/ HitCheck
    <3>1. isMatchStarted_ /\ hit.target \in Fugitives /\ isMatchStarted_'
      BY <2>2, StartFrame DEF Phases, HitRead, HitStore, HitCheck, At, Chaser
    <3>2. CASE HitRead \/ HitStore
      <4>1. hit'.target = hit.target
        BY <3>2 DEF HitRead, HitStore, TypeOK
      <4> QED BY <3>1, <4>1
    <3>3. CASE HitCheck
      <4>1. pc'[Chaser] = "idle"
        BY <3>3, GotoMoves, ActorsDistinct DEF HitCheck, Chaser
      <4> QED BY <4>1 DEF HitPlaces
    <3> QED BY <2>2, <3>2, <3>3
  <2>3. CASE ReadyStore
    <3>1. pc'[Chaser] = pc[Chaser] /\ hit' = hit /\ isMatchStarted_' = isMatchStarted_
      BY <2>3, GotoMoves, ActorsDistinct DEF ReadyStore, flagVars
    <3> QED BY <3>1 DEF Phases, HitPlaces
  <2>4. CASE ~ReadyStore /\ ~HitStep
    BY <2>4, CalmStep DEF Calm, Phases, HitPlaces
  <2> QED BY <2>1, <2>2, <2>3, <2>4 DEF HitStep
<1> QED BY <1>1, <1>2 DEF Phases, HitPlaces

LEMMA ReadyStep ==
    TypeOK /\ Phases /\ StartsWithEveryone /\ AliveIsReady /\ [Next]_vars
        => StartsWithEveryone' /\ AliveIsReady'
<1> SUFFICES ASSUME TypeOK, Phases, StartsWithEveryone, AliveIsReady, [Next]_vars
             PROVE  StartsWithEveryone' /\ AliveIsReady'
    OBVIOUS
<1> USE ActorsDistinct DEF At
<1>1. readied \subseteq readied' /\ readied' \subseteq Players
  <2>1. CASE ReadyStore
    BY <2>1 DEF ReadyStore, TypeOK
  <2>2. CASE HitStep
    BY <2>2 DEF HitStep, HitBegin, HitRead, HitStore, HitCheck, histVars, TypeOK
  <2>3. CASE ~ReadyStore /\ ~HitStep
    BY <2>3, CalmStep DEF Calm, TypeOK
  <2> QED BY <2>1, <2>2, <2>3
<1>2. readied \subseteq Players
    BY DEF TypeOK
<1>3. pc'[Mailbox] \in {"start", "tick", "started"} => readied' = Players
  <2>1. (\A p \in Players : state_[p] = "ALIVE") => readied = Players
    BY <1>2 DEF AliveIsReady, Alive
  <2> QED BY <1>1, <2>1, StartFrame DEF AliveIsReady
<1>4. StartsWithEveryone'
  <2>1. isMatchStarted_' => readied' = Players
    BY <1>1, StartFrame DEF StartsWithEveryone, AliveIsReady
  <2>2. pc'[Mailbox] = "started" => ~isMatchStarted_'
    BY PhasesStep DEF Phases
  <2> QED BY <2>1, <2>2 DEF StartsWithEveryone
<1>5. /\ \A p \in Players : state_'[p] \in Alive => p \in readied'
      /\ pc'[Chaser] = "hitStore" /\ hit'.changed \in Alive => hit'.target \in readied'
  <2>1. CASE ReadyStore
    <3>1. caller \in Players /\ caller \in readied' /\ pc'[Chaser] = pc[Chaser] /\ hit' = hit
      BY <2>1, GotoMoves DEF ReadyStore, TypeOK
    <3>2. \A p \in Players : p # caller => state_'[p] = state_[p]
      BY <2>1 DEF ReadyStore, SetState, TypeOK
    <3> QED BY <1>1, <3>1, <3>2 DEF AliveIsReady
  <2>2. CASE (\E f \in Fugitives : HitBegin(f)) \/ HitCheck
    <3>1. state_' = state_ /\ readied' = readied /\ pc'[Chaser] # "hitStore"
      BY <2>2, GotoMoves DEF HitBegin, HitCheck, histVars, Chaser
    <3> QED BY <3>1 DEF AliveIsReady
  <2>3. CASE HitRead
    <3>1. hit.target \in Players /\ state_' = state_ /\ hit'.target = hit.target
      BY <2>3 DEF HitRead, TypeOK
    <3>2. hit'.changed \in Alive => state_[hit.target] \in Alive
      BY <2>3, <3>1 DEF HitRead, TypeOK, Alive
    <3> QED BY <1>1, <3>1, <3>2 DEF AliveIsReady
  <2>4. CASE HitStore
    <3>1. pc[Chaser] = "hitStore" /\ pc'[Chaser] = "hitCheck"
      BY <2>4, GotoMoves DEF HitStore, Chaser
    <3>2. \A p \in Players : state_'[p] = IF p = hit.target THEN hit.changed ELSE state_[p]
      BY <2>4 DEF HitStore, SetState, TypeOK
    <3> QED BY <1>1, <3>1, <3>2 DEF AliveIsReady
  <2>5. CASE ~ReadyStore /\ ~HitStep
    BY <1>1, <2>5, CalmStep DEF Calm, AliveIsReady, HitPlaces
  <2> QED BY <2>1, <2>2, <2>3, <2>4, <2>5 DEF HitStep
<1> QED BY <1>3, <1>4, <1>5 DEF AliveIsReady

LEMMA DeathStep ==
    TypeOK /\ Phases /\ KilledOnce /\ DeadStaysDead /\ [Next]_vars
        => KilledOnce' /\ DeadStaysDead'
<1> SUFFICES ASSUME TypeOK, Phases, KilledOnce, DeadStaysDead, [Next]_vars
             PROVE  KilledOnce' /\ DeadStaysDead'
    OBVIOUS
<1> USE ActorsDistinct DEF At
<1>0. /\ Fugitives \subseteq Players
      /\ isMatchStarted_ => isMatchStarted_'
    BY StartFrame DEF Fugitives
<1>1. CASE ReadyStore
  <2>1. kills' = kills /\ ~isMatchStarted_
    BY <1>1 DEF ReadyStore, Phases
  <2>2. \A f \in Fugitives : kills'[f] = 0
    BY <1>0, <2>1 DEF DeadStaysDead, TypeOK
  <2> QED BY <2>2 DEF KilledOnce, DeadStaysDead
<1>2. CASE (\E f \in Fugitives : HitBegin(f)) \/ HitCheck
  <2>1. /\ kills' = kills /\ state_' = state_
        /\ pc[Chaser] # "hitStore" /\ pc'[Chaser] # "hitStore"
    BY <1>2, GotoMoves DEF HitBegin, HitCheck, histVars, Chaser
  <2> QED BY <1>0, <2>1 DEF KilledOnce, DeadStaysDead
<1>3. CASE HitRead
  <2>1. /\ pc[Chaser] = "hit" /\ pc'[Chaser] = "hitStore" /\ isMatchStarted_
        /\ hit.target \in Fugitives /\ state_' = state_ /\ hit'.target = hit.target
    BY <1>3, GotoMoves DEF HitRead, Phases, Chaser, TypeOK
  <2>2. \A f \in Fugitives : kills[f] > 0 => state_[f] \notin Alive
    BY <2>1 DEF DeadStaysDead
  <2>3. \A f \in Fugitives : kills[f] \in Nat
    BY <1>0 DEF TypeOK
  <2>4. CASE state_[hit.target] = "ALIVE_CRITICAL"
    <3>1. kills[hit.target] = 0
      BY <2>1, <2>2, <2>3, <2>4 DEF Alive
    <3>2. hit'.changed = "MURDERED"
      BY <1>3, <2>4 DEF HitRead, TypeOK
    <3>3. \A f \in Fugitives : kills'[f] = IF f = hit.target THEN 1 ELSE kills[f]
      BY <1>0, <1>3, <2>4, <3>1 DEF HitRead, TypeOK
    <3> QED BY <1>0, <2>1, <2>2, <3>2, <3>3 DEF KilledOnce, DeadStaysDead, Alive
  <2>5. CASE state_[hit.target] # "ALIVE_CRITICAL"
    <3>1. kills' = kills
      BY <1>3, <2>5 DEF HitRead
    <3>2. hit'.changed \in Alive => state_[hit.target] \in Alive
      BY <1>3, <2>5 DEF HitRead, TypeOK, Alive
    <3> QED BY <1>0, <2>1, <2>2, <3>1, <3>2 DEF KilledOnce, DeadStaysDead
  <2> QED BY <2>4, <2>5
<1>4. CASE HitStore
  <2>1. /\ kills' = kills /\ pc[Chaser] = "hitStore" /\ pc'[Chaser] # "hitStore"
    BY <1>4, GotoMoves DEF HitStore, Chaser
  <2>2. \A p \in Players : state_'[p] = IF p = hit.target THEN hit.changed ELSE state_[p]
    BY <1>4 DEF HitStore, SetState, TypeOK
  <2> QED BY <1>0, <2>1, <2>2 DEF KilledOnce, DeadStaysDead
<1>5. CASE ~ReadyStore /\ ~HitStep
  <2>1. /\ kills' = kills /\ hit' = hit
        /\ pc'[Chaser] = "hitStore" <=> pc[Chaser] = "hitStore"
        /\ \A p \in Players : state_'[p] \in Alive => state_[p] \in Alive
    BY <1>5, CalmStep DEF Calm, HitPlaces
  <2> QED BY <1>0, <2>1 DEF KilledOnce, DeadStaysDead
<1> QED BY <1>1, <1>2, <1>3, <1>4, <1>5 DEF HitStep

LEMMA TickStep ==
    TypeOK /\ Phases /\ OneEnder /\ TickGone /\ [Next]_vars => TickGone'
<1> SUFFICES ASSUME TypeOK, Phases, OneEnder, TickGone, [Next]_vars PROVE TickGone'
    OBVIOUS
<1> USE ActorsDistinct DEF At, histVars, timerVars, sessionVars, flagVars
<1> DEFINE Past == endMatches > 0 \/ \E a \in Actors : pc[a] \in {"back", "post"}
<1>0. pc \in [Actors -> Places] /\ endMatches \in Nat
    BY DEF TypeOK
<1>1. ASSUME startedFirst' = startedFirst, isMatchEnded_' = isMatchEnded_, endMatches' = endMatches,
             \A a \in Actors : pc'[a] \in {"back", "post"} => pc[a] \in {"back", "post"}
      PROVE  TickGone'
  <2>1. startedFirst' => isMatchStarted_' /\ isMatchEnded_'
    BY <1>1, StartFrame DEF TickGone
  <2>2. Past' => Past
    BY <1>1
  <2>3. startedFirst => pc[Mailbox] # "tick"
    BY DEF TickGone, Phases
  <2> QED BY <1>1, <2>1, <2>2, <2>3, StartFrame DEF TickGone
<1>2. ASSUME NEW a \in {Mailbox} \cup {Disc(p) : p \in Players}, End(a) PROVE TickGone'
  <2>0. a \in Actors /\ After(a) \notin {"back", "post"} /\ isMatchStarted_' = isMatchStarted_
    BY <1>2, EndActor DEF End, EndExchange, EndTimers, PlayerBackToRoom, EndPost
  <2>1. CASE EndExchange(a)
    <3>1. CASE isMatchEnded_
      <4>1. /\ startedFirst' = startedFirst /\ isMatchEnded_' = isMatchEnded_
            /\ endMatches' = endMatches /\ Goto(a, After(a))
        BY <2>1, <3>1 DEF EndExchange
      <4> QED BY <1>1, <2>0, <4>1, GotoMoves
    <3>2. CASE ~isMatchEnded_
      <4>1. endMatches = 0 /\ \A b \in Actors : pc[b] \notin {"back", "post"}
        BY <1>0, <3>2 DEF OneEnder, Ending
      <4>2. /\ isMatchEnded_' /\ startedFirst' = isMatchStarted_ /\ endMatches' = 0
            /\ Goto(a, "timers")
        BY <2>1, <3>2, <4>1 DEF EndExchange
      <4>3. \A b \in Actors : pc'[b] \notin {"back", "post"}
        BY <2>0, <4>1, <4>2, GotoMoves
      <4> QED BY <2>0, <4>2, <4>3 DEF TickGone
    <3> QED BY <3>1, <3>2
  <2>2. CASE EndTimers(a)
    <3>1. tick' # "armed" /\ startedFirst' = startedFirst /\ isMatchEnded_' = isMatchEnded_
      BY <2>2 DEF EndTimers
    <3> QED BY <2>0, <3>1 DEF TickGone
  <2>3. CASE PlayerBackToRoom(a) \/ EndPost(a)
    <3>1. /\ pc[a] \in {"back", "post"}
          /\ startedFirst' = startedFirst /\ isMatchEnded_' = isMatchEnded_ /\ tick' = tick
      BY <2>3 DEF PlayerBackToRoom, EndPost
    <3> QED BY <2>0, <3>1 DEF TickGone
  <2> QED BY <1>2, <2>1, <2>2, <2>3 DEF End
<1>3. CASE Begin
  <2>1. Entry(Head(tasks)) \notin {"back", "post"}
    BY DEF Entry
  <2> QED BY <1>1, <1>3, <2>1, GotoMoves DEF Begin
<1>4. CASE \/ InitEnter \/ InitAssign \/ InitArm \/ ReceiveStore \/ ReceiveCheck \/ ReceiveSend
           \/ ReadyStore \/ ReadyCheck \/ StartTimer \/ StartTick \/ StartDone
  <2>1. /\ startedFirst' = startedFirst /\ isMatchEnded_' = isMatchEnded_ /\ endMatches' = endMatches
    BY <1>4 DEF InitEnter, InitAssign, InitArm, ReceiveStore, ReceiveCheck, ReceiveSend,
       ReadyStore, ReadyCheck, StartTimer, StartTick, StartDone
  <2>2. \A a \in Actors : pc'[a] \in {"back", "post"} => pc[a] \in {"back", "post"}
    BY <1>4, GotoMoves DEF InitEnter, InitAssign, InitArm, ReceiveStore, ReceiveCheck, ReceiveSend,
       ReadyStore, ReadyCheck, StartTimer, StartTick, StartDone
  <2> QED BY <1>1, <2>1, <2>2
<1>5. ASSUME NEW p \in Players, RecvStep(p) PROVE TickGone'
    BY <1>1, <1>5, RecvFrame, GotoMoves DEF RecvPlaces
<1>6. ASSUME NEW p \in Players, DiscStep(p) PROVE TickGone'
    BY <1>1, <1>6, DiscFrame, GotoMoves DEF DiscPlaces
<1>7. CASE FireTimeOut \/ FireTick \/ Clock \/ UNCHANGED vars
    BY <1>1, <1>7 DEF FireTimeOut, FireTick, Clock, vars
<1> QED BY <1>2, <1>3, <1>4, <1>5, <1>6, <1>7, NextIsOther DEF RunTask, OtherStep

-----------------------------------------------------------------------------
\* Whoever gets hold of a player of the match found it in players_, and one on
\* the way out stays on it until it is out.
Holds(p) ==
    /\ ~crashed' => /\ ~crashed
                    /\ pc'[Disc(p)] \in Finding => pc[Disc(p)] \in Finding \/ p \in assigned
                    /\ pc'[Recv(p)] = "leave" => pc[Recv(p)] = "leave" \/ p \in assigned
    /\ Leaving(p) => pc'[Recv(p)] = "gone" \/ pc'[Disc(p)] = "discLeave" \/ p \notin match_'
    /\ p \in match_' => p \in match_ \/ p \notin assigned

\* An actor that stays where it is, or is neither leaving nor about to, keeps that.
LEMMA HoldsFrame ==
    ASSUME TypeOK, NEW a \in Actors, NEW there, Goto(a, there), match_' \subseteq match_, ~crashed,
           ~crashed' /\ there = "leave" => \A p \in Players : a = Recv(p) => p \in assigned,
           ~crashed' /\ there \in Finding =>
              \A p \in Players : a = Disc(p) => pc[a] \in Finding \/ p \in assigned,
           pc[a] \in {"gone", "discLeave"} =>
              \A p \in Players : a \in {Recv(p), Disc(p)} => p \notin match_'
    PROVE  \A p \in Players : Holds(p)
<1> SUFFICES ASSUME NEW p \in Players PROVE Holds(p)
    OBVIOUS
<1>1. pc'[a] = there /\ \A b \in Actors : b # a => pc'[b] = pc[b]
    BY GotoMoves
<1> QED BY <1>1, ActorsDistinct DEF Holds, Leaving

LEMMA HoldsStep == TypeOK /\ Filled /\ [Next]_vars => \A p \in Players : Holds(p)
<1> SUFFICES ASSUME TypeOK, Filled, [Next]_vars PROVE \A p \in Players : Holds(p)
    OBVIOUS
<1> USE ActorsDistinct DEF At, sessionVars, flagVars, timerVars, histVars
<1>0. \A p \in Players : /\ Mailbox \notin {Recv(p), Disc(p)}
                         /\ \A q \in Players : Recv(p) # Disc(q)
    OBVIOUS
<1>1. CASE Begin
  <2>1. Entry(Head(tasks)) \notin {"gone", "discLeave", "leave"} /\ pc[Mailbox] = "idle"
    BY <1>1 DEF Begin, Entry
  <2>2. Goto(Mailbox, Entry(Head(tasks))) /\ match_' = match_ /\ ~crashed
    BY <1>1 DEF Begin
  <2> QED BY <1>0, <2>1, <2>2, HoldsFrame
<1>2. CASE InitEnter
  <2>1. PICK n \in 0 .. MAX_PLAYER_NUMBER : assigned = 0 .. n - 1 /\ n < MAX_PLAYER_NUMBER
    BY <1>2 DEF Filled, InitEnter
  <2>2. NextIndex = n /\ n \notin assigned
    BY <2>1, FS_Interval, PlayerCount DEF NextIndex
  <2>3. match_' = match_ \cup {n} /\ Goto(Mailbox, "assign") /\ ~crashed
    BY <1>2, <2>2 DEF InitEnter
  <2>4. \A b \in Actors : b # Mailbox => pc'[b] = pc[b]
    BY <2>3, GotoMoves
  <2> QED BY <1>0, <2>2, <2>3, <2>4 DEF Holds, Leaving
<1>3. CASE InitAssign \/ InitArm \/ ReceiveStore \/ ReceiveCheck \/ ReceiveSend
           \/ ReadyStore \/ ReadyCheck \/ StartTimer \/ StartTick \/ StartDone
  <2>1. match_' = match_ /\ pc[Mailbox] \notin {"gone", "discLeave"} /\ ~crashed
    BY <1>3 DEF InitAssign, InitArm, ReceiveStore, ReceiveCheck, ReceiveSend, ReadyStore, ReadyCheck,
       StartTimer, StartTick, StartDone
  <2>2. \E there : Goto(Mailbox, there)
    BY <1>3 DEF InitAssign, InitArm, ReceiveStore, ReceiveCheck, ReceiveSend, ReadyStore, ReadyCheck,
       StartTimer, StartTick, StartDone
  <2> QED BY <1>0, <2>1, <2>2, HoldsFrame
<1>4. ASSUME NEW a \in {Mailbox} \cup {Disc(p) : p \in Players}, End(a)
      PROVE  \A p \in Players : Holds(p)
  <2>1. a \in Actors /\ After(a) \notin Finding \cup {"leave"}
    BY EndActor DEF Finding
  <2>2. /\ pc[a] \in {"end", "timers", "back", "post"} /\ match_' \subseteq match_ /\ ~crashed
        /\ \E there : Goto(a, there) /\ there # "leave"
    BY <1>4, <2>1 DEF End, EndExchange, EndTimers, PlayerBackToRoom, EndPost, ProcessLeaveMatch
  <2> QED BY <2>1, <2>2, HoldsFrame DEF Finding
<1>5. ASSUME NEW p \in Players, RecvStep(p) PROVE \A q \in Players : Holds(q)
  <2>1. /\ match_' \subseteq match_ /\ ~crashed
        /\ \E there \in RecvPlaces : Goto(Recv(p), there)
    BY <1>5, RecvFrame
  <2>2. pc[Recv(p)] = "gone" => p \notin match_'
    BY <1>5, <2>1 DEF RecvStep, HandlePacket, Packet, Handle, Post, InstallCCTV, LeaveBegin,
       EscapeBegin, HitBegin, GoneStore, GoneLeave, ProcessLeaveMatch, HitRead, HitStore, HitCheck
  <2>3. ~crashed' /\ pc'[Recv(p)] = "leave" => p \in assigned
    <3>1. ASSUME NEW i \in Players, LeaveBegin(p, i), ~crashed' PROVE p \in assigned
      BY <3>1 DEF LeaveBegin, IsOwn
    <3>2. ASSUME RecvStep(p), ~\E i \in Players : LeaveBegin(p, i) PROVE pc'[Recv(p)] # "leave"
      BY <3>2, GotoMoves DEF RecvStep, HandlePacket, Packet, Handle, Post, InstallCCTV,
         EscapeBegin, HitBegin, GoneStore, GoneLeave, HitRead, HitStore, HitCheck
    <3> QED BY <1>5, <3>1, <3>2
  <2>4. /\ ~crashed' /\ pc'[Recv(p)] = "leave" => \A q \in Players : Recv(p) = Recv(q) => q \in assigned
        /\ pc[Recv(p)] = "gone" => \A q \in Players : Recv(p) \in {Recv(q), Disc(q)} => q \notin match_'
        /\ pc[Recv(p)] # "discLeave"
    BY <1>5, <2>2, <2>3 DEF RecvStep, HandlePacket, Packet, Handle, Post, InstallCCTV, LeaveBegin,
       EscapeBegin, HitBegin, GoneStore, GoneLeave, HitRead, HitStore, HitCheck
  <2> QED BY <2>1, <2>4, GotoMoves, HoldsFrame DEF Finding
<1>6. ASSUME NEW p \in Players, DiscStep(p) PROVE \A q \in Players : Holds(q)
  <2>1. /\ match_' \subseteq match_ /\ ~crashed
        /\ \E there \in DiscPlaces : Goto(Disc(p), there)
    BY <1>6, DiscFrame
  <2>2. /\ pc[Disc(p)] = "discLeave" => p \notin match_'
        /\ pc[Disc(p)] # "gone"
    BY <1>6 DEF DiscStep, Disconnect, DiscSearch, DiscStore, DiscLeave, DiscCheck, ProcessLeaveMatch
  <2>3. ~crashed' /\ pc'[Disc(p)] \in Finding => pc[Disc(p)] \in Finding \/ p \in assigned
    <3>1. CASE DiscSearch(p)
      BY <3>1, GotoMoves DEF DiscSearch, IsOwn, Finding
    <3>2. CASE Disconnect(p)
      BY <3>2, GotoMoves DEF Disconnect, Finding
    <3>3. CASE DiscStore(p) \/ DiscLeave(p) \/ DiscCheck(p)
      BY <3>3 DEF DiscStore, DiscLeave, DiscCheck, Finding
    <3> QED BY <1>6, <3>1, <3>2, <3>3 DEF DiscStep
  <2>4. /\ pc[Disc(p)] = "discLeave" => \A q \in Players : Disc(p) \in {Recv(q), Disc(q)} => q \notin match_'
        /\ \A q \in Players : Disc(p) = Disc(q) => q = p
    BY <2>2
  <2> QED BY <2>1, <2>2, <2>3, <2>4, GotoMoves, HoldsFrame DEF DiscPlaces
<1>7. CASE FireTimeOut \/ FireTick \/ Clock \/ UNCHANGED vars
  <2>1. pc' = pc /\ match_' = match_ /\ crashed' = crashed
    BY <1>7 DEF FireTimeOut, FireTick, Clock, vars
  <2> QED BY <2>1 DEF Holds, Leaving
<1> QED BY <1>1, <1>2, <1>3, <1>4, <1>5, <1>6, <1>7, NextIsOther DEF RunTask, OtherStep

\* Who stores DISCONNECTED: leaving, a disconnection, and a hit that read it.
LEMMA WhoDisconnects ==
    ASSUME TypeOK, [Next]_vars, NEW p \in Players,
           state_'[p] = "DISCONNECTED", state_[p] # "DISCONNECTED"
    PROVE  \/ HitStore /\ hit.target = p /\ hit.changed = "DISCONNECTED"
           \/ pc[Recv(p)] = "leave" /\ pc'[Recv(p)] = "gone"
           \/ pc[Disc(p)] = "disconnect" /\ pc'[Disc(p)] = "discLeave"
<1> DEFINE Goal == \/ HitStore /\ hit.target = p /\ hit.changed = "DISCONNECTED"
                   \/ pc[Recv(p)] = "leave" /\ pc'[Recv(p)] = "gone"
                   \/ pc[Disc(p)] = "disconnect" /\ pc'[Disc(p)] = "discLeave"
<1> SUFFICES Goal
    OBVIOUS
<1>0. \A q \in Players : \A s \in States : SetState(q, s) => q = p /\ s = "DISCONNECTED"
    BY DEF SetState, TypeOK
<1>1. state_' # state_
    OBVIOUS
<1>2. CASE ReceiveStore \/ ReadyStore
  <2>1. caller \in Players /\ (SetState(caller, "LOADING") \/ SetState(caller, "ALIVE"))
    BY <1>2 DEF ReceiveStore, ReadyStore, TypeOK
  <2> QED BY <1>0, <2>1, StateNames
<1>3. ASSUME NEW q \in Players, GoneStore(q) PROVE Goal
  <2>1. pc'[Recv(q)] = "gone"
    BY <1>3, GotoMoves, ActorsDistinct DEF GoneStore
  <2>2. /\ fugitive[q] \in Players
        /\ \/ pc[Recv(q)] = "escape" /\ SetState(fugitive[q], "ESCAPED")
           \/ pc[Recv(q)] = "leave" /\ SetState(q, "DISCONNECTED")
    BY <1>3 DEF GoneStore, At, TypeOK
  <2> QED BY <1>0, <2>1, <2>2, StateNames
<1>4. CASE HitStore
  <2>1. hit.target \in Players /\ hit.changed \in States /\ SetState(hit.target, hit.changed)
    BY <1>4 DEF HitStore, TypeOK
  <2> QED BY <1>0, <1>4, <2>1
<1>5. ASSUME NEW q \in Players, DiscStore(q) PROVE Goal
  <2>1. pc[Disc(q)] = "disconnect" /\ pc'[Disc(q)] = "discLeave" /\ SetState(q, "DISCONNECTED")
    BY <1>5, GotoMoves, ActorsDistinct DEF DiscStore, At
  <2> QED BY <1>0, <2>1, StateNames
<1>6. CASE \/ Begin \/ InitEnter \/ InitAssign \/ InitArm \/ ReceiveCheck \/ ReceiveSend
           \/ ReadyCheck \/ StartTimer \/ StartTick \/ StartDone
           \/ FireTimeOut \/ FireTick \/ Clock \/ UNCHANGED vars \/ HitRead \/ HitCheck
    BY <1>1, <1>6 DEF Begin, InitEnter, InitAssign, InitArm, ReceiveCheck, ReceiveSend, ReadyCheck,
       StartTimer, StartTick, StartDone, FireTimeOut, FireTick, Clock, vars, HitRead, HitCheck
<1>7. ASSUME NEW a \in {Mailbox} \cup {Disc(q) : q \in Players}, End(a) PROVE Goal
    BY <1>1, <1>7 DEF End, EndExchange, EndTimers, PlayerBackToRoom, EndPost
<1>8. ASSUME NEW q \in Players,
             \/ Handle(q) \/ InstallCCTV(q) \/ GoneLeave(q)
             \/ Post(q, "ReadyToReceive") \/ Post(q, "ReadyToStart")
             \/ Disconnect(q) \/ DiscSearch(q) \/ DiscLeave(q) \/ DiscCheck(q)
      PROVE  Goal
    BY <1>1, <1>8 DEF Handle, InstallCCTV, GoneLeave, Post, Disconnect, DiscSearch, DiscLeave, DiscCheck
<1>9. ASSUME NEW q \in Players,
             \/ \E i \in Players : LeaveBegin(q, i)
             \/ \E f \in Fugitives : HitBegin(f) \/ EscapeBegin(q, f)
      PROVE  Goal
    BY <1>1, <1>9 DEF LeaveBegin, HitBegin, EscapeBegin
<1> HIDE DEF Goal
<1> QED BY <1>2, <1>3, <1>4, <1>5, <1>6, <1>7, <1>8, <1>9
        DEF Next, RunTask, Packet, HandlePacket, OnDisconnect

\* Who is about to read players_.
Reading == \/ pc[Mailbox] = "timers"
           \/ \E p \in Players : pc[Recv(p)] = "packet" \/ pc[Disc(p)] \in {"search", "check", "timers"}

\* After the first End nobody takes those steps again but the one in it, and a
\* null player stops the process before it goes on.
LEMMA EndFrame ==
    ASSUME TypeOK, [Next]_vars
    PROVE  /\ \A a \in Actors : pc'[a] = "post" => pc[a] = "post" \/ (pc[a] = "back" /\ PlayerBackToRoom(a))
           /\ \A a \in Actors : pc'[a] = "back" => pc[a] = "back" \/ (crashed' = (assigned # Players))
           /\ endMatches' > 0 => endMatches > 0 \/ \E a \in Actors : pc[a] = "post"
           /\ crashed => UNCHANGED vars
           /\ crashed' => crashed \/ (assigned # Players /\ Reading)
           /\ crashed' => pc'[Mailbox] = pc[Mailbox] \/ pc[Mailbox] = "timers"
<1> DEFINE Goal ==
           /\ \A a \in Actors : pc'[a] = "post" => pc[a] = "post" \/ (pc[a] = "back" /\ PlayerBackToRoom(a))
           /\ \A a \in Actors : pc'[a] = "back" => pc[a] = "back" \/ (crashed' = (assigned # Players))
           /\ endMatches' > 0 => endMatches > 0 \/ \E a \in Actors : pc[a] = "post"
           /\ crashed => UNCHANGED vars
           /\ crashed' => crashed \/ (assigned # Players /\ Reading)
           /\ crashed' => pc'[Mailbox] = pc[Mailbox] \/ pc[Mailbox] = "timers"
<1> SUFFICES Goal
    OBVIOUS
<1> USE ActorsDistinct DEF At, sessionVars, flagVars, timerVars, histVars
<1>0. ASSUME NEW a \in Actors, NEW there, Goto(a, there), there \notin {"back", "post"},
             ~crashed, crashed' = crashed, endMatches' = endMatches
      PROVE  Goal
  <2>1. pc'[a] = there /\ \A b \in Actors : b # a => pc'[b] = pc[b]
    BY <1>0, GotoMoves
  <2> QED BY <1>0, <2>1
<1>1. CASE Begin
  <2>1. Entry(Head(tasks)) \notin {"back", "post"}
    BY DEF Entry
  <2> QED BY <1>0, <1>1, <2>1 DEF Begin
<1>2. CASE \/ InitEnter \/ InitAssign \/ InitArm \/ ReceiveStore \/ ReceiveCheck \/ ReceiveSend
           \/ ReadyStore \/ ReadyCheck \/ StartTimer \/ StartTick \/ StartDone
  <2>1. /\ ~crashed /\ crashed' = crashed /\ endMatches' = endMatches
        /\ \E there : Goto(Mailbox, there) /\ there \notin {"back", "post"}
    BY <1>2 DEF InitEnter, InitAssign, InitArm, ReceiveStore, ReceiveCheck, ReceiveSend,
       ReadyStore, ReadyCheck, StartTimer, StartTick, StartDone
  <2> QED BY <1>0, <2>1
<1>3. ASSUME NEW a \in {Mailbox} \cup {Disc(p) : p \in Players}, End(a) PROVE Goal
  <2>0. a \in Actors /\ After(a) \notin {"back", "post"} /\ endMatches \in Nat
    BY EndActor DEF TypeOK
  <2>1. CASE EndExchange(a)
    <3>1. /\ ~crashed /\ crashed' = crashed /\ endMatches' = endMatches
          /\ \E there : Goto(a, there) /\ there \notin {"back", "post"}
      BY <2>0, <2>1 DEF EndExchange
    <3> QED BY <1>0, <2>0, <3>1
  <2>2. CASE EndTimers(a)
    <3>1. /\ ~crashed /\ crashed' = (assigned # Players) /\ endMatches' = endMatches
          /\ pc[a] = "timers" /\ Goto(a, "back")
      BY <2>2 DEF EndTimers
    <3>2. pc'[a] = "back" /\ \A b \in Actors : b # a => pc'[b] = pc[b]
      BY <2>0, <3>1, GotoMoves
    <3>3. pc[a] = "timers" => Reading
      BY DEF Reading
    <3> QED BY <2>0, <3>1, <3>2, <3>3
  <2>3. CASE PlayerBackToRoom(a)
    <3>1. ~crashed /\ crashed' = crashed /\ endMatches' = endMatches /\ pc[a] = "back" /\ Goto(a, "post")
      BY <2>3 DEF PlayerBackToRoom
    <3>2. pc'[a] = "post" /\ \A b \in Actors : b # a => pc'[b] = pc[b]
      BY <2>0, <3>1, GotoMoves
    <3> QED BY <2>0, <2>3, <3>1, <3>2
  <2>4. CASE EndPost(a)
    <3>1. ~crashed /\ crashed' = crashed /\ pc[a] = "post" /\ Goto(a, After(a))
      BY <2>4 DEF EndPost
    <3>2. pc'[a] = After(a) /\ \A b \in Actors : b # a => pc'[b] = pc[b]
      BY <2>0, <3>1, GotoMoves
    <3> QED BY <2>0, <3>1, <3>2
  <2> QED BY <1>3, <2>1, <2>2, <2>3, <2>4 DEF End
<1>4. ASSUME NEW p \in Players, RecvStep(p) PROVE Goal
  <2>1. PICK there \in RecvPlaces : Goto(Recv(p), there)
    BY <1>4, RecvFrame
  <2>2. pc'[Recv(p)] = there /\ \A b \in Actors : b # Recv(p) => pc'[b] = pc[b]
    BY <2>1, GotoMoves
  <2> QED BY <1>4, <2>2, RecvFrame DEF RecvPlaces, Reading
<1>5. ASSUME NEW p \in Players, DiscStep(p) PROVE Goal
  <2>1. PICK there \in DiscPlaces : Goto(Disc(p), there)
    BY <1>5, DiscFrame
  <2>2. pc'[Disc(p)] = there /\ \A b \in Actors : b # Disc(p) => pc'[b] = pc[b]
    BY <2>1, GotoMoves
  <2> QED BY <1>5, <2>2, DiscFrame DEF DiscPlaces, Reading
<1>6. CASE FireTimeOut \/ FireTick \/ Clock \/ UNCHANGED vars
  <2>1. pc' = pc /\ crashed' = crashed /\ endMatches' = endMatches /\ (crashed => UNCHANGED vars)
    BY <1>6 DEF FireTimeOut, FireTick, Clock, vars
  <2> QED BY <2>1
<1> HIDE DEF Goal
<1> QED BY <1>1, <1>2, <1>3, <1>4, <1>5, <1>6, NextIsOther DEF RunTask, OtherStep

\* Once all players are stored, Init is over and stores no more.
LEMMA AllStored ==
    ASSUME TypeOK, Filled, [Next]_vars, assigned = Players
    PROVE  assigned' = Players /\ pc[Mailbox] \notin {"enter", "assign"}
<1>1. PICK n \in 0 .. MAX_PLAYER_NUMBER : assigned = 0 .. n - 1
                /\ (pc[Mailbox] \in {"enter", "assign"} => n < MAX_PLAYER_NUMBER)
    BY DEF Filled
<1>2. n < MAX_PLAYER_NUMBER => n \in Players /\ n \notin assigned
    BY <1>1, PlayerCount DEF Players
<1>3. pc[Mailbox] \notin {"enter", "assign"}
    BY <1>1, <1>2
<1>4. CASE OtherStep
    BY <1>3, <1>4, MailboxStays
<1>5. CASE \/ Begin \/ InitArm \/ ReceiveStore \/ ReceiveCheck \/ ReceiveSend
           \/ ReadyStore \/ ReadyCheck \/ StartTimer \/ StartTick \/ StartDone
    BY <1>3, <1>5 DEF Begin, InitArm, ReceiveStore, ReceiveCheck, ReceiveSend,
       ReadyStore, ReadyCheck, StartTimer, StartTick, StartDone
<1>6. CASE End(Mailbox)
    BY <1>3, <1>6 DEF End, EndExchange, EndTimers, PlayerBackToRoom, EndPost
<1>7. CASE InitEnter \/ InitAssign
    BY <1>3, <1>7 DEF InitEnter, InitAssign, At
<1> QED BY <1>3, <1>4, <1>5, <1>6, <1>7, NextIsOther DEF RunTask

LEMMA InitComesFirstStep ==
    TypeOK /\ Filled /\ InitComesFirst /\ [Next]_vars => InitComesFirst'
<1> SUFFICES ASSUME TypeOK, Filled, InitComesFirst, [Next]_vars PROVE InitComesFirst'
    OBVIOUS
<1> USE ActorsDistinct DEF At
<1>1. CASE assigned = Players
  <2>1. assigned' = Players
    BY <1>1, AllStored
  <2> QED BY <2>1, HoldsStep DEF InitComesFirst, Holds
<1>2. CASE assigned # Players
  <2> DEFINE Before ==
          /\ pc[Mailbox] = "idle" /\ tasks # <<>> /\ tasks[1].kind = "Init"
          /\ assigned = {} /\ match_ = {}
          /\ \A p \in Players : pc[Recv(p)] = "idle" /\ pc[Disc(p)] \in {"idle", "done"}
  <2>1. ~isMatchStarted_ /\ pc[Mailbox] \in {"enter", "assign", "idle"}
    BY <1>2 DEF InitComesFirst
  <2>2. ~isMatchStarted_'
    BY <2>1, StartFrame
  <2>3. assigned \subseteq assigned'
    <3>1. CASE OtherStep
      BY <3>1, MailboxStays
    <3>2. CASE Begin \/ InitEnter \/ InitAssign
      BY <3>2 DEF Begin, InitEnter, InitAssign
    <3>3. CASE ~OtherStep /\ ~Begin /\ ~InitEnter /\ ~InitAssign
      BY <2>1, <3>3, NextIsOther DEF RunTask, InitArm, ReceiveStore, ReceiveCheck, ReceiveSend,
         ReadyStore, ReadyCheck, StartTimer, StartTick, StartDone, End, EndExchange, EndTimers,
         PlayerBackToRoom, EndPost
    <3> QED BY <3>1, <3>2, <3>3
  <2>4. ~crashed' => \A p \in Players : /\ pc'[Disc(p)] \in Finding => p \in assigned'
                                        /\ pc'[Recv(p)] = "leave" => p \in assigned'
    BY <2>3, HoldsStep DEF InitComesFirst, Holds
  <2>5. \/ assigned' = Players
        \/ pc'[Mailbox] \in {"enter", "assign"}
        \/ Before'
    <3>1. CASE Begin
      <4>1. Head(tasks) = tasks[1] /\ tasks[1].kind = "Init"
        BY <1>2, <3>1 DEF Begin, InitComesFirst, TypeOK
      <4>2. Entry(Head(tasks)) = "enter"
        BY <4>1 DEF Entry
      <4> QED BY <3>1, <4>2, GotoMoves DEF Begin
    <3>2. CASE InitEnter
      BY <3>2, GotoMoves DEF InitEnter
    <3>3. CASE InitAssign
      <4>1. PICK n \in 0 .. MAX_PLAYER_NUMBER : assigned = 0 .. n - 1 /\ n < MAX_PLAYER_NUMBER
        BY <3>3 DEF Filled, InitAssign
      <4>2. NextIndex = n
        BY <4>1, FS_Interval, PlayerCount DEF NextIndex
      <4>3. assigned' = 0 .. n
        BY <3>3, <4>1, <4>2, PlayerCount DEF InitAssign
      <4>4. CASE n + 1 \in Players
        BY <3>3, <4>2, <4>4, GotoMoves DEF InitAssign
      <4>5. CASE n + 1 \notin Players
        <5>1. n + 1 = MAX_PLAYER_NUMBER
          BY <4>1, <4>5, PlayerCount DEF Players
        <5> QED BY <4>1, <4>3, <5>1, PlayerCount DEF Players
      <4> QED BY <4>4, <4>5
    <3>4. CASE OtherStep
      <4>1. /\ pc'[Mailbox] = pc[Mailbox] /\ assigned' = assigned
            /\ tasks' = tasks \/ \E t \in Tasks : tasks' = Append(tasks, t)
        BY <3>4, MailboxStays
      <4>2. tasks # <<>> => tasks' # <<>> /\ tasks'[1] = tasks[1]
        <5>1. tasks \in Seq(Tasks)
          BY DEF TypeOK
        <5>2. ASSUME NEW t \in Tasks, tasks' = Append(tasks, t), tasks # <<>>
              PROVE  tasks' # <<>> /\ tasks'[1] = tasks[1]
          <6>1. Len(tasks) \in Nat /\ Len(tasks) # 0
            BY <5>1, <5>2, EmptySeq, LenProperties
          <6>2. /\ Len(tasks') = Len(tasks) + 1
                /\ \A i \in 1 .. Len(tasks) : tasks'[i] = tasks[i]
            BY <5>1, <5>2, AppendProperties
          <6>3. 1 \in 1 .. Len(tasks) /\ Len(tasks') # 0
            BY <6>1, <6>2
          <6> QED BY <6>2, <6>3
        <5> QED BY <4>1, <5>2
      <4>3. Before => /\ match_' = {}
                      /\ \A p \in Players : pc'[Recv(p)] = "idle" /\ pc'[Disc(p)] \in {"idle", "done"}
        <5> SUFFICES ASSUME Before
                     PROVE  /\ match_' = {}
                            /\ \A p \in Players : pc'[Recv(p)] = "idle" /\ pc'[Disc(p)] \in {"idle", "done"}
          OBVIOUS
        <5>1. \A p \in Players : ~RecvStep(p) /\ ~End(Disc(p))
          BY DEF RecvStep, HandlePacket, Packet, Handle, Post, InstallCCTV, LeaveBegin, EscapeBegin,
             HitBegin, GoneStore, GoneLeave, HitRead, HitStore, HitCheck, End, EndExchange, EndTimers,
             PlayerBackToRoom, EndPost
        <5>2. ASSUME NEW p \in Players, DiscStep(p) PROVE Goto(Disc(p), "done") /\ match_' = match_
          BY <5>2 DEF DiscStep, Disconnect, DiscSearch, DiscStore, DiscLeave, DiscCheck
        <5>3. ASSUME FireTimeOut \/ FireTick \/ Clock \/ UNCHANGED vars
              PROVE  pc' = pc /\ match_' = match_
          BY <5>3 DEF FireTimeOut, FireTick, Clock, vars, sessionVars
        <5> QED BY <3>4, <5>1, <5>2, <5>3, GotoMoves DEF OtherStep
      <4> QED BY <1>2, <4>1, <4>2, <4>3 DEF InitComesFirst
    <3>5. CASE ~OtherStep /\ ~Begin /\ ~InitEnter /\ ~InitAssign
      BY <2>1, <3>5, NextIsOther DEF RunTask, InitArm, ReceiveStore, ReceiveCheck, ReceiveSend,
         ReadyStore, ReadyCheck, StartTimer, StartTick, StartDone, End, EndExchange, EndTimers,
         PlayerBackToRoom, EndPost
    <3> QED BY <3>1, <3>2, <3>3, <3>4, <3>5
  <2> QED BY <2>2, <2>4, <2>5 DEF InitComesFirst
<1> QED BY <1>1, <1>2

LEMMA NullStep ==
    TypeOK /\ Filled /\ InitComesFirst /\ NullOnlyInInit /\ [Next]_vars => NullOnlyInInit'
<1> SUFFICES ASSUME TypeOK, Filled, InitComesFirst, NullOnlyInInit, [Next]_vars, crashed'
             PROVE  pc'[Mailbox] \in {"enter", "assign"}
    BY DEF NullOnlyInInit
<1> USE ActorsDistinct
<1>1. CASE crashed
    BY <1>1, EndFrame DEF NullOnlyInInit, vars
<1>2. CASE ~crashed
  <2>1. assigned # Players /\ Reading
    BY <1>2, EndFrame
  <2>2. pc[Mailbox] \in {"enter", "assign"}
    BY <2>1 DEF InitComesFirst, Reading
  <2> QED BY <2>2, EndFrame
<1> QED BY <1>1, <1>2

LEMMA CrashIsLastStep == TypeOK /\ Filled /\ CrashIsLast /\ [Next]_vars => CrashIsLast'
<1> SUFFICES ASSUME TypeOK, Filled, CrashIsLast, [Next]_vars, ~crashed',
                    endMatches' > 0 \/ \E a \in Actors : pc'[a] \in {"back", "post"}
             PROVE  assigned' = Players
    BY DEF CrashIsLast
<1>1. ~crashed
    BY EndFrame DEF vars
<1>2. assigned = Players
    BY <1>1, EndFrame DEF CrashIsLast
<1> QED BY <1>2, AllStored

LEMMA DisconnectedLeavesStep ==
    TypeOK /\ Filled /\ Phases /\ InitComesFirst /\ DisconnectedLeaves /\ [Next]_vars
        => DisconnectedLeaves'
<1> SUFFICES ASSUME TypeOK, Filled, Phases, InitComesFirst, DisconnectedLeaves, [Next]_vars
             PROVE  DisconnectedLeaves'
    OBVIOUS
<1> USE ActorsDistinct DEF At
\* An obligation to leave a player has now is met or kept by the step.
<1>1. ASSUME NEW p \in Players, p \in assigned, p \in match_ => Leaving(p), p \in match_'
      PROVE  Leaving(p)'
    BY <1>1, HoldsStep DEF Holds, Leaving
<1>2. \A p \in Players : p \in assigned => p \in assigned'
  <2>1. CASE assigned = Players
    BY <2>1, AllStored
  <2>2. CASE InitAssign
    BY <2>2 DEF InitAssign
  <2>3. CASE assigned # Players /\ ~InitAssign
    <3>1. pc[Mailbox] \in {"enter", "assign", "idle"}
      BY <2>3 DEF InitComesFirst
    <3>2. CASE OtherStep
      BY <3>2, MailboxStays
    <3>3. CASE Begin \/ InitEnter
      BY <3>3 DEF Begin, InitEnter
    <3> QED BY <2>3, <3>1, <3>2, <3>3, NextIsOther DEF RunTask, InitArm, ReceiveStore,
        ReceiveCheck, ReceiveSend, ReadyStore, ReadyCheck, StartTimer, StartTick, StartDone, End,
        EndExchange, EndTimers, PlayerBackToRoom, EndPost
  <2> QED BY <2>1, <2>2, <2>3
<1>3. pc[Chaser] = "hitStore" => hit.target \in Players /\ hit.target \in assigned
    BY DEF Phases, InitComesFirst, Fugitives
<1>4. ASSUME NEW p \in Players, state_'[p] = "DISCONNECTED"
      PROVE  p \in assigned' /\ (p \in match_' => Leaving(p)')
  <2>1. CASE state_[p] = "DISCONNECTED"
    BY <1>1, <1>2, <2>1 DEF DisconnectedLeaves
  <2>2. CASE HitStore /\ hit.target = p /\ hit.changed = "DISCONNECTED"
    <3>1. pc[Chaser] = "hitStore"
      BY <2>2 DEF HitStore, Chaser
    <3>2. p \in assigned /\ (p \in match_ => Leaving(p))
      BY <1>3, <2>2, <3>1 DEF DisconnectedLeaves
    <3> QED BY <1>1, <1>2, <3>2
  <2>3. CASE \/ pc[Recv(p)] = "leave" /\ pc'[Recv(p)] = "gone"
             \/ pc[Disc(p)] = "disconnect" /\ pc'[Disc(p)] = "discLeave"
    <3>1. ~crashed
      BY <2>3, EndFrame DEF vars
    <3>2. p \in assigned
      BY <2>3, <3>1 DEF InitComesFirst, Finding
    <3> QED BY <1>2, <2>3, <3>2 DEF Leaving
  <2> QED BY <1>4, <2>1, <2>2, <2>3, WhoDisconnects
<1>5. ASSUME pc'[Chaser] = "hitStore", hit'.changed = "DISCONNECTED", hit'.target \in match_'
      PROVE  Leaving(hit.target)' /\ hit'.target = hit.target
  <2>1. CASE HitRead
    <3>1. hit.target \in Fugitives /\ isMatchStarted_ /\ hit'.target = hit.target
      BY <2>1 DEF HitRead, Phases, Chaser, TypeOK
    <3>2. hit.target \in Players /\ hit.target \in assigned
      BY <3>1 DEF Fugitives, InitComesFirst
    <3>3. state_[hit.target] = "DISCONNECTED"
      BY <1>5, <2>1 DEF HitRead, TypeOK
    <3>4. state_'[hit.target] = "DISCONNECTED"
      BY <2>1, <3>3 DEF HitRead
    <3>5. \A p \in Players : state_'[p] = "DISCONNECTED" /\ p \in match_' => Leaving(p)'
      BY <1>4
    <3>6. match_' = match_ /\ pc'[Chaser] = "hitStore" /\ \A b \in Actors : b # Chaser => pc'[b] = pc[b]
      BY <2>1, GotoMoves DEF HitRead, sessionVars, Chaser
    <3>7. pc[Chaser] = "hit"
      BY <2>1 DEF HitRead, Chaser
    <3>8. Leaving(hit.target)
      BY <1>5, <3>1, <3>2, <3>3, <3>6 DEF DisconnectedLeaves
    <3> QED BY <3>1, <3>2, <3>6, <3>7, <3>8 DEF Leaving
  <2>2. CASE HitStore \/ HitCheck \/ \E f \in Fugitives : HitBegin(f)
    <3>1. pc'[Chaser] # "hitStore"
      BY <2>2, GotoMoves DEF HitStore, HitCheck, HitBegin, Chaser
    <3> QED BY <1>5, <3>1
  <2>3. CASE ReadyStore \/ (~ReadyStore /\ ~HitStep)
    <3>1. hit' = hit /\ pc[Chaser] = "hitStore"
      <4>1. CASE ReadyStore
        BY <1>5, <4>1, GotoMoves DEF ReadyStore
      <4>2. CASE ~ReadyStore /\ ~HitStep
        BY <1>5, <4>2, CalmStep DEF Calm, HitPlaces
      <4> QED BY <2>3, <4>1, <4>2
    <3>2. hit.target \in Players /\ hit.target \in assigned
      BY <1>3, <3>1
    <3>3. hit.target \in match_ => Leaving(hit.target)
      BY <1>5, <3>1 DEF DisconnectedLeaves
    <3>4. Holds(hit.target)
      BY <3>2, HoldsStep
    <3>5. pc'[Recv(hit.target)] = "gone" \/ pc'[Disc(hit.target)] = "discLeave"
      BY <1>5, <3>1, <3>2, <3>3, <3>4 DEF Holds, Leaving
    <3> QED BY <3>1, <3>5 DEF Leaving
  <2> QED BY <2>1, <2>2, <2>3 DEF HitStep
<1> QED BY <1>4, <1>5 DEF DisconnectedLeaves

LEMMA LeftBehindStep ==
    TypeOK /\ Filled /\ CrashIsLast /\ DisconnectedLeaves /\ LeftBehind /\ [Next]_vars
        => LeftBehind'
<1> SUFFICES ASSUME TypeOK, Filled, CrashIsLast, DisconnectedLeaves, LeftBehind, [Next]_vars,
                    ~crashed', endMatches' > 0 \/ \E a \in Actors : pc'[a] = "post",
                    NEW p \in match_'
             PROVE  Leaving(p)'
    BY DEF LeftBehind
<1> USE ActorsDistinct
<1>0. ~crashed
    BY EndFrame DEF vars
<1>1. p \in Players
    BY TypeStep DEF TypeOK
<1>2. \/ endMatches > 0 \/ \E a \in Actors : pc[a] = "post"
      \/ \E a \in Actors : pc[a] = "back" /\ PlayerBackToRoom(a)
    BY EndFrame
<1>3. assigned = Players
    BY <1>0, <1>2 DEF CrashIsLast
<1>4. p \in match_
    BY <1>1, <1>3, HoldsStep DEF Holds
<1>5. Leaving(p)
  <2>1. CASE endMatches > 0 \/ \E a \in Actors : pc[a] = "post"
    BY <1>0, <1>4, <2>1 DEF LeftBehind
  <2>2. ASSUME NEW a \in Actors, PlayerBackToRoom(a) PROVE Leaving(p)
    <3>1. state_[p] = "DISCONNECTED"
      BY <1>1, <2>2 DEF PlayerBackToRoom, ProcessLeaveMatch
    <3> QED BY <1>1, <1>4, <3>1 DEF DisconnectedLeaves
  <2> QED BY <1>2, <2>1, <2>2
<1> QED BY <1>1, <1>5, HoldsStep DEF Holds, Leaving

-----------------------------------------------------------------------------
LEMMA InitIInv == Init => IInv
<1> SUFFICES ASSUME Init PROVE IInv
    OBVIOUS
<1> USE ActorsDistinct
<1>1. TypeOK
  <2>1. tasks \in Seq(Tasks)
    BY DEF Init, Task, Tasks
  <2>2. hit \in [target : Players, changed : States]
    BY StateNames DEF Init, NoHit
  <2>3. state_ \in [Players -> States] /\ pc \in [Actors -> Places]
    BY StateNames DEF Init, Places
  <2> QED BY <2>1, <2>2, <2>3 DEF Init, TypeOK
<1>2. Filled
  <2>1. assigned = 0 .. 0 - 1 /\ pc[Mailbox] = "idle" /\ 0 \in 0 .. MAX_PLAYER_NUMBER
    BY PlayerCount DEF Init
  <2> QED BY <2>1 DEF Filled
<1>3. OneInit
    BY DEF OneInit, Init
<1>4. OneEnder /\ Phases /\ StartsWithEveryone /\ TickGone
    BY DEF OneEnder, Phases, StartsWithEveryone, TickGone, Ending, Init
<1>5. AliveIsReady
    BY DEF AliveIsReady, Init, Alive
<1>6. KilledOnce /\ DeadStaysDead
    BY DEF KilledOnce, DeadStaysDead, Init, Fugitives
<1> QED BY <1>1, <1>2, <1>3, <1>4, <1>5, <1>6 DEF IInv

LEMMA IInvStep == IInv /\ [Next]_vars => IInv'
BY TypeStep, FilledStep, OneEnderStep, PhasesStep, ReadyStep, DeathStep, TickStep DEF IInv

LEMMA Invariance == Spec => []IInv
<1> QED BY InitIInv, IInvStep, PTL DEF Spec

\* The variables have their types; in particular Init never looks for a player
\* beyond the last one.
THEOREM TypeCorrect == Spec => []TypeOK
<1>1. IInv => TypeOK
    BY DEF IInv
<1> QED BY <1>1, Invariance, PTL

\* Room::EndMatch is posted at most once, whoever calls End.
THEOREM EndsOnce == Spec => []EndMatchOnce
<1>1. IInv => EndMatchOnce
    BY DEF IInv, OneEnder, EndMatchOnce
<1> QED BY <1>1, Invariance, PTL

\* The match starts only after every player has reported ready, and Start is
\* never run a second time.
THEOREM StartsReady == Spec => []StartsWithEveryone
<1>1. IInv => StartsWithEveryone
    BY DEF IInv
<1> QED BY <1>1, Invariance, PTL

\* No fugitive is counted as killed twice, whatever disconnections and whatever
\* escapes, sent by any session for any fugitive, store between two hits.
THEOREM DiesOnce == Spec => []KilledOnce
<1>1. IInv => KilledOnce
    BY DEF IInv
<1> QED BY <1>1, Invariance, PTL

\* A match that ends after its start leaves no tick timer behind.
THEOREM TickStopped == Spec => []TickStops
<1>1. IInv => TickStops
    BY DEF IInv, TickGone, TickStops
<1> QED BY <1>1, Invariance, PTL

-----------------------------------------------------------------------------
\* What holds of players that are missing and of players that are left.
LeaveInv ==
    /\ InitComesFirst /\ NullOnlyInInit /\ CrashIsLast
    /\ DisconnectedLeaves /\ LeftBehind

LEMMA InitLeaveInv == Init => LeaveInv
<1> SUFFICES ASSUME Init PROVE LeaveInv
    OBVIOUS
<1>1. /\ pc = [a \in Actors |-> "idle"] /\ endMatches = 0 /\ crashed = FALSE
      /\ isMatchStarted_ = FALSE /\ assigned = {} /\ match_ = {}
      /\ tasks = <<Task("Init", CHASER_INDEX)>>
    BY DEF Init
<1>2. tasks # <<>> /\ tasks[1].kind = "Init"
    BY <1>1 DEF Task
<1>3. InitComesFirst
    BY <1>1, <1>2, ActorsDistinct DEF InitComesFirst, Finding
<1>4. DisconnectedLeaves
    BY <1>1, ActorsDistinct DEF DisconnectedLeaves, Init
<1> QED BY <1>1, <1>3, <1>4 DEF LeaveInv, NullOnlyInInit, CrashIsLast, LeftBehind

LEMMA LeaveInvStep == IInv /\ LeaveInv /\ [Next]_vars => LeaveInv'
BY InitComesFirstStep, NullStep, CrashIsLastStep, DisconnectedLeavesStep, LeftBehindStep
   DEF IInv, LeaveInv

LEMMA LeaveInvariance == Spec => [](IInv /\ LeaveInv)
<1>1. Init => IInv /\ LeaveInv
    BY InitIInv, InitLeaveInv
<1>2. (IInv /\ LeaveInv) /\ [Next]_vars => (IInv /\ LeaveInv)'
    BY IInvStep, LeaveInvStep
<1> QED BY <1>1, <1>2, PTL DEF Spec

\* Whoever reads players_ (a disconnection, End, or the handler of an escape, a
\* camera or leaving that has got hold of the match) finds a null player only
\* while Init is storing the players.
THEOREM NullWhileInit == Spec => []NullOnlyInInit
<1>1. LeaveInv => NullOnlyInInit
    BY DEF LeaveInv
<1> QED BY <1>1, LeaveInvariance, PTL

\* Once a match is over and every handler has returned, no session is left in
\* it: whom PlayerBackToRoom passes over, the disconnected, is taken out by its
\* own handler, and whom another session's escape stored out is not passed over.
THEOREM AllLeave == Spec => []NobodyStays
<1>1. TypeOK /\ LeaveInv => NobodyStays
  <2> SUFFICES ASSUME TypeOK, LeaveInv, endMatches > 0, ~crashed, \A a \in Actors : Idle(a)
               PROVE  match_ = {}
      BY DEF NobodyStays
  <2>1. \A p \in match_ : Leaving(p)
      BY DEF LeaveInv, LeftBehind
  <2>2. ASSUME NEW p \in match_ PROVE FALSE
    <3>1. p \in Players
      BY DEF TypeOK
    <3> QED BY <2>1, <2>2, <3>1, ActorsDistinct DEF Leaving, Idle
  <2> QED BY <2>2
<1>2. IInv => TypeOK
    BY DEF IInv
<1> QED BY <1>1, <1>2, LeaveInvariance, PTL

=============================================================================
