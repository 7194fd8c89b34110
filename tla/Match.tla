------------------------------- MODULE Match -------------------------------
(***************************************************************************)
(* GameServer/Match.{h,cpp}: the life of one match, from Room::StartMatch  *)
(* posting Init to End posting Room::EndMatch.                             *)
(*                                                                         *)
(* Three kinds of actors work on it without a common lock:                 *)
(*   - its mailbox (CommandTaskObject): Init, PlayerReadyToReceive,        *)
(*     PlayerReadyToStart, StartTimeOut and Tick run there one at a time,  *)
(*     in the order they were posted (SerialActor);                        *)
(*   - the IO thread that handles the packets of a session, one packet at  *)
(*     a time: a hit, an escape, leaving, which call the match directly;   *)
(*   - the IO thread that runs the session's OnDisconnect.                 *)
(* They meet in atomics: each player's state_ and three flags of the       *)
(* match. An action is the code between two accesses to those. The last    *)
(* two get hold of the match first (TryGetMatch, match_.lock()) and look   *)
(* at its players later, when the session may already have left it.        *)
(*                                                                         *)
(* Scores, the database records, positions and the packets sent are left   *)
(* out. CheckMatchEnd and the two loops that look for a state are one read *)
(* of all players. After `crashed` (a null shared_ptr of players_ is       *)
(* dereferenced) the process is gone and nothing more happens.             *)
(***************************************************************************)
EXTENDS Naturals, Sequences, FiniteSets

CONSTANTS MAX_PLAYER_NUMBER, \* players; 0 is the chaser (CHASER_INDEX)
          MaxPackets,        \* bound on the packets of each session; 0 is no bound
          MaxTasks,          \* bound: a session posts a task while fewer wait
          MaxClosed          \* bound on the connections that go

ASSUME PlayerCount == MAX_PLAYER_NUMBER \in Nat /\ MAX_PLAYER_NUMBER >= 2
ASSUME Bounds      == /\ MaxPackets \in [0 .. MAX_PLAYER_NUMBER - 1 -> Nat]
                      /\ MaxTasks \in Nat /\ MaxClosed \in Nat

CHASER_INDEX == 0
Players   == 0 .. MAX_PLAYER_NUMBER - 1
Fugitives == Players \ {CHASER_INDEX}

Mailbox == <<"mailbox", CHASER_INDEX>>
Recv(p) == <<"recv", p>>
Disc(p) == <<"disc", p>>
Actors  == {Mailbox} \cup {Recv(p) : p \in Players} \cup {Disc(p) : p \in Players}

Alive  == {"ALIVE", "ALIVE_CRITICAL"}
Out    == {"DISCONNECTED", "MURDERED", "ESCAPED"}
States == {"NONE", "LOADING"} \cup Alive \cup Out

VARIABLES
    state_,       (* Player::state_                                        *)
    assigned,     (* the indices at which players_ is not null             *)
    match_,       (* the sessions whose match_ is this match               *)
    player_,      (* the sessions whose player_ is theirs in this match    *)
    closed,       (* the sessions whose connection is gone                 *)
    isMatchInitialized_, isMatchStarted_, isMatchEnded_,
    tasks,        (* the match's mailbox                                   *)
    caller,       (* the player the running task is about                  *)
    timeOut,      (* the start time-out timer: none, armed, fired, removed *)
    tick,         (* the tick timer: none, armed, removed                  *)
    timeUp,       (* the clock has passed matchEndTick_                    *)
    pc, hit,      (* where each actor is; the hit being handled            *)
    fugitive,     (* the player whom the escape of each session is about   *)
    packets,      (* bound: packets counted, of the sessions with a bound  *)
    crashed,      (* a null player was dereferenced                        *)
    endMatches,   (* history: how often Room::EndMatch was posted          *)
    kills,        (* history: how often each fugitive was killed           *)
    readied,      (* history: who has reported ready to start              *)
    wasOut,       (* history: who has once been stored an Out state        *)
    startedFirst  (* history: the match had started when it ended          *)

sessionVars == <<match_, player_, closed>>
flagVars    == <<isMatchInitialized_, isMatchStarted_, isMatchEnded_>>
timerVars   == <<timeOut, tick, timeUp>>
recvVars    == <<fugitive, packets>>
histVars    == <<endMatches, kills, readied, wasOut, startedFirst>>
vars == <<state_, assigned, sessionVars, flagVars, tasks, caller, timerVars, pc, hit, recvVars,
          crashed, histVars>>

NoHit == [target |-> CHASER_INDEX, changed |-> "NONE"]
Task(kind, p) == [kind |-> kind, player |-> p]
Tasks == [kind : {"Init", "ReadyToReceive", "ReadyToStart", "StartTimeOut", "Tick"},
          player : Players]

Places == {"idle", "enter", "assign", "arm", "receive", "allLoading", "spin", "alive",
           "allAlive", "start", "tick", "started", "packet", "hit", "hitStore", "hitCheck",
           "escape", "leave", "gone", "search", "disconnect", "discLeave", "check", "end",
           "timers", "back", "post", "done"}

TypeOK ==
    /\ state_ \in [Players -> States]
    /\ assigned \subseteq Players /\ match_ \subseteq Players /\ player_ \subseteq Players
    /\ closed \subseteq Players
    /\ isMatchInitialized_ \in BOOLEAN /\ isMatchStarted_ \in BOOLEAN /\ isMatchEnded_ \in BOOLEAN
    /\ tasks \in Seq(Tasks) /\ caller \in Players
    /\ timeOut \in {"none", "armed", "fired", "removed"}
    /\ tick \in {"none", "armed", "removed"} /\ timeUp \in BOOLEAN
    /\ pc \in [Actors -> Places]
    /\ hit \in [target : Players, changed : States]
    /\ fugitive \in [Players -> Players] /\ packets \in [Players -> Nat]
    /\ crashed \in BOOLEAN /\ endMatches \in Nat /\ kills \in [Players -> Nat]
    /\ readied \subseteq Players /\ wasOut \subseteq Players /\ startedFirst \in BOOLEAN

Init ==
    /\ state_ = [p \in Players |-> "NONE"]
    /\ assigned = {} /\ match_ = {} /\ player_ = {} /\ closed = {}
    /\ isMatchInitialized_ = FALSE /\ isMatchStarted_ = FALSE /\ isMatchEnded_ = FALSE
    /\ tasks = <<Task("Init", CHASER_INDEX)>> /\ caller = CHASER_INDEX
    /\ timeOut = "none" /\ tick = "none" /\ timeUp = FALSE
    /\ pc = [a \in Actors |-> "idle"]
    /\ hit = NoHit
    /\ fugitive = [p \in Players |-> CHASER_INDEX] /\ packets = [p \in Players |-> 0]
    /\ crashed = FALSE
    /\ endMatches = 0 /\ kills = [p \in Players |-> 0] /\ readied = {} /\ wasOut = {}
    /\ startedFirst = FALSE

At(a, here)    == ~crashed /\ pc[a] = here
Goto(a, there) == pc' = [pc EXCEPT ![a] = there]
\* What an actor does after End: the mailbox takes its next task, OnDisconnect
\* has nothing left to do.
After(a) == IF a = Mailbox THEN "idle" ELSE "done"

SetState(p, s) ==
    /\ state_' = [state_ EXCEPT ![p] = s]
    /\ wasOut' = IF s \in Out THEN wasOut \cup {p} ELSE wasOut

\* GameSession::ProcessLeaveMatch, under the session's lock.
ProcessLeaveMatch(who) == match_' = match_ \ who /\ player_' = player_ \ who

CheckMatchEnd ==
    \/ state_[CHASER_INDEX] = "DISCONNECTED"
    \/ \A f \in Fugitives : state_[f] \in Out

\* CheckMatchEnd follows a null pointer: it stops at a disconnected chaser.
CheckIsNull ==
    \/ CHASER_INDEX \notin assigned
    \/ state_[CHASER_INDEX] # "DISCONNECTED" /\ Fugitives \ assigned # {}

-----------------------------------------------------------------------------
(* The mailbox.                                                            *)

\* Where a task's code goes after its first reads; back to "idle" if it returns.
Entry(t) ==
    CASE t.kind = "Init" -> "enter"
      [] t.kind = "ReadyToReceive" /\ ~isMatchStarted_ ->
            IF t.player \in player_ THEN "receive" ELSE "allLoading"
      [] t.kind = "ReadyToStart" /\ ~isMatchStarted_ /\ t.player \in player_ -> "alive"
      [] t.kind = "StartTimeOut" /\ ~isMatchStarted_ -> "end"
      [] t.kind = "Tick" /\ ~isMatchEnded_ /\ (timeUp \/ CheckMatchEnd) -> "end"
      [] OTHER -> "idle"

\* The mailbox takes its next task.
Begin ==
    /\ At(Mailbox, "idle")
    /\ tasks # <<>>
    /\ Goto(Mailbox, Entry(Head(tasks)))
    /\ caller' = IF Entry(Head(tasks)) \in {"receive", "alive"} THEN Head(tasks).player ELSE caller
    /\ tasks' = Tail(tasks)
    /\ UNCHANGED <<state_, assigned, sessionVars, flagVars, timerVars, hit, recvVars, crashed,
                   histVars>>

NextIndex == Cardinality(assigned)

\* Init: chaser->ProcessEnterMatch(thisPtr, chaserPlayer), and so on by index.
InitEnter ==
    /\ At(Mailbox, "enter")
    /\ match_' = match_ \cup {NextIndex} /\ player_' = player_ \cup {NextIndex}
    /\ Goto(Mailbox, "assign")
    /\ UNCHANGED <<state_, assigned, closed, flagVars, tasks, caller, timerVars, hit, recvVars,
                   crashed, histVars>>

\* Mutant: the last player is not stored.
InitAssignShort ==
    /\ At(Mailbox, "assign")
    /\ assigned' = assigned \cup {NextIndex}
    /\ Goto(Mailbox, IF NextIndex + 2 \in Players THEN "enter" ELSE "arm")
    /\ UNCHANGED <<state_, sessionVars, flagVars, tasks, caller, timerVars, hit, recvVars,
                   crashed, histVars>>

\* players_[CHASER_INDEX] = chaserPlayer, and so on.
InitAssign ==
    /\ At(Mailbox, "assign")
    /\ assigned' = assigned \cup {NextIndex}
    /\ Goto(Mailbox, IF NextIndex + 1 \in Players THEN "enter" ELSE "arm")
    /\ UNCHANGED <<state_, sessionVars, flagVars, tasks, caller, timerVars, hit, recvVars,
                   crashed, histVars>>

\* Mutant: Init does not say that it is done, and its own mailbox waits for that.
InitArmOnly ==
    /\ At(Mailbox, "arm")
    /\ timeOut' = "armed"
    /\ Goto(Mailbox, "idle")
    /\ UNCHANGED <<state_, assigned, sessionVars, flagVars, tasks, caller, tick, timeUp, hit,
                   recvVars, crashed, histVars>>

\* timeOutHandle_ = AddTimer(START_TIME_OUT, ...); isMatchInitialized_.
InitArm ==
    /\ At(Mailbox, "arm")
    /\ timeOut' = "armed"
    /\ isMatchInitialized_' = TRUE
    /\ Goto(Mailbox, "idle")
    /\ UNCHANGED <<state_, assigned, sessionVars, isMatchStarted_, isMatchEnded_, tasks, caller,
                   tick, timeUp, hit, recvVars, crashed, histVars>>

\* PlayerReadyToReceive: SetState(LOADING), whatever the state was meanwhile.
ReceiveStore ==
    /\ At(Mailbox, "receive")
    /\ SetState(caller, "LOADING")
    /\ caller' = CHASER_INDEX
    /\ Goto(Mailbox, "allLoading")
    /\ UNCHANGED <<assigned, sessionVars, flagVars, tasks, timerVars, hit, recvVars,
                   crashed, endMatches, kills, readied, startedFirst>>

\* All players are loading: wait for Init, then send everybody the match.
ReceiveCheck ==
    /\ At(Mailbox, "allLoading")
    /\ Goto(Mailbox, IF \A p \in Players : state_[p] = "LOADING" THEN "spin" ELSE "idle")
    /\ UNCHANGED <<state_, assigned, sessionVars, flagVars, tasks, caller, timerVars, hit,
                   recvVars, crashed, histVars>>

\* while (isMatchInitialized_.load() == false) yields.
ReceiveSend ==
    /\ At(Mailbox, "spin")
    /\ isMatchInitialized_
    /\ Goto(Mailbox, "idle")
    /\ UNCHANGED <<state_, assigned, sessionVars, flagVars, tasks, caller, timerVars, hit,
                   recvVars, crashed, histVars>>

\* PlayerReadyToStart: SetState(ALIVE), whatever the state was meanwhile.
ReadyStore ==
    /\ At(Mailbox, "alive")
    /\ SetState(caller, "ALIVE")
    /\ readied' = readied \cup {caller}
    /\ caller' = CHASER_INDEX
    /\ Goto(Mailbox, "allAlive")
    /\ UNCHANGED <<assigned, sessionVars, flagVars, tasks, timerVars, hit, recvVars,
                   crashed, endMatches, kills, startedFirst>>

\* Mutant: the loop over the players starts after the chaser.
ReadyCheckFugitives ==
    /\ At(Mailbox, "allAlive")
    /\ Goto(Mailbox, IF \A p \in Fugitives : state_[p] = "ALIVE" THEN "start" ELSE "idle")
    /\ UNCHANGED <<state_, assigned, sessionVars, flagVars, tasks, caller, timerVars, hit,
                   recvVars, crashed, histVars>>

\* Everybody is alive: Start.
ReadyCheck ==
    /\ At(Mailbox, "allAlive")
    /\ Goto(Mailbox, IF \A p \in Players : state_[p] = "ALIVE" THEN "start" ELSE "idle")
    /\ UNCHANGED <<state_, assigned, sessionVars, flagVars, tasks, caller, timerVars, hit,
                   recvVars, crashed, histVars>>

\* Start: RemoveTimer(timeOutHandle_); a fired timer is no longer there.
StartTimer ==
    /\ At(Mailbox, "start")
    /\ timeOut' = IF timeOut = "armed" THEN "removed" ELSE timeOut
    /\ Goto(Mailbox, "tick")
    /\ UNCHANGED <<state_, assigned, sessionVars, flagVars, tasks, caller, tick, timeUp, hit,
                   recvVars, crashed, histVars>>

\* tickHandle_ = AddTimer(16, true, this, &Match::Tick).
StartTick ==
    /\ At(Mailbox, "tick")
    /\ tick' = "armed"
    /\ Goto(Mailbox, "started")
    /\ UNCHANGED <<state_, assigned, sessionVars, flagVars, tasks, caller, timeOut, timeUp, hit,
                   recvVars, crashed, histVars>>

\* isMatchStarted_.exchange(true).
StartDone ==
    /\ At(Mailbox, "started")
    /\ isMatchStarted_' = TRUE
    /\ Goto(Mailbox, "idle")
    /\ UNCHANGED <<state_, assigned, sessionVars, isMatchInitialized_, isMatchEnded_, tasks,
                   caller, timerVars, hit, recvVars, crashed, histVars>>

-----------------------------------------------------------------------------
(* End, by whoever calls it.                                               *)

\* Mutant: End does not look at what the exchange returned.
EndAnyway(a) ==
    /\ At(a, "end")
    /\ isMatchEnded_' = TRUE
    /\ startedFirst' = isMatchStarted_
    /\ Goto(a, "timers")
    /\ UNCHANGED <<state_, assigned, sessionVars, isMatchInitialized_, isMatchStarted_, tasks,
                   caller, timerVars, hit, recvVars, crashed, endMatches, kills, readied, wasOut>>

\* isMatchEnded_.exchange(true).
EndExchange(a) ==
    /\ At(a, "end")
    /\ isMatchEnded_' = TRUE
    /\ startedFirst' = IF isMatchEnded_ THEN startedFirst ELSE isMatchStarted_
    /\ Goto(a, IF isMatchEnded_ THEN After(a) ELSE "timers")
    /\ UNCHANGED <<state_, assigned, sessionVars, isMatchInitialized_, isMatchStarted_, tasks,
                   caller, timerVars, hit, recvVars, crashed, endMatches, kills, readied, wasOut>>

\* Mutant: only the time-out is removed.
EndKeepTick(a) ==
    /\ At(a, "timers")
    /\ timeOut' = IF timeOut = "armed" THEN "removed" ELSE timeOut
    /\ crashed' = (assigned # Players)
    /\ Goto(a, "back")
    /\ UNCHANGED <<state_, assigned, sessionVars, flagVars, tasks, caller, tick, timeUp, hit,
                   recvVars, histVars>>

\* RemoveTimer of both handles (an unset handle removes nothing), then the
\* scores of all players, read through players_.
EndTimers(a) ==
    /\ At(a, "timers")
    /\ timeOut' = IF timeOut = "armed" THEN "removed" ELSE timeOut
    /\ tick' = IF tick = "armed" THEN "removed" ELSE tick
    /\ crashed' = (assigned # Players)
    /\ Goto(a, "back")
    /\ UNCHANGED <<state_, assigned, sessionVars, flagVars, tasks, caller, timeUp, hit, recvVars,
                   histVars>>

\* Mutant: only the players who are still alive go back.
BackAlive(a) ==
    /\ At(a, "back")
    /\ ProcessLeaveMatch({p \in Players : state_[p] \in Alive})
    /\ Goto(a, "post")
    /\ UNCHANGED <<state_, assigned, closed, flagVars, tasks, caller, timerVars, hit, recvVars,
                   crashed, histVars>>

PlayerBackToRoom(a) ==
    /\ At(a, "back")
    /\ ProcessLeaveMatch({p \in Players : state_[p] # "DISCONNECTED"})
    /\ Goto(a, "post")
    /\ UNCHANGED <<state_, assigned, closed, flagVars, tasks, caller, timerVars, hit, recvVars,
                   crashed, histVars>>

\* ownerRoom_->DoTaskAsync(&Room::EndMatch).
EndPost(a) ==
    /\ At(a, "post")
    /\ endMatches' = endMatches + 1
    /\ Goto(a, After(a))
    /\ UNCHANGED <<state_, assigned, sessionVars, flagVars, tasks, caller, timerVars, hit,
                   recvVars, crashed, kills, readied, wasOut, startedFirst>>

End(a) == EndExchange(a) \/ EndTimers(a) \/ PlayerBackToRoom(a) \/ EndPost(a)

-----------------------------------------------------------------------------
(* The IO threads: packets.                                                *)

\* TryGetMatch: the handler of a packet of p gets hold of the match. It keeps
\* it, also when the session leaves the match in the meantime.
Handle(p) ==
    /\ At(Recv(p), "idle")
    /\ p \in match_ \ closed
    /\ IF MaxPackets[p] = 0
       THEN UNCHANGED packets
       ELSE packets[p] < MaxPackets[p] /\ packets' = [packets EXCEPT ![p] = @ + 1]
    /\ Goto(Recv(p), "packet")
    /\ UNCHANGED <<state_, assigned, sessionVars, flagVars, tasks, caller, timerVars, hit, fugitive,
                   crashed, histVars>>

\* C_MATCH_READY_TO_RECEIVE and C_MATCH_READY_TO_START post a task.
Post(p, kind) ==
    /\ At(Recv(p), "packet")
    /\ Len(tasks) < MaxTasks
    /\ tasks' = Append(tasks, Task(kind, p))
    /\ Goto(Recv(p), "idle")
    /\ UNCHANGED <<state_, assigned, sessionVars, flagVars, caller, timerVars, hit, recvVars,
                   crashed, histVars>>

\* ChaserInstallCCTV of whoever sends it: Broadcast follows all of players_. The
\* return of every handler that changes nothing here is this step, too.
InstallCCTV(p) ==
    /\ At(Recv(p), "packet")
    /\ crashed' = (assigned # Players)
    /\ Goto(Recv(p), "idle")
    /\ UNCHANGED <<state_, assigned, sessionVars, flagVars, tasks, caller, timerVars, hit, recvVars,
                   histVars>>

\* HitValidation, its first test. A hit out of reach changes nothing.
HitBegin(f) ==
    /\ At(Recv(CHASER_INDEX), "packet")
    /\ CHASER_INDEX \in player_ /\ isMatchStarted_
    /\ state_[f] \in Alive
    /\ hit' = [target |-> f, changed |-> state_[f]]
    /\ Goto(Recv(CHASER_INDEX), "hit")
    /\ UNCHANGED <<state_, assigned, sessionVars, flagVars, tasks, caller, timerVars, recvVars,
                   crashed, histVars>>

\* Mutant: a hit on a critical fugitive counts the kill and leaves it critical.
HitReadKeeps ==
    /\ At(Recv(CHASER_INDEX), "hit")
    /\ LET now == state_[hit.target] IN
       /\ hit' = [hit EXCEPT !.changed = IF now = "ALIVE" THEN "ALIVE_CRITICAL" ELSE now]
       /\ kills' = IF now = "ALIVE_CRITICAL" THEN [kills EXCEPT ![hit.target] = @ + 1] ELSE kills
    /\ Goto(Recv(CHASER_INDEX), "hitStore")
    /\ UNCHANGED <<state_, assigned, sessionVars, flagVars, tasks, caller, timerVars, recvVars,
                   crashed, endMatches, readied, wasOut, startedFirst>>

\* currentState is read, changedState computed and the kill counted.
HitRead ==
    /\ At(Recv(CHASER_INDEX), "hit")
    /\ LET now == state_[hit.target] IN
       /\ hit' = [hit EXCEPT !.changed = CASE now = "ALIVE" -> "ALIVE_CRITICAL"
                                           [] now = "ALIVE_CRITICAL" -> "MURDERED"
                                           [] OTHER -> now]
       /\ kills' = IF now = "ALIVE_CRITICAL" THEN [kills EXCEPT ![hit.target] = @ + 1] ELSE kills
    /\ Goto(Recv(CHASER_INDEX), "hitStore")
    /\ UNCHANGED <<state_, assigned, sessionVars, flagVars, tasks, caller, timerVars, recvVars,
                   crashed, endMatches, readied, wasOut, startedFirst>>

\* targetPlayer->SetState(changedState), whatever the state was meanwhile.
HitStore ==
    /\ At(Recv(CHASER_INDEX), "hitStore")
    /\ SetState(hit.target, hit.changed)
    /\ Goto(Recv(CHASER_INDEX), "hitCheck")
    /\ UNCHANGED <<assigned, sessionVars, flagVars, tasks, caller, timerVars, hit, recvVars,
                   crashed, endMatches, kills, readied, startedFirst>>

\* A murdered fugitive leaves the match: FugitiveMurdered.
HitCheck ==
    /\ At(Recv(CHASER_INDEX), "hitCheck")
    /\ ProcessLeaveMatch(IF state_[hit.target] = "MURDERED" THEN {hit.target} ELSE {})
    /\ hit' = NoHit
    /\ Goto(Recv(CHASER_INDEX), "idle")
    /\ UNCHANGED <<state_, assigned, closed, flagVars, tasks, caller, timerVars, recvVars,
                   crashed, histVars>>

\* An empty scale does not operate, and only PlayerMoveItem puts an item on one,
\* after the start; which scales operate from then on is left open.
MayOperate == isMatchStarted_

\* FugitiveEscape, its tests: f is the index in the packet, whoever sends it.
EscapeBegin(p, f) ==
    /\ At(Recv(p), "packet")
    /\ crashed' = (f \notin assigned)
    /\ IF state_[f] \in Alive /\ MayOperate
       THEN Goto(Recv(p), "escape") /\ fugitive' = [fugitive EXCEPT ![p] = f]
       ELSE Goto(Recv(p), "idle") /\ UNCHANGED fugitive
    /\ UNCHANGED <<state_, assigned, sessionVars, flagVars, tasks, caller, timerVars, hit, packets,
                   histVars>>

\* players_[i] == session->GetPlayer(), which two null pointers satisfy.
IsOwn(p, i) == IF i \in assigned THEN i = p /\ p \in player_ ELSE p \notin player_

\* PlayerLeaveMatch, its tests: a murdered player stays murdered.
LeaveBegin(p, i) ==
    /\ At(Recv(p), "packet")
    /\ IsOwn(p, i)
    /\ crashed' = (i \notin assigned)
    /\ Goto(Recv(p), IF state_[i] = "MURDERED" THEN "gone" ELSE "leave")
    /\ UNCHANGED <<state_, assigned, sessionVars, flagVars, tasks, caller, timerVars, hit, recvVars,
                   histVars>>

\* SetState(ESCAPED) of FugitiveEscape, SetState(DISCONNECTED) of PlayerLeaveMatch.
GoneStore(p) ==
    /\ \/ At(Recv(p), "escape") /\ SetState(fugitive[p], "ESCAPED")
       \/ At(Recv(p), "leave") /\ SetState(p, "DISCONNECTED")
    /\ fugitive' = [fugitive EXCEPT ![p] = CHASER_INDEX]
    /\ Goto(Recv(p), "gone")
    /\ UNCHANGED <<assigned, sessionVars, flagVars, tasks, caller, timerVars, hit, packets,
                   crashed, endMatches, kills, readied, startedFirst>>

\* session->ProcessLeaveMatch() of both: the sender leaves, whoever has escaped.
GoneLeave(p) ==
    /\ At(Recv(p), "gone")
    /\ ProcessLeaveMatch({p})
    /\ Goto(Recv(p), "idle")
    /\ UNCHANGED <<state_, assigned, closed, flagVars, tasks, caller, timerVars, hit, recvVars,
                   crashed, histVars>>

-----------------------------------------------------------------------------
(* The IO threads: OnDisconnect and PlayerDisconnected.                    *)

\* match_.lock().
Disconnect(p) ==
    /\ At(Disc(p), "idle")
    /\ Cardinality(closed) < MaxClosed
    /\ closed' = closed \cup {p}
    /\ Goto(Disc(p), IF p \in match_ THEN "search" ELSE "done")
    /\ UNCHANGED <<state_, assigned, match_, player_, flagVars, tasks, caller, timerVars, hit,
                   recvVars, crashed, histVars>>

\* The search for this session's player. Init may not have stored it yet, then
\* match_ is reset; one that has left meanwhile is equal to a missing player.
DiscSearch(p) ==
    /\ At(Disc(p), "search")
    /\ crashed' = (\E i \in Players \ assigned : IsOwn(p, i))
    /\ IF IsOwn(p, p)
       THEN Goto(Disc(p), "disconnect") /\ UNCHANGED match_
       ELSE Goto(Disc(p), "done") /\ match_' = match_ \ {p}
    /\ UNCHANGED <<state_, assigned, player_, closed, flagVars, tasks, caller, timerVars, hit,
                   recvVars, histVars>>

\* players_[i]->SetState(DISCONNECTED).
DiscStore(p) ==
    /\ At(Disc(p), "disconnect")
    /\ SetState(p, "DISCONNECTED")
    /\ Goto(Disc(p), "discLeave")
    /\ UNCHANGED <<assigned, sessionVars, flagVars, tasks, caller, timerVars, hit, recvVars,
                   crashed, endMatches, kills, readied, startedFirst>>

DiscLeave(p) ==
    /\ At(Disc(p), "discLeave")
    /\ ProcessLeaveMatch({p})
    /\ Goto(Disc(p), "check")
    /\ UNCHANGED <<state_, assigned, closed, flagVars, tasks, caller, timerVars, hit, recvVars,
                   crashed, histVars>>

\* CheckMatchEnd, and End.
DiscCheck(p) ==
    /\ At(Disc(p), "check")
    /\ crashed' = CheckIsNull
    /\ Goto(Disc(p), IF CheckMatchEnd THEN "end" ELSE "done")
    /\ UNCHANGED <<state_, assigned, sessionVars, flagVars, tasks, caller, timerVars, hit,
                   recvVars, histVars>>

-----------------------------------------------------------------------------
(* Timers: they post, and fire while they are not removed (TimerTask).     *)

FireTimeOut ==
    /\ ~crashed /\ timeOut = "armed"
    /\ timeOut' = "fired"
    /\ tasks' = Append(tasks, Task("StartTimeOut", CHASER_INDEX))
    /\ UNCHANGED <<state_, assigned, sessionVars, flagVars, caller, tick, timeUp, pc, hit,
                   recvVars, crashed, histVars>>

\* Bound: at most one Tick waits in the mailbox.
FireTick ==
    /\ ~crashed /\ tick = "armed"
    /\ \A i \in DOMAIN tasks : tasks[i].kind # "Tick"
    /\ tasks' = Append(tasks, Task("Tick", CHASER_INDEX))
    /\ UNCHANGED <<state_, assigned, sessionVars, flagVars, caller, timerVars, pc, hit, recvVars,
                   crashed, histVars>>

\* GetTickCount64 reaches matchEndTick_, which Start has set. Only the tick, and
\* not after the end, looks at it.
Clock ==
    /\ ~crashed /\ tick = "armed" /\ ~timeUp
    /\ timeUp' = TRUE
    /\ UNCHANGED <<state_, assigned, sessionVars, flagVars, tasks, caller, timeOut, tick, pc,
                   hit, recvVars, crashed, histVars>>

-----------------------------------------------------------------------------
RunTask ==
    \/ Begin
    \/ InitEnter \/ InitAssign \/ InitArm
    \/ ReceiveStore \/ ReceiveCheck \/ ReceiveSend
    \/ ReadyStore \/ ReadyCheck \/ StartTimer \/ StartTick \/ StartDone
    \/ End(Mailbox)

\* What a packet of p may be.
Packet(p) ==
    \/ Post(p, "ReadyToReceive") \/ Post(p, "ReadyToStart") \/ InstallCCTV(p)
    \/ \E i \in Players : LeaveBegin(p, i)
    \/ \E f \in Fugitives : EscapeBegin(p, f) \/ (p = CHASER_INDEX /\ HitBegin(f))

HandlePacket(p) ==
    \/ Packet(p) \/ GoneStore(p) \/ GoneLeave(p)
    \/ p = CHASER_INDEX /\ (HitRead \/ HitStore \/ HitCheck)

OnDisconnect(p) == DiscSearch(p) \/ DiscStore(p) \/ DiscLeave(p) \/ DiscCheck(p) \/ End(Disc(p))

Next ==
    \/ RunTask
    \/ \E p \in Players : Handle(p) \/ HandlePacket(p) \/ Disconnect(p) \/ OnDisconnect(p)
    \/ FireTimeOut \/ FireTick \/ Clock

Spec == Init /\ [][Next]_vars

\* The mailbox is served (CommandTask), a handler and a disconnection that have
\* begun go on, time passes and timers fire (TimerTask). No client owes anything.
FairSpec ==
    /\ Spec
    /\ WF_vars(RunTask)
    /\ \A p \in Players : WF_vars(HandlePacket(p)) /\ WF_vars(OnDisconnect(p))
    /\ WF_vars(FireTimeOut) /\ WF_vars(FireTick) /\ WF_vars(Clock)

-----------------------------------------------------------------------------
\* Room::EndMatch is posted at most once, though the tick, the start time-out
\* and every disconnection may call End at the same time: a second post would
\* reset a match the room has started since.
EndMatchOnce == endMatches <= 1

\* Players are only missing while Init stores them: disconnections and packets
\* (an escape, a camera) may then follow a null pointer of players_. Later
\* nothing can, in whatever order sessions leave and the match ends.
NullOnlyInInit == crashed => pc[Mailbox] \in {"enter", "assign"}

\* A fugitive dies once: hits that race its disconnection, or an escape for it
\* sent by any session, never count it as killed twice.
KilledOnce == \A f \in Fugitives : kills[f] <= 1

\* A started match has heard from all its players, and it starts once: the
\* assertion at the end of Start holds.
StartsWithEveryone ==
    /\ isMatchStarted_ => readied = Players
    /\ pc[Mailbox] = "started" => ~isMatchStarted_

\* When the match is over and no handler is at work, no session is left in it,
\* also one whose player somebody else's escape has stored ESCAPED.
Idle(a) == pc[a] \in {"idle", "done"}
NobodyStays == endMatches > 0 /\ ~crashed /\ (\A a \in Actors : Idle(a)) => match_ = {}

\* A match that had started when it ended has no tick timer any more. (One that
\* End overtakes while Start is under way keeps ticking.)
TickStops == endMatches > 0 /\ startedFirst => tick # "armed"

\* Every match ends, whoever leaves, dies, escapes or never gets ready, unless
\* the process went down.
EveryMatchEnds == <>(endMatches = 1 \/ crashed)

\* What the comment on CheckMatchEnd says: once every fugitive has been
\* disconnected, murdered or has escaped, the match is over for CheckMatchEnd.
AllOutEnds == wasOut \cap Fugitives = Fugitives => CheckMatchEnd

=============================================================================
