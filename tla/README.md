# Verification of the ProjectJ socket server

ProjectJ is a Windows IOCP game server in C++17: clients log in, meet in a
lobby, form four-player rooms (one chaser, three fugitives) and play matches.
This directory holds TLA+ modules for the parts of it where threads, queued
tasks and packets meet, TLC configurations that model-check them on small
instances, and TLAPS proofs for every value of the constants.

    tlc -workers 2 -config MCRoom.cfg MCRoom      # one run
    tlapm ItemTransferProofs.tla                  # one proof module

`PROJECT.json` lists runs, mutants, the source lines behind each definition,
findings, hazards and theorems.

## 1. Inventory of the system

Our own code is `src/ServerLibrary` (network and scheduling library) and
`src/GameServer` (the game). `src/Library`, `src/Binary`, `*.pb.*` and
`httplib.h` are vendored or generated.

The process runs worker threads; each repeats: take IO completions, run
`TimerTaskManager::Distribute`, run `CommandTaskManager::ExecuteTask`
(`Main.cpp` 16-29). A completion of a receive calls the packet handler *on that
worker*. Packets of one session are handled one after the other (one receive is
outstanding), those of different sessions at the same time.

| component | state | operations | hard because | correct when |
|---|---|---|---|---|
| Command task objects (`CommandTask.*`, `LockQueue.h`) | per object: atomic `taskCount_`, queue `tasks_`; global object queue | `Push`, `Execute`, `ExecuteTask` | lock-free hand-over of an object between threads, time slices, nested posts | one object's tasks run one at a time, in order, once each, and all run |
| Timer tasks (`TimerTask.*`) | added queue, elements, a state word per timer | `AddTimer`, `RemoveTimer`, `Distribute` | every worker calls Distribute; RemoveTimer spins on the firing thread's id | never early, twice, lost, or after removal; RemoveTimer returns |
| Lobby (`Lobby.*`) | map of rooms | `CreateRoom`, `FindRoom`, `DestroyRoom` (its tasks) | what was true at the post may not be when the task runs | no empty room stays listed |
| Room (`Room.*`) | state, four seats with ready flags, player count, standby timer handle, match | `Enter`, `Leave`, `ToggleReady`, `StandByMatch`, `StartMatch`, `EndMatch` (its tasks) | stale countdowns, leave against start, disconnects | seats counted; matches start exactly when full and ready |
| Game session (`GameSession.*`) | state NONE/LOBBY/ROOM/MATCH, weak pointers to lobby, room, match, player | `Process*`, `OnDisconnect` | written from the lobby's, room's and match's threads | a gone session holds nothing |
| Items and inventories (`Inventory.*`, `Scale.*`, `Item.h`, `Player.*`) | per inventory: grid, owned items, weight, mutex; per item: `ownerFlag`, corner, rotation | `TryAddItem`, `RelocateItem`, `DropItem` from three packets | several players grab one item, two mutexes, failure half-way | nothing duplicated or lost, grids and weights exact |
| Match lifecycle and combat (`Match.*`) | players' states, three flags, two timers | `Init`, `Start`, `Tick`, `End`, hits, escapes, disconnects | handlers of several IO threads beside the match's own tasks | ends once, and does end |
| Packet dispatch (`GamePacketHandler.*`), game service (`GameService.*`) | - | one handler per packet | reads the session, posts a task | (modelled with the component the handler posts to) |
| Lock (`Lock.*`) | 32-bit flag: writer id and reader count, recursion count | read, write, try-lock, several at once | recursion, upgrade, spinning | mutual exclusion |
| Session send/receive (`SessionBase.*`, `Service.*`) | send queue, `bIsRegisteredSend_`, connected flag | `Send`, `RegisterSend`, `ProcessSend`, `Disconnect` | completions race senders | every queued buffer is sent unless disconnected |
| Buffers (`RecvBuffer.*`, `SendBuffer.*`) | cursors, chunk offsets | read, write, clean up, open, close | arithmetic at the boundary | no byte lost or overwritten |
| Connection pool (`DBConnectionPool.*`) | stack of connections | `Pop`, `Push` | every worker pops and pushes | no connection shared |
| Deadlock profiler (`DeadLockProfiler.*`) | lock-order graph | `PushLock`, `PopLock` | cycle search | reports every order cycle |
| Listener, IOCP core, object pool, DB connection, tick task, threads, data, logging, client, tests, tools | - | - | thin, I/O, unused or not part of the server | - |

Interaction: packet handlers and `OnDisconnect` post tasks to the lobby, a room
or a match; a task may post to another object; timers post tasks; item and
combat packets call `Match` directly, without posting.

The hazards of this code, each at its line and with the properties that
cover it (or why none does yet), are in `PROJECT.json`.

## 2. Plan

The modules, in the order they were written; each relies on the ones before it.

1. **Scheduler**: `SerialActor` (abstract) and `CommandTask` (detailed),
   refinement, liveness, proofs. Everything above relies on it.
2. **Timers**: `TimerTask`, with proofs.
3. **Items**: `Inventory` and, on top of it, `ItemTransfer`, with proofs.
4. **Lobby, rooms, sessions**: `Room`, which composes lobby, rooms, sessions and
   the outside of a match over task queues as promised by `SerialActor`; with proofs.
5. **Match**: the inside of a match, with the two IO paths that bypass its
   mailbox; liveness and proofs.
6. **Lock**: `ReadWriteLock` (abstract) and `Lock` (detailed), refinement proved.
7. **Session**: `SendStream` (abstract), `RecvBuffer` and `Session` (detailed),
   liveness, refinement proved.

Left for later: the chunk allocation of `SendBuffer`; the session set of `Service`; scores and the move speed.

Runs stay small: two or three actors, two objects, two items, two sessions;
bounds are the amount of work injected (tasks, timers, packets, buffers, guards),
never the number of internal steps.

## 3. The modules

### SerialActor, CommandTask, CommandTaskProofs, MCCommandTask

`SerialActor` is what `Room`, `Match` and `Lobby` code takes for granted: a
mailbox per object, one task running at a time, in order, once.

`CommandTask` is `CommandTask.cpp` step by step. One action is the code between
two accesses to shared memory: `PushCount` is the `fetch_add`, `PushTask` the
queue insertion, then the poster returns (`PushLeave`), executes in place
(`PushExecute`) or schedules (`PushSchedule`); `ExecPopAll`, `ExecBegin`,
`ExecEnd`, `ExecRelease`/`ExecKeep` (the `fetch_sub`) and `ExecAgain`/`ExecYield`
(time slice) are `Execute`; `ExecuteTask` is the worker's pick-up. A thread may
post while it runs a task. The clock test of `Execute` is a free choice.

| run | bounds | shows |
|---|---|---|
| `commandtask` | 3 threads, 2 objects, 3 tasks | `OneExecutor`, `OneResponsible`, `NoTaskStranded`, `CountExact`, no deadlock, `IsSerialActor` (refinement) and `EveryTaskRuns` |

Three threads let one execute, one post and one pick up at once; two objects let
a task of one post to the other; three tasks let two wait while one runs.

*Fairness*: weak fairness of each thread inside `Push` and `Execute`, and of its
return to `ExecuteTask`: that is the worker's endless loop. Posting is not fair.

*Proved*, for any finite set of threads and any objects and tasks:
`TypeCorrect`, `OneExecutorAlways`, `OneResponsibleAlways`, `CountExactAlways`,
`NoTaskStrandedAlways`. None is inductive alone. The invariant `IInv` joins them
with `Locals` (what a thread's program counter says of its locals) and
`CountedIffResponsible` (`taskCount_` is positive exactly while somebody is
responsible): the `fetch_add` that finds 0 therefore finds an object nobody has,
and the `fetch_sub` that leaves 0 leaves no announced or queued task behind,
which is `CountExact`.

`SerialActorImplemented` is the refinement of `SerialActor`, proved step by step:
`tasks_.Push` is its `Enter`, the call of a task its `Begin`, the return from it its
`End`, and `PopAll`, the counter and the hand-overs between threads are stutters.
`OneExecutor` gives the mapping a form without a choice (`Mapped`: an object has
one executor, whose batch is the front of the mailbox, or none). Two more facts are
needed (`ActorInv`): a task counted but not yet queued is in no queue, batch or
finished set and in no other thread's hands (`Fresh`), so that it enters a mailbox
once; and `Execute` overwrites its batch only when that is empty (`NothingPopped`).

### TimerTask, TimerTaskProofs, MCTimerTask

`AddTimer`, `RemoveTimer` with its spin (`SpinEnd`), and `Distribute` as `Enter`
(the exchange), the pump of the added queue, the scan with `Mark` (`fetch_add` of
the thread id) and its three continuations `Drop`, `Keep`, `Fire`/`Rearm`, and
`Finish`. The state word is a record of thread id and removed bit; ids in the
upper half and the bit in the lower never carry into each other. The priority
queue's order is not modelled: the pump may move any element that is there, which
includes the order the code uses.

Run `timertask`: 2 threads, 2 timers, delay 1, ticks 0 to 2 (a loop timer fires twice).
Two threads are a distributor and a remover that races it, in either role; two
timers let one be marked while the other is passed. `DueTimerFires` and
`RemoveReturns` assume weak fairness of time, of some worker entering Distribute,
and of threads inside it.

*Proved*, for any threads, timers, delays and clock: the types, `OneDistributor`,
`ExecutingIdExact`, `NoTimerForgotten`, `RemovedStaysQuiet` and
`NeverEarlyNeverTwice`. The inductive invariant has three ideas. The flag is set
while any thread distributes (`Control`), so the distributor's locals stand for all.
What is about to be pushed is not removed for good (`Quiet`) and was due when the
pass began (`Due`). And every timer is in at most one of the added queue, the part
of `elements_` still ahead, the kept ones and the hand (`Apart`, `Once`), in at
least one while it may fire (`Found`), in none once it has fired for good (`Spent`).

### Inventory, InventoryProofs, ItemTransfer, ItemTransferProofs, MCItemTransfer

`Inventory` has the grid arithmetic and the three operations as they happen under
the inventory's mutex, or both mutexes; each is one step. The grid is the set of
occupied slots, because ids are only compared with the empty one.
`ItemTransfer` interleaves the packets: compare-and-exchange on `ownerFlag`
(`PickUp`, `Move`, `DropCas`), the inventory operation (`TryAdd`, `Relocate`,
`Drop`), the store (`Store`). `PlayerDropItem` loads `origin` before its exchange
(`DropLoad`) and may store that stale value. Any player may move any item between
any two inventories: the code has no check against it.

Run `items`: two players with grids of different shape, one scale with three
slots, a one-tile and a two-tile item that together overload a player, corner
slots -1 to 1. That is enough for both rotations, a full grid, an overload, an
operating scale with room left, and two packets racing for one item. It checks
`HandleExact`, `HolderIsRecorded`, `GridExact`, `WeightExact` and
`OperatingScaleFrozen`. The handlers stop only when they are idle, so deadlock is
checked too. `OperatingScaleFrozen` says that no interleaving of packets gets an item
onto an operating scale. Test and addition are one critical section in the code and
one step here: a version that tested before it locked would need two steps, which
this module does not have.

Run `items_held` is a **finding**: `OwnedItemIsHeld` fails. `RelocateItem` takes
the item out of the source, then fails on the weight of the target and returns
(`Inventory.cpp:94`) without putting it back as the branch below does. The flag
names the old owner, no inventory holds the item, and it is out of the game.

*Proved*, for any players, scales, grids, item sizes, weights and limits:
`TypeCorrect`, `HandleExactAlways`, `HolderIsRecordedAlways`, `GridExactAlways`,
`WeightExactAlways`, `OperatingScaleFrozenAlways`.
The protocol comes first. `IInv` adds `OwnerKnown` (from the exchange on, the
handler knows the owner in the flag, and nobody else can change it) and `Held`,
which is `HolderIsRecorded` with the storing player quantified instead of chosen.
It needs the inventories only through three lemmas on what an operation does to
`owningItems_` (`TryAddOwning`, `RelocateOwning`, `DropOwning`), not the grid.
The inventories build on it: because `IInv` says that an item being added lies in
no other inventory, its corner and rotation may be overwritten without moving a
rectangle of somebody else. Under that, `InventoryProofs` shows for each operation
that `InventoryInv` is kept: a rectangle that the bounds and the free slots accept
lies inside the grid and apart from the others (`CoverInside`, `GridAdd`), an item
taken out takes its slots and no other's (`GridRemove`), and the running weight
stays the sum (`SoundAdd`, `SoundRemove`). That sum is a fold over a set, for which
no induction can be used here; `TotalIsUnits` shows instead that it is the number of
elements of the disjoint union of `weight[k]` units per item, by a smallest
counterexample, and cardinality does the rest (`TotalAdd`, `TotalRemove`).
Assumptions: players are not scales (`KindsDiffer`), `Nobody` is not an inventory,
the target slots of packets are integers, and grids, sizes and weights are the
numbers of the code's types.

Not modelled: positions and rotations in the world, scores, and the move speed,
which nothing in these operations reads.

### Room, RoomProofs, MCRoom

Sessions, one lobby queue, one queue per room, armed standby timers, and of a
match what its room and sessions see. Packet handlers (`VerifyToken`,
`CreateRoom`, `EnterRoom`, `LeaveRoom`, `Ready`) read the session and post;
`Lobby*` and `Room*` actions run the head task of a queue, whole: `RoomLeave`
and `RoomCleanup` both contain `Leave` with its post of `DestroyRoom`, `RoomReady`
contains `ToggleReady` with the countdown it starts or removes. `Fire` is the
timer's post of `StandByMatch`; a removed timer that has already fired leaves its
task queued, which is the stale countdown. `Disconnect` is `OnDisconnect`.
`MatchInit`, `MatchOut`, `MatchEnd` stand for `Match::Init`, a player's escape,
murder or leaving, and `End` with `PlayerBackToRoom`; a match may end at any time
once initialised, which covers every reason it has.

A task queue run in order is what `SerialActor` promises and `CommandTask`
implements; a timer that fires once, or never after removal, is what `TimerTask`
checks. A handler's read of the session and its post are one step; a disconnect
between the two has the same outcome as one while the task is queued, which is in
the model. A request that the server answers by disconnecting is a `Disconnect`.
The weak pointers of a session never expire before they are reset, since the
object whose task resets them is alive.

Run `room`: a host with 3 packets, a guest with 4, two seats, one room, countdown
of 2, packets sent only while no queue has two tasks waiting. The host's packets
create and ready up with one to spare (leave, unready, re-verify); the guest's
enter, ready up and leave room for changing its mind twice, leaving or
re-entering. That reaches countdowns that overlap, a start from a stale one,
matches that end after everybody left, and a second match's preparation. Deadlock
is not checked: without packets nothing is owed. Checked: `SeatsCounted`,
`StartsFull`, `AllReadyStarts`, `EmptyRoomGoes`.

*Proved*, for any sessions, rooms, seats, countdown and bounds: `TypeCorrect`,
`SeatsCountedAlways` and `StartsFullAlways`, from the assumptions that `Room` states
about its constants. The invariant `RInv` adds to the types what the queues
may hold (`LobbyTasks`, `RoomTasks`), that an `EndMatch` on its way is the only one
of its room and its match is over (`EndsOnce`), and what a room's state tells
(`StateTells`): a `WAITING` room has no match, in an `INGAME` room nobody is ready,
an `INVALID` room is empty. The last two are why a stale countdown cannot start a
second match or revive a destroyed room: all being ready means that the room is
neither. `EndsOnce` is what keeps `Room::EndMatch` from making a room wait while a
match of it is on. Timers have names from a bounded set; `AddTimer` waits for one.

*Fairness*: queued tasks run (`EveryTaskRuns` of the scheduler), armed timers fire
(`DueTimerFires`), a match begins and ends (`EveryMatchEnds` of `Match`). Clients
owe nothing.

Run `room_ghost` is a **finding**: `CleanedUp` fails. `OnDisconnect` releases the
seat only if `room_` is set; a client that disconnects while its `CreateRoom` or
`Enter` task is queued is seated afterwards, and stays seated for ever, so that
room can never fill or be destroyed.

Seen while modelling and not claimed by a run, because no line of the repository
states the contrary: one session can take two seats by sending two requests
before the first is executed; `EndMatch` makes an emptied, already destroyed room
`WAITING` again; `PlayerBackToRoom` moves a player who has gone back to the lobby
into state `ROOM` without a room.

### Match, MatchProofs, MCMatch

The inside of a match, from the `Init` that `Room::StartMatch` posts to the
`EndMatch` that `End` posts back. Three kinds of actors meet without a lock: the
match's mailbox (`Begin` takes a task; `Init*`, `Receive*`, `Ready*`, `Start*`),
the IO thread of each session's packets (`Handle`, then what the packet is: `Post`,
`InstallCCTV`, `HitBegin` to `HitCheck`, `EscapeBegin` or `LeaveBegin` with
`GoneStore` and `GoneLeave`), and the IO thread that runs its `OnDisconnect`
(`Disconnect`, `Disc*`). An action is the code between two
accesses to a player's `state_` or the match's three flags, so a state tested in
one step and stored in a later one may have changed in between, as in the code.
`End` is four steps of whoever calls it. Reach and angle of a hit are a free
choice. `crashed` is a null `shared_ptr` of `players_` being dereferenced; nothing
happens after it.

A handler and `OnDisconnect` first get hold of the match (`TryGetMatch`,
`match_.lock()`) and look at its players in a later step. In between the session
may have left, so `GetPlayer()` is null, and equal to an entry of `players_` that
`Init` has not stored yet (`IsOwn`). `FugitiveEscape` does not ask whose index the
packet holds: any session, the chaser's too, may have any fugitive stored ESCAPED
while it is the sender that leaves (`fugitive` remembers for whom). It tests no
flag either; what keeps it from succeeding before the start is that no scale
operates while it is empty (`MayOperate`), but it follows the entry of `players_`
first. `ChaserInstallCCTV` sends for everybody but the chaser of a started match,
and `Broadcast` follows all entries.

| run | bounds | shows |
|---|---|---|
| `match` | chaser and one fugitive, any number of packets, 1 waiting packet task, 1 connection that goes | five safety properties |
| `match_ends` | chaser and one fugitive, 1 and 2 packets, both connections may go | `EveryMatchEnds`, `EndMatchOnce` |
| `match_out` | as `match` | a **finding** |

Packets need no bound (`MaxPackets` 0), since the state does not grow with them:
`match` has every hit, escape by either session, camera and leaving, in any order
and number, against one disconnection of either player. In `match_ends` packets are
few (readiness, then the fugitive may leave or escape, or the chaser may send an
escape in place of getting ready), and two disconnections, the tick and the
time-out may all call `End`. One fugitive is enough for each race on one player's
state. Deadlock is not checked: a finished match owes nothing. The bounds are
conjuncts of guards, so the theorems below hold for every value of them.

*Fairness*: of the mailbox (`EveryTaskRuns`), of handlers and disconnections that
have begun (a worker runs them to their end), of both timers (`DueTimerFires`) and
of the clock. `EveryMatchEnds` allows one exception, the null pointer.

`match_out` is a finding: `AllOutEnds` fails. `SetState` stores whatever was there,
and `PlayerReadyToReceive`, `PlayerReadyToStart` and `HitValidation` store a state
computed before a disconnection or an escape that has happened since. The fugitive
counts as playing again, against the comment at `Match.cpp` 384-385; only the clock
ends that match.

Seen and not claimed, since no line of the repository says otherwise: while `Init`
is filling `players_`, a disconnection (`PlayerDisconnected`, `CheckMatchEnd`), an
escape, a camera and leaving may follow a null pointer (`NullOnlyInInit` shows that
this window is the only one); a session may make another's fugitive escape; and an
`End` that overtakes `Start` leaves the tick timer armed (`TickStops` covers the
matches that were marked started when they ended, and no others).

*Proved*, for any number of players, packets and waiting tasks: `TypeCorrect`,
`EndsOnce`, `StartsReady`, `DiesOnce`, `TickStopped`, `NullWhileInit`, `AllLeave`. `IInv` joins `Filled` (Init
stores players in order and never beyond the last), `OneInit` (its task is the
first and only one), `OneEnder` (one actor at most is past the exchange of `End`,
and nobody has posted while it is), `Phases` (the mailbox's place against the
flags), `AliveIsReady` (who is alive has reported ready, also in the state a hit is
about to store), `DeadStaysDead` (who was counted as killed is not alive again,
unless the hit that killed it is about to store that) and `TickGone`.

The last two rest on a second invariant, `LeaveInv`. `InitComesFirst`: before
`Init` begins no session knows the match, so no handler has got hold of it, and
after it no player is missing; who goes on with a player has found one.
`CrashIsLast`: an `End` that got past `PlayerBackToRoom` has seen all players
stored, or the process is down. `DisconnectedLeaves`: a player stored DISCONNECTED
who is still in the match has its own handler on the way to take it out, also when
a hit that read an older state stores over it. `LeftBehind`: whom
`PlayerBackToRoom` has passed over is such a player; one stored ESCAPED by another
session's packet is not, whoever has left for it. The proofs go by three lemmas
that say once what a thread may change: `RecvFrame` (packets), `DiscFrame`
(disconnections) and `MailboxStays`. Only model-checked: `EveryMatchEnds`.

### ReadWriteLock, Lock, LockProofs, MCLock

`ReadWriteLock` is what a `WRITE_LOCK` or `READ_LOCK` in the rest of the code
stands for: the guards each thread has of each lock, innermost last; a new one only
while no other thread is in its way. `Lock` is `Lock.cpp`: the word with the
writer's id and the number of readers, `writeCount_` beside it, and each
`compare_exchange`, load, store and addition a step of its own. A failed exchange
of a writer changes nothing and is no step; the spin and its time-out are left out.
`MultipleLock`, `TryWriteLock`, `TryCounted` and `BackOff` are the guard that takes
two locks at once; it is part of the library, though no caller is left. It opens
only in a thread without guards, so the branch of `TryWriteLock` for an owner
(`Lock.cpp` 99-103: it returns true and counts nothing, so that the unlock that
follows would count once too often) is not reached and not modelled. The CRASH test
in the `WriteUnlock` of `BackOff` is left out for the same reason: the only guard
there is the attempt's own.

Which nestings a thread opens (`MayOpen`) is taken from the callers: no write guard
inside a read guard, `LockQueue::PopAll` being the deepest (write, write, read); a
second lock only in order. A write guard inside a read guard inside a write guard
would reach the CRASH of `WriteUnlock`, so `NeverCrashes` rests on this.

Run `lock`: 3 threads, 2 locks, up to 3 guards of a thread on a lock. That is
`PopAll`'s depth, an owner, a competing writer and a reader at once, and two threads
attempting both locks in either order. `MutualExclusion`, `NeverCrashes`,
`LeavesFree`, `IsReadWriteLock`; deadlock is checked.

*Proved*, for any threads, locks and depth: `Exclusion`, `NoCrash`, `Released` and
`Refines` (the refinement itself). `IInv` has, per thread and lock, `Writer` (the
word names exactly the thread that has a write guard or is between its exchange and
its count) and `Shape` (its write guards are its outermost, and `writeCount_` is
their number, less one before the last store); per thread `Local`; per lock
`Readers` (the reader half is the number of read guards, counted as the set
`Tokens` of pairs), `Alone` and `Unowned`. `Readers` is what makes the owner's plain
addition and a non-owner's exchange on one word compatible.

### SendStream, RecvBuffer, Session, SessionProofs, MCSession

A server-side connection. `SendStream` is what `Send` promises: first in, first out,
nothing twice, and a failure loses the oldest. `Session` has `Send` on any thread
(test of the connection, then `SendPush` under the lock), `RegisterSend` (the queue
moves into the event, under the lock), `WSASend` or its failure with `HandleError`
and the flag's store in a later step (`WSASendFails`, `Unflag`), and the completion
`ProcessSend` with `NextSend`, which keeps the lock through `RegisterSend`. A
receive is registered, completes with any number of bytes that fits or with none,
and `OnRecv` takes whole packets off (`HandlePacket`); `OnRecvReturns` is `ReadData`
and `CleanupBuffer`. `Disconnect` and `HandleError` are part of the actions that
call them. `RecvBuffer` holds actual bytes: a packet's size is in the packet, so
what is copied decides what is parsed next. The header is one byte, the size, and a
byte is less than the buffer's size as a 16-bit size is less than 0x10000. No client
of the repository sends a size of 0: the code's loop would not get past it, the
model stutters, and no property is about it.

Run `session`: 2 threads, 3 buffers to send, a buffer of 6 bytes compacted at 2
free, and 8 bytes of packets that arrive in any pieces. A send can be under way
while one buffer waits and another thread pushes; a packet straddles the end of the
buffer. `IsSendStream` (refinement), `EveryBufferLeaves`, `RoomToReceive`. Deadlock
is not checked: a connection may be silent or gone.

*Fairness*: a thread inside `Send` or `ProcessSend` goes on, and some worker takes
the completion of a send. `EveryBufferLeaves` leaves out a disconnected session and
one on which a failed `WSASend` was only logged: a buffer queued just before the
flag's store then waits for another `Send`. So it says nothing of a submission that
fails; what holds then is `IsSendStream`: the oldest are lost, nothing is repeated.

Run `session_unread` is a **finding**: `UnreadIntact` fails. `CleanupBuffer` copies
from `GetWriteBufferPos()`, the byte after the unread ones, and the beginning of the
packet that has arrived so far is replaced by old bytes, or by what lies behind the
buffer (`Beyond`).

*Proved*, for any threads, buffers, buffer sizes and bytes: `RoomAlways` and
`SendsInOrder` (the refinement). The first needs that an incomplete packet is
smaller than the buffer whatever its bytes are, so what clean-up keeps leaves room
even with the bytes of the finding. The second needs `Flag` (the flag stands for one
registrar or one send under way, never both) and `EventEmpty` (the event's buffers
are empty whenever a new registrar may fill it): together, what `RegisterSend`
appends to the event is what it sends.

Not modelled: the client's `Connect`, and a receive event after a failed
`DisconnectEx`, which changes nothing of the above.

## 4. Properties and mutants

Every property of a passing run has a mutant in the module it is about: an
operator above the real one, commented `Mutant:`, that changes it the way a
plausible bug would (an exchange that ignores the flag, an unlock without
hand-over, a countdown that does not look again). Substituted for the real
operator it makes the run fail on that property.

## 5. What is proved, checked and open

| | proved for all constants | model-checked on small instances |
|---|---|---|
| CommandTask | types, one executor, one responsible, exact count, nothing stranded, refinement of SerialActor | also every task runs |
| TimerTask | types, one distributor, exact id, no timer forgotten, quiet after removal, never early or twice | also due timers fire, removal returns |
| ItemTransfer | types, handler exact, holder recorded, grid exact, weight exact, operating scale frozen | also item held (violated) |
| Room | types, seats counted, starts full and ready | also all ready starts, empty room goes, cleaned up (violated) |
| Match | types, ends once, starts with everyone, killed once, tick stops, null pointers only in Init, nobody stays | also all out ends (violated), every match ends |
| Lock | exclusion, no crash, left free, refinement of ReadWriteLock | the same |
| Session | room to receive, refinement of SendStream | also every buffer leaves, unread intact (violated) |

Four runs are findings: `items_held`, `room_ghost`, `match_out`, `session_unread`.

Liveness stays with TLC: temporal proofs under fairness need `ENABLED`, which the
prover does not handle. They are `EveryTaskRuns`, `DueTimerFires`, `RemoveReturns`,
`AllReadyStarts`, `EmptyRoomGoes`, `EveryMatchEnds` and `EveryBufferLeaves`. Every
other property of the passing runs is stated by a theorem.

### Not modelled

- The connection pool is a locked stack that grows when it is empty; the deadlock
  profiler is a cycle search in debug builds; the object pool is the operating
  system's list; the tick task has no caller. None has a protocol to check.
- Listener, IOCP core, database connection, logging and configuration are I/O.
- Scores, the move speed, positions, chat and room lists: data that only goes to
  clients or the database. Of cameras and broadcasts `Match` has that they follow
  `players_`.
- Most lines of the repository are generated protocol code (`*.pb.*`), vendored
  libraries, tools and the client; the modules above cover the server's own
  concurrent and stateful code.
