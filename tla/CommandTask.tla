---------------------------- MODULE CommandTask ----------------------------
(***************************************************************************)
(* ServerLibrary/CommandTask.{h,cpp}: every Room, Match and Lobby is a     *)
(* CommandTaskObject. Any worker thread may post a task to it; the thread  *)
(* that raises taskCount_ from 0 becomes responsible for the object and    *)
(* either executes it in place or hands it to GCommandTaskManager, from    *)
(* which an idle worker takes it.                                          *)
(*                                                                         *)
(* Each action is the code between two accesses to shared memory: the      *)
(* atomic taskCount_, one critical section of a LockQueue, or a task body. *)
(* Thread-local writes (LCurrentCommandTaskObject) go with the step before *)
(* them.                                                                   *)
(***************************************************************************)
EXTENDS Naturals, Sequences, FiniteSets

CONSTANTS Threads,   (* worker threads of Main.cpp                         *)
          Objects,   (* CommandTaskObjects                                 *)
          Tasks,     (* tasks that may be posted: the bound on the model   *)
          NoObject,  (* nullptr                                            *)
          NoTask

ASSUME ThreadsFinite == IsFiniteSet(Threads)
ASSUME NoObjectFresh == NoObject \notin Objects
ASSUME NoTaskFresh   == NoTask \notin Tasks

VARIABLES
    taskCount_,    (* CommandTaskObject::taskCount_                        *)
    tasks_,        (* CommandTaskObject::tasks_                            *)
    objectQueues_, (* CommandTaskManager::objectQueues_                    *)
    pushPc,        (* where a thread is in CommandTaskObject::Push         *)
    pushTask,      (* its argument `task`                                  *)
    pushObj,       (* its `this`                                           *)
    pushOnly,      (* its argument `pushOnly`                              *)
    wasIdle,       (* its local currentCount == 0                          *)
    execPc,        (* where a thread is in CommandTaskObject::Execute      *)
    LCurrent,      (* LCurrentCommandTaskObject of each thread             *)
    batch,         (* its local `tasks`, the ones already executed dropped *)
    popped,        (* its local taskCount: the size `tasks` had            *)
    posted,        (* history: the tasks Push was called with              *)
    finished       (* history: the tasks that returned                     *)

pushVars == <<pushPc, pushTask, pushObj, pushOnly, wasIdle>>
execVars == <<execPc, LCurrent, batch, popped>>
objVars  == <<taskCount_, tasks_, objectQueues_>>
vars     == <<objVars, pushVars, execVars, posted, finished>>

-----------------------------------------------------------------------------
TypeOK ==
    /\ taskCount_ \in [Objects -> Nat]
    /\ tasks_ \in [Objects -> Seq(Tasks)]
    /\ objectQueues_ \in Seq(Objects)
    /\ pushPc \in [Threads -> {"out", "counted", "queued"}]
    /\ pushTask \in [Threads -> Tasks \cup {NoTask}]
    /\ pushObj \in [Threads -> Objects \cup {NoObject}]
    /\ pushOnly \in [Threads -> BOOLEAN]
    /\ wasIdle \in [Threads -> BOOLEAN]
    /\ execPc \in [Threads -> {"out", "popAll", "next", "task", "check"}]
    /\ LCurrent \in [Threads -> Objects \cup {NoObject}]
    /\ batch \in [Threads -> Seq(Tasks)]
    /\ popped \in [Threads -> Nat]
    /\ posted \subseteq Tasks
    /\ finished \subseteq Tasks

Init ==
    /\ taskCount_ = [o \in Objects |-> 0]
    /\ tasks_ = [o \in Objects |-> <<>>]
    /\ objectQueues_ = <<>>
    /\ pushPc = [t \in Threads |-> "out"]
    /\ pushTask = [t \in Threads |-> NoTask]
    /\ pushObj = [t \in Threads |-> NoObject]
    /\ pushOnly = [t \in Threads |-> FALSE]
    /\ wasIdle = [t \in Threads |-> FALSE]
    /\ execPc = [t \in Threads |-> "out"]
    /\ LCurrent = [t \in Threads |-> NoObject]
    /\ batch = [t \in Threads |-> <<>>]
    /\ popped = [t \in Threads |-> 0]
    /\ posted = {}
    /\ finished = {}

-----------------------------------------------------------------------------
(* CommandTaskObject::Push(task, pushOnly). A packet handler calls it with *)
(* no object current, a task body with its own object current, and         *)
(* TimerTaskManager::Distribute with pushOnly.                             *)

MayCall(t) == pushPc[t] = "out" /\ execPc[t] \in {"out", "task"}

\* const int currentCount = taskCount_.fetch_add(1);
PushCount(t, o, k, only) ==
    /\ MayCall(t)
    /\ k \notin posted
    /\ only => execPc[t] = "out"
    /\ wasIdle' = [wasIdle EXCEPT ![t] = taskCount_[o] = 0]
    /\ taskCount_' = [taskCount_ EXCEPT ![o] = @ + 1]
    /\ pushPc' = [pushPc EXCEPT ![t] = "counted"]
    /\ pushTask' = [pushTask EXCEPT ![t] = k]
    /\ pushObj' = [pushObj EXCEPT ![t] = o]
    /\ pushOnly' = [pushOnly EXCEPT ![t] = only]
    /\ posted' = posted \cup {k}
    /\ UNCHANGED <<tasks_, objectQueues_, execVars, finished>>

\* Mutant: `task` has been moved from before it is queued.
PushMovedTask(t) ==
    /\ pushPc[t] = "counted"
    /\ tasks_' = [tasks_ EXCEPT ![pushObj[t]] = Append(@, NoTask)]
    /\ pushPc' = [pushPc EXCEPT ![t] = "queued"]
    /\ pushTask' = [pushTask EXCEPT ![t] = NoTask]
    /\ UNCHANGED <<taskCount_, objectQueues_, pushObj, pushOnly, wasIdle,
                   execVars, posted, finished>>

\* tasks_.Push(task);
PushTask(t) ==
    /\ pushPc[t] = "counted"
    /\ tasks_' = [tasks_ EXCEPT ![pushObj[t]] = Append(@, pushTask[t])]
    /\ pushPc' = [pushPc EXCEPT ![t] = "queued"]
    /\ pushTask' = [pushTask EXCEPT ![t] = NoTask]
    /\ UNCHANGED <<taskCount_, objectQueues_, pushObj, pushOnly, wasIdle,
                   execVars, posted, finished>>

ReturnFromPush(t) ==
    /\ pushPc' = [pushPc EXCEPT ![t] = "out"]
    /\ pushObj' = [pushObj EXCEPT ![t] = NoObject]
    /\ pushOnly' = [pushOnly EXCEPT ![t] = FALSE]
    /\ wasIdle' = [wasIdle EXCEPT ![t] = FALSE]
    /\ UNCHANGED pushTask

\* Entering Execute: LCurrentCommandTaskObject = this.
EnterExecute(t, o) ==
    /\ LCurrent' = [LCurrent EXCEPT ![t] = o]
    /\ execPc' = [execPc EXCEPT ![t] = "popAll"]

\* Mutant: Push executes whatever taskCount_ was.
PushExecuteAnyway(t) ==
    /\ pushPc[t] = "queued"
    /\ LCurrent[t] = NoObject /\ ~pushOnly[t]
    /\ EnterExecute(t, pushObj[t])
    /\ ReturnFromPush(t)
    /\ UNCHANGED <<objVars, batch, popped, posted, finished>>

\* currentCount == 0 and nothing current: the caller executes the object.
PushExecute(t) ==
    /\ pushPc[t] = "queued"
    /\ wasIdle[t] /\ LCurrent[t] = NoObject /\ ~pushOnly[t]
    /\ EnterExecute(t, pushObj[t])
    /\ ReturnFromPush(t)
    /\ UNCHANGED <<objVars, batch, popped, posted, finished>>

\* Mutant: Push schedules the object whatever taskCount_ was.
PushScheduleAnyway(t) ==
    /\ pushPc[t] = "queued"
    /\ LCurrent[t] # NoObject \/ pushOnly[t]
    /\ objectQueues_' = Append(objectQueues_, pushObj[t])
    /\ ReturnFromPush(t)
    /\ UNCHANGED <<taskCount_, tasks_, execVars, posted, finished>>

\* currentCount == 0 otherwise: the object goes to GCommandTaskManager.
PushSchedule(t) ==
    /\ pushPc[t] = "queued"
    /\ wasIdle[t] /\ (LCurrent[t] # NoObject \/ pushOnly[t])
    /\ objectQueues_' = Append(objectQueues_, pushObj[t])
    /\ ReturnFromPush(t)
    /\ UNCHANGED <<taskCount_, tasks_, execVars, posted, finished>>

\* currentCount > 0: whoever is responsible for the object finds the task.
PushLeave(t) ==
    /\ pushPc[t] = "queued"
    /\ ~wasIdle[t]
    /\ ReturnFromPush(t)
    /\ UNCHANGED <<objVars, execVars, posted, finished>>

-----------------------------------------------------------------------------
(* CommandTaskObject::Execute.                                             *)

\* Mutant: PopAll copies the queue and leaves it as it was.
ExecCopyAll(t) ==
    /\ execPc[t] = "popAll"
    /\ batch' = [batch EXCEPT ![t] = tasks_[LCurrent[t]]]
    /\ popped' = [popped EXCEPT ![t] = Len(tasks_[LCurrent[t]])]
    /\ execPc' = [execPc EXCEPT ![t] = "next"]
    /\ UNCHANGED <<tasks_, taskCount_, objectQueues_, pushVars, LCurrent, posted, finished>>

\* tasks_.PopAll(tasks), and the size of what it took.
ExecPopAll(t) ==
    /\ execPc[t] = "popAll"
    /\ batch' = [batch EXCEPT ![t] = tasks_[LCurrent[t]]]
    /\ popped' = [popped EXCEPT ![t] = Len(tasks_[LCurrent[t]])]
    /\ tasks_' = [tasks_ EXCEPT ![LCurrent[t]] = <<>>]
    /\ execPc' = [execPc EXCEPT ![t] = "next"]
    /\ UNCHANGED <<taskCount_, objectQueues_, pushVars, LCurrent, posted, finished>>

\* tasks[i]->Execute() is called; what it posts is PushCount while in "task".
ExecBegin(t) ==
    /\ execPc[t] = "next"
    /\ batch[t] # <<>>
    /\ execPc' = [execPc EXCEPT ![t] = "task"]
    /\ UNCHANGED <<objVars, pushVars, LCurrent, batch, popped, posted, finished>>

ExecEnd(t) ==
    /\ execPc[t] = "task"
    /\ pushPc[t] = "out"
    /\ finished' = finished \cup {Head(batch[t])}
    /\ batch' = [batch EXCEPT ![t] = Tail(@)]
    /\ execPc' = [execPc EXCEPT ![t] = "next"]
    /\ UNCHANGED <<objVars, pushVars, LCurrent, popped, posted>>

LeaveExecute(t) ==
    /\ LCurrent' = [LCurrent EXCEPT ![t] = NoObject]
    /\ execPc' = [execPc EXCEPT ![t] = "out"]

\* Mutant: Execute returns without comparing what fetch_sub returned.
ExecReleaseAnyway(t) ==
    /\ execPc[t] = "next"
    /\ batch[t] = <<>>
    /\ taskCount_' = [taskCount_ EXCEPT ![LCurrent[t]] = @ - popped[t]]
    /\ popped' = [popped EXCEPT ![t] = 0]
    /\ LeaveExecute(t)
    /\ UNCHANGED <<tasks_, objectQueues_, pushVars, batch, posted, finished>>

\* taskCount_.fetch_sub(taskCount) == taskCount: nothing is left anywhere.
ExecRelease(t) ==
    /\ execPc[t] = "next"
    /\ batch[t] = <<>>
    /\ taskCount_[LCurrent[t]] = popped[t]
    /\ taskCount_' = [taskCount_ EXCEPT ![LCurrent[t]] = 0]
    /\ popped' = [popped EXCEPT ![t] = 0]
    /\ LeaveExecute(t)
    /\ UNCHANGED <<tasks_, objectQueues_, pushVars, batch, posted, finished>>

\* Mutant: taskCount_.store(0) in place of fetch_sub.
ExecKeepStore(t) ==
    /\ execPc[t] = "next"
    /\ batch[t] = <<>>
    /\ taskCount_[LCurrent[t]] # popped[t]
    /\ taskCount_' = [taskCount_ EXCEPT ![LCurrent[t]] = 0]
    /\ popped' = [popped EXCEPT ![t] = 0]
    /\ execPc' = [execPc EXCEPT ![t] = "check"]
    /\ UNCHANGED <<tasks_, objectQueues_, pushVars, LCurrent, batch, posted, finished>>

\* The other outcome of the same fetch_sub.
ExecKeep(t) ==
    /\ execPc[t] = "next"
    /\ batch[t] = <<>>
    /\ taskCount_[LCurrent[t]] # popped[t]
    /\ taskCount_' = [taskCount_ EXCEPT ![LCurrent[t]] = @ - popped[t]]
    /\ popped' = [popped EXCEPT ![t] = 0]
    /\ execPc' = [execPc EXCEPT ![t] = "check"]
    /\ UNCHANGED <<tasks_, objectQueues_, pushVars, LCurrent, batch, posted, finished>>

\* nowTick < LEndTickCount: another turn of the loop.
ExecAgain(t) ==
    /\ execPc[t] = "check"
    /\ execPc' = [execPc EXCEPT ![t] = "popAll"]
    /\ UNCHANGED <<objVars, pushVars, LCurrent, batch, popped, posted, finished>>

\* Mutant: Execute gives up its object without handing it on.
ExecAbandon(t) ==
    /\ execPc[t] = "check"
    /\ LeaveExecute(t)
    /\ UNCHANGED <<objVars, pushVars, batch, popped, posted, finished>>

\* nowTick >= LEndTickCount: the object goes back to GCommandTaskManager.
ExecYield(t) ==
    /\ execPc[t] = "check"
    /\ objectQueues_' = Append(objectQueues_, LCurrent[t])
    /\ LeaveExecute(t)
    /\ UNCHANGED <<taskCount_, tasks_, pushVars, batch, popped, posted, finished>>

-----------------------------------------------------------------------------
\* CommandTaskManager::ExecuteTask pops an object and executes it. A worker
\* is between two handlers, two timers or two objects when it is "out" of
\* both Push and Execute; the main loop brings it here again and again.
ExecuteTask(t) ==
    /\ pushPc[t] = "out" /\ execPc[t] = "out"
    /\ objectQueues_ # <<>>
    /\ objectQueues_' = Tail(objectQueues_)
    /\ EnterExecute(t, Head(objectQueues_))
    /\ UNCHANGED <<taskCount_, tasks_, pushVars, batch, popped, posted, finished>>

Push(t) == PushTask(t) \/ PushExecute(t) \/ PushSchedule(t) \/ PushLeave(t)

Execute(t) ==
    \/ ExecPopAll(t) \/ ExecBegin(t) \/ ExecEnd(t)
    \/ ExecRelease(t) \/ ExecKeep(t) \/ ExecAgain(t) \/ ExecYield(t)

Post(t) == \E o \in Objects, k \in Tasks, only \in BOOLEAN : PushCount(t, o, k, only)

\* Once every task has been posted and has run, the workers only wait.
Idle == finished = Tasks /\ UNCHANGED vars

Next == Idle \/ \E t \in Threads : Post(t) \/ Push(t) \/ Execute(t) \/ ExecuteTask(t)

Spec == Init /\ [][Next]_vars

\* A thread that is inside Push or Execute keeps running, and every worker's
\* loop comes back to ExecuteTask; nobody owes the system another post.
FairSpec ==
    Spec /\ \A t \in Threads : WF_vars(Push(t)) /\ WF_vars(Execute(t)) /\ WF_vars(ExecuteTask(t))

-----------------------------------------------------------------------------
(* Who is responsible for an object.                                       *)

Executes(t, o)  == LCurrent[t] = o
Schedules(t, o) == pushPc[t] # "out" /\ pushObj[t] = o /\ wasIdle[t]
Scheduled(o)    == \E i \in 1 .. Len(objectQueues_) : objectQueues_[i] = o

Responsible(o) ==
    \/ Scheduled(o)
    \/ \E t \in Threads : Executes(t, o) \/ Schedules(t, o)

\* Threads between `taskCount_.fetch_add(1)` and `tasks_.Push(task)`.
Announced(o) == {t \in Threads : pushPc[t] = "counted" /\ pushObj[t] = o}

\* An object is executed by at most one thread at a time: task bodies of one
\* Room or Match never run in parallel, which is why they take no lock.
OneExecutor == \A o \in Objects, t, u \in Threads :
    Executes(t, o) /\ Executes(u, o) => t = u

\* Responsibility is never duplicated: an object is in the global queue at
\* most once, and not while a thread executes it or is about to.
OneResponsible == \A o \in Objects :
    /\ \A i, j \in 1 .. Len(objectQueues_) :
          objectQueues_[i] = o /\ objectQueues_[j] = o => i = j
    /\ \A t, u \in Threads :
          /\ Schedules(t, o) /\ Schedules(u, o) => t = u
          /\ ~(Schedules(t, o) /\ Executes(u, o))
    /\ Scheduled(o) => \A t \in Threads : ~Schedules(t, o) /\ ~Executes(t, o)

\* No task is stranded: while a task is in tasks_, someone will look there.
NoTaskStranded == \A o \in Objects : tasks_[o] # <<>> => Responsible(o)

\* taskCount_ counts exactly the announced, the queued and the popped tasks,
\* so the fetch_sub of Execute cannot see 0 while a task is still on its way.
CountExact == \A o \in Objects :
    /\ \A t \in Threads : Executes(t, o) =>
          taskCount_[o] = Len(tasks_[o]) + Cardinality(Announced(o)) + popped[t]
    /\ (\A t \in Threads : ~Executes(t, o)) =>
          taskCount_[o] = Len(tasks_[o]) + Cardinality(Announced(o))

-----------------------------------------------------------------------------
(* The abstract actor that the threads implement.                          *)

Executors(o) == {t \in Threads : Executes(t, o)}

Mailbox(o) ==
    IF Executors(o) = {} THEN tasks_[o]
    ELSE LET t == CHOOSE t \in Executors(o) : TRUE
         IN (IF execPc[t] = "task" THEN Tail(batch[t]) ELSE batch[t]) \o tasks_[o]

Running(o) ==
    IF \E t \in Executors(o) : execPc[t] = "task"
    THEN Head(batch[CHOOSE t \in Executors(o) : execPc[t] = "task"])
    ELSE NoTask

Actor == INSTANCE SerialActor WITH
             mailbox <- [o \in Objects |-> Mailbox(o)],
             running <- [o \in Objects |-> Running(o)]

\* The worker threads implement the serial actor: tasks of one object run one
\* at a time, once each, in the order in which tasks_ received them.
IsSerialActor == Actor!Spec

\* Every posted task runs, however often executors give up the object because
\* their time slice is over, and whoever posted it.
EveryTaskRuns == \A k \in Tasks : k \in posted ~> k \in finished
=============================================================================
