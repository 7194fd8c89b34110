------------------------- MODULE CommandTaskProofs -------------------------
(***************************************************************************)
(* Theorems about CommandTask, for any finite set of threads and any sets  *)
(* of objects and tasks.                                                   *)
(***************************************************************************)
EXTENDS CommandTask, FiniteSetTheorems, SequenceTheorems, TLAPS

\* The types are inductive by themselves, once it is known that an executor
\* has an object and that a caller of Push has one too.
Locals == \A t \in Threads :
    /\ execPc[t] = "out" <=> LCurrent[t] = NoObject
    /\ pushPc[t] # "out" => pushObj[t] \in Objects /\ execPc[t] \in {"out", "task"}
    /\ pushPc[t] = "counted" => pushTask[t] \in Tasks
    /\ execPc[t] \in {"out", "popAll", "check"} => popped[t] = 0
    /\ execPc[t] = "task" => batch[t] # <<>>

\* taskCount_ is positive exactly while someone is responsible.
CountedIffResponsible == \A o \in Objects : taskCount_[o] > 0 <=> Responsible(o)

\* The inductive invariant.
IInv ==
    /\ TypeOK
    /\ Locals
    /\ OneExecutor
    /\ OneResponsible
    /\ CountedIffResponsible
    /\ CountExact

-----------------------------------------------------------------------------
LEMMA InitIInv == Init => IInv
<1> SUFFICES ASSUME Init PROVE IInv
    OBVIOUS
<1>1. TypeOK
    BY EmptySeq DEF Init, TypeOK
<1>2. Locals
    BY NoObjectFresh DEF Init, Locals
<1>3. OneExecutor /\ OneResponsible /\ CountedIffResponsible
    BY NoObjectFresh DEF Init, OneExecutor, OneResponsible, CountedIffResponsible,
       Responsible, Executes, Schedules, Scheduled
<1>4. \A o \in Objects : Announced(o) = {}
    BY DEF Init, Announced
<1>5. \A o \in Objects : /\ taskCount_[o] = 0 /\ Len(tasks_[o]) = 0
                           /\ Cardinality(Announced(o)) = 0
                           /\ \A t \in Threads : ~Executes(t, o)
  <2>1. \A o \in Objects : Cardinality(Announced(o)) = 0
    BY <1>4, FS_EmptySet
  <2>2. \A o \in Objects : taskCount_[o] = 0 /\ Len(tasks_[o]) = 0
    BY DEF Init
  <2> QED BY <2>1, <2>2, NoObjectFresh DEF Init, Executes
<1>6. CountExact
    BY <1>5 DEF CountExact
<1> QED BY <1>1, <1>2, <1>3, <1>6 DEF IInv

\* The three facts about Announced(o) that the counting needs.
LEMMA AnnouncedFinite ==
    ASSUME NEW o \in Objects
    PROVE  IsFiniteSet(Announced(o)) /\ Cardinality(Announced(o)) \in Nat
BY ThreadsFinite, FS_Subset, FS_CardinalityType DEF Announced

LEMMA AnnouncedSame ==
    ASSUME pushPc' = pushPc, pushObj' = pushObj, NEW o \in Objects
    PROVE  Announced(o)' = Announced(o)
BY DEF Announced

\* Every step but fetch_add and tasks_.Push keeps them as they are.
LEMMA AnnouncedReturn ==
    ASSUME TypeOK, NEW t \in Threads, pushPc[t] = "queued", ReturnFromPush(t),
           NEW o \in Objects
    PROVE  Announced(o)' = Announced(o)
BY DEF Announced, ReturnFromPush, TypeOK

-----------------------------------------------------------------------------
LEMMA TypeStep == IInv /\ [Next]_vars => TypeOK'
<1> SUFFICES ASSUME IInv, [Next]_vars PROVE TypeOK'
    OBVIOUS
<1> USE DEF TypeOK, IInv
<1>1. ASSUME NEW t \in Threads, Post(t) PROVE TypeOK'
    BY <1>1 DEF Post, PushCount, execVars
<1>2. ASSUME NEW t \in Threads, PushTask(t) PROVE TypeOK'
  <2>1. pushObj[t] \in Objects /\ pushTask[t] \in Tasks
    BY <1>2 DEF PushTask, Locals
  <2>2. tasks_' \in [Objects -> Seq(Tasks)]
    BY <1>2, <2>1, AppendProperties DEF PushTask
  <2> QED BY <1>2, <2>2 DEF PushTask, execVars
<1>3. ASSUME NEW t \in Threads, PushExecute(t) PROVE TypeOK'
    BY <1>3 DEF PushExecute, EnterExecute, ReturnFromPush, objVars
<1>4. ASSUME NEW t \in Threads, PushSchedule(t) PROVE TypeOK'
  <2>1. objectQueues_' \in Seq(Objects)
    BY <1>4, AppendProperties DEF PushSchedule, Locals
  <2> QED BY <1>4, <2>1 DEF PushSchedule, ReturnFromPush, execVars
<1>5. ASSUME NEW t \in Threads, PushLeave(t) PROVE TypeOK'
    BY <1>5 DEF PushLeave, ReturnFromPush, objVars, execVars
<1>6. ASSUME NEW t \in Threads, ExecPopAll(t) PROVE TypeOK'
  <2>1. LCurrent[t] \in Objects
    BY <1>6 DEF ExecPopAll, Locals
  <2>2. Len(tasks_[LCurrent[t]]) \in Nat /\ <<>> \in Seq(Tasks)
    BY <2>1, LenProperties
  <2> QED BY <1>6, <2>1, <2>2 DEF ExecPopAll, pushVars
<1>7. ASSUME NEW t \in Threads, ExecBegin(t) PROVE TypeOK'
    BY <1>7 DEF ExecBegin, objVars, pushVars
<1>8. ASSUME NEW t \in Threads, ExecEnd(t) PROVE TypeOK'
  <2>1. Head(batch[t]) \in Tasks /\ Tail(batch[t]) \in Seq(Tasks)
    BY <1>8, HeadTailProperties DEF ExecEnd, Locals
  <2> QED BY <1>8, <2>1 DEF ExecEnd, objVars, pushVars
<1>9. ASSUME NEW t \in Threads, ExecRelease(t) PROVE TypeOK'
    BY <1>9 DEF ExecRelease, LeaveExecute, pushVars
<1>10. ASSUME NEW t \in Threads, ExecKeep(t) PROVE TypeOK'
  <2>1. LCurrent[t] \in Objects
    BY <1>10 DEF ExecKeep, Locals
  <2>2. taskCount_[LCurrent[t]] - popped[t] \in Nat
    BY <2>1, AnnouncedFinite, LenProperties DEF CountExact, Executes
  <2> QED BY <1>10, <2>1, <2>2 DEF ExecKeep, pushVars
<1>11. ASSUME NEW t \in Threads, ExecAgain(t) PROVE TypeOK'
    BY <1>11 DEF ExecAgain, objVars, pushVars
<1>12. ASSUME NEW t \in Threads, ExecYield(t) PROVE TypeOK'
  <2>1. objectQueues_' \in Seq(Objects)
    BY <1>12, AppendProperties DEF ExecYield, Locals
  <2> QED BY <1>12, <2>1 DEF ExecYield, LeaveExecute, pushVars
<1>13. ASSUME NEW t \in Threads, ExecuteTask(t) PROVE TypeOK'
  <2>1. Head(objectQueues_) \in Objects /\ Tail(objectQueues_) \in Seq(Objects)
    BY <1>13, HeadTailProperties DEF ExecuteTask
  <2> QED BY <1>13, <2>1 DEF ExecuteTask, EnterExecute, pushVars
<1>14. CASE UNCHANGED vars
    BY <1>14 DEF vars, objVars, pushVars, execVars
<1> QED
    BY <1>1, <1>2, <1>3, <1>4, <1>5, <1>6, <1>7, <1>8, <1>9, <1>10, <1>11, <1>12,
       <1>13, <1>14 DEF Next, Push, Execute, Idle

LEMMA LocalsStep == IInv /\ [Next]_vars => Locals'
<1> SUFFICES ASSUME IInv, [Next]_vars PROVE Locals'
    OBVIOUS
<1> USE NoObjectFresh DEF TypeOK, IInv, Locals
<1>1. ASSUME NEW t \in Threads, Post(t) PROVE Locals'
    BY <1>1 DEF Post, PushCount, MayCall, execVars
<1>2. ASSUME NEW t \in Threads, PushTask(t) PROVE Locals'
    BY <1>2 DEF PushTask, execVars
<1>3. ASSUME NEW t \in Threads, PushExecute(t) PROVE Locals'
    BY <1>3 DEF PushExecute, EnterExecute, ReturnFromPush, objVars
<1>4. ASSUME NEW t \in Threads, PushSchedule(t) PROVE Locals'
    BY <1>4 DEF PushSchedule, ReturnFromPush, execVars
<1>5. ASSUME NEW t \in Threads, PushLeave(t) PROVE Locals'
    BY <1>5 DEF PushLeave, ReturnFromPush, objVars, execVars
<1>6. ASSUME NEW t \in Threads, ExecPopAll(t) PROVE Locals'
    BY <1>6 DEF ExecPopAll, pushVars
<1>7. ASSUME NEW t \in Threads, ExecBegin(t) PROVE Locals'
    BY <1>7 DEF ExecBegin, objVars, pushVars
<1>8. ASSUME NEW t \in Threads, ExecEnd(t) PROVE Locals'
    BY <1>8 DEF ExecEnd, objVars, pushVars
<1>9. ASSUME NEW t \in Threads, ExecRelease(t) PROVE Locals'
    BY <1>9 DEF ExecRelease, LeaveExecute, pushVars
<1>10. ASSUME NEW t \in Threads, ExecKeep(t) PROVE Locals'
    BY <1>10 DEF ExecKeep, pushVars
<1>11. ASSUME NEW t \in Threads, ExecAgain(t) PROVE Locals'
    BY <1>11 DEF ExecAgain, objVars, pushVars
<1>12. ASSUME NEW t \in Threads, ExecYield(t) PROVE Locals'
    BY <1>12 DEF ExecYield, LeaveExecute, pushVars
<1>13. ASSUME NEW t \in Threads, ExecuteTask(t) PROVE Locals'
  <2>1. Head(objectQueues_) \in Objects
    BY <1>13, HeadTailProperties DEF ExecuteTask
  <2> QED BY <1>13, <2>1 DEF ExecuteTask, EnterExecute, pushVars
<1>14. CASE UNCHANGED vars
    BY <1>14 DEF vars, objVars, pushVars, execVars
<1> QED
    BY <1>1, <1>2, <1>3, <1>4, <1>5, <1>6, <1>7, <1>8, <1>9, <1>10, <1>11, <1>12,
       <1>13, <1>14 DEF Next, Push, Execute, Idle
-----------------------------------------------------------------------------
(* Responsibility: it is acquired by the fetch_add that finds 0, handed    *)
(* from Push to Execute, from Push or Execute to the global queue and back *)
(* by ExecuteTask, and given up by the fetch_sub that leaves 0.            *)

Resp ==
    /\ OneExecutor
    /\ OneResponsible
    /\ CountedIffResponsible

\* A step that touches neither the counts nor who is responsible.
LEMMA RespSame ==
    ASSUME Resp, objectQueues_' = objectQueues_, LCurrent' = LCurrent,
           \A o \in Objects : taskCount_'[o] > 0 <=> taskCount_[o] > 0,
           \A o \in Objects, t \in Threads : Schedules(t, o)' <=> Schedules(t, o)
    PROVE  Resp'
BY DEF Resp, OneExecutor, OneResponsible, CountedIffResponsible, Responsible,
       Executes, Scheduled

\* The queue after GCommandTaskManager->Push(o).
LEMMA QueueAppend ==
    ASSUME TypeOK, NEW o \in Objects, objectQueues_' = Append(objectQueues_, o)
    PROVE  /\ Len(objectQueues_') = Len(objectQueues_) + 1
           /\ \A i \in 1 .. Len(objectQueues_) : objectQueues_'[i] = objectQueues_[i]
           /\ objectQueues_'[Len(objectQueues_) + 1] = o
           /\ Len(objectQueues_) \in Nat
BY AppendProperties, LenProperties DEF TypeOK

\* It keeps its elements distinct if o was not in it.
LEMMA QueueUnique ==
    ASSUME TypeOK, NEW o \in Objects, objectQueues_' = Append(objectQueues_, o),
           OneResponsible, ~Scheduled(o)
    PROVE  \A i, j \in 1 .. Len(objectQueues_)' :
              objectQueues_'[i] = objectQueues_'[j] => i = j
<1> TAKE i, j \in 1 .. Len(objectQueues_)'
<1> DEFINE n == Len(objectQueues_)
<1>1. /\ i \in 1 .. n \/ i = n + 1
      /\ j \in 1 .. n \/ j = n + 1
    BY QueueAppend
<1>2. ASSUME i \in 1 .. n, j \in 1 .. n, objectQueues_'[i] = objectQueues_'[j]
      PROVE  i = j
  <2>1. objectQueues_[i] = objectQueues_[j] /\ objectQueues_[i] \in Objects
    BY <1>2, QueueAppend, ElementOfSeq DEF TypeOK
  <2> QED BY <1>2, <2>1 DEF OneResponsible
<1>3. \A k \in 1 .. n : objectQueues_'[k] # o
    BY QueueAppend DEF Scheduled
<1> QED BY <1>1, <1>2, <1>3, QueueAppend

LEMMA RespStep == IInv /\ [Next]_vars => Resp'
<1> SUFFICES ASSUME IInv, [Next]_vars PROVE Resp'
    OBVIOUS
<1> USE NoObjectFresh
<1> DEFINE Same == \A o \in Objects, t \in Threads : Schedules(t, o)' <=> Schedules(t, o)
<1>0. Resp /\ TypeOK /\ Locals /\ CountExact
    BY DEF Resp, IInv
<1>1. ASSUME NEW t \in Threads, Post(t) PROVE Resp'
  <2>1. PICK o \in Objects, k \in Tasks, only \in BOOLEAN : PushCount(t, o, k, only)
    BY <1>0, <1>1 DEF Post
  <2>2. /\ objectQueues_' = objectQueues_ /\ LCurrent' = LCurrent
        /\ taskCount_'[o] = taskCount_[o] + 1
        /\ \A p \in Objects : p # o => taskCount_'[p] = taskCount_[p]
    BY <1>0, <2>1 DEF PushCount, execVars, TypeOK, Locals
  <2>3. \A p \in Objects, u \in Threads :
          Schedules(u, p)' <=> \/ Schedules(u, p)
                               \/ u = t /\ p = o /\ taskCount_[o] = 0
    BY <1>0, <2>1 DEF PushCount, MayCall, Schedules, TypeOK, Locals
  <2>4. taskCount_[o] = 0 => ~Responsible(o)
    BY <1>0 DEF CountedIffResponsible, Resp
  <2>5. taskCount_'[o] > 0 /\ (taskCount_[o] # 0 => taskCount_[o] > 0)
    BY <1>0, <2>1, <2>2 DEF TypeOK
  <2>6. \A p \in Objects, u \in Threads : Executes(u, p)' <=> Executes(u, p)
    BY <1>0, <2>2 DEF Executes
  <2>7. \A p \in Objects : Scheduled(p)' <=> Scheduled(p)
    BY <1>0, <2>2 DEF Scheduled
  <2>8. OneExecutor'
    BY <1>0, <2>6 DEF OneExecutor, Resp
  <2>9. OneResponsible'
    BY <1>0, <2>2, <2>3, <2>4, <2>6, <2>7 DEF OneResponsible, Responsible, Resp
  <2>10. CountedIffResponsible'
    BY <1>0, <2>2, <2>3, <2>4, <2>5, <2>6, <2>7 DEF CountedIffResponsible, Responsible, Resp
  <2> QED BY <1>0, <2>8, <2>9, <2>10 DEF Resp
<1>2. ASSUME NEW t \in Threads, PushTask(t) PROVE Resp'
  <2>1. Same
    BY <1>0, <1>2 DEF PushTask, Schedules, TypeOK, Locals
  <2> QED BY <1>0, <1>2, <2>1, RespSame DEF PushTask, execVars, TypeOK, Locals
<1>3. ASSUME NEW t \in Threads, PushExecute(t) PROVE Resp'
  <2>1. PICK o \in Objects : o = pushObj[t] /\ Schedules(t, o)
    BY <1>0, <1>3 DEF PushExecute, Schedules, Locals
  <2>2. \A p \in Objects, u \in Threads : Schedules(u, p)' <=> Schedules(u, p) /\ u # t
    BY <1>0, <1>3, <2>1 DEF PushExecute, ReturnFromPush, Schedules, TypeOK, Locals
  <2>3. \A p \in Objects, u \in Threads :
          Executes(u, p)' <=> Executes(u, p) \/ (u = t /\ p = o)
    BY <1>0, <1>3, <2>1 DEF PushExecute, EnterExecute, Executes, TypeOK, Locals
  <2>4. objectQueues_' = objectQueues_ /\ taskCount_' = taskCount_
    BY <1>0, <1>3, <2>1 DEF PushExecute, objVars, TypeOK, Locals
  <2>5. \A p \in Objects : Scheduled(p)' <=> Scheduled(p)
    BY <1>0, <2>4 DEF Scheduled
  <2>6. OneExecutor'
    BY <1>0, <2>1, <2>3 DEF OneExecutor, OneResponsible, Resp
  <2>7. \A p \in Objects : Schedules(t, p) => p = o
    BY <2>1 DEF Schedules
  <2>8. OneResponsible'
    BY <1>0, <2>1, <2>2, <2>3, <2>4, <2>5, <2>7 DEF OneResponsible, Resp
  <2>9. CountedIffResponsible'
    BY <1>0, <2>1, <2>2, <2>3, <2>4, <2>5, <2>7 DEF CountedIffResponsible, Responsible, Resp
  <2> QED BY <1>0, <2>6, <2>8, <2>9 DEF Resp
<1>4. ASSUME NEW t \in Threads, PushSchedule(t) PROVE Resp'
  <2>1. PICK o \in Objects : o = pushObj[t] /\ Schedules(t, o)
    BY <1>0, <1>4 DEF PushSchedule, Schedules, Locals
  <2>2. \A p \in Objects, u \in Threads : Schedules(u, p)' <=> Schedules(u, p) /\ u # t
    BY <1>0, <1>4, <2>1 DEF PushSchedule, ReturnFromPush, Schedules, TypeOK, Locals
  <2>3. \A p \in Objects, u \in Threads : Executes(u, p)' <=> Executes(u, p)
    BY <1>0, <1>4, <2>1 DEF PushSchedule, execVars, Executes, TypeOK, Locals
  <2>4. objectQueues_' = Append(objectQueues_, o) /\ taskCount_' = taskCount_
    BY <1>0, <1>4, <2>1 DEF PushSchedule, TypeOK, Locals
  <2>5. \A p \in Objects : Scheduled(p)' <=> Scheduled(p) \/ p = o
    BY <1>0, <2>1, <2>4, QueueAppend DEF Scheduled
  <2>6. OneExecutor'
    BY <1>0, <2>3 DEF OneExecutor, Resp
  <2>7. \A p \in Objects : Schedules(t, p) => p = o
    BY <2>1 DEF Schedules
  <2>11. ~Scheduled(o)
    BY <1>0, <2>1 DEF OneResponsible, Resp
  <2>8. \A i, j \in 1 .. Len(objectQueues_)' :
           objectQueues_'[i] = objectQueues_'[j] => i = j
    BY <1>0, <2>4, <2>11, QueueUnique DEF Resp
  <2>9. OneResponsible'
    BY <1>0, <2>1, <2>2, <2>3, <2>5, <2>7, <2>8 DEF OneResponsible, Resp
  <2>10. CountedIffResponsible'
    BY <1>0, <2>1, <2>2, <2>3, <2>4, <2>5, <2>7 DEF CountedIffResponsible, Responsible, Resp
  <2> QED BY <1>0, <2>6, <2>9, <2>10 DEF Resp
<1>5. ASSUME NEW t \in Threads, PushLeave(t) PROVE Resp'
  <2>1. Same
    BY <1>0, <1>5 DEF PushLeave, ReturnFromPush, Schedules, TypeOK, Locals
  <2> QED BY <1>0, <1>5, <2>1, RespSame DEF PushLeave, execVars, objVars, TypeOK, Locals
<1>6. ASSUME NEW t \in Threads, ExecPopAll(t) PROVE Resp'
  <2>1. Same
    BY <1>0, <1>6 DEF ExecPopAll, pushVars, Schedules, TypeOK, Locals
  <2> QED BY <1>0, <1>6, <2>1, RespSame DEF ExecPopAll, TypeOK, Locals
<1>7. ASSUME NEW t \in Threads, ExecBegin(t) PROVE Resp'
  <2>1. Same
    BY <1>0, <1>7 DEF ExecBegin, pushVars, Schedules, TypeOK, Locals
  <2> QED BY <1>0, <1>7, <2>1, RespSame DEF ExecBegin, objVars, TypeOK, Locals
<1>8. ASSUME NEW t \in Threads, ExecEnd(t) PROVE Resp'
  <2>1. Same
    BY <1>0, <1>8 DEF ExecEnd, pushVars, Schedules, TypeOK, Locals
  <2> QED BY <1>0, <1>8, <2>1, RespSame DEF ExecEnd, objVars, TypeOK, Locals
<1>9. ASSUME NEW t \in Threads, ExecRelease(t) PROVE Resp'
  <2>1. PICK o \in Objects : o = LCurrent[t] /\ Executes(t, o)
    BY <1>0, <1>9 DEF ExecRelease, Executes, TypeOK, Locals
  <2>2. Same
    BY <1>0, <1>9, <2>1 DEF ExecRelease, pushVars, Schedules, TypeOK, Locals
  <2>3. \A p \in Objects, u \in Threads : Executes(u, p)' <=> Executes(u, p) /\ u # t
    BY <1>0, <1>9, <2>1 DEF ExecRelease, LeaveExecute, Executes, TypeOK, Locals
  <2>4. /\ objectQueues_' = objectQueues_
        /\ taskCount_'[o] = 0
        /\ \A p \in Objects : p # o => taskCount_'[p] = taskCount_[p]
    BY <1>0, <1>9, <2>1 DEF ExecRelease, TypeOK, Locals
  <2>5. \A p \in Objects : Scheduled(p)' <=> Scheduled(p)
    BY <1>0, <2>4 DEF Scheduled
  <2>6. OneExecutor'
    BY <1>0, <2>3 DEF OneExecutor, Resp
  <2>7. \A p \in Objects : Executes(t, p) => p = o
    BY <2>1 DEF Executes
  <2>8. OneResponsible'
    BY <1>0, <2>2, <2>3, <2>4, <2>5 DEF OneResponsible, Resp
  <2>9. ~Responsible(o)'
    BY <1>0, <2>1, <2>2, <2>3, <2>5 DEF OneResponsible, OneExecutor, Responsible, Resp
  <2>10. CountedIffResponsible'
    BY <1>0, <2>1, <2>2, <2>3, <2>4, <2>5, <2>7, <2>9 DEF CountedIffResponsible, Responsible, Resp
  <2> QED BY <1>0, <2>6, <2>8, <2>10 DEF Resp
<1>10. ASSUME NEW t \in Threads, ExecKeep(t) PROVE Resp'
  <2>1. Same
    BY <1>0, <1>10 DEF ExecKeep, pushVars, Schedules, TypeOK, Locals
  <2>2. LCurrent[t] \in Objects /\ Executes(t, LCurrent[t])
    BY <1>0, <1>10 DEF ExecKeep, Executes, TypeOK, Locals
  <2>3. taskCount_[LCurrent[t]] >= popped[t]
    BY <1>0, <2>2, AnnouncedFinite, LenProperties DEF CountExact, TypeOK
  <2>4. taskCount_[LCurrent[t]] > 0
    BY <1>0, <2>2 DEF CountedIffResponsible, Responsible, Resp
  <2>5. \A o \in Objects : taskCount_'[o] > 0 <=> taskCount_[o] > 0
    BY <1>0, <1>10, <2>2, <2>3, <2>4 DEF ExecKeep, TypeOK, Locals
  <2> QED BY <1>0, <1>10, <2>1, <2>5, RespSame DEF ExecKeep, TypeOK, Locals
<1>11. ASSUME NEW t \in Threads, ExecAgain(t) PROVE Resp'
  <2>1. Same
    BY <1>0, <1>11 DEF ExecAgain, pushVars, Schedules, TypeOK, Locals
  <2> QED BY <1>0, <1>11, <2>1, RespSame DEF ExecAgain, objVars, TypeOK, Locals
<1>12. ASSUME NEW t \in Threads, ExecYield(t) PROVE Resp'
  <2>1. PICK o \in Objects : o = LCurrent[t] /\ Executes(t, o)
    BY <1>0, <1>12 DEF ExecYield, Executes, TypeOK, Locals
  <2>2. Same
    BY <1>0, <1>12, <2>1 DEF ExecYield, pushVars, Schedules, TypeOK, Locals
  <2>3. \A p \in Objects, u \in Threads : Executes(u, p)' <=> Executes(u, p) /\ u # t
    BY <1>0, <1>12, <2>1 DEF ExecYield, LeaveExecute, Executes, TypeOK, Locals
  <2>4. objectQueues_' = Append(objectQueues_, o) /\ taskCount_' = taskCount_
    BY <1>0, <1>12, <2>1 DEF ExecYield, TypeOK, Locals
  <2>5. \A p \in Objects : Scheduled(p)' <=> Scheduled(p) \/ p = o
    BY <1>0, <2>1, <2>4, QueueAppend DEF Scheduled
  <2>6. OneExecutor'
    BY <1>0, <2>3 DEF OneExecutor, Resp
  <2>7. \A p \in Objects : Executes(t, p) => p = o
    BY <2>1 DEF Executes
  <2>11. ~Scheduled(o)
    BY <1>0, <2>1 DEF OneResponsible, Resp
  <2>8. \A i, j \in 1 .. Len(objectQueues_)' :
           objectQueues_'[i] = objectQueues_'[j] => i = j
    BY <1>0, <2>4, <2>11, QueueUnique DEF Resp
  <2>9. OneResponsible'
    BY <1>0, <2>1, <2>2, <2>3, <2>5, <2>8 DEF OneResponsible, OneExecutor, Resp
  <2>10. CountedIffResponsible'
    BY <1>0, <2>1, <2>2, <2>3, <2>4, <2>5, <2>7 DEF CountedIffResponsible, Responsible, Resp
  <2> QED BY <1>0, <2>6, <2>9, <2>10 DEF Resp
<1>13. ASSUME NEW t \in Threads, ExecuteTask(t) PROVE Resp'
  <2>1. PICK o \in Objects :
          /\ o = Head(objectQueues_) /\ o = objectQueues_[1]
          /\ Len(objectQueues_)' = Len(objectQueues_) - 1
          /\ Len(objectQueues_) \in Nat \ {0}
          /\ \A i \in 1 .. Len(objectQueues_)' : objectQueues_'[i] = objectQueues_[i + 1]
    BY <1>0, <1>13, HeadTailProperties, LenProperties, EmptySeq DEF ExecuteTask, TypeOK, Locals
  <2>2. Same
    BY <1>0, <1>13, <2>1 DEF ExecuteTask, pushVars, Schedules, TypeOK, Locals
  <2>3. \A p \in Objects, u \in Threads :
          Executes(u, p)' <=> Executes(u, p) \/ (u = t /\ p = o)
    BY <1>0, <1>13, <2>1 DEF ExecuteTask, EnterExecute, Executes, TypeOK, Locals
  <2>4. taskCount_' = taskCount_
    BY <1>0, <1>13, <2>1 DEF ExecuteTask, TypeOK, Locals
  <2>5. Scheduled(o) /\ ~Scheduled(o)'
    BY <1>0, <2>1 DEF Scheduled, OneResponsible, Resp
  <2>6. \A p \in Objects : p # o => (Scheduled(p)' <=> Scheduled(p))
    <3> TAKE p \in Objects
    <3>1. ASSUME p # o, NEW i \in 1 .. Len(objectQueues_), objectQueues_[i] = p
          PROVE  Scheduled(p)'
      <4>1. i # 1
        BY <2>1, <3>1
      <4>2. PICK j \in 1 .. Len(objectQueues_)' : i = j + 1
        <5>1. i - 1 \in 1 .. Len(objectQueues_)' /\ i = (i - 1) + 1
          BY <2>1, <4>1
        <5> QED BY <5>1
      <4>3. objectQueues_'[j] = p
        BY <2>1, <3>1, <4>2
      <4> QED BY <4>3 DEF Scheduled
    <3>2. ASSUME NEW i \in 1 .. Len(objectQueues_)', objectQueues_'[i] = p
          PROVE  Scheduled(p)
      BY <1>0, <2>1, <3>2 DEF Scheduled
    <3> QED BY <3>1, <3>2 DEF Scheduled
  <2>7. OneExecutor'
    BY <1>0, <2>1, <2>3, <2>5 DEF OneExecutor, OneResponsible, Resp
  <2>8. \A i, j \in 1 .. Len(objectQueues_)' :
           objectQueues_'[i] = objectQueues_'[j] => i = j
    <3> TAKE i, j \in 1 .. Len(objectQueues_)'
    <3>1. /\ i + 1 \in 1 .. Len(objectQueues_) /\ j + 1 \in 1 .. Len(objectQueues_)
          /\ objectQueues_[i + 1] \in Objects
      BY <1>0, <2>1, ElementOfSeq DEF TypeOK
    <3> QED BY <1>0, <2>1, <3>1 DEF OneResponsible, Resp
  <2>9. OneResponsible'
    BY <1>0, <2>1, <2>2, <2>3, <2>5, <2>6, <2>8 DEF OneResponsible, Resp
  <2>10. CountedIffResponsible'
    BY <1>0, <2>1, <2>2, <2>3, <2>4, <2>5, <2>6 DEF CountedIffResponsible, Responsible, Resp
  <2> QED BY <1>0, <2>7, <2>9, <2>10 DEF Resp
<1>14. CASE UNCHANGED vars
  <2>1. Same
    BY <1>0, <1>14 DEF vars, pushVars, Schedules
  <2> QED BY <1>0, <1>14, <2>1, RespSame DEF vars, objVars, execVars
<1> QED
    BY <1>0, <1>1, <1>2, <1>3, <1>4, <1>5, <1>6, <1>7, <1>8, <1>9, <1>10, <1>11, <1>12,
       <1>13, <1>14 DEF Next, Push, Execute, Idle
-----------------------------------------------------------------------------
\* A step that changes neither the counts nor the queues, nor what executors
\* have popped.
LEMMA CountSame ==
    ASSUME CountExact, taskCount_' = taskCount_, tasks_' = tasks_, popped' = popped,
           LCurrent' = LCurrent, \A o \in Objects : Announced(o)' = Announced(o)
    PROVE  CountExact'
BY DEF CountExact, Executes

LEMMA CountStep == IInv /\ [Next]_vars => CountExact'
<1> SUFFICES ASSUME IInv, [Next]_vars PROVE CountExact'
    OBVIOUS
<1> USE NoObjectFresh
<1>0. /\ OneExecutor /\ OneResponsible /\ TypeOK /\ Locals /\ CountExact
      /\ \A o \in Objects : Cardinality(Announced(o)) \in Nat /\ Len(tasks_[o]) \in Nat
    BY AnnouncedFinite, LenProperties DEF IInv, TypeOK
<1>1. ASSUME NEW t \in Threads, Post(t) PROVE CountExact'
  <2>1. PICK o \in Objects, k \in Tasks, only \in BOOLEAN : PushCount(t, o, k, only)
    BY <1>1 DEF Post
  <2>2. t \notin Announced(o) /\ Announced(o)' = Announced(o) \cup {t}
    BY <1>0, <2>1 DEF PushCount, MayCall, Announced, TypeOK
  <2>3. \A p \in Objects : p # o => Announced(p)' = Announced(p)
    BY <1>0, <2>1 DEF PushCount, MayCall, Announced, TypeOK
  <2>4. Cardinality(Announced(o)') = Cardinality(Announced(o)) + 1
    BY <2>2, AnnouncedFinite, FS_AddElement
  <2>5. /\ tasks_' = tasks_ /\ popped' = popped /\ LCurrent' = LCurrent
        /\ taskCount_'[o] = taskCount_[o] + 1
        /\ \A p \in Objects : p # o => taskCount_'[p] = taskCount_[p]
    BY <1>0, <2>1 DEF PushCount, execVars, TypeOK
  <2>6. \A u \in Threads : popped[u] \in Nat
    BY <1>0 DEF TypeOK
  <2> QED BY <1>0, <2>3, <2>4, <2>5, <2>6 DEF CountExact, Executes
<1>2. ASSUME NEW t \in Threads, PushTask(t) PROVE CountExact'
  <2>1. PICK o \in Objects : o = pushObj[t]
    BY <1>0, <1>2 DEF PushTask, Locals
  <2>2. t \in Announced(o) /\ Announced(o)' = Announced(o) \ {t}
    BY <1>0, <1>2, <2>1 DEF PushTask, Announced, TypeOK
  <2>3. \A p \in Objects : p # o => Announced(p)' = Announced(p)
    BY <1>0, <1>2, <2>1 DEF PushTask, Announced, TypeOK
  <2>4. Cardinality(Announced(o)') = Cardinality(Announced(o)) - 1
    BY <2>2, AnnouncedFinite, FS_RemoveElement
  <2>5. pushTask[t] \in Tasks /\ tasks_[o] \in Seq(Tasks)
    BY <1>0, <1>2 DEF PushTask, Locals, TypeOK
  <2>6. /\ taskCount_' = taskCount_ /\ popped' = popped /\ LCurrent' = LCurrent
        /\ tasks_'[o] = Append(tasks_[o], pushTask[t])
        /\ \A p \in Objects : p # o => tasks_'[p] = tasks_[p]
    BY <1>0, <1>2, <2>1 DEF PushTask, execVars, TypeOK
  <2>7. Len(tasks_'[o]) = Len(tasks_[o]) + 1
    BY <2>5, <2>6, AppendProperties
  <2>8. \A p \in Objects : Len(tasks_'[p]) + Cardinality(Announced(p)') =
                           Len(tasks_[p]) + Cardinality(Announced(p))
    BY <1>0, <2>3, <2>4, <2>6, <2>7
  <2> QED BY <1>0, <2>6, <2>8 DEF CountExact, Executes
<1>3. ASSUME NEW t \in Threads, PushExecute(t) PROVE CountExact'
  <2>1. \A o \in Objects : Announced(o)' = Announced(o)
    BY <1>0, <1>3, AnnouncedReturn DEF PushExecute
  <2>2. PICK o \in Objects : o = pushObj[t] /\ Schedules(t, o)
    BY <1>0, <1>3 DEF PushExecute, Schedules, Locals
  <2>3. \A u \in Threads : ~Executes(u, o)
    BY <1>0, <2>2 DEF OneResponsible
  <2>4. popped[t] = 0
    BY <1>0, <1>3 DEF PushExecute, Locals
  <2>5. \A p \in Objects, u \in Threads :
          Executes(u, p)' <=> Executes(u, p) \/ (u = t /\ p = o)
    BY <1>0, <1>3, <2>2 DEF PushExecute, EnterExecute, Executes, TypeOK, Locals
  <2>6. taskCount_' = taskCount_ /\ tasks_' = tasks_ /\ popped' = popped
    BY <1>3 DEF PushExecute, objVars
  <2> QED BY <1>0, <2>1, <2>3, <2>4, <2>5, <2>6 DEF CountExact
<1>4. ASSUME NEW t \in Threads, PushSchedule(t) PROVE CountExact'
  <2>1. \A o \in Objects : Announced(o)' = Announced(o)
    BY <1>0, <1>4, AnnouncedReturn DEF PushSchedule
  <2> QED BY <1>0, <1>4, <2>1, CountSame DEF PushSchedule, execVars
<1>5. ASSUME NEW t \in Threads, PushLeave(t) PROVE CountExact'
  <2>1. \A o \in Objects : Announced(o)' = Announced(o)
    BY <1>0, <1>5, AnnouncedReturn DEF PushLeave
  <2> QED BY <1>0, <1>5, <2>1, CountSame DEF PushLeave, execVars, objVars
<1>6. ASSUME NEW t \in Threads, ExecPopAll(t) PROVE CountExact'
  <2>1. PICK o \in Objects : o = LCurrent[t] /\ Executes(t, o)
    BY <1>0, <1>6 DEF ExecPopAll, Executes, TypeOK, Locals
  <2>2. \A p \in Objects : Announced(p)' = Announced(p)
    BY <1>6, AnnouncedSame DEF ExecPopAll, pushVars
  <2>3. /\ taskCount_' = taskCount_ /\ LCurrent' = LCurrent
        /\ popped[t] = 0 /\ popped'[t] = Len(tasks_[o])
        /\ \A u \in Threads : u # t => popped'[u] = popped[u]
        /\ tasks_'[o] = <<>> /\ \A p \in Objects : p # o => tasks_'[p] = tasks_[p]
    BY <1>0, <1>6, <2>1 DEF ExecPopAll, TypeOK, Locals
  <2>4. \A p \in Objects, u \in Threads : Executes(u, p)' <=> Executes(u, p)
    BY <2>3 DEF Executes
  <2>5. \A u \in Threads : Executes(u, o) <=> u = t
    BY <1>0, <2>1 DEF OneExecutor
  <2>6. \A p \in Objects : Executes(t, p) => p = o
    BY <2>1 DEF Executes
  <2>7. Len(tasks_'[o]) = 0
    BY <2>3, EmptySeq
  <2> QED BY <1>0, <2>2, <2>3, <2>4, <2>5, <2>6, <2>7 DEF CountExact
<1>7. ASSUME NEW t \in Threads, ExecBegin(t) PROVE CountExact'
  <2>1. \A p \in Objects : Announced(p)' = Announced(p)
    BY <1>7, AnnouncedSame DEF ExecBegin, pushVars
  <2> QED BY <1>0, <1>7, <2>1, CountSame DEF ExecBegin, objVars
<1>8. ASSUME NEW t \in Threads, ExecEnd(t) PROVE CountExact'
  <2>1. \A p \in Objects : Announced(p)' = Announced(p)
    BY <1>8, AnnouncedSame DEF ExecEnd, pushVars
  <2> QED BY <1>0, <1>8, <2>1, CountSame DEF ExecEnd, objVars
<1>9. ASSUME NEW t \in Threads, ExecRelease(t) PROVE CountExact'
  <2>1. PICK o \in Objects : o = LCurrent[t] /\ Executes(t, o)
    BY <1>0, <1>9 DEF ExecRelease, Executes, TypeOK, Locals
  <2>2. \A p \in Objects : Announced(p)' = Announced(p)
    BY <1>9, AnnouncedSame DEF ExecRelease, pushVars
  <2>3. /\ taskCount_[o] = popped[t] /\ popped[t] \in Nat /\ tasks_' = tasks_
        /\ taskCount_'[o] = 0
        /\ \A p \in Objects : p # o => taskCount_'[p] = taskCount_[p]
        /\ \A u \in Threads : u # t => popped'[u] = popped[u]
    BY <1>0, <1>9, <2>1 DEF ExecRelease, TypeOK
  <2>4. \A p \in Objects, u \in Threads : Executes(u, p)' <=> Executes(u, p) /\ u # t
    BY <1>0, <1>9 DEF ExecRelease, LeaveExecute, Executes, TypeOK
  <2>5. \A u \in Threads : ~Executes(u, o)'
    BY <1>0, <2>1, <2>4 DEF OneExecutor
  <2>6. \A p \in Objects : Executes(t, p) => p = o
    BY <2>1 DEF Executes
  <2>7. Len(tasks_[o]) + Cardinality(Announced(o)) = 0
    BY <1>0, <2>1, <2>3 DEF CountExact
  <2> QED BY <1>0, <2>2, <2>3, <2>4, <2>5, <2>6, <2>7 DEF CountExact
<1>10. ASSUME NEW t \in Threads, ExecKeep(t) PROVE CountExact'
  <2>1. PICK o \in Objects : o = LCurrent[t] /\ Executes(t, o)
    BY <1>0, <1>10 DEF ExecKeep, Executes, TypeOK, Locals
  <2>2. \A p \in Objects : Announced(p)' = Announced(p)
    BY <1>10, AnnouncedSame DEF ExecKeep, pushVars
  <2>3. /\ popped[t] \in Nat /\ tasks_' = tasks_ /\ LCurrent' = LCurrent
        /\ taskCount_'[o] = taskCount_[o] - popped[t] /\ popped'[t] = 0
        /\ \A p \in Objects : p # o => taskCount_'[p] = taskCount_[p]
        /\ \A u \in Threads : u # t => popped'[u] = popped[u]
    BY <1>0, <1>10, <2>1 DEF ExecKeep, TypeOK
  <2>4. \A p \in Objects, u \in Threads : Executes(u, p)' <=> Executes(u, p)
    BY <2>3 DEF Executes
  <2>5. \A u \in Threads : Executes(u, o) <=> u = t
    BY <1>0, <2>1 DEF OneExecutor
  <2>6. \A p \in Objects : Executes(t, p) => p = o
    BY <2>1 DEF Executes
  <2>7. taskCount_[o] = Len(tasks_[o]) + Cardinality(Announced(o)) + popped[t]
    BY <1>0, <2>1 DEF CountExact
  <2> QED BY <1>0, <2>2, <2>3, <2>4, <2>5, <2>6, <2>7 DEF CountExact
<1>11. ASSUME NEW t \in Threads, ExecAgain(t) PROVE CountExact'
  <2>1. \A p \in Objects : Announced(p)' = Announced(p)
    BY <1>11, AnnouncedSame DEF ExecAgain, pushVars
  <2> QED BY <1>0, <1>11, <2>1, CountSame DEF ExecAgain, objVars
<1>12. ASSUME NEW t \in Threads, ExecYield(t) PROVE CountExact'
  <2>1. PICK o \in Objects : o = LCurrent[t] /\ Executes(t, o)
    BY <1>0, <1>12 DEF ExecYield, Executes, TypeOK, Locals
  <2>2. \A p \in Objects : Announced(p)' = Announced(p)
    BY <1>12, AnnouncedSame DEF ExecYield, pushVars
  <2>3. taskCount_' = taskCount_ /\ tasks_' = tasks_ /\ popped' = popped
    BY <1>12 DEF ExecYield
  <2>4. \A p \in Objects, u \in Threads : Executes(u, p)' <=> Executes(u, p) /\ u # t
    BY <1>0, <1>12 DEF ExecYield, LeaveExecute, Executes, TypeOK
  <2>5. \A u \in Threads : Executes(u, o) <=> u = t
    BY <1>0, <2>1 DEF OneExecutor
  <2>6. \A p \in Objects : Executes(t, p) => p = o
    BY <2>1 DEF Executes
  <2>7. taskCount_[o] = Len(tasks_[o]) + Cardinality(Announced(o)) + 0
    BY <1>0, <1>12, <2>1 DEF CountExact, ExecYield, Locals
  <2> QED BY <1>0, <2>2, <2>3, <2>4, <2>5, <2>6, <2>7 DEF CountExact
<1>13. ASSUME NEW t \in Threads, ExecuteTask(t) PROVE CountExact'
  <2>1. PICK o \in Objects : o = Head(objectQueues_) /\ Scheduled(o)
    BY <1>0, <1>13, HeadTailProperties, LenProperties, EmptySeq
       DEF ExecuteTask, Scheduled, TypeOK
  <2>2. \A p \in Objects : Announced(p)' = Announced(p)
    BY <1>13, AnnouncedSame DEF ExecuteTask, pushVars
  <2>3. \A u \in Threads : ~Executes(u, o)
    BY <1>0, <2>1 DEF OneResponsible
  <2>4. popped[t] = 0
    BY <1>0, <1>13 DEF ExecuteTask, Locals
  <2>5. \A p \in Objects, u \in Threads :
          Executes(u, p)' <=> Executes(u, p) \/ (u = t /\ p = o)
    BY <1>0, <1>13, <2>1 DEF ExecuteTask, EnterExecute, Executes, TypeOK, Locals
  <2>6. taskCount_' = taskCount_ /\ tasks_' = tasks_ /\ popped' = popped
    BY <1>13 DEF ExecuteTask
  <2> QED BY <1>0, <2>2, <2>3, <2>4, <2>5, <2>6 DEF CountExact
<1>14. CASE UNCHANGED vars
  <2>1. \A p \in Objects : Announced(p)' = Announced(p)
    BY <1>14, AnnouncedSame DEF vars, pushVars
  <2> QED BY <1>0, <1>14, <2>1, CountSame DEF vars, objVars, execVars
<1> QED
    BY <1>1, <1>2, <1>3, <1>4, <1>5, <1>6, <1>7, <1>8, <1>9, <1>10, <1>11, <1>12,
       <1>13, <1>14 DEF Next, Push, Execute, Idle

-----------------------------------------------------------------------------
LEMMA Inductive == Spec => []IInv
<1>1. IInv /\ [Next]_vars => IInv'
    BY TypeStep, LocalsStep, RespStep, CountStep DEF IInv, Resp
<1> QED BY InitIInv, <1>1, PTL DEF Spec

\* CommandTask.cpp keeps its types: in particular taskCount_ never becomes
\* negative and GCommandTaskManager never hands out nullptr as an object.
THEOREM TypeCorrect == Spec => []TypeOK
<1>1. IInv => TypeOK
    BY DEF IInv
<1> QED BY Inductive, <1>1, PTL

\* The tasks of one object are never executed by two threads at once
\* (CommandTaskObject::Execute), for any number of threads and objects.
THEOREM OneExecutorAlways == Spec => []OneExecutor
<1>1. IInv => OneExecutor
    BY DEF IInv
<1> QED BY Inductive, <1>1, PTL

\* Of Push's `currentCount == 0`, Execute and the global object queue, at
\* most one is in charge of an object.
THEOREM OneResponsibleAlways == Spec => []OneResponsible
<1>1. IInv => OneResponsible
    BY DEF IInv
<1> QED BY Inductive, <1>1, PTL

\* taskCount_ is the exact number of tasks announced, queued or popped.
THEOREM CountExactAlways == Spec => []CountExact
<1>1. IInv => CountExact
    BY DEF IInv
<1> QED BY Inductive, <1>1, PTL

\* A task in tasks_ always has someone who will come for it.
THEOREM NoTaskStrandedAlways == Spec => []NoTaskStranded
<1>1. IInv => NoTaskStranded
  <2> SUFFICES ASSUME IInv, NEW o \in Objects, tasks_[o] # <<>>
               PROVE  Responsible(o)
    BY DEF NoTaskStranded
  <2>1. Len(tasks_[o]) \in Nat \ {0}
    BY EmptySeq DEF IInv, TypeOK
  <2>2. /\ Cardinality(Announced(o)) \in Nat
        /\ \A t \in Threads : popped[t] \in Nat
    BY AnnouncedFinite DEF IInv, TypeOK
  <2>3. taskCount_[o] > 0
    <3>1. CASE \E t \in Threads : Executes(t, o)
      BY <2>1, <2>2, <3>1 DEF IInv, CountExact
    <3>2. CASE \A t \in Threads : ~Executes(t, o)
      BY <2>1, <2>2, <3>2 DEF IInv, CountExact
    <3> QED BY <3>1, <3>2
  <2> QED BY <2>3 DEF IInv, CountedIffResponsible
<1> QED BY Inductive, <1>1, PTL
-----------------------------------------------------------------------------
(* CommandTask implements SerialActor. That a task enters a mailbox only   *)
(* once follows from where the tasks are: one that its thread has counted  *)
(* but not queued is in no queue, no batch and not among the finished.     *)

Elements(s) == {s[i] : i \in DOMAIN s}

Seen(k) ==
    \/ k \in finished
    \/ \E o \in Objects : k \in Elements(tasks_[o])
    \/ \E t \in Threads : k \in Elements(batch[t])

Counted(t) == pushPc[t] = "counted"

Fresh ==
    /\ \A k \in Tasks : Seen(k) => k \in posted
    /\ \A t \in Threads, k \in Tasks : Counted(t) /\ pushTask[t] = k => k \in posted /\ ~Seen(k)
    /\ \A t, u \in Threads : Counted(t) /\ Counted(u) /\ pushTask[t] = pushTask[u] => t = u

\* Execute overwrites its local `tasks` only when it is empty.
NothingPopped == \A t \in Threads : execPc[t] \in {"out", "popAll", "check"} => batch[t] = <<>>

ActorInv == Fresh /\ NothingPopped

LEMMA ElementsEmpty == Elements(<<>>) = {}
BY DEF Elements

LEMMA ElementsAppend ==
    ASSUME NEW S, NEW s \in Seq(S), NEW e \in S
    PROVE  Elements(Append(s, e)) = Elements(s) \cup {e}
<1>1. /\ DOMAIN s = 1 .. Len(s) /\ Len(s) \in Nat
      /\ DOMAIN Append(s, e) = 1 .. Len(s) + 1
    BY AppendProperties, LenProperties
<1>2. \A i \in 1 .. Len(s) + 1 : Append(s, e)[i] = IF i = Len(s) + 1 THEN e ELSE s[i]
    BY <1>1, AppendProperties
<1>3. 1 .. Len(s) + 1 = (1 .. Len(s)) \cup {Len(s) + 1}
    BY <1>1
<1> QED BY <1>1, <1>2, <1>3 DEF Elements

LEMMA ElementsTail ==
    ASSUME NEW S, NEW s \in Seq(S), s # <<>>
    PROVE  Head(s) \in Elements(s) /\ Elements(Tail(s)) \subseteq Elements(s)
<1>1. /\ DOMAIN s = 1 .. Len(s) /\ Len(s) \in Nat \ {0} /\ Head(s) = s[1]
      /\ DOMAIN Tail(s) = 1 .. Len(s) - 1
      /\ \A i \in 1 .. Len(s) - 1 : Tail(s)[i] = s[i + 1]
    BY HeadTailProperties, LenProperties, EmptySeq
<1>2. \A i \in 1 .. Len(s) - 1 : i + 1 \in 1 .. Len(s)
    BY <1>1
<1> QED BY <1>1, <1>2 DEF Elements

LEMMA ElementsConcat ==
    ASSUME NEW S, NEW s \in Seq(S), NEW r \in Seq(S)
    PROVE  Elements(s \o r) \subseteq Elements(s) \cup Elements(r)
<1>1. /\ DOMAIN s = 1 .. Len(s) /\ DOMAIN r = 1 .. Len(r) /\ Len(s) \in Nat /\ Len(r) \in Nat
      /\ s \o r \in Seq(S) /\ Len(s \o r) = Len(s) + Len(r)
      /\ \A i \in 1 .. Len(s) + Len(r) : (s \o r)[i] = IF i <= Len(s) THEN s[i] ELSE r[i - Len(s)]
    BY ConcatProperties, LenProperties
<1>2. DOMAIN (s \o r) = 1 .. Len(s) + Len(r)
    BY <1>1, LenProperties
<1>3. \A i \in 1 .. Len(s) + Len(r) : i <= Len(s) => i \in 1 .. Len(s)
    BY <1>1
<1>4. \A i \in 1 .. Len(s) + Len(r) : ~(i <= Len(s)) => i - Len(s) \in 1 .. Len(r)
    BY <1>1
<1> QED BY <1>1, <1>2, <1>3, <1>4 DEF Elements

LEMMA ConcatAppend ==
    ASSUME NEW S, NEW s \in Seq(S), NEW r \in Seq(S), NEW e \in S
    PROVE  s \o Append(r, e) = Append(s \o r, e)
<1>1. <<e>> \in Seq(S) /\ s \o r \in Seq(S)
    BY ConcatProperties
<1>2. s \o Append(r, e) = s \o (r \o <<e>>) /\ Append(s \o r, e) = (s \o r) \o <<e>>
    BY <1>1, AppendIsConcat
<1> QED BY <1>1, <1>2, ConcatAssociative

LEMMA ConcatTail ==
    ASSUME NEW S, NEW s \in Seq(S), NEW r \in Seq(S), s # <<>>
    PROVE  /\ s \o r # <<>> /\ s \o r \in Seq(S)
           /\ Head(s \o r) = Head(s) /\ Tail(s \o r) = Tail(s) \o r
<1>1. /\ s \o r \in Seq(S) /\ Len(s \o r) = Len(s) + Len(r) /\ s \o r # <<>>
      /\ \A i \in 1 .. Len(s) + Len(r) : (s \o r)[i] = IF i <= Len(s) THEN s[i] ELSE r[i - Len(s)]
    BY ConcatProperties, ConcatEqualIffEmpty
<1>2. /\ Tail(s) \in Seq(S) /\ Len(Tail(s)) = Len(s) - 1
      /\ \A i \in 1 .. Len(s) - 1 : Tail(s)[i] = s[i + 1]
      /\ Len(s) \in Nat \ {0} /\ Len(r) \in Nat
    BY HeadTailProperties, LenProperties, EmptySeq
<1>3. /\ Tail(s \o r) \in Seq(S) /\ Len(Tail(s \o r)) = Len(s) + Len(r) - 1
      /\ \A i \in 1 .. Len(s) + Len(r) - 1 : Tail(s \o r)[i] = (s \o r)[i + 1]
    BY <1>1, HeadTailProperties
<1>4. /\ Tail(s) \o r \in Seq(S) /\ Len(Tail(s) \o r) = Len(s) - 1 + Len(r)
      /\ \A i \in 1 .. Len(s) - 1 + Len(r) :
            (Tail(s) \o r)[i] = IF i <= Len(s) - 1 THEN Tail(s)[i] ELSE r[i - (Len(s) - 1)]
    BY <1>2, ConcatProperties
<1>5. \A i \in 1 .. Len(s) + Len(r) - 1 : Tail(s \o r)[i] = (Tail(s) \o r)[i]
  <2> SUFFICES ASSUME NEW i \in 1 .. Len(s) + Len(r) - 1
               PROVE  Tail(s \o r)[i] = (Tail(s) \o r)[i]
      OBVIOUS
  <2>1. i + 1 \in 1 .. Len(s) + Len(r) /\ i \in 1 .. Len(s) - 1 + Len(r)
      BY <1>2
  <2>2. Tail(s \o r)[i] = IF i + 1 <= Len(s) THEN s[i + 1] ELSE r[i + 1 - Len(s)]
      BY <1>1, <1>3, <2>1
  <2>3. (Tail(s) \o r)[i] = IF i <= Len(s) - 1 THEN Tail(s)[i] ELSE r[i - (Len(s) - 1)]
      BY <1>4, <2>1
  <2>4. CASE i + 1 <= Len(s)
      BY <1>2, <2>2, <2>3, <2>4
  <2>5. CASE ~(i + 1 <= Len(s))
    <3>1. ~(i <= Len(s) - 1) /\ i + 1 - Len(s) = i - (Len(s) - 1)
        BY <1>2, <2>5
    <3> QED BY <2>2, <2>3, <2>5, <3>1
  <2> QED BY <2>4, <2>5
<1>6. Head(s \o r) = Head(s)
    BY <1>1, <1>2
<1>7. Len(s) - 1 + Len(r) = Len(s) + Len(r) - 1
    BY <1>2
<1>8. Tail(s \o r) = Tail(s) \o r
    BY <1>3, <1>4, <1>5, <1>7, SeqEqual
<1> QED BY <1>1, <1>6, <1>8

\* A step that brings no task anywhere it has not been.
LEMMA FreshFrame ==
    ASSUME Fresh, posted' = posted,
           \A k \in Tasks : Seen(k)' => Seen(k),
           \A t \in Threads : Counted(t)' => Counted(t) /\ pushTask'[t] = pushTask[t]
    PROVE  Fresh'
<1>1. \A k \in Tasks : Seen(k)' => k \in posted'
    BY DEF Fresh
<1>2. ASSUME NEW t \in Threads, NEW k \in Tasks, Counted(t)', pushTask'[t] = k
      PROVE  k \in posted' /\ ~Seen(k)'
    BY <1>2 DEF Fresh
<1>3. ASSUME NEW t \in Threads, NEW u \in Threads, Counted(t)', Counted(u)', pushTask'[t] = pushTask'[u]
      PROVE  t = u
    BY <1>3 DEF Fresh
<1> QED BY <1>1, <1>2, <1>3 DEF Fresh

\* Seen looks at three variables only.
LEMMA SeenSame ==
    ASSUME tasks_' = tasks_, batch' = batch, finished' = finished, NEW k
    PROVE  Seen(k)' <=> Seen(k)
BY DEF Seen

LEMMA FreshStep == IInv /\ ActorInv /\ [Next]_vars => Fresh'
<1> SUFFICES ASSUME IInv, ActorInv, [Next]_vars PROVE Fresh'
    OBVIOUS
<1>0. TypeOK /\ Locals /\ Fresh
    BY DEF IInv, ActorInv
<1>1. ASSUME NEW t \in Threads, Post(t) PROVE Fresh'
  <2>1. PICK o \in Objects, k \in Tasks, only \in BOOLEAN : PushCount(t, o, k, only)
    BY <1>1 DEF Post
  <2>2. /\ k \notin posted /\ posted' = posted \cup {k}
        /\ tasks_' = tasks_ /\ batch' = batch /\ finished' = finished
    BY <2>1 DEF PushCount, execVars
  <2>3. /\ Counted(t)' /\ pushTask'[t] = k
        /\ \A u \in Threads : u # t => (Counted(u)' <=> Counted(u)) /\ pushTask'[u] = pushTask[u]
    BY <1>0, <2>1 DEF PushCount, Counted, TypeOK
  <2>4. \A j : Seen(j)' <=> Seen(j)
    BY <2>2 DEF Seen
  <2>5. ~Seen(k) /\ \A u \in Threads : Counted(u) => pushTask[u] # k
    BY <1>0, <2>2 DEF Fresh
  <2>6. ASSUME NEW u \in Threads, NEW j \in Tasks, Counted(u)', pushTask'[u] = j
        PROVE  j \in posted' /\ ~Seen(j)'
    <3>1. CASE u = t
      BY <2>2, <2>3, <2>4, <2>5, <2>6, <3>1
    <3>2. CASE u # t
      BY <1>0, <2>2, <2>3, <2>4, <2>6, <3>2 DEF Fresh
    <3> QED BY <3>1, <3>2
  <2>7. ASSUME NEW u \in Threads, NEW v \in Threads, Counted(u)', Counted(v)', pushTask'[u] = pushTask'[v]
        PROVE  u = v
    BY <1>0, <2>3, <2>5, <2>7 DEF Fresh
  <2>8. \A j \in Tasks : Seen(j)' => j \in posted'
    BY <1>0, <2>2, <2>4 DEF Fresh
  <2> QED BY <2>6, <2>7, <2>8 DEF Fresh
<1>2. ASSUME NEW t \in Threads, PushTask(t) PROVE Fresh'
  <2>1. PICK o \in Objects, k \in Tasks : o = pushObj[t] /\ k = pushTask[t]
    BY <1>0, <1>2 DEF PushTask, Locals
  <2>2. /\ Counted(t) /\ posted' = posted /\ batch' = batch /\ finished' = finished
        /\ tasks_'[o] = Append(tasks_[o], k)
        /\ \A p \in Objects : p # o => tasks_'[p] = tasks_[p]
    BY <1>0, <1>2, <2>1 DEF PushTask, execVars, Counted, TypeOK
  <2>3. ~Counted(t)' /\ \A u \in Threads : u # t => (Counted(u)' <=> Counted(u)) /\ pushTask'[u] = pushTask[u]
    BY <1>0, <1>2 DEF PushTask, Counted, TypeOK
  <2>4. Elements(Append(tasks_[o], k)) = Elements(tasks_[o]) \cup {k}
    BY <1>0, ElementsAppend DEF TypeOK
  <2>5. \A j : Seen(j)' => Seen(j) \/ j = k
    BY <2>2, <2>4 DEF Seen
  <2>6. k \in posted
    BY <1>0, <2>1, <2>2 DEF Fresh
  <2>7. ASSUME NEW u \in Threads, NEW j \in Tasks, Counted(u)', pushTask'[u] = j
        PROVE  j \in posted' /\ ~Seen(j)'
    <3>1. u # t /\ Counted(u) /\ pushTask[u] = j
      BY <2>3, <2>7
    <3>2. j # k /\ j \in posted /\ ~Seen(j)
      BY <1>0, <2>1, <2>2, <3>1 DEF Fresh
    <3> QED BY <2>2, <2>5, <3>2
  <2>8. ASSUME NEW u \in Threads, NEW v \in Threads, Counted(u)', Counted(v)', pushTask'[u] = pushTask'[v]
        PROVE  u = v
    BY <1>0, <2>3, <2>8 DEF Fresh
  <2>9. \A j \in Tasks : Seen(j)' => j \in posted'
    BY <1>0, <2>2, <2>5, <2>6 DEF Fresh
  <2> QED BY <2>7, <2>8, <2>9 DEF Fresh
<1>3. ASSUME NEW t \in Threads, PushExecute(t) \/ PushSchedule(t) \/ PushLeave(t) PROVE Fresh'
  <2>1. /\ posted' = posted /\ tasks_' = tasks_ /\ batch' = batch /\ finished' = finished
        /\ pushTask' = pushTask /\ ReturnFromPush(t)
    BY <1>3 DEF PushExecute, PushSchedule, PushLeave, ReturnFromPush, objVars, execVars
  <2>2. \A u \in Threads : Counted(u)' => Counted(u)
    BY <1>0, <2>1 DEF ReturnFromPush, Counted, TypeOK
  <2> QED BY <1>0, <2>1, <2>2, SeenSame, FreshFrame
<1>4. ASSUME NEW t \in Threads, ExecPopAll(t) PROVE Fresh'
  <2>1. PICK o \in Objects : o = LCurrent[t]
    BY <1>0, <1>4 DEF ExecPopAll, Locals, TypeOK
  <2>2. /\ posted' = posted /\ pushTask' = pushTask /\ pushPc' = pushPc /\ finished' = finished
        /\ batch'[t] = tasks_[o] /\ \A u \in Threads : u # t => batch'[u] = batch[u]
        /\ tasks_'[o] = <<>> /\ \A p \in Objects : p # o => tasks_'[p] = tasks_[p]
    BY <1>0, <1>4, <2>1 DEF ExecPopAll, pushVars, TypeOK
  <2>3. \A k : Seen(k)' => Seen(k)
    BY <2>2, ElementsEmpty DEF Seen
  <2> QED BY <1>0, <2>2, <2>3, FreshFrame DEF Counted
<1>5. ASSUME NEW t \in Threads, ExecEnd(t) PROVE Fresh'
  <2>1. Head(batch[t]) \in Elements(batch[t]) /\ Elements(Tail(batch[t])) \subseteq Elements(batch[t])
    BY <1>0, <1>5, ElementsTail DEF ExecEnd, Locals, TypeOK
  <2>2. /\ posted' = posted /\ pushTask' = pushTask /\ pushPc' = pushPc
        /\ finished' = finished \cup {Head(batch[t])} /\ tasks_' = tasks_
        /\ batch'[t] = Tail(batch[t]) /\ \A u \in Threads : u # t => batch'[u] = batch[u]
    BY <1>0, <1>5 DEF ExecEnd, pushVars, objVars, TypeOK
  <2>3. \A k : Seen(k)' => Seen(k)
    BY <2>1, <2>2 DEF Seen
  <2> QED BY <1>0, <2>2, <2>3, FreshFrame DEF Counted
<1>6. ASSUME NEW t \in Threads,
             ExecBegin(t) \/ ExecRelease(t) \/ ExecKeep(t) \/ ExecAgain(t) \/ ExecYield(t) \/ ExecuteTask(t)
      PROVE  Fresh'
  <2>1. /\ posted' = posted /\ tasks_' = tasks_ /\ batch' = batch /\ finished' = finished
        /\ pushTask' = pushTask /\ pushPc' = pushPc
    BY <1>6 DEF ExecBegin, ExecRelease, ExecKeep, ExecAgain, ExecYield, ExecuteTask, objVars, pushVars
  <2> QED BY <1>0, <2>1, SeenSame, FreshFrame DEF Counted
<1>7. CASE UNCHANGED vars
  <2>1. /\ posted' = posted /\ tasks_' = tasks_ /\ batch' = batch /\ finished' = finished
        /\ pushTask' = pushTask /\ pushPc' = pushPc
    BY <1>7 DEF vars, objVars, pushVars, execVars
  <2> QED BY <1>0, <2>1, SeenSame, FreshFrame DEF Counted
<1> QED BY <1>1, <1>2, <1>3, <1>4, <1>5, <1>6, <1>7 DEF Next, Push, Execute, Idle

LEMMA NothingPoppedStep == IInv /\ NothingPopped /\ [Next]_vars => NothingPopped'
<1> SUFFICES ASSUME IInv, NothingPopped, [Next]_vars PROVE NothingPopped'
    OBVIOUS
<1> USE DEF IInv, TypeOK, NothingPopped
<1>1. ASSUME NEW t \in Threads, Post(t) \/ PushTask(t) \/ PushSchedule(t) \/ PushLeave(t)
      PROVE  NothingPopped'
  <2>1. execPc' = execPc /\ batch' = batch
    BY <1>1 DEF Post, PushCount, PushTask, PushSchedule, PushLeave, execVars
  <2> QED BY <2>1
<1>2. ASSUME NEW t \in Threads, PushExecute(t) PROVE NothingPopped'
  <2>1. execPc[t] = "out"
    BY <1>2 DEF PushExecute, Locals
  <2> QED BY <1>2, <2>1 DEF PushExecute, EnterExecute
<1>3. ASSUME NEW t \in Threads, ExecuteTask(t) PROVE NothingPopped'
    BY <1>3 DEF ExecuteTask, EnterExecute
<1>4. ASSUME NEW t \in Threads, ExecPopAll(t) \/ ExecBegin(t) \/ ExecEnd(t) PROVE NothingPopped'
    BY <1>4 DEF ExecPopAll, ExecBegin, ExecEnd
<1>5. ASSUME NEW t \in Threads, ExecRelease(t) \/ ExecYield(t) PROVE NothingPopped'
    BY <1>5 DEF ExecRelease, ExecYield, LeaveExecute
<1>6. ASSUME NEW t \in Threads, ExecKeep(t) \/ ExecAgain(t) PROVE NothingPopped'
    BY <1>6 DEF ExecKeep, ExecAgain
<1>7. CASE UNCHANGED vars
    BY <1>7 DEF vars, execVars
<1> QED BY <1>1, <1>2, <1>3, <1>4, <1>5, <1>6, <1>7 DEF Next, Push, Execute, Idle

-----------------------------------------------------------------------------
\* What is left of the batch of an executor, and the task it is in.
Rest(t) == IF execPc[t] = "task" THEN Tail(batch[t]) ELSE batch[t]
Now(t)  == IF execPc[t] = "task" THEN Head(batch[t]) ELSE NoTask

\* The mapping without its choices: an object has one executor or none.
Mapped == \A o \in Objects :
    /\ \A t \in Threads : Executes(t, o) => Mailbox(o) = Rest(t) \o tasks_[o] /\ Running(o) = Now(t)
    /\ (\A t \in Threads : ~Executes(t, o)) => Mailbox(o) = tasks_[o] /\ Running(o) = NoTask

LEMMA OneExecutorMaps == OneExecutor => Mapped
<1> SUFFICES ASSUME OneExecutor, NEW o \in Objects
             PROVE  /\ \A t \in Threads : Executes(t, o)
                          => Mailbox(o) = Rest(t) \o tasks_[o] /\ Running(o) = Now(t)
                    /\ (\A t \in Threads : ~Executes(t, o)) => Mailbox(o) = tasks_[o] /\ Running(o) = NoTask
    BY DEF Mapped
<1>1. ASSUME NEW t \in Threads, Executes(t, o)
      PROVE  Mailbox(o) = Rest(t) \o tasks_[o] /\ Running(o) = Now(t)
  <2>1. Executors(o) = {t}
    BY <1>1 DEF OneExecutor, Executors
  <2>2. (CHOOSE u \in Executors(o) : TRUE) = t
    BY <2>1
  <2>3. Mailbox(o) = Rest(t) \o tasks_[o]
    BY <2>1, <2>2 DEF Mailbox, Rest
  <2>4. CASE execPc[t] = "task"
    <3>1. (CHOOSE u \in Executors(o) : execPc[u] = "task") = t
      BY <2>1, <2>4
    <3> QED BY <2>1, <2>3, <2>4, <3>1 DEF Running, Now
  <2>5. CASE execPc[t] # "task"
    BY <2>1, <2>3, <2>5 DEF Running, Now
  <2> QED BY <2>4, <2>5
<1>2. ASSUME \A t \in Threads : ~Executes(t, o)
      PROVE  Mailbox(o) = tasks_[o] /\ Running(o) = NoTask
  <2>1. Executors(o) = {}
    BY <1>2 DEF Executors
  <2> QED BY <2>1 DEF Mailbox, Running
<1> QED BY <1>1, <1>2

\* The steps of the abstract actor, object by object.
LEMMA EnterMaps ==
    ASSUME NEW o \in Objects, NEW k \in Tasks, k \notin Actor!Known,
           Mailbox(o)' = Append(Mailbox(o), k),
           \A p \in Objects : p # o => Mailbox(p)' = Mailbox(p),
           \A p \in Objects : Running(p)' = Running(p), finished' = finished
    PROVE  Actor!Next
<1> DEFINE mb == [p \in Objects |-> Mailbox(p)]
<1>1. [p \in Objects |-> Mailbox(p)]' = [mb EXCEPT ![o] = Append(@, k)]
    OBVIOUS
<1>2. [p \in Objects |-> Running(p)]' = [p \in Objects |-> Running(p)]
    OBVIOUS
<1>3. Actor!Enter(o, k)
    BY <1>1, <1>2 DEF Actor!Enter
<1> QED BY <1>3 DEF Actor!Next

LEMMA BeginMaps ==
    ASSUME NEW o \in Objects, Running(o) = NoTask, Mailbox(o) # <<>>,
           Running(o)' = Head(Mailbox(o)), Mailbox(o)' = Tail(Mailbox(o)),
           \A p \in Objects : p # o => Mailbox(p)' = Mailbox(p) /\ Running(p)' = Running(p),
           finished' = finished
    PROVE  Actor!Next
<1> DEFINE mb == [p \in Objects |-> Mailbox(p)]
           rn == [p \in Objects |-> Running(p)]
<1>1. [p \in Objects |-> Mailbox(p)]' = [mb EXCEPT ![o] = Tail(@)]
    OBVIOUS
<1>2. [p \in Objects |-> Running(p)]' = [rn EXCEPT ![o] = Head(mb[o])]
    OBVIOUS
<1>3. Actor!Begin(o)
    BY <1>1, <1>2 DEF Actor!Begin
<1> QED BY <1>3 DEF Actor!Next

LEMMA EndMaps ==
    ASSUME NEW o \in Objects, Running(o) # NoTask, Running(o)' = NoTask,
           \A p \in Objects : Mailbox(p)' = Mailbox(p),
           \A p \in Objects : p # o => Running(p)' = Running(p),
           finished' = finished \cup {Running(o)}
    PROVE  Actor!Next
<1> DEFINE rn == [p \in Objects |-> Running(p)]
<1>1. [p \in Objects |-> Mailbox(p)]' = [p \in Objects |-> Mailbox(p)]
    OBVIOUS
<1>2. [p \in Objects |-> Running(p)]' = [rn EXCEPT ![o] = NoTask]
    OBVIOUS
<1>3. Actor!End(o)
    BY <1>1, <1>2 DEF Actor!End
<1> QED BY <1>3 DEF Actor!Next

LEMMA SameMaps ==
    ASSUME \A p \in Objects : Mailbox(p)' = Mailbox(p) /\ Running(p)' = Running(p),
           finished' = finished
    PROVE  UNCHANGED Actor!vars
BY DEF Actor!vars

\* An object whose queue and whose executor are left alone.
LEMMA FrameMaps ==
    ASSUME Mapped, Mapped', NEW p \in Objects, tasks_'[p] = tasks_[p],
           \A u \in Threads : Executes(u, p)' <=> Executes(u, p),
           \A u \in Threads : Executes(u, p) => Rest(u)' = Rest(u) /\ Now(u)' = Now(u)
    PROVE  Mailbox(p)' = Mailbox(p) /\ Running(p)' = Running(p)
<1>1. CASE \E u \in Threads : Executes(u, p)
  <2>1. PICK u \in Threads : Executes(u, p)
    BY <1>1
  <2>2. Mailbox(p) = Rest(u) \o tasks_[p] /\ Running(p) = Now(u)
    BY <2>1 DEF Mapped
  <2>3. Mailbox(p)' = Rest(u)' \o tasks_'[p] /\ Running(p)' = Now(u)'
    BY <2>1 DEF Mapped
  <2> QED BY <2>1, <2>2, <2>3
<1>2. CASE \A u \in Threads : ~Executes(u, p)
  <2>1. Mailbox(p) = tasks_[p] /\ Running(p) = NoTask
    BY <1>2 DEF Mapped
  <2>2. Mailbox(p)' = tasks_'[p] /\ Running(p)' = NoTask
    BY <1>2 DEF Mapped
  <2> QED BY <2>1, <2>2
<1> QED BY <1>1, <1>2

\* What execution does to an object depends on these four variables.
LEMMA FrameAll ==
    ASSUME Mapped, Mapped', tasks_' = tasks_, LCurrent' = LCurrent, execPc' = execPc,
           batch' = batch, finished' = finished
    PROVE  UNCHANGED Actor!vars
<1>1. \A p \in Objects : Mailbox(p)' = Mailbox(p) /\ Running(p)' = Running(p)
    BY FrameMaps DEF Executes, Rest, Now
<1> QED BY <1>1, SameMaps

LEMMA RestType ==
    ASSUME TypeOK, Locals, NEW t \in Threads
    PROVE  Rest(t) \in Seq(Tasks) /\ Elements(Rest(t)) \subseteq Elements(batch[t])
<1>1. CASE execPc[t] = "task"
  <2>1. batch[t] \in Seq(Tasks) /\ batch[t] # <<>> /\ Rest(t) = Tail(batch[t])
    BY <1>1 DEF TypeOK, Locals, Rest
  <2> QED BY <2>1, HeadTailProperties, ElementsTail
<1>2. CASE execPc[t] # "task"
    BY <1>2 DEF TypeOK, Rest
<1> QED BY <1>1, <1>2

\* What the abstract actor knows has been posted and queued.
LEMMA KnownIsSeen ==
    ASSUME TypeOK, Locals, Mapped, NEW k \in Tasks, k \in Actor!Known
    PROVE  Seen(k)
<1>1. \/ \E o \in Objects : k \in Elements(Mailbox(o))
      \/ \E o \in Objects : k = Running(o)
      \/ k \in finished
    BY DEF Actor!Known, Actor!Waiting, Elements
<1>2. ASSUME NEW o \in Objects, NEW t \in Threads, Executes(t, o),
             k \in Elements(Mailbox(o)) \/ k = Running(o)
      PROVE  Seen(k)
  <2>1. Mailbox(o) = Rest(t) \o tasks_[o] /\ Running(o) = Now(t)
    BY <1>2 DEF Mapped
  <2>2. k \in Elements(Mailbox(o)) => k \in Elements(Rest(t)) \cup Elements(tasks_[o])
    BY <2>1, RestType, ElementsConcat DEF TypeOK
  <2>3. k = Running(o) => k \in Elements(batch[t])
    <3>1. k # NoTask
      BY NoTaskFresh
    <3> QED BY <2>1, <3>1, ElementsTail DEF Now, TypeOK, Locals
  <2> QED BY <1>2, <2>2, <2>3, RestType DEF Seen
<1>3. ASSUME NEW o \in Objects, \A t \in Threads : ~Executes(t, o),
             k \in Elements(Mailbox(o)) \/ k = Running(o)
      PROVE  Seen(k)
  <2>1. Mailbox(o) = tasks_[o] /\ Running(o) = NoTask
    BY <1>3 DEF Mapped
  <2> QED BY <1>3, <2>1, NoTaskFresh DEF Seen
<1> QED BY <1>1, <1>2, <1>3 DEF Seen

\* A thread takes over an object nobody executes, or leaves it, with no batch.
LEMMA TakeOver ==
    ASSUME IInv, Mapped, Mapped', NEW t \in Threads, NEW o \in Objects,
           batch[t] = <<>>, execPc[t] # "task", execPc'[t] # "task", batch' = batch,
           tasks_' = tasks_, finished' = finished,
           \A u \in Threads : u # t => execPc'[u] = execPc[u],
           \A u \in Threads : u # t => ~Executes(u, o),
           \A p \in Objects, u \in Threads : p # o \/ u # t => (Executes(u, p)' <=> Executes(u, p)),
           \A p \in Objects : p # o => ~Executes(t, p)
    PROVE  UNCHANGED Actor!vars
<1>1. ASSUME NEW p \in Objects, p # o
      PROVE  Mailbox(p)' = Mailbox(p) /\ Running(p)' = Running(p)
  <2>1. \A u \in Threads : Executes(u, p) => Rest(u)' = Rest(u) /\ Now(u)' = Now(u)
    BY <1>1 DEF Rest, Now
  <2> QED BY <1>1, <2>1, FrameMaps
<1>2. tasks_[o] \in Seq(Tasks)
    BY DEF IInv, TypeOK
<1>3. <<>> \o tasks_[o] = tasks_[o]
    BY <1>2, ConcatEmptySeq
<1>4. Mailbox(o) = tasks_[o] /\ Running(o) = NoTask
  <2>1. CASE Executes(t, o)
    <3>1. Mailbox(o) = Rest(t) \o tasks_[o] /\ Running(o) = Now(t)
      BY <2>1 DEF Mapped
    <3>2. Rest(t) = <<>> /\ Now(t) = NoTask
      BY DEF Rest, Now
    <3> QED BY <1>3, <3>1, <3>2
  <2>2. CASE ~Executes(t, o)
    <3>1. \A u \in Threads : ~Executes(u, o)
      BY <2>2
    <3> QED BY <3>1 DEF Mapped
  <2> QED BY <2>1, <2>2
<1>5. Mailbox(o)' = tasks_[o] /\ Running(o)' = NoTask
  <2>1. CASE Executes(t, o)'
    <3>1. Mailbox(o)' = Rest(t)' \o tasks_'[o] /\ Running(o)' = Now(t)'
      BY <2>1 DEF Mapped
    <3>2. Rest(t)' = <<>> /\ Now(t)' = NoTask
      BY DEF Rest, Now
    <3> QED BY <1>3, <3>1, <3>2
  <2>2. CASE ~Executes(t, o)'
    <3>1. \A u \in Threads : ~Executes(u, o)'
      BY <2>2
    <3>2. Mailbox(o)' = tasks_'[o] /\ Running(o)' = NoTask
      BY <3>1 DEF Mapped
    <3> QED BY <3>2
  <2> QED BY <2>1, <2>2
<1> QED BY <1>1, <1>4, <1>5, SameMaps

LEMMA NextRefines ==
    ASSUME IInv, ActorInv, Mapped, Mapped', [Next]_vars
    PROVE  [Actor!Next]_Actor!vars
<1> USE NoObjectFresh, NoTaskFresh
<1>0. TypeOK /\ Locals /\ OneExecutor /\ OneResponsible /\ Fresh /\ NothingPopped
    BY DEF IInv, ActorInv
<1>1. ASSUME NEW t \in Threads, Post(t) \/ PushSchedule(t) \/ PushLeave(t)
      PROVE  UNCHANGED Actor!vars
    BY <1>1, FrameAll DEF Post, PushCount, PushSchedule, PushLeave, objVars, execVars
\* tasks_.Push: the task enters the mailbox.
<1>2. ASSUME NEW t \in Threads, PushTask(t) PROVE Actor!Next
  <2>1. PICK o \in Objects, k \in Tasks : o = pushObj[t] /\ k = pushTask[t]
    BY <1>0, <1>2 DEF PushTask, Locals
  <2>2. /\ LCurrent' = LCurrent /\ batch' = batch /\ execPc' = execPc /\ finished' = finished
        /\ tasks_'[o] = Append(tasks_[o], k)
        /\ \A p \in Objects : p # o => tasks_'[p] = tasks_[p]
    BY <1>0, <1>2, <2>1 DEF PushTask, execVars, TypeOK
  <2>3. \A u \in Threads, p \in Objects : Executes(u, p)' <=> Executes(u, p)
    BY <2>2 DEF Executes
  <2>4. \A u \in Threads : Rest(u)' = Rest(u) /\ Now(u)' = Now(u)
    BY <2>2 DEF Rest, Now
  <2>5. \A p \in Objects : p # o => Mailbox(p)' = Mailbox(p) /\ Running(p)' = Running(p)
    BY <2>2, <2>3, <2>4, FrameMaps
  <2>6. Mailbox(o)' = Append(Mailbox(o), k) /\ Running(o)' = Running(o)
    <3>1. CASE \E u \in Threads : Executes(u, o)
      <4>1. PICK u \in Threads : Executes(u, o)
        BY <3>1
      <4>2. Mailbox(o) = Rest(u) \o tasks_[o] /\ Running(o) = Now(u)
        BY <4>1 DEF Mapped
      <4>3. Mailbox(o)' = Rest(u)' \o tasks_'[o] /\ Running(o)' = Now(u)'
        BY <2>3, <4>1 DEF Mapped
      <4>4. Rest(u) \o Append(tasks_[o], k) = Append(Rest(u) \o tasks_[o], k)
        BY <1>0, RestType, ConcatAppend DEF TypeOK
      <4> QED BY <2>2, <2>4, <4>2, <4>3, <4>4
    <3>2. CASE \A u \in Threads : ~Executes(u, o)
      <4>1. Mailbox(o) = tasks_[o] /\ Running(o) = NoTask
        BY <3>2 DEF Mapped
      <4>2. Mailbox(o)' = tasks_'[o] /\ Running(o)' = NoTask
        BY <2>3, <3>2 DEF Mapped
      <4> QED BY <2>2, <4>1, <4>2
    <3> QED BY <3>1, <3>2
  <2>7. k \notin Actor!Known
    <3>1. ~Seen(k)
      BY <1>0, <1>2, <2>1 DEF PushTask, Fresh, Counted
    <3> QED BY <1>0, <3>1, KnownIsSeen
  <2> QED BY <2>2, <2>5, <2>6, <2>7, EnterMaps
\* The caller of Push finds nobody executing the object, and has no batch.
<1>3. ASSUME NEW t \in Threads, PushExecute(t) PROVE UNCHANGED Actor!vars
  <2>1. PICK o \in Objects : o = pushObj[t] /\ Schedules(t, o)
    BY <1>0, <1>3 DEF PushExecute, Schedules, Locals
  <2>2. \A u \in Threads : ~Executes(u, o)
    BY <1>0, <2>1 DEF OneResponsible
  <2>3. execPc[t] = "out" /\ batch[t] = <<>> /\ \A p \in Objects : ~Executes(t, p)
    BY <1>0, <1>3 DEF PushExecute, Locals, NothingPopped, Executes
  <2>4. /\ batch' = batch /\ tasks_' = tasks_ /\ finished' = finished /\ execPc'[t] = "popAll"
        /\ \A u \in Threads : u # t => execPc'[u] = execPc[u] /\ LCurrent'[u] = LCurrent[u]
        /\ LCurrent'[t] = o
    BY <1>0, <1>3, <2>1 DEF PushExecute, EnterExecute, objVars, TypeOK
  <2>5. \A p \in Objects, u \in Threads : p # o \/ u # t => (Executes(u, p)' <=> Executes(u, p))
    BY <2>3, <2>4 DEF Executes
  <2> QED BY <2>2, <2>3, <2>4, <2>5, TakeOver
<1>4. ASSUME NEW t \in Threads, ExecuteTask(t) PROVE UNCHANGED Actor!vars
  <2>1. PICK o \in Objects : o = Head(objectQueues_) /\ Scheduled(o)
    BY <1>0, <1>4, HeadTailProperties, LenProperties, EmptySeq DEF ExecuteTask, Scheduled, TypeOK
  <2>2. \A u \in Threads : ~Executes(u, o)
    BY <1>0, <2>1 DEF OneResponsible
  <2>3. execPc[t] = "out" /\ batch[t] = <<>> /\ \A p \in Objects : ~Executes(t, p)
    BY <1>0, <1>4 DEF ExecuteTask, Locals, NothingPopped, Executes
  <2>4. /\ batch' = batch /\ tasks_' = tasks_ /\ finished' = finished /\ execPc'[t] = "popAll"
        /\ \A u \in Threads : u # t => execPc'[u] = execPc[u] /\ LCurrent'[u] = LCurrent[u]
        /\ LCurrent'[t] = o
    BY <1>0, <1>4, <2>1 DEF ExecuteTask, EnterExecute, TypeOK
  <2>5. \A p \in Objects, u \in Threads : p # o \/ u # t => (Executes(u, p)' <=> Executes(u, p))
    BY <2>3, <2>4 DEF Executes
  <2> QED BY <2>2, <2>3, <2>4, <2>5, TakeOver
\* Execute gives its object up, or goes on with it, after the end of a batch.
<1>5. ASSUME NEW t \in Threads,
             ExecRelease(t) \/ ExecYield(t) \/ ExecKeep(t) \/ ExecAgain(t)
      PROVE  UNCHANGED Actor!vars
  <2>1. PICK o \in Objects : o = LCurrent[t] /\ Executes(t, o)
    BY <1>0, <1>5 DEF ExecRelease, ExecYield, ExecKeep, ExecAgain, Executes, Locals, TypeOK
  <2>2. /\ \A u \in Threads : u # t => ~Executes(u, o)
        /\ \A p \in Objects : p # o => ~Executes(t, p)
    BY <1>0, <2>1 DEF OneExecutor, Executes
  <2>3. batch[t] = <<>> /\ execPc[t] # "task"
    BY <1>0, <1>5 DEF ExecRelease, ExecYield, ExecKeep, ExecAgain, NothingPopped
  <2>4. /\ batch' = batch /\ tasks_' = tasks_ /\ finished' = finished /\ execPc'[t] # "task"
        /\ \A u \in Threads : u # t => execPc'[u] = execPc[u]
    BY <1>0, <1>5 DEF ExecRelease, ExecYield, ExecKeep, ExecAgain, LeaveExecute, objVars, TypeOK
  <2>5. \/ LCurrent' = LCurrent
        \/ LCurrent'[t] = NoObject /\ \A u \in Threads : u # t => LCurrent'[u] = LCurrent[u]
    BY <1>0, <1>5 DEF ExecRelease, ExecYield, ExecKeep, ExecAgain, LeaveExecute, TypeOK
  <2>6. \A p \in Objects, u \in Threads : p # o \/ u # t => (Executes(u, p)' <=> Executes(u, p))
    BY <2>2, <2>5 DEF Executes
  <2> QED BY <2>2, <2>3, <2>4, <2>6, TakeOver
\* PopAll moves the mailbox from the queue into the batch.
<1>6. ASSUME NEW t \in Threads, ExecPopAll(t) PROVE UNCHANGED Actor!vars
  <2>1. PICK o \in Objects : o = LCurrent[t] /\ Executes(t, o)
    BY <1>0, <1>6 DEF ExecPopAll, Executes, TypeOK, Locals
  <2>2. /\ LCurrent' = LCurrent /\ finished' = finished
        /\ execPc[t] = "popAll" /\ execPc'[t] = "next"
        /\ batch[t] = <<>> /\ batch'[t] = tasks_[o] /\ tasks_'[o] = <<>>
        /\ \A u \in Threads : u # t => execPc'[u] = execPc[u] /\ batch'[u] = batch[u]
        /\ \A p \in Objects : p # o => tasks_'[p] = tasks_[p]
    BY <1>0, <1>6, <2>1 DEF ExecPopAll, NothingPopped, TypeOK
  <2>3. \A u \in Threads, p \in Objects : Executes(u, p)' <=> Executes(u, p)
    BY <2>2 DEF Executes
  <2>4. \A u \in Threads : u # t => Rest(u)' = Rest(u) /\ Now(u)' = Now(u)
    BY <2>2 DEF Rest, Now
  <2>5. ASSUME NEW p \in Objects, p # o
        PROVE  Mailbox(p)' = Mailbox(p) /\ Running(p)' = Running(p)
    <3>1. \A u \in Threads : Executes(u, p) => u # t
      BY <2>1, <2>5 DEF Executes
    <3> QED BY <2>2, <2>3, <2>4, <2>5, <3>1, FrameMaps
  <2>6. Mailbox(o)' = Mailbox(o) /\ Running(o)' = Running(o)
    <3>1. Mailbox(o) = Rest(t) \o tasks_[o] /\ Running(o) = Now(t)
      BY <2>1 DEF Mapped
    <3>2. Mailbox(o)' = Rest(t)' \o tasks_'[o] /\ Running(o)' = Now(t)'
      BY <2>1, <2>3 DEF Mapped
    <3>3. Rest(t) = <<>> /\ Now(t) = NoTask /\ Rest(t)' = tasks_[o] /\ Now(t)' = NoTask
      BY <2>2 DEF Rest, Now
    <3>4. <<>> \o tasks_[o] = tasks_[o] \o <<>>
      BY <1>0, ConcatEmptySeq DEF TypeOK
    <3> QED BY <2>2, <3>1, <3>2, <3>3, <3>4
  <2> QED BY <2>2, <2>5, <2>6, SameMaps
\* tasks[i]->Execute() is called, and returns.
<1>7. ASSUME NEW t \in Threads, ExecBegin(t) PROVE Actor!Next
  <2>1. PICK o \in Objects : o = LCurrent[t] /\ Executes(t, o)
    BY <1>0, <1>7 DEF ExecBegin, Executes, TypeOK, Locals
  <2>2. /\ LCurrent' = LCurrent /\ finished' = finished /\ batch' = batch /\ tasks_' = tasks_
        /\ execPc[t] = "next" /\ execPc'[t] = "task" /\ batch[t] # <<>>
        /\ \A u \in Threads : u # t => execPc'[u] = execPc[u]
    BY <1>0, <1>7 DEF ExecBegin, objVars, TypeOK
  <2>3. \A u \in Threads, p \in Objects : Executes(u, p)' <=> Executes(u, p)
    BY <2>2 DEF Executes
  <2>4. ASSUME NEW p \in Objects, p # o
        PROVE  Mailbox(p)' = Mailbox(p) /\ Running(p)' = Running(p)
    <3>1. \A u \in Threads : Executes(u, p) => u # t
      BY <2>1, <2>4 DEF Executes
    <3>2. \A u \in Threads : Executes(u, p) => Rest(u)' = Rest(u) /\ Now(u)' = Now(u)
      BY <2>2, <3>1 DEF Rest, Now
    <3> QED BY <2>2, <2>3, <3>2, FrameMaps
  <2>5. Mailbox(o) = Rest(t) \o tasks_[o] /\ Running(o) = Now(t)
    BY <2>1 DEF Mapped
  <2>6. Mailbox(o)' = Rest(t)' \o tasks_'[o] /\ Running(o)' = Now(t)'
    BY <2>1, <2>3 DEF Mapped
  <2>7. /\ Rest(t) = batch[t] /\ Now(t) = NoTask
        /\ Rest(t)' = Tail(batch[t]) /\ Now(t)' = Head(batch[t])
    BY <2>2 DEF Rest, Now
  <2>8. /\ batch[t] \o tasks_[o] # <<>>
        /\ Head(batch[t] \o tasks_[o]) = Head(batch[t])
        /\ Tail(batch[t] \o tasks_[o]) = Tail(batch[t]) \o tasks_[o]
    BY <1>0, <2>2, ConcatTail DEF TypeOK
  <2>9. /\ Running(o) = NoTask /\ Mailbox(o) # <<>>
        /\ Running(o)' = Head(Mailbox(o)) /\ Mailbox(o)' = Tail(Mailbox(o))
    BY <2>2, <2>5, <2>6, <2>7, <2>8
  <2> QED BY <2>2, <2>4, <2>9, BeginMaps
<1>8. ASSUME NEW t \in Threads, ExecEnd(t) PROVE Actor!Next
  <2>1. PICK o \in Objects : o = LCurrent[t] /\ Executes(t, o)
    BY <1>0, <1>8 DEF ExecEnd, Executes, TypeOK, Locals
  <2>2. /\ LCurrent' = LCurrent /\ finished' = finished \cup {Head(batch[t])} /\ tasks_' = tasks_
        /\ execPc[t] = "task" /\ execPc'[t] = "next" /\ batch'[t] = Tail(batch[t])
        /\ \A u \in Threads : u # t => execPc'[u] = execPc[u] /\ batch'[u] = batch[u]
    BY <1>0, <1>8 DEF ExecEnd, objVars, TypeOK
  <2>3. \A u \in Threads, p \in Objects : Executes(u, p)' <=> Executes(u, p)
    BY <2>2 DEF Executes
  <2>4. ASSUME NEW p \in Objects, p # o
        PROVE  Mailbox(p)' = Mailbox(p) /\ Running(p)' = Running(p)
    <3>1. \A u \in Threads : Executes(u, p) => u # t
      BY <2>1, <2>4 DEF Executes
    <3>2. \A u \in Threads : Executes(u, p) => Rest(u)' = Rest(u) /\ Now(u)' = Now(u)
      BY <2>2, <3>1 DEF Rest, Now
    <3> QED BY <2>2, <2>3, <3>2, FrameMaps
  <2>5. Mailbox(o) = Rest(t) \o tasks_[o] /\ Running(o) = Now(t)
    BY <2>1 DEF Mapped
  <2>6. Mailbox(o)' = Rest(t)' \o tasks_'[o] /\ Running(o)' = Now(t)'
    BY <2>1, <2>3 DEF Mapped
  <2>7. /\ Rest(t) = Tail(batch[t]) /\ Now(t) = Head(batch[t])
        /\ Rest(t)' = Tail(batch[t]) /\ Now(t)' = NoTask
    BY <2>2 DEF Rest, Now
  <2>8. Head(batch[t]) \in Tasks
    BY <1>0, <2>2, HeadTailProperties DEF TypeOK, Locals
  <2>9. /\ Running(o) # NoTask /\ Running(o)' = NoTask /\ Mailbox(o)' = Mailbox(o)
        /\ finished' = finished \cup {Running(o)}
    BY <2>2, <2>5, <2>6, <2>7, <2>8
  <2> QED BY <2>4, <2>9, EndMaps
<1>9. CASE UNCHANGED vars
    BY <1>9, FrameAll DEF vars, objVars, execVars
<1> QED BY <1>1, <1>2, <1>3, <1>4, <1>5, <1>6, <1>7, <1>8, <1>9 DEF Next, Push, Execute, Idle

LEMMA InitRefines == Init => Actor!Init /\ ActorInv
<1> SUFFICES ASSUME Init PROVE Actor!Init /\ ActorInv
    OBVIOUS
<1>1. \A o \in Objects, t \in Threads : ~Executes(t, o)
    BY NoObjectFresh DEF Init, Executes
<1>2. Mapped
    BY <1>1, OneExecutorMaps DEF OneExecutor
<1>3. \A o \in Objects : Mailbox(o) = <<>> /\ Running(o) = NoTask
    BY <1>1, <1>2 DEF Mapped, Init
<1>4. Actor!Init
    BY <1>3 DEF Actor!Init, Init
<1>5. \A k : ~Seen(k)
    BY ElementsEmpty DEF Seen, Init
<1>6. ActorInv
    BY <1>5 DEF ActorInv, Fresh, NothingPopped, Counted, Init
<1> QED BY <1>4, <1>6

\* Room, Match and Lobby may be written as if each had a mailbox: tasks posted to
\* one object run one at a time, each exactly once, in the order in which
\* tasks_.Push was called, whichever threads run them.
THEOREM SerialActorImplemented == Spec => IsSerialActor
<1>1. IInv => Mapped
    BY OneExecutorMaps DEF IInv
<1>2. IInv /\ ActorInv /\ [Next]_vars => ActorInv'
    BY FreshStep, NothingPoppedStep DEF ActorInv
<1>3. Init => Actor!Init /\ ActorInv
    BY InitRefines
<1>4. IInv /\ ActorInv /\ Mapped /\ Mapped' /\ [Next]_vars => [Actor!Next]_Actor!vars
    BY NextRefines
<1> QED BY <1>1, <1>2, <1>3, <1>4, Inductive, PTL DEF Spec, IsSerialActor, Actor!Spec
=============================================================================
