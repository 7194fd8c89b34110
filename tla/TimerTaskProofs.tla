-------------------------- MODULE TimerTaskProofs --------------------------
(***************************************************************************)
(* Theorems about TimerTask, for any number of threads and timers, any     *)
(* delays and any bound on the clock.                                      *)
(***************************************************************************)
EXTENDS TimerTask, FiniteSetTheorems, SequenceTheorems, TLAPS

\* Where a thread is, and what it then knows of the element in its hand.
Control ==
    /\ \A t \in Threads :
          /\ Distributes(t) => distributing_
          /\ pc[t] \in {"out", "pump", "scan"} => hand[t] = NoTimer
          /\ pc[t] \notin {"out", "pump", "scan"} => hand[t] \in Timers
          /\ ~Distributes(t) => elementIdx[t] = 0 /\ timerElements[t] = <<>>
          /\ pc[t] \in {"spin", "drop"} => state[hand[t]].removed
    /\ OneDistributor

\* A timer that RemoveTimer has returned for is marked, and not being pushed.
Quiet == \A e \in removed :
    /\ state[e].removed
    /\ \A t \in Threads : ~(pc[t] = "push" /\ hand[t] = e)

\* What is about to be pushed was due when the pass began.
Due ==
    /\ currentTick <= now
    /\ \A t \in Threads : pc[t] = "push" => executeTick[hand[t]] <= currentTick

\* No thread has passed more elements than there are.
Within == \A t \in Threads : elementIdx[t] <= Len(elements_)

\* The timers elements_ has still to show, those kept for the next pass, and
\* the one the distributor handles.
IsAhead(i) == \A t \in Threads : i > elementIdx[t]
Waiting  == {e \in Timers : \E i \in DOMAIN elements_ : IsAhead(i) /\ elements_[i] = e}
KeptOnes == {e \in Timers : \E t \in Threads : \E i \in DOMAIN timerElements[t] :
                timerElements[t][i] = e}
InHand   == {e \in Timers : \E t \in Threads : Distributes(t) /\ hand[t] = e}

\* A timer is at one place at most,
Apart ==
    /\ addedElements_ \cap (Waiting \cup KeptOnes \cup InHand) = {}
    /\ Waiting \cap (KeptOnes \cup InHand) = {}
    /\ KeptOnes \cap InHand = {}
    /\ addedElements_ \cup Waiting \cup KeptOnes \cup InHand \subseteq added

\* and only once there.
Once ==
    /\ \A i, j \in DOMAIN elements_ :
          IsAhead(i) /\ IsAhead(j) /\ elements_[i] = elements_[j] => i = j
    /\ \A t \in Threads : \A i, j \in DOMAIN timerElements[t] :
          timerElements[t][i] = timerElements[t][j] => i = j

\* A timer that will not fire any more is nowhere, or still in the hand that
\* has just pushed it.
Spent ==
    /\ \A e \in Timers : fired[e] > 0 => e \in added
    /\ \A e \in Timers : ~isLoop[e] /\ fired[e] > 0 =>
          /\ e \notin addedElements_ \cup Waiting \cup KeptOnes
          /\ \A t \in Threads : Distributes(t) /\ hand[t] = e => pc[t] = "pushed"
    /\ \A t \in Threads : pc[t] = "pushed" => fired[hand[t]] > 0

\* A timer that may still fire is somewhere.
Found == \A e \in added : ~state[e].removed /\ (isLoop[e] \/ fired[e] = 0) =>
    e \in addedElements_ \cup Waiting \cup KeptOnes \cup InHand

IInv ==
    /\ TypeOK /\ Control /\ ExecutingIdExact /\ Quiet /\ Due /\ Within
    /\ Apart /\ Once /\ Spent /\ Found

-----------------------------------------------------------------------------
LEMMA InitIInv == Init => IInv
<1> SUFFICES ASSUME Init PROVE IInv
    OBVIOUS
<1>1. TypeOK
  <2>1. /\ elements_ \in Seq(Timers) /\ timerElements \in [Threads -> Seq(Timers)]
      BY EmptySeq DEF Init
  <2>2. state \in [Timers -> [id : Threads \cup {0}, removed : BOOLEAN]]
      BY DEF Init
  <2>3. now \in 0 .. MaxTick /\ currentTick \in 0 .. MaxTick
      BY MaxTickNat DEF Init
  <2> QED BY <2>1, <2>2, <2>3 DEF Init, TypeOK
<1>2. Control /\ Quiet /\ Due
    BY DEF Init, Control, Quiet, Due, Distributes, OneDistributor
<1>3. ExecutingIdExact
    BY ThreadIds DEF Init, ExecutingIdExact, Marking
<1>4. Waiting = {} /\ KeptOnes = {} /\ InHand = {}
    BY NoTimerFresh DEF Init, Waiting, KeptOnes, InHand, Distributes
<1>5. Within /\ Once
    BY EmptySeq DEF Init, Within, Once
<1>6. Apart /\ Spent /\ Found
    BY <1>4 DEF Init, Apart, Spent, Found
<1> QED BY <1>1, <1>2, <1>3, <1>5, <1>6 DEF IInv

\* While one thread distributes, nothing is marked but what it has in hand.
LEMMA Unmarked ==
    ASSUME IInv, NEW t \in Threads, Distributes(t), NEW e \in Timers, ~Marking(t, e)
    PROVE  state[e].id = 0
<1>1. \A u \in Threads : ~Marking(u, e)
    BY DEF IInv, Control, OneDistributor, Distributes, Marking
<1> QED BY <1>1 DEF IInv, ExecutingIdExact

\* What Mark does to the n-th element that e is, with fetch_add writing into
\* a word without a thread id.
MarkAt(t, n, e) ==
    /\ n = elementIdx[t] /\ n + 1 \in 1 .. Len(elements_) /\ e = elements_[n + 1]
    /\ pc[t] = "scan" /\ state[e].id = 0
    /\ state' = [state EXCEPT ![e].id = t]
    /\ hand' = [hand EXCEPT ![t] = e]
    /\ elementIdx' = [elementIdx EXCEPT ![t] = n + 1]
    /\ pc' = [pc EXCEPT ![t] = IF state[e].removed THEN "drop"
                               ELSE IF executeTick[e] > currentTick THEN "keep" ELSE "push"]
    /\ UNCHANGED <<now, distributing_, currentTick, addedElements_, elements_, executeTick,
                   delayTick, isLoop, timerElements, added, fired, removed>>

LEMMA MarkStep ==
    ASSUME IInv, NEW t \in Threads, Mark(t)
    PROVE  \E n \in Nat, e \in Timers : MarkAt(t, n, e)
<1>0. TypeOK
    BY DEF IInv
<1>1. PICK n \in Nat : n = elementIdx[t]
    BY <1>0 DEF TypeOK
<1>2. n < Len(elements_) /\ pc[t] = "scan"
    BY <1>1 DEF Mark, At
<1>3. n + 1 \in 1 .. Len(elements_)
    BY <1>0, <1>1, <1>2, LenProperties DEF TypeOK
<1>4. PICK e \in Timers : e = elements_[n + 1]
    BY <1>0, <1>3, ElementOfSeq DEF TypeOK
<1>5. state[e].id = 0
    BY <1>2, Unmarked DEF Distributes, Marking
<1>6. state[e].id + t = t
    BY <1>5, ThreadIds
<1>7. /\ state' = [state EXCEPT ![e].id = t]
      /\ hand' = [hand EXCEPT ![t] = e]
      /\ elementIdx' = [elementIdx EXCEPT ![t] = n + 1]
    BY <1>1, <1>4, <1>6 DEF Mark
<1>8. pc' = [pc EXCEPT ![t] = IF state[e].removed THEN "drop"
                              ELSE IF executeTick[e] > currentTick THEN "keep" ELSE "push"]
    BY <1>1, <1>4 DEF Mark, Goto
<1>9. UNCHANGED <<now, distributing_, currentTick, addedElements_, elements_,
                  executeTick, delayTick, isLoop, timerElements, added, fired, removed>>
    BY DEF Mark, queueVars, dataVars, histVars
<1> QED BY <1>1, <1>2, <1>3, <1>4, <1>5, <1>7, <1>8, <1>9 DEF MarkAt

\* What ClearExecutionFlag does: the id it subtracts is the one in the word.
LEMMA ClearStep ==
    ASSUME IInv, NEW t \in Threads, Clear(t, hand[t]), pc[t] \in {"drop", "keep", "push", "pushed"}
    PROVE  /\ hand[t] \in Timers
           /\ state' = [state EXCEPT ![hand[t]].id = 0]
           /\ hand' = [hand EXCEPT ![t] = NoTimer]
           /\ pc' = [pc EXCEPT ![t] = "scan"]
<1>1. hand[t] \in Timers
    BY DEF IInv, Control
<1>2. state[hand[t]].id = t
    BY <1>1 DEF IInv, ExecutingIdExact, Marking
<1>3. state[hand[t]].id - t = 0
    BY <1>2, ThreadIds
<1> QED BY <1>1, <1>3 DEF Clear, Goto

LEMMA TypeNext == IInv /\ [Next]_vars => TypeOK'
<1> SUFFICES ASSUME IInv, [Next]_vars PROVE TypeOK'
    OBVIOUS
<1> USE DEF TypeOK, At, Goto, dataVars, queueVars, localVars, histVars
<1>0. TypeOK /\ Control
    BY DEF IInv
<1>1. CASE Tick
    BY <1>0, <1>1, MaxTickNat DEF Tick
<1>2. ASSUME NEW t \in Threads, NEW e \in Timers, NEW delay \in Delays, NEW loop \in BOOLEAN,
             AddTimer(t, e, delay, loop)
      PROVE  TypeOK'
  <2>1. now + delay \in Nat
      BY <1>0, DelaysPositive, MaxTickNat
  <2> QED BY <1>0, <1>2, <2>1 DEF AddTimer
<1>3. ASSUME NEW t \in Threads, NEW e \in Timers, RemoveTimer(t, e) PROVE TypeOK'
    BY <1>0, <1>3 DEF RemoveTimer
<1>4. ASSUME NEW t \in Threads, SpinEnd(t) PROVE TypeOK'
  <2>1. hand[t] \in Timers
      BY <1>0, <1>4 DEF SpinEnd, Control
  <2> HIDE DEF Control
  <2>2. /\ removed' \subseteq Timers /\ hand' \in [Threads -> Timers \cup {NoTimer}]
        /\ pc' = [pc EXCEPT ![t] = "out"]
      BY <1>0, <1>4, <2>1 DEF SpinEnd
  <2> QED BY <1>0, <1>4, <2>2 DEF SpinEnd
<1>5. ASSUME NEW t \in Threads, Enter(t) PROVE TypeOK'
    BY <1>0, <1>5 DEF Enter
<1>6. ASSUME NEW t \in Threads, NEW e \in Timers, PumpPop(t, e) PROVE TypeOK'
    BY <1>0, <1>6 DEF PumpPop
<1>7. ASSUME NEW t \in Threads, PumpKeep(t) PROVE TypeOK'
  <2>1. hand[t] \in Timers
      BY <1>0, <1>7 DEF PumpKeep, Control
  <2>2. elements_' \in Seq(Timers)
      BY <1>0, <1>7, <2>1, AppendProperties DEF PumpKeep
  <2> QED BY <1>0, <1>7, <2>2 DEF PumpKeep
<1>8. ASSUME NEW t \in Threads, PumpEnd(t) PROVE TypeOK'
    BY <1>0, <1>8 DEF PumpEnd
<1>9. ASSUME NEW t \in Threads, Finish(t) PROVE TypeOK'
    BY <1>0, <1>9, EmptySeq DEF Finish
<1>10. ASSUME NEW t \in Threads, Mark(t) PROVE TypeOK'
  <2>1. PICK n \in Nat, e \in Timers : MarkAt(t, n, e)
      BY <1>10, MarkStep
  <2>2. state' \in [Timers -> [id : Threads \cup {0}, removed : BOOLEAN]]
    <3>1. state' = [state EXCEPT ![e].id = t]
        BY <2>1 DEF MarkAt
    <3> QED BY <1>0, <3>1
  <2>3. pc' \in [Threads -> {"out", "spin", "pump", "pumped", "scan", "drop", "keep", "push",
                            "pushed"}]
    <3>1. PICK there \in {"drop", "keep", "push"} : pc' = [pc EXCEPT ![t] = there]
        BY <2>1 DEF MarkAt
    <3> QED BY <1>0, <3>1
  <2>4. /\ elementIdx' \in [Threads -> Nat] /\ hand' \in [Threads -> Timers \cup {NoTimer}]
        /\ UNCHANGED <<now, distributing_, currentTick, addedElements_, elements_, executeTick,
                       delayTick, isLoop, timerElements, added, fired, removed>>
      BY <1>0, <2>1 DEF MarkAt
  <2> QED BY <1>0, <2>2, <2>3, <2>4
<1>11. ASSUME NEW t \in Threads, ScanEnd(t) PROVE TypeOK'
    BY <1>0, <1>11 DEF ScanEnd
<1>12. ASSUME NEW t \in Threads, pc[t] \in {"drop", "keep", "push", "pushed"}, Clear(t, hand[t])
       PROVE  /\ state' \in [Timers -> [id : Threads \cup {0}, removed : BOOLEAN]]
              /\ hand' \in [Threads -> Timers \cup {NoTimer}]
              /\ pc' \in [Threads -> {"out", "spin", "pump", "pumped", "scan", "drop", "keep",
                                     "push", "pushed"}]
  <2>1. /\ hand[t] \in Timers
        /\ state' = [state EXCEPT ![hand[t]].id = 0]
        /\ hand' = [hand EXCEPT ![t] = NoTimer]
        /\ pc' = [pc EXCEPT ![t] = "scan"]
      BY <1>12, ClearStep
  <2> QED BY <1>0, <2>1
<1>13. ASSUME NEW t \in Threads, Drop(t) PROVE TypeOK'
    BY <1>0, <1>12, <1>13 DEF Drop
<1>14. ASSUME NEW t \in Threads, Keep(t) PROVE TypeOK'
  <2>1. hand[t] \in Timers
      BY <1>0, <1>14 DEF Keep, Control
  <2>2. timerElements' \in [Threads -> Seq(Timers)]
      BY <1>0, <1>14, <2>1, AppendProperties DEF Keep
  <2> QED BY <1>0, <1>12, <1>14, <2>2 DEF Keep
<1>15. ASSUME NEW t \in Threads, Fire(t) PROVE TypeOK'
  <2>1. PICK n \in Nat : n = fired[hand[t]]
      BY <1>0, <1>15 DEF Fire, Control
  <2>2. fired' = [fired EXCEPT ![hand[t]] = n + 1] /\ n + 1 \in Nat
      BY <1>15, <2>1 DEF Fire
  <2> QED BY <1>0, <1>15, <2>2 DEF Fire
<1>16. ASSUME NEW t \in Threads, Rearm(t) PROVE TypeOK'
  <2>1. hand[t] \in Timers
      BY <1>0, <1>16 DEF Rearm, Control
  <2>2. timerElements' \in [Threads -> Seq(Timers)]
    <3>1. Append(timerElements[t], hand[t]) \in Seq(Timers)
        BY <1>0, <2>1, AppendProperties
    <3> QED BY <1>0, <1>16, <3>1 DEF Rearm
  <2>3. currentTick + delayTick[hand[t]] \in Nat
    <3>1. currentTick \in Nat
        BY <1>0, MaxTickNat
    <3>2. delayTick[hand[t]] \in Delays \cup {0}
        BY <1>0, <2>1
    <3>3. delayTick[hand[t]] \in Nat
        BY <3>2, DelaysPositive
    <3> QED BY <3>1, <3>3
  <2>4. executeTick' \in [Timers -> Nat]
      BY <1>0, <1>16, <2>3 DEF Rearm
  <2> QED BY <1>0, <1>12, <1>16, <2>2, <2>4 DEF Rearm
<1>17. CASE UNCHANGED vars
    BY <1>0, <1>17 DEF vars
<1> QED BY <1>1, <1>2, <1>3, <1>4, <1>5, <1>6, <1>7, <1>8, <1>9, <1>10, <1>11, <1>13, <1>14,
           <1>15, <1>16, <1>17 DEF Next, Distribute

\* No step takes a removed mark back.
LEMMA RemovedStays ==
    ASSUME IInv, [Next]_vars, NEW e \in Timers, state[e].removed
    PROVE  state'[e].removed
<1> USE DEF dataVars, queueVars, localVars, histVars
<1>0. TypeOK
    BY DEF IInv
<1>1. CASE state' = state
    BY <1>1
<1>2. ASSUME NEW t \in Threads, NEW f \in Timers, RemoveTimer(t, f) PROVE state'[e].removed
    BY <1>0, <1>2 DEF RemoveTimer, TypeOK
<1>3. ASSUME NEW t \in Threads, Mark(t) PROVE state'[e].removed
  <2>1. PICK n \in Nat, f \in Timers : MarkAt(t, n, f)
      BY <1>3, MarkStep
  <2> QED BY <1>0, <2>1 DEF MarkAt, TypeOK
<1>4. ASSUME NEW t \in Threads, Drop(t) \/ Keep(t) \/ Rearm(t) PROVE state'[e].removed
  <2>1. hand[t] \in Timers /\ state' = [state EXCEPT ![hand[t]].id = 0]
      BY <1>4, ClearStep DEF Drop, Keep, Rearm, At
  <2> QED BY <1>0, <2>1 DEF TypeOK
<1> QED BY <1>1, <1>2, <1>3, <1>4 DEF Next, Distribute, Tick, AddTimer, SpinEnd, Enter, PumpPop,
           PumpKeep, PumpEnd, Finish, ScanEnd, Fire, vars

LEMMA ControlNext == IInv /\ [Next]_vars => Control'
<1> SUFFICES ASSUME IInv, [Next]_vars PROVE Control'
    OBVIOUS
<1> USE DEF Control, Distributes, OneDistributor, At, Goto, dataVars, queueVars, localVars, histVars
<1>0. TypeOK /\ Control
    BY DEF IInv
<1>1. \A e \in Timers : state[e].removed => state'[e].removed
    BY RemovedStays
<1> USE DEF TypeOK
<1>2. CASE Tick
    BY <1>0, <1>2 DEF Tick
<1>3. ASSUME NEW t \in Threads, NEW e \in Timers, NEW delay \in Delays, NEW loop \in BOOLEAN,
             AddTimer(t, e, delay, loop)
      PROVE  Control'
    BY <1>0, <1>3 DEF AddTimer
<1>4. ASSUME NEW t \in Threads, NEW e \in Timers, RemoveTimer(t, e) PROVE Control'
  <2>1. state'[e].removed
      BY <1>0, <1>4 DEF RemoveTimer
  <2>2. CASE UNCHANGED <<pc, hand>>
      BY <1>0, <1>1, <1>4, <2>2 DEF RemoveTimer
  <2>3. CASE pc' = [pc EXCEPT ![t] = "spin"] /\ hand' = [hand EXCEPT ![t] = e]
    <3>1. UNCHANGED <<distributing_, elementIdx, timerElements>> /\ pc[t] = "out"
        BY <1>4 DEF RemoveTimer
    <3> QED BY <1>0, <1>1, <2>1, <2>3, <3>1
  <2> QED BY <1>4, <2>2, <2>3 DEF RemoveTimer
<1>5. ASSUME NEW t \in Threads, SpinEnd(t) PROVE Control'
    BY <1>0, <1>5 DEF SpinEnd
<1>6. ASSUME NEW t \in Threads, Enter(t) PROVE Control'
    BY <1>0, <1>6 DEF Enter
<1>7. ASSUME NEW t \in Threads, NEW e \in Timers, PumpPop(t, e) PROVE Control'
    BY <1>0, <1>7 DEF PumpPop
<1>8. ASSUME NEW t \in Threads, PumpKeep(t) PROVE Control'
    BY <1>0, <1>8 DEF PumpKeep
<1>9. ASSUME NEW t \in Threads, PumpEnd(t) PROVE Control'
    BY <1>0, <1>9 DEF PumpEnd
<1>10. ASSUME NEW t \in Threads, Finish(t) PROVE Control'
    BY <1>0, <1>10 DEF Finish
<1>11. ASSUME NEW t \in Threads, Mark(t) PROVE Control'
  <2>1. PICK n \in Nat, e \in Timers : MarkAt(t, n, e)
      BY <1>11, MarkStep
  <2>2. PICK there \in {"drop", "keep", "push"} :
            pc' = [pc EXCEPT ![t] = there] /\ (there = "drop" => state[e].removed)
      BY <2>1 DEF MarkAt
  <2>3. /\ UNCHANGED <<distributing_, timerElements>> /\ pc[t] = "scan"
        /\ hand' = [hand EXCEPT ![t] = e] /\ elementIdx' = [elementIdx EXCEPT ![t] = n + 1]
      BY <2>1 DEF MarkAt
  <2> QED BY <1>0, <1>1, <2>2, <2>3
<1>12. ASSUME NEW t \in Threads, ScanEnd(t) PROVE Control'
    BY <1>0, <1>12 DEF ScanEnd
<1>13. ASSUME NEW t \in Threads, Drop(t) \/ Keep(t) \/ Rearm(t) PROVE Control'
  <2>1. /\ hand[t] \in Timers
        /\ hand' = [hand EXCEPT ![t] = NoTimer] /\ pc' = [pc EXCEPT ![t] = "scan"]
      BY <1>13, ClearStep DEF Drop, Keep, Rearm
  <2>2. /\ UNCHANGED <<distributing_, elementIdx>> /\ pc[t] \in {"drop", "keep", "pushed"}
        /\ \A u \in Threads : u # t => timerElements'[u] = timerElements[u]
      BY <1>0, <1>13 DEF Drop, Keep, Rearm
  <2>3. /\ \A u \in Threads : u # t => pc'[u] = pc[u] /\ hand'[u] = hand[u]
        /\ pc'[t] = "scan" /\ hand'[t] = NoTimer
      BY <1>0, <2>1
  <2> QED BY <1>0, <1>1, <2>2, <2>3
<1>14. ASSUME NEW t \in Threads, Fire(t) PROVE Control'
    BY <1>0, <1>14 DEF Fire
<1>15. CASE UNCHANGED vars
    BY <1>0, <1>15 DEF vars
<1> QED BY <1>2, <1>3, <1>4, <1>5, <1>6, <1>7, <1>8, <1>9, <1>10, <1>11, <1>12, <1>13, <1>14, <1>15
        DEF Next, Distribute

LEMMA ExecutingIdNext == IInv /\ [Next]_vars /\ TypeOK' /\ Control' => ExecutingIdExact'
<1> SUFFICES ASSUME IInv, [Next]_vars, TypeOK', Control' PROVE ExecutingIdExact'
    OBVIOUS
<1> USE DEF At, Goto, dataVars, queueVars, localVars, histVars
<1>0. TypeOK /\ Control /\ ExecutingIdExact
    BY DEF IInv
<1>1. ASSUME \A e \in Timers : state'[e].id = state[e].id,
             \A t \in Threads, e \in Timers : Marking(t, e)' <=> Marking(t, e)
      PROVE  ExecutingIdExact'
    BY <1>0, <1>1 DEF ExecutingIdExact
<1>2. CASE Tick \/ UNCHANGED vars
    BY <1>1, <1>2 DEF Tick, vars, Marking
<1>3. ASSUME NEW t \in Threads, NEW e \in Timers, NEW delay \in Delays, NEW loop \in BOOLEAN,
             AddTimer(t, e, delay, loop)
      PROVE  ExecutingIdExact'
    BY <1>1, <1>3 DEF AddTimer, Marking
<1>4. ASSUME NEW t \in Threads, NEW e \in Timers, PumpPop(t, e) PROVE ExecutingIdExact'
  <2>1. \A u \in Threads, f \in Timers : Marking(u, f)' <=> Marking(u, f)
      BY <1>0, <1>4 DEF PumpPop, Marking, TypeOK
  <2> QED BY <1>1, <1>4, <2>1 DEF PumpPop
<1>5. ASSUME NEW t \in Threads, \/ SpinEnd(t) \/ Enter(t) \/ PumpKeep(t) \/ PumpEnd(t)
                                 \/ Finish(t) \/ ScanEnd(t) \/ Fire(t)
      PROVE  ExecutingIdExact'
  <2>1. UNCHANGED state
      BY <1>5 DEF SpinEnd, Enter, PumpKeep, PumpEnd, Finish, ScanEnd, Fire
  <2>2. /\ \A u \in Threads : u # t => pc'[u] = pc[u] /\ hand'[u] = hand[u]
        /\ \A e \in Timers : Marking(t, e)' <=> Marking(t, e)
      BY <1>0, <1>5 DEF SpinEnd, Enter, PumpKeep, PumpEnd, Finish, ScanEnd, Fire, Marking, TypeOK
  <2> QED BY <1>1, <2>1, <2>2 DEF Marking
<1>6. ASSUME NEW t \in Threads, NEW e \in Timers, RemoveTimer(t, e) PROVE ExecutingIdExact'
  <2>1. \A f \in Timers : state'[f].id = state[f].id
      BY <1>0, <1>6 DEF RemoveTimer, TypeOK
  <2>2. \A u \in Threads, f \in Timers : Marking(u, f)' <=> Marking(u, f)
      BY <1>0, <1>6 DEF RemoveTimer, TypeOK, Marking
  <2> QED BY <1>1, <2>1, <2>2
<1>7. ASSUME NEW t \in Threads, Mark(t) PROVE ExecutingIdExact'
  <2>1. PICK n \in Nat, e \in Timers : MarkAt(t, n, e)
      BY <1>7, MarkStep
  <2>2. PICK there \in {"drop", "keep", "push"} :
            /\ pc[t] = "scan" /\ pc' = [pc EXCEPT ![t] = there]
            /\ hand' = [hand EXCEPT ![t] = e] /\ state' = [state EXCEPT ![e].id = t]
      BY <2>1 DEF MarkAt
  <2>3. \A u \in Threads : u # t => pc[u] \in {"out", "spin"}
      BY <1>0, <2>2 DEF Control, OneDistributor, Distributes
  <2>4. \A u \in Threads, f \in Timers : Marking(u, f)' <=> u = t /\ f = e
      BY <1>0, <2>2, <2>3 DEF Marking, TypeOK
  <2>5. \A f \in Timers : state[f].id = 0
      BY <1>0, <2>2, <2>3 DEF ExecutingIdExact, Marking
  <2>6. \A f \in Timers : state'[f].id = IF f = e THEN t ELSE 0
      BY <1>0, <2>2, <2>5 DEF TypeOK
  <2> QED BY <2>4, <2>6 DEF ExecutingIdExact
<1>8. ASSUME NEW t \in Threads, Drop(t) \/ Keep(t) \/ Rearm(t) PROVE ExecutingIdExact'
  <2>1. /\ hand[t] \in Timers /\ state' = [state EXCEPT ![hand[t]].id = 0]
        /\ hand' = [hand EXCEPT ![t] = NoTimer] /\ pc' = [pc EXCEPT ![t] = "scan"]
        /\ pc[t] \in {"drop", "keep", "pushed"}
      BY <1>8, ClearStep DEF Drop, Keep, Rearm
  <2>2. \A u \in Threads : u # t => pc[u] \in {"out", "spin"}
      BY <1>0, <2>1 DEF Control, OneDistributor, Distributes
  <2>3. \A u \in Threads, f \in Timers : ~Marking(u, f)'
      BY <1>0, <2>1, <2>2 DEF Marking, TypeOK
  <2>4. \A f \in Timers : f # hand[t] => state[f].id = 0
      BY <1>0, <2>1, <2>2 DEF ExecutingIdExact, Marking
  <2>5. \A f \in Timers : state'[f].id = 0
      BY <1>0, <2>1, <2>4 DEF TypeOK
  <2> QED BY <2>3, <2>5 DEF ExecutingIdExact
<1> QED BY <1>2, <1>3, <1>4, <1>5, <1>6, <1>7, <1>8 DEF Next, Distribute

LEMMA QuietNext == IInv /\ [Next]_vars => Quiet'
<1> SUFFICES ASSUME IInv, [Next]_vars PROVE Quiet'
    OBVIOUS
<1> USE DEF At, Goto, dataVars, queueVars, localVars, histVars
<1>0. TypeOK /\ Control /\ ExecutingIdExact /\ Quiet
    BY DEF IInv
<1>1. \A e \in Timers : state[e].removed => state'[e].removed
    BY RemovedStays
<1>2. ASSUME removed' = removed,
             \A t \in Threads : pc'[t] = "push" => pc[t] = "push" /\ hand'[t] = hand[t]
      PROVE  Quiet'
    BY <1>0, <1>1, <1>2 DEF Quiet, TypeOK
\* RemoveTimer returns only when no other thread has its id in the word.
<1>3. ASSUME NEW t \in Threads, NEW e \in Timers, removed' = removed \cup {e},
             state'[e].removed, state[e].id \in {0, t}, pc[t] \in {"out", "spin"},
             \A u \in Threads : pc'[u] = "push" => pc[u] = "push" /\ hand'[u] = hand[u]
      PROVE  Quiet'
  <2>1. \A u \in Threads : ~(pc[u] = "push" /\ hand[u] = e)
      BY <1>0, <1>3, ThreadIds DEF ExecutingIdExact, Marking
  <2> QED BY <1>0, <1>1, <1>3, <2>1 DEF Quiet, TypeOK
<1>4. CASE Tick \/ UNCHANGED vars
    BY <1>2, <1>4 DEF Tick, vars
<1>5. ASSUME NEW t \in Threads, NEW e \in Timers, NEW delay \in Delays, NEW loop \in BOOLEAN,
             AddTimer(t, e, delay, loop)
      PROVE  Quiet'
    BY <1>2, <1>5 DEF AddTimer
<1>6. ASSUME NEW t \in Threads, NEW e \in Timers, RemoveTimer(t, e) PROVE Quiet'
  <2>1. state'[e].removed /\ pc[t] = "out"
      BY <1>0, <1>6 DEF RemoveTimer, TypeOK
  <2>2. \A u \in Threads : pc'[u] = "push" => pc[u] = "push" /\ hand'[u] = hand[u]
      BY <1>0, <1>6 DEF RemoveTimer, TypeOK
  <2> QED BY <1>2, <1>3, <1>6, <2>1, <2>2 DEF RemoveTimer
<1>7. ASSUME NEW t \in Threads, SpinEnd(t) PROVE Quiet'
  <2>1. /\ pc[t] = "spin" /\ hand[t] \in Timers /\ state[hand[t]].removed
        /\ state[hand[t]].id \in {0, t} /\ removed' = removed \cup {hand[t]}
      BY <1>0, <1>7 DEF SpinEnd, Control
  <2>2. \A u \in Threads : pc'[u] = "push" => pc[u] = "push" /\ hand'[u] = hand[u]
      BY <1>0, <1>7 DEF SpinEnd, TypeOK
  <2> QED BY <1>1, <1>3, <2>1, <2>2
<1>8. ASSUME NEW t \in Threads, NEW e \in Timers, PumpPop(t, e) PROVE Quiet'
    BY <1>0, <1>2, <1>8 DEF PumpPop, TypeOK
<1>9. ASSUME NEW t \in Threads, \/ Enter(t) \/ PumpKeep(t) \/ PumpEnd(t)
                                 \/ Finish(t) \/ ScanEnd(t) \/ Fire(t)
      PROVE  Quiet'
    BY <1>0, <1>2, <1>9 DEF Enter, PumpKeep, PumpEnd, Finish, ScanEnd, Fire, TypeOK
<1>10. ASSUME NEW t \in Threads, Mark(t) PROVE Quiet'
  <2>1. PICK n \in Nat, e \in Timers : MarkAt(t, n, e)
      BY <1>10, MarkStep
  <2>2. PICK there \in {"drop", "keep", "push"} :
            /\ pc' = [pc EXCEPT ![t] = there] /\ hand' = [hand EXCEPT ![t] = e]
            /\ there = "push" => ~state[e].removed
            /\ removed' = removed
      BY <2>1 DEF MarkAt
  <2>3. there = "push" => e \notin removed
      BY <1>0, <2>2 DEF Quiet
  <2> QED BY <1>0, <1>1, <2>2, <2>3 DEF Quiet, TypeOK
<1>11. ASSUME NEW t \in Threads, Drop(t) \/ Keep(t) \/ Rearm(t) PROVE Quiet'
  <2>1. /\ hand' = [hand EXCEPT ![t] = NoTimer] /\ pc' = [pc EXCEPT ![t] = "scan"]
        /\ removed' = removed
      BY <1>11, ClearStep DEF Drop, Keep, Rearm
  <2> QED BY <1>0, <1>2, <2>1 DEF TypeOK
<1> QED BY <1>4, <1>5, <1>6, <1>7, <1>8, <1>9, <1>10, <1>11 DEF Next, Distribute

LEMMA DueNext == IInv /\ [Next]_vars => Due'
<1> SUFFICES ASSUME IInv, [Next]_vars PROVE Due'
    OBVIOUS
<1> USE DEF At, Goto, dataVars, queueVars, localVars, histVars
<1>0. TypeOK /\ Control /\ Due
    BY DEF IInv
<1>1. now \in Nat /\ currentTick \in Nat
    BY <1>0, MaxTickNat DEF TypeOK
<1>2. ASSUME UNCHANGED <<now, currentTick>>,
             \A t \in Threads : pc'[t] = "push" =>
                 /\ pc[t] = "push"
                 /\ hand'[t] = hand[t] /\ executeTick'[hand[t]] = executeTick[hand[t]]
      PROVE  Due'
    BY <1>0, <1>2 DEF Due
<1>3. CASE Tick
  <2>1. now' = now + 1 /\ UNCHANGED <<currentTick, pc, hand, executeTick>>
      BY <1>3 DEF Tick
  <2>2. PICK n \in Nat, c \in Nat : n = now /\ c = currentTick /\ c <= n
      BY <1>0, <1>1 DEF Due
  <2>3. now' = n + 1 /\ currentTick' = c
      BY <2>1, <2>2
  <2>4. currentTick' <= now'
      BY <2>2, <2>3
  <2> QED BY <1>0, <2>1, <2>4 DEF Due
<1>4. CASE UNCHANGED vars
    BY <1>2, <1>4 DEF vars
\* The timer is new: it is in nobody's hand.
<1>5. ASSUME NEW t \in Threads, NEW e \in Timers, NEW delay \in Delays, NEW loop \in BOOLEAN,
             AddTimer(t, e, delay, loop)
      PROVE  Due'
  <2>1. \A u \in Threads : pc[u] = "push" => hand[u] \in added
      BY <1>0 DEF IInv, Apart, InHand, Control, Distributes
  <2> QED BY <1>0, <1>2, <1>5, <2>1 DEF AddTimer, TypeOK
<1>6. ASSUME NEW t \in Threads, NEW e \in Timers, RemoveTimer(t, e) \/ PumpPop(t, e) PROVE Due'
    BY <1>0, <1>2, <1>6 DEF RemoveTimer, PumpPop, TypeOK
<1>7. ASSUME NEW t \in Threads, \/ SpinEnd(t) \/ Enter(t) \/ PumpKeep(t)
                                 \/ Finish(t) \/ ScanEnd(t) \/ Fire(t)
      PROVE  Due'
    BY <1>0, <1>2, <1>7 DEF SpinEnd, Enter, PumpKeep, Finish, ScanEnd, Fire, TypeOK
\* currentTick moves on while the only distributor pushes nothing.
<1>8. ASSUME NEW t \in Threads, PumpEnd(t) PROVE Due'
  <2>1. \A u \in Threads : pc'[u] # "push"
      BY <1>0, <1>8 DEF PumpEnd, TypeOK, Control, OneDistributor, Distributes
  <2>2. currentTick' \in {now, currentTick} /\ now' = now
      BY <1>8 DEF PumpEnd
  <2>3. now \in Nat /\ currentTick <= now
      BY <1>0, <1>1 DEF Due
  <2>4. currentTick' <= now'
      BY <2>2, <2>3
  <2> QED BY <2>1, <2>4 DEF Due
<1>9. ASSUME NEW t \in Threads, Mark(t) PROVE Due'
  <2>1. PICK n \in Nat, e \in Timers : MarkAt(t, n, e)
      BY <1>9, MarkStep
  <2>2. PICK there \in {"drop", "keep", "push"} :
            /\ pc' = [pc EXCEPT ![t] = there] /\ hand' = [hand EXCEPT ![t] = e]
            /\ there = "push" => ~(executeTick[e] > currentTick)
            /\ UNCHANGED <<now, currentTick, executeTick>>
      BY <2>1 DEF MarkAt
  <2>3. executeTick[e] \in Nat
      BY <1>0 DEF TypeOK
  <2>4. there = "push" => executeTick[e] <= currentTick
      BY <1>1, <2>2, <2>3
  <2> QED BY <1>0, <2>2, <2>4 DEF Due, TypeOK
<1>10. ASSUME NEW t \in Threads, Drop(t) \/ Keep(t) \/ Rearm(t) PROVE Due'
  <2>1. /\ hand' = [hand EXCEPT ![t] = NoTimer] /\ pc' = [pc EXCEPT ![t] = "scan"]
        /\ UNCHANGED <<now, currentTick>> /\ Distributes(t)
      BY <1>10, ClearStep DEF Drop, Keep, Rearm, Distributes
  <2>2. \A u \in Threads : pc'[u] # "push"
      BY <1>0, <2>1 DEF TypeOK, Control, OneDistributor, Distributes
  <2> QED BY <1>0, <2>1, <2>2 DEF Due
<1> QED BY <1>3, <1>4, <1>5, <1>6, <1>7, <1>8, <1>9, <1>10 DEF Next, Distribute

-----------------------------------------------------------------------------
(* Where the timers are.                                                   *)

Placed == Within /\ Apart /\ Once /\ Spent /\ Found

\* What follows from there being one distributor.
LEMMA Alone ==
    ASSUME IInv, NEW t \in Threads, Distributes(t)
    PROVE  /\ \A u \in Threads : u # t => /\ pc[u] \in {"out", "spin"}
                                         /\ elementIdx[u] = 0 /\ timerElements[u] = <<>>
           /\ \A i \in DOMAIN elements_ : IsAhead(i) <=> i > elementIdx[t]
           /\ KeptOnes = {e \in Timers : \E i \in DOMAIN timerElements[t] : timerElements[t][i] = e}
           /\ \A e \in Timers : e \in InHand <=> hand[t] = e
<1>0. TypeOK /\ Control
    BY DEF IInv
<1>1. \A u \in Threads : u # t => /\ ~Distributes(u) /\ pc[u] \in {"out", "spin"}
                                 /\ elementIdx[u] = 0 /\ timerElements[u] = <<>>
    BY <1>0 DEF Control, OneDistributor, Distributes
<1>2. ASSUME NEW i \in DOMAIN elements_ PROVE IsAhead(i) <=> i > elementIdx[t]
  <2>1. i \in Nat /\ i > 0
      BY <1>0 DEF TypeOK
  <2> QED BY <1>1, <2>1 DEF IsAhead
<1>3. KeptOnes = {e \in Timers : \E i \in DOMAIN timerElements[t] : timerElements[t][i] = e}
    BY <1>1 DEF KeptOnes
<1>4. \A e \in Timers : e \in InHand <=> hand[t] = e
    BY <1>1 DEF InHand
<1> QED BY <1>1, <1>2, <1>3, <1>4

\* A step that leaves Distribute's lists alone leaves alone what is in them.
LEMMA ListsStay ==
    ASSUME UNCHANGED <<elements_, elementIdx, timerElements>>
    PROVE  /\ Waiting' = Waiting /\ KeptOnes' = KeptOnes
           /\ Within => Within' /\ (Once => Once')
BY DEF Waiting, KeptOnes, IsAhead, Within, Once

\* A step that moves no timer: it may mark one removed, or count a push.
LEMMA Unmoved ==
    ASSUME IInv, UNCHANGED <<addedElements_, elements_, elementIdx, timerElements, added, isLoop>>,
           InHand' = InHand, TypeOK',
           \A e \in Timers : state[e].removed => state'[e].removed,
           \A e \in Timers : \/ fired'[e] = fired[e]
                             \/ e \in InHand /\ fired'[e] = fired[e] + 1,
           \A t \in Threads, e \in Timers : Distributes(t)' /\ hand'[t] = e =>
               /\ Distributes(t) /\ hand[t] = e
               /\ pc'[t] # "pushed" => pc[t] # "pushed" /\ fired'[e] = fired[e],
           \A t \in Threads : pc'[t] = "pushed" => fired'[hand'[t]] > 0
    PROVE  Placed'
<1>0. TypeOK /\ Within /\ Apart /\ Once /\ Spent /\ Found
    BY DEF IInv
<1>1. Within' /\ Once' /\ Waiting' = Waiting /\ KeptOnes' = KeptOnes
    BY <1>0, ListsStay
<1>2. Apart'
    BY <1>0, <1>1 DEF Apart
<1>3. Spent'
  <2>1. ASSUME NEW e \in Timers, ~isLoop[e], fired'[e] > 0
        PROVE  e \notin addedElements_ \cup Waiting \cup KeptOnes
    <3>1. CASE fired'[e] = fired[e]
        BY <1>0, <2>1, <3>1 DEF Spent
    <3>2. CASE e \in InHand
        BY <1>0, <3>2 DEF Apart
    <3> QED BY <3>1, <3>2
  <2>2. ASSUME NEW e \in Timers, ~isLoop[e], fired'[e] > 0, NEW t \in Threads,
               Distributes(t)', hand'[t] = e
        PROVE  pc'[t] = "pushed"
    <3> SUFFICES ASSUME pc'[t] # "pushed" PROVE FALSE
        OBVIOUS
    <3>1. Distributes(t) /\ hand[t] = e /\ pc[t] # "pushed" /\ fired'[e] = fired[e]
        BY <2>2
    <3> QED BY <1>0, <2>2, <3>1 DEF Spent
  <2>3. \A e \in Timers : fired'[e] > 0 => e \in added
      BY <1>0 DEF Spent, Apart
  <2> QED BY <1>1, <2>1, <2>2, <2>3 DEF Spent
<1>4. Found'
  <2>1. \A e \in added : ~state'[e].removed /\ (isLoop[e] \/ fired'[e] = 0) =>
            ~state[e].removed /\ (isLoop[e] \/ fired[e] = 0)
      BY <1>0 DEF TypeOK
  <2> QED BY <1>0, <1>1, <2>1 DEF Found
<1> QED BY <1>1, <1>2, <1>3, <1>4 DEF Placed

LEMMA UnmovedNext ==
    ASSUME IInv, TypeOK', Control', [Next]_vars,
           \/ Tick \/ UNCHANGED vars
           \/ \E t \in Threads :
                 \/ \E e \in Timers : RemoveTimer(t, e)
                 \/ SpinEnd(t) \/ Enter(t) \/ PumpEnd(t) \/ ScanEnd(t) \/ Fire(t)
    PROVE  Placed'
<1> USE DEF At, Goto, dataVars, queueVars, localVars, histVars
<1>0. TypeOK /\ Control /\ Spent
    BY DEF IInv
<1>1. \A e \in Timers : state[e].removed => state'[e].removed
    BY RemovedStays
<1>2. ASSUME UNCHANGED <<addedElements_, elements_, elementIdx, timerElements, added, isLoop, fired>>,
             \A u \in Threads : /\ Distributes(u)' /\ hand'[u] \in Timers =>
                                     Distributes(u) /\ hand[u] = hand'[u]
                                /\ Distributes(u) /\ hand[u] \in Timers =>
                                     Distributes(u)' /\ hand[u] = hand'[u]
                                /\ pc'[u] = "pushed" <=> pc[u] = "pushed"
      PROVE  Placed'
  <2>1. InHand' = InHand
      BY <1>2 DEF InHand
  <2>2. \A u \in Threads, e \in Timers : Distributes(u)' /\ hand'[u] = e =>
               /\ Distributes(u) /\ hand[u] = e
               /\ pc'[u] # "pushed" => pc[u] # "pushed" /\ fired'[e] = fired[e]
      BY <1>2
  <2>3. \A u \in Threads : pc'[u] = "pushed" => fired'[hand'[u]] > 0
      BY <1>0, <1>2 DEF Spent, Control, Distributes
  <2> QED BY <1>1, <1>2, <2>1, <2>2, <2>3, Unmoved
<1>3. CASE Tick \/ UNCHANGED vars
    BY <1>2, <1>3 DEF Tick, vars, Distributes
<1>4. ASSUME NEW t \in Threads, NEW e \in Timers, RemoveTimer(t, e) PROVE Placed'
    BY <1>0, <1>2, <1>4 DEF RemoveTimer, TypeOK, Distributes
<1>5. ASSUME NEW t \in Threads, SpinEnd(t) \/ Enter(t) \/ PumpEnd(t) \/ ScanEnd(t)
      PROVE  Placed'
    BY <1>0, <1>2, <1>5, NoTimerFresh DEF SpinEnd, Enter, PumpEnd, ScanEnd, TypeOK, Distributes, Control
<1>6. ASSUME NEW t \in Threads, Fire(t) PROVE Placed'
  <2>1. /\ pc[t] = "push" /\ hand[t] \in Timers /\ Distributes(t)
        /\ pc' = [pc EXCEPT ![t] = "pushed"]
        /\ UNCHANGED <<addedElements_, elements_, elementIdx, timerElements, added, isLoop, hand>>
      BY <1>0, <1>6 DEF Fire, Control, Distributes
  <2>2. PICK n \in Nat : n = fired[hand[t]]
      BY <1>0, <2>1 DEF TypeOK
  <2>3. fired' = [fired EXCEPT ![hand[t]] = n + 1] /\ n + 1 > 0
      BY <1>6, <2>2 DEF Fire
  <2>4. \A e \in Timers : fired'[e] = IF e = hand[t] THEN n + 1 ELSE fired[e]
      BY <1>0, <2>3 DEF TypeOK
  <2>5. \A u \in Threads : pc'[u] = IF u = t THEN "pushed" ELSE pc[u]
      BY <1>0, <2>1 DEF TypeOK
  <2>6. \A u \in Threads : Distributes(u)' <=> Distributes(u)
      BY <2>1, <2>5 DEF Distributes
  <2>7. InHand' = InHand
      BY <2>1, <2>6 DEF InHand
  <2>8. \A e \in Timers : \/ fired'[e] = fired[e]
                          \/ e \in InHand /\ fired'[e] = fired[e] + 1
      BY <2>1, <2>2, <2>4 DEF InHand
  <2>9. \A u \in Threads : u # t => ~Distributes(u)
      BY <1>0, <2>1 DEF Control, OneDistributor
  <2>10. \A u \in Threads, e \in Timers : Distributes(u)' /\ hand'[u] = e =>
               /\ Distributes(u) /\ hand[u] = e
               /\ pc'[u] # "pushed" => pc[u] # "pushed" /\ fired'[e] = fired[e]
      BY <2>1, <2>5, <2>6, <2>9
  <2>11. \A u \in Threads : pc'[u] = "pushed" => fired'[hand'[u]] > 0
      BY <2>1, <2>3, <2>4, <2>5, <2>9 DEF Distributes
  <2> QED BY <1>1, <2>1, <2>7, <2>8, <2>10, <2>11, Unmoved
<1> QED BY <1>3, <1>4, <1>5, <1>6

LEMMA AddTimerNext ==
    ASSUME IInv, TypeOK', NEW t \in Threads, NEW e \in Timers, NEW delay \in Delays,
           NEW loop \in BOOLEAN, AddTimer(t, e, delay, loop)
    PROVE  Placed'
<1> USE DEF At, Goto, dataVars, queueVars, localVars, histVars
<1>0. TypeOK /\ Control /\ Within /\ Apart /\ Once /\ Spent /\ Found
    BY DEF IInv
<1>1. /\ e \notin added /\ added' = added \cup {e}
      /\ addedElements_' = addedElements_ \cup {e}
      /\ UNCHANGED <<elements_, elementIdx, timerElements, state, fired, pc, hand>>
      /\ \A f \in Timers : f # e => isLoop'[f] = isLoop[f]
    BY <1>0 DEF AddTimer, TypeOK
<1>2. Within' /\ Once' /\ Waiting' = Waiting /\ KeptOnes' = KeptOnes
    BY <1>0, <1>1, ListsStay
<1>3. InHand' = InHand
    BY <1>1 DEF InHand, Distributes
<1>4. e \notin addedElements_ \cup Waiting \cup KeptOnes \cup InHand
    BY <1>0, <1>1 DEF Apart
<1>5. Apart'
    BY <1>0, <1>1, <1>2, <1>3, <1>4 DEF Apart
<1>6. fired[e] = 0
  <2>1. fired[e] \in Nat
      BY <1>0 DEF TypeOK
  <2>2. ~(fired[e] > 0)
      BY <1>0, <1>1 DEF Spent
  <2> QED BY <2>1, <2>2
<1>7. Spent'
  <2>1. \A f \in Timers : fired'[f] > 0 => f \in added' /\ f # e
      BY <1>0, <1>1, <1>6 DEF Spent
  <2>2. \A f \in Timers : ~isLoop'[f] /\ fired'[f] > 0 =>
            /\ f \notin addedElements_' \cup Waiting \cup KeptOnes
            /\ \A u \in Threads : Distributes(u) /\ hand[u] = f => pc[u] = "pushed"
      BY <1>0, <1>1, <2>1 DEF Spent
  <2>3. \A u \in Threads : pc'[u] = "pushed" => fired'[hand'[u]] > 0
      BY <1>0, <1>1 DEF Spent
  <2> QED BY <1>1, <1>2, <2>1, <2>2, <2>3 DEF Spent, Distributes
<1>8. Found'
  <2>1. \A f \in added : f \in Timers /\ isLoop'[f] = isLoop[f]
      BY <1>0, <1>1 DEF TypeOK
  <2> QED BY <1>0, <1>1, <1>2, <1>3, <2>1 DEF Found
<1> QED BY <1>2, <1>5, <1>7, <1>8 DEF Placed

LEMMA PumpPopNext ==
    ASSUME IInv, TypeOK', NEW t \in Threads, NEW e \in Timers, PumpPop(t, e)
    PROVE  Placed'
<1> USE DEF At, Goto, dataVars, queueVars, localVars, histVars
<1>0. TypeOK /\ Control /\ Within /\ Apart /\ Once /\ Spent /\ Found
    BY DEF IInv
<1>1. /\ pc[t] = "pump" /\ Distributes(t) /\ hand[t] = NoTimer
      /\ e \in addedElements_ /\ addedElements_' = addedElements_ \ {e}
      /\ pc' = [pc EXCEPT ![t] = "pumped"] /\ hand' = [hand EXCEPT ![t] = e]
      /\ UNCHANGED <<elements_, elementIdx, timerElements, state, fired, isLoop, added>>
    BY <1>0 DEF PumpPop, Distributes, Control
<1>2. Within' /\ Once' /\ Waiting' = Waiting /\ KeptOnes' = KeptOnes
    BY <1>0, <1>1, ListsStay
<1>3. \A u \in Threads : u # t => ~Distributes(u) /\ pc'[u] = pc[u]
    BY <1>0, <1>1 DEF Control, OneDistributor, TypeOK
<1>4. InHand = {} /\ InHand' = {e}
    BY <1>0, <1>1, <1>3, NoTimerFresh DEF InHand, Distributes, TypeOK
<1>5. Apart'
    BY <1>0, <1>1, <1>2, <1>4 DEF Apart
<1>6. Spent'
    BY <1>0, <1>1, <1>2, <1>3 DEF Spent, Distributes, TypeOK
<1>7. Found'
    BY <1>0, <1>1, <1>2, <1>4 DEF Found
<1> QED BY <1>2, <1>5, <1>6, <1>7 DEF Placed

LEMMA PumpKeepNext ==
    ASSUME IInv, TypeOK', NEW t \in Threads, PumpKeep(t)
    PROVE  Placed'
<1> USE DEF At, Goto, dataVars, queueVars, localVars, histVars
<1>0. TypeOK /\ Control /\ Within /\ Apart /\ Once /\ Spent /\ Found
    BY DEF IInv
<1>1. /\ pc[t] = "pumped" /\ Distributes(t)
      /\ pc' = [pc EXCEPT ![t] = "pump"] /\ hand' = [hand EXCEPT ![t] = NoTimer]
      /\ UNCHANGED <<addedElements_, elementIdx, timerElements, state, fired, isLoop, added>>
    BY DEF PumpKeep, Distributes
<1>2. PICK e \in Timers : e = hand[t]
    BY <1>0, <1>1 DEF Control
<1>3. /\ \A u \in Threads : u # t => /\ ~Distributes(u) /\ pc[u] \in {"out", "spin"}
                                    /\ pc'[u] = pc[u] /\ hand'[u] = hand[u]
      /\ pc'[t] = "pump" /\ hand'[t] = NoTimer
    BY <1>0, <1>1 DEF Control, OneDistributor, TypeOK, Distributes
<1>4. InHand = {e} /\ InHand' = {}
    BY <1>1, <1>2, <1>3, NoTimerFresh DEF InHand, Distributes
<1>5. KeptOnes' = KeptOnes
    BY <1>1 DEF KeptOnes
<1>6. state[e].id = 0
    BY <1>1, Unmarked DEF Marking
<1>7. elements_' = IF state[e].removed THEN elements_ ELSE Append(elements_, e)
  <2>1. state[e] \in [id : Threads \cup {0}, removed : BOOLEAN]
      BY <1>0 DEF TypeOK
  <2>2. CASE state[e].removed
    <3>1. state[e] # [id |-> 0, removed |-> FALSE]
        BY <2>2
    <3> QED BY <1>2, <2>2, <3>1 DEF PumpKeep
  <2>3. CASE state[e].removed = FALSE
    <3>1. state[e] = [id |-> 0, removed |-> FALSE]
        BY <1>6, <2>1, <2>3
    <3> QED BY <1>2, <2>3, <3>1 DEF PumpKeep
  <2> QED BY <2>1, <2>2, <2>3
<1>8. CASE elements_' = elements_ /\ state[e].removed
  <2>1. Within' /\ Once' /\ Waiting' = Waiting
      BY <1>0, <1>1, <1>8, ListsStay
  <2>2. Apart' /\ Found'
      BY <1>0, <1>1, <1>4, <1>5, <1>8, <2>1 DEF Apart, Found
  <2>3. Spent'
    <3>1. \A f \in Timers : ~isLoop'[f] /\ fired'[f] > 0 =>
              f \notin addedElements_' \cup Waiting' \cup KeptOnes'
        BY <1>0, <1>1, <1>2, <1>5, <2>1 DEF Spent
    <3>2. \A u \in Threads : ~Distributes(u)' \/ hand'[u] = NoTimer
        BY <1>3 DEF Distributes
    <3>3. \A u \in Threads : pc'[u] # "pushed"
        BY <1>3
    <3> QED BY <1>0, <1>1, <3>1, <3>2, <3>3, NoTimerFresh DEF Spent
  <2> QED BY <2>1, <2>2, <2>3 DEF Placed
<1>9. CASE elements_' = Append(elements_, e)
  <2>1. PICK n \in Nat : n = Len(elements_) /\ DOMAIN elements_ = 1 .. n
      BY <1>0, LenProperties DEF TypeOK
  <2>2. /\ DOMAIN elements_' = 1 .. n + 1 /\ Len(elements_') = n + 1
        /\ \A i \in 1 .. n : elements_'[i] = elements_[i]
        /\ elements_'[n + 1] = e
      BY <1>0, <1>9, <2>1, AppendProperties, LenProperties DEF TypeOK
  <2>3. \A u \in Threads : elementIdx[u] \in Nat /\ elementIdx[u] <= n
      BY <1>0, <2>1 DEF Within, TypeOK
  <2>4. Within'
      BY <1>1, <2>2, <2>3 DEF Within
  <2>5. \A i : IsAhead(i)' <=> IsAhead(i)
      BY <1>1 DEF IsAhead
  <2>6. IsAhead(n + 1)
      BY <2>3 DEF IsAhead
  <2>7. Waiting' = Waiting \cup {e}
      BY <2>1, <2>2, <2>5, <2>6 DEF Waiting
  <2>8. Once'
    <3>1. \A i, j \in 1 .. n : IsAhead(i) /\ IsAhead(j) /\ elements_[i] = elements_[j] => i = j
        BY <1>0, <2>1 DEF Once
    <3>2. \A i \in 1 .. n : IsAhead(i) => elements_[i] # e
      <4>1. e \notin Waiting
          BY <1>0, <1>4 DEF Apart
      <4> QED BY <2>1, <4>1 DEF Waiting
    <3>3. \A i, j \in 1 .. n + 1 :
              IsAhead(i) /\ IsAhead(j) /\ elements_'[i] = elements_'[j] => i = j
        BY <2>2, <3>1, <3>2
    <3>4. \A i, j \in DOMAIN elements_' :
              IsAhead(i)' /\ IsAhead(j)' /\ elements_'[i] = elements_'[j] => i = j
        BY <2>2, <2>5, <3>3
    <3>5. \A u \in Threads : \A i, j \in DOMAIN timerElements'[u] :
              timerElements'[u][i] = timerElements'[u][j] => i = j
        BY <1>0, <1>1 DEF Once
    <3> QED BY <3>4, <3>5 DEF Once
  <2>9. Apart' /\ Found'
      BY <1>0, <1>1, <1>4, <1>5, <2>7 DEF Apart, Found
  <2>10. ~(~isLoop[e] /\ fired[e] > 0)
      BY <1>0, <1>1, <1>2 DEF Spent
  <2>11. Spent'
    <3>1. \A f \in Timers : ~isLoop'[f] /\ fired'[f] > 0 =>
              f \notin addedElements_' \cup Waiting' \cup KeptOnes'
        BY <1>0, <1>1, <1>2, <1>5, <2>7, <2>10 DEF Spent
    <3>2. \A u \in Threads : ~Distributes(u)' \/ hand'[u] = NoTimer
        BY <1>3 DEF Distributes
    <3>3. \A u \in Threads : pc'[u] # "pushed"
        BY <1>3
    <3> QED BY <1>0, <1>1, <3>1, <3>2, <3>3, NoTimerFresh DEF Spent
  <2> QED BY <2>4, <2>8, <2>9, <2>11 DEF Placed
<1> QED BY <1>7, <1>8, <1>9

\* Every element has been passed, so that the kept ones are all there is.
LEMMA FinishNext ==
    ASSUME IInv, TypeOK', NEW t \in Threads, Finish(t)
    PROVE  Placed'
<1> USE DEF At, Goto, dataVars, queueVars, localVars, histVars
<1>0. TypeOK /\ Control /\ Within /\ Apart /\ Once /\ Spent /\ Found
    BY DEF IInv
<1>1. /\ pc[t] = "pump" /\ Distributes(t) /\ hand[t] = NoTimer
      /\ addedElements_ = {} /\ elementIdx[t] = Len(elements_)
      /\ elements_' = timerElements[t]
      /\ timerElements' = [timerElements EXCEPT ![t] = <<>>]
      /\ elementIdx' = [elementIdx EXCEPT ![t] = 0]
      /\ pc' = [pc EXCEPT ![t] = "out"]
      /\ UNCHANGED <<addedElements_, hand, state, fired, isLoop, added>>
    BY <1>0 DEF Finish, Distributes, Control
<1>2. /\ \A u \in Threads : u # t => /\ pc[u] \in {"out", "spin"}
                                    /\ elementIdx[u] = 0 /\ timerElements[u] = <<>>
      /\ \A i \in DOMAIN elements_ : IsAhead(i) <=> i > elementIdx[t]
      /\ KeptOnes = {e \in Timers : \E i \in DOMAIN timerElements[t] : timerElements[t][i] = e}
      /\ \A e \in Timers : e \in InHand <=> hand[t] = e
    BY <1>1, Alone
<1>3. \A u \in Threads : /\ elementIdx'[u] = 0 /\ timerElements'[u] = <<>>
                         /\ pc'[u] \in {"out", "spin"}
    BY <1>0, <1>1, <1>2 DEF TypeOK
<1>4. elements_' \in Seq(Timers) /\ timerElements[t] \in Seq(Timers)
    BY <1>0 DEF TypeOK
<1>5. Within'
    BY <1>3, <1>4, LenProperties DEF Within
<1>6. \A i \in DOMAIN elements_' : IsAhead(i)'
    BY <1>3, <1>4 DEF IsAhead
<1>7. Waiting' = KeptOnes
    BY <1>1, <1>2, <1>6 DEF Waiting
<1>8. KeptOnes' = {}
    BY <1>3, EmptySeq DEF KeptOnes
<1>9. InHand' = {} /\ InHand = {}
    BY <1>1, <1>2, <1>3, NoTimerFresh DEF InHand, Distributes
<1>10. Waiting = {}
  <2>1. \A i \in DOMAIN elements_ : ~(i > elementIdx[t])
      BY <1>0, <1>1, LenProperties DEF TypeOK
  <2> QED BY <1>2, <2>1 DEF Waiting
<1>11. Once'
  <2>1. \A i, j \in DOMAIN elements_' : elements_'[i] = elements_'[j] => i = j
      BY <1>0, <1>1 DEF Once
  <2>2. \A u \in Threads : DOMAIN timerElements'[u] = {}
      BY <1>3, EmptySeq
  <2> QED BY <2>1, <2>2 DEF Once
<1>12. Apart' /\ Found'
    BY <1>0, <1>1, <1>7, <1>8, <1>9, <1>10 DEF Apart, Found
<1>13. Spent'
  <2>1. \A f \in Timers : ~isLoop'[f] /\ fired'[f] > 0 =>
            f \notin addedElements_' \cup Waiting' \cup KeptOnes'
      BY <1>0, <1>1, <1>7, <1>8 DEF Spent
  <2>2. \A u \in Threads : ~Distributes(u)' /\ pc'[u] # "pushed"
      BY <1>3 DEF Distributes
  <2> QED BY <1>0, <1>1, <2>1, <2>2 DEF Spent
<1> QED BY <1>5, <1>11, <1>12, <1>13 DEF Placed

\* The element that is marked leaves elements_ for the distributor's hand.
LEMMA MarkNext ==
    ASSUME IInv, TypeOK', NEW t \in Threads, Mark(t)
    PROVE  Placed'
<1>0. TypeOK /\ Control /\ Within /\ Apart /\ Once /\ Spent /\ Found
    BY DEF IInv
<1>1. PICK n \in Nat, e \in Timers : MarkAt(t, n, e)
    BY MarkStep
<1>2. /\ n = elementIdx[t] /\ n + 1 \in 1 .. Len(elements_) /\ e = elements_[n + 1]
      /\ pc[t] = "scan" /\ hand[t] = NoTimer /\ Distributes(t)
      /\ hand' = [hand EXCEPT ![t] = e] /\ elementIdx' = [elementIdx EXCEPT ![t] = n + 1]
      /\ \A f \in Timers : state'[f].removed <=> state[f].removed
      /\ UNCHANGED <<addedElements_, elements_, isLoop, timerElements, added, fired>>
    BY <1>0, <1>1 DEF MarkAt, Control, Distributes, TypeOK
<1>3. PICK there \in {"drop", "keep", "push"} : pc' = [pc EXCEPT ![t] = there]
    BY <1>1 DEF MarkAt
<1>4. /\ \A u \in Threads : u # t => /\ pc[u] \in {"out", "spin"}
                                    /\ elementIdx[u] = 0 /\ timerElements[u] = <<>>
      /\ \A i \in DOMAIN elements_ : IsAhead(i) <=> i > n
      /\ \A f \in Timers : f \in InHand <=> hand[t] = f
    BY <1>2, Alone
<1>5. \A u \in Threads : u # t => /\ ~Distributes(u)' /\ pc'[u] # "pushed"
                                /\ elementIdx'[u] = 0
    BY <1>0, <1>2, <1>3, <1>4 DEF TypeOK, Distributes
<1>6. Distributes(t)' /\ pc'[t] # "pushed" /\ hand'[t] = e /\ elementIdx'[t] = n + 1
    BY <1>0, <1>2, <1>3 DEF TypeOK, Distributes
<1>7. PICK l \in Nat : l = Len(elements_) /\ DOMAIN elements_ = 1 .. l
    BY <1>0, LenProperties DEF TypeOK
<1>8. Within'
    BY <1>2, <1>5, <1>6, <1>7 DEF Within
<1>9. \A i \in 1 .. l : IsAhead(i)' <=> i > n + 1
    BY <1>5, <1>6 DEF IsAhead
<1>10. \A i, j \in 1 .. l : i > n /\ j > n /\ elements_[i] = elements_[j] => i = j
    BY <1>0, <1>4, <1>7 DEF Once
<1>11. Once'
  <2>1. \A i, j \in 1 .. l : i > n + 1 /\ j > n + 1 /\ elements_[i] = elements_[j] => i = j
      BY <1>10
  <2>2. \A i, j \in DOMAIN elements_' :
              IsAhead(i)' /\ IsAhead(j)' /\ elements_'[i] = elements_'[j] => i = j
      BY <1>2, <1>7, <1>9, <2>1
  <2>3. \A u \in Threads : \A i, j \in DOMAIN timerElements'[u] :
              timerElements'[u][i] = timerElements'[u][j] => i = j
      BY <1>0, <1>2 DEF Once
  <2> QED BY <2>2, <2>3 DEF Once
<1>12. e \in Waiting
    BY <1>2, <1>4, <1>7 DEF Waiting
<1>13. Waiting' = Waiting \ {e}
  <2>1. \A i \in 1 .. l : IsAhead(i)' <=> IsAhead(i) /\ elements_[i] # e
    <3>1. \A i \in 1 .. l : i > n + 1 <=> i > n /\ i # n + 1
        OBVIOUS
    <3>2. \A i \in 1 .. l : i > n => (i # n + 1 <=> elements_[i] # e)
        BY <1>2, <1>7, <1>10
    <3> QED BY <1>4, <1>7, <1>9, <3>1, <3>2
  <2> QED BY <1>2, <1>7, <2>1 DEF Waiting
<1>14. KeptOnes' = KeptOnes
    BY <1>2 DEF KeptOnes
<1>15. InHand = {} /\ InHand' = {e}
    BY <1>2, <1>4, <1>5, <1>6, NoTimerFresh DEF InHand
<1>16. Apart'
    BY <1>0, <1>2, <1>12, <1>13, <1>14, <1>15 DEF Apart
<1>17. Found'
    BY <1>0, <1>2, <1>12, <1>13, <1>14, <1>15 DEF Found, TypeOK
<1>18. Spent'
  <2>1. \A f \in Timers : ~isLoop'[f] /\ fired'[f] > 0 =>
            f \notin addedElements_' \cup Waiting' \cup KeptOnes' /\ f # e
      BY <1>0, <1>2, <1>12, <1>13, <1>14 DEF Spent
  <2>2. \A u \in Threads : pc'[u] # "pushed" /\ (Distributes(u)' => hand'[u] = e)
      BY <1>5, <1>6
  <2> QED BY <1>0, <1>2, <2>1, <2>2 DEF Spent
<1> QED BY <1>8, <1>11, <1>16, <1>17, <1>18 DEF Placed

\* The element in the hand is kept or dropped; it is dropped only when it is
\* removed, or has fired and does not loop.
LEMMA ClearNext ==
    ASSUME IInv, TypeOK', NEW t \in Threads, Drop(t) \/ Keep(t) \/ Rearm(t)
    PROVE  Placed'
<1>0. TypeOK /\ Control /\ Within /\ Apart /\ Once /\ Spent /\ Found
    BY DEF IInv
<1>1. /\ pc[t] \in {"drop", "keep", "pushed"} /\ Distributes(t)
      /\ UNCHANGED <<addedElements_, elements_, elementIdx, isLoop, added, fired>>
      /\ Clear(t, hand[t])
    BY DEF Drop, Keep, Rearm, At, Distributes, queueVars, localVars, histVars, dataVars
<1>2. /\ hand[t] \in Timers /\ state' = [state EXCEPT ![hand[t]].id = 0]
      /\ hand' = [hand EXCEPT ![t] = NoTimer] /\ pc' = [pc EXCEPT ![t] = "scan"]
    BY <1>1, ClearStep
<1>3. PICK e \in Timers : e = hand[t]
    BY <1>2
<1>4. \A f \in Timers : state'[f].removed = state[f].removed
    BY <1>0, <1>2 DEF TypeOK
<1>5. /\ \A u \in Threads : u # t => /\ pc[u] \in {"out", "spin"} /\ timerElements[u] = <<>>
      /\ KeptOnes = {f \in Timers : \E i \in DOMAIN timerElements[t] : timerElements[t][i] = f}
      /\ \A f \in Timers : f \in InHand <=> hand[t] = f
    BY <1>1, Alone
<1>6. \A u \in Threads : /\ Distributes(u)' => hand'[u] = NoTimer
                         /\ pc'[u] # "pushed"
    BY <1>0, <1>2, <1>5 DEF TypeOK, Distributes
<1>7. InHand = {e} /\ InHand' = {}
    BY <1>3, <1>5, <1>6, NoTimerFresh DEF InHand
<1>8. Waiting' = Waiting /\ Within'
    BY <1>0, <1>1 DEF Waiting, Within, IsAhead
<1>9. \A i, j \in DOMAIN elements_' :
          IsAhead(i)' /\ IsAhead(j)' /\ elements_'[i] = elements_'[j] => i = j
    BY <1>0, <1>1 DEF Once, IsAhead
<1>10. CASE timerElements' = timerElements /\ (state[e].removed \/ (~isLoop[e] /\ fired[e] # 0))
  <2>1. KeptOnes' = KeptOnes
      BY <1>10 DEF KeptOnes
  <2>2. Once'
      BY <1>0, <1>9, <1>10 DEF Once
  <2>3. Apart'
      BY <1>0, <1>1, <1>7, <1>8, <2>1 DEF Apart
  <2>4. Found'
      BY <1>0, <1>1, <1>4, <1>7, <1>8, <1>10, <2>1 DEF Found, TypeOK
  <2>5. Spent'
    <3>1. \A f \in Timers : ~isLoop'[f] /\ fired'[f] > 0 =>
            f \notin addedElements_' \cup Waiting' \cup KeptOnes'
        BY <1>0, <1>1, <1>8, <2>1 DEF Spent
    <3> QED BY <1>0, <1>1, <1>6, <3>1, NoTimerFresh DEF Spent
  <2> QED BY <1>8, <2>2, <2>3, <2>4, <2>5 DEF Placed
<1>11. CASE /\ timerElements' = [timerElements EXCEPT ![t] = Append(@, e)]
            /\ ~(~isLoop[e] /\ fired[e] > 0)
  <2> DEFINE kept == timerElements[t]
  <2>1. kept \in Seq(Timers)
      BY <1>0 DEF TypeOK
  <2>2. PICK n \in Nat : n = Len(kept) /\ DOMAIN kept = 1 .. n
      BY <2>1, LenProperties
  <2>3. timerElements'[t] = Append(kept, e)
      BY <1>0, <1>11 DEF TypeOK
  <2>4. \A u \in Threads : u # t => timerElements'[u] = <<>>
      BY <1>0, <1>5, <1>11 DEF TypeOK
  <2>5. /\ DOMAIN timerElements'[t] = 1 .. n + 1 /\ timerElements'[t][n + 1] = e
        /\ \A i \in 1 .. n : timerElements'[t][i] = kept[i]
      BY <2>1, <2>2, <2>3, AppendProperties, LenProperties
  <2>6. \A u \in Threads : u # t => DOMAIN timerElements'[u] = {}
      BY <2>4, EmptySeq
  <2> HIDE DEF kept
  <2>7. KeptOnes = {f \in Timers : \E i \in 1 .. n : kept[i] = f}
      BY <1>5, <2>2 DEF kept
  <2>8. KeptOnes' = KeptOnes \cup {e}
    <3>1. \A f \in Timers : f \in KeptOnes' <=> \E i \in 1 .. n + 1 : timerElements'[t][i] = f
        BY <2>5, <2>6 DEF KeptOnes
    <3>2. \A f \in Timers : f \in KeptOnes' <=> f = e \/ \E i \in 1 .. n : kept[i] = f
        BY <2>2, <2>5, <3>1
    <3>3. KeptOnes' \subseteq Timers
        BY DEF KeptOnes
    <3> QED BY <1>3, <2>7, <3>2, <3>3
  <2>9. Once'
    <3>1. \A i, j \in 1 .. n : kept[i] = kept[j] => i = j
        BY <1>0, <2>2 DEF Once, kept
    <3>2. \A i \in 1 .. n : kept[i] # e
        BY <1>0, <1>7, <2>7 DEF Apart
    <3>3. \A i, j \in 1 .. n + 1 : timerElements'[t][i] = timerElements'[t][j] => i = j
        BY <2>5, <3>1, <3>2
    <3>4. \A u \in Threads : \A i, j \in DOMAIN timerElements'[u] :
              timerElements'[u][i] = timerElements'[u][j] => i = j
        BY <2>5, <2>6, <3>3
    <3> QED BY <1>9, <3>4 DEF Once
  <2>10. Apart'
      BY <1>0, <1>1, <1>7, <1>8, <2>8 DEF Apart
  <2>11. Found'
      BY <1>0, <1>1, <1>4, <1>7, <1>8, <2>8 DEF Found, TypeOK
  <2>12. Spent'
    <3>1. \A f \in Timers : ~isLoop'[f] /\ fired'[f] > 0 =>
            f \notin addedElements_' \cup Waiting' \cup KeptOnes'
        BY <1>0, <1>1, <1>8, <1>11, <2>8 DEF Spent
    <3> QED BY <1>0, <1>1, <1>6, <3>1, NoTimerFresh DEF Spent
  <2> QED BY <1>8, <2>9, <2>10, <2>11, <2>12 DEF Placed
<1>12. CASE Drop(t)
  <2>1. UNCHANGED timerElements /\ state[e].removed
      BY <1>0, <1>3, <1>12 DEF Drop, Control, localVars, At
  <2> QED BY <1>10, <2>1
<1>13. CASE Keep(t)
  <2>1. ~(~isLoop[e] /\ fired[e] > 0)
      BY <1>0, <1>1, <1>3, <1>13 DEF Keep, At, Spent
  <2> QED BY <1>3, <1>11, <1>13, <2>1 DEF Keep
<1>14. CASE Rearm(t)
  <2>1. fired[e] > 0 /\ fired[e] \in Nat
      BY <1>0, <1>3, <1>14 DEF Rearm, At, Spent, TypeOK
  <2>2. CASE ~state[e].removed /\ isLoop[e]
      BY <1>3, <1>11, <1>14, <2>2 DEF Rearm
  <2>3. CASE ~(~state[e].removed /\ isLoop[e])
      BY <1>3, <1>10, <1>14, <2>1, <2>3 DEF Rearm
  <2> QED BY <2>2, <2>3
<1> QED BY <1>12, <1>13, <1>14

LEMMA PlacedNext == IInv /\ [Next]_vars /\ TypeOK' /\ Control' => Placed'
<1> SUFFICES ASSUME IInv, [Next]_vars, TypeOK', Control' PROVE Placed'
    OBVIOUS
<1>1. CASE Tick \/ UNCHANGED vars
    BY <1>1, UnmovedNext
<1>2. ASSUME NEW t \in Threads, NEW e \in Timers, NEW delay \in Delays, NEW loop \in BOOLEAN,
             AddTimer(t, e, delay, loop)
      PROVE  Placed'
    BY <1>2, AddTimerNext
<1>3. ASSUME NEW t \in Threads,
             \/ \E e \in Timers : RemoveTimer(t, e)
             \/ SpinEnd(t) \/ Enter(t) \/ PumpEnd(t) \/ ScanEnd(t) \/ Fire(t)
      PROVE  Placed'
    BY <1>3, UnmovedNext
<1>4. ASSUME NEW t \in Threads, NEW e \in Timers, PumpPop(t, e) PROVE Placed'
    BY <1>4, PumpPopNext
<1>5. ASSUME NEW t \in Threads, PumpKeep(t) PROVE Placed'
    BY <1>5, PumpKeepNext
<1>6. ASSUME NEW t \in Threads, Finish(t) PROVE Placed'
    BY <1>6, FinishNext
<1>7. ASSUME NEW t \in Threads, Mark(t) PROVE Placed'
    BY <1>7, MarkNext
<1>8. ASSUME NEW t \in Threads, Drop(t) \/ Keep(t) \/ Rearm(t) PROVE Placed'
    BY <1>8, ClearNext
<1>9. ASSUME NEW t \in Threads, Distribute(t) PROVE Placed'
    BY <1>3, <1>4, <1>5, <1>6, <1>7, <1>8, <1>9 DEF Distribute
<1>10. ASSUME NEW t \in Threads, SpinEnd(t) \/ Enter(t) PROVE Placed'
    BY <1>3, <1>10
<1>11. ASSUME NEW t \in Threads, NEW e \in Timers, RemoveTimer(t, e) PROVE Placed'
    BY <1>3, <1>11
<1> QED BY <1>1, <1>2, <1>9, <1>10, <1>11 DEF Next

-----------------------------------------------------------------------------
LEMMA Inductive == Spec => []IInv
<1>1. Init => IInv
    BY InitIInv
<1>2. IInv /\ [Next]_vars => IInv'
  <2> SUFFICES ASSUME IInv, [Next]_vars PROVE IInv'
      OBVIOUS
  <2>1. TypeOK' /\ Control'
      BY TypeNext, ControlNext
  <2>2. ExecutingIdExact' /\ Quiet' /\ Due'
      BY <2>1, ExecutingIdNext, QuietNext, DueNext
  <2>3. Placed'
      BY <2>1, PlacedNext
  <2> QED BY <2>1, <2>2, <2>3 DEF IInv, Placed
<1> QED BY <1>1, <1>2, PTL DEF Spec

\* Every variable keeps its type: currentTick stays within the clock, and the
\* word of a timer holds no id that is not a thread's.
THEOREM TypeCorrect == Spec => []TypeOK
<1>1. IInv => TypeOK
    BY DEF IInv
<1> QED BY <1>1, Inductive, PTL

\* The exchange on distributing_ lets one thread in at a time, so that
\* elements_ and currentTick, which have no lock, are not shared.
THEOREM OneDistributorAlways == Spec => []OneDistributor
<1>1. IInv => OneDistributor
    BY DEF IInv, Control
<1> QED BY <1>1, Inductive, PTL

\* The assertion that no thread id is in the word before fetch_add never
\* fails: the word holds the id of the one thread that handles the timer.
THEOREM ExecutingIdExactAlways == Spec => []ExecutingIdExact
<1>1. IInv => ExecutingIdExact
    BY DEF IInv
<1> QED BY <1>1, Inductive, PTL

\* A timer that may still fire is at exactly one place: AddTimer, the pump,
\* the scan and the move of timerElements neither lose nor double it.
THEOREM NoTimerForgottenAlways == Spec => []NoTimerForgotten
<1>1. IInv => NoTimerForgotten
  <2> SUFFICES ASSUME IInv, NEW e \in added,
                      ~state[e].removed, isLoop[e] \/ fired[e] = 0
               PROVE  Places(e) = 1
      BY DEF NoTimerForgotten
  <2>0. TypeOK /\ Control /\ Apart /\ Once /\ Found /\ e \in Timers
      BY DEF IInv, TypeOK
  <2> DEFINE queued  == IF e \in addedElements_ THEN 1 ELSE 0
             ahead   == {i \in DOMAIN elements_ : elements_[i] = e
                            /\ \A t \in Threads : Distributes(t) => i > elementIdx[t]}
             kept    == {p \in Threads \X UNION {DOMAIN timerElements[t] : t \in Threads} :
                            p[2] \in DOMAIN timerElements[p[1]] /\ timerElements[p[1]][p[2]] = e}
             holders == {t \in Threads : Distributes(t) /\ hand[t] = e}
  <2>1. Places(e) = queued + Cardinality(ahead) + Cardinality(kept) + Cardinality(holders)
      BY DEF Places
  <2>2. /\ e \in Waiting => \E i : ahead = {i}
        /\ e \notin Waiting => ahead = {}
    <3>1. \A i \in DOMAIN elements_ :
              (\A t \in Threads : Distributes(t) => i > elementIdx[t]) <=> IsAhead(i)
      <4>1. \A t \in Threads : ~Distributes(t) => elementIdx[t] = 0
          BY <2>0 DEF Control
      <4>2. \A i \in DOMAIN elements_ : i \in Nat /\ i > 0
          BY <2>0 DEF TypeOK
      <4> QED BY <4>1, <4>2 DEF IsAhead
    <3>2. ahead = {i \in DOMAIN elements_ : IsAhead(i) /\ elements_[i] = e}
        BY <3>1
    <3>3. \A i, j \in ahead : i = j
        BY <2>0, <3>2 DEF Once
    <3>4. e \in Waiting <=> \E i : i \in ahead
        BY <2>0, <3>2 DEF Waiting
    <3> QED BY <3>3, <3>4
  <2>3. /\ e \in KeptOnes => \E p : kept = {p}
        /\ e \notin KeptOnes => kept = {}
    <3>1. \A t, u \in Threads : t # u => timerElements[t] = <<>> \/ timerElements[u] = <<>>
        BY <2>0 DEF Control, OneDistributor
    <3>2. \A p \in kept : /\ p = <<p[1], p[2]>> /\ p[1] \in Threads
                           /\ p[2] \in DOMAIN timerElements[p[1]] /\ timerElements[p[1]][p[2]] = e
        OBVIOUS
    <3>3. \A p, q \in kept : p[1] = q[1]
      <4>1. \A t \in Threads : timerElements[t] = <<>> => DOMAIN timerElements[t] = {}
          BY EmptySeq
      <4> QED BY <3>1, <3>2, <4>1
    <3>4. \A p, q \in kept : p[2] = q[2]
        BY <2>0, <3>2, <3>3 DEF Once
    <3>5. \A p, q \in kept : p = q
        BY <3>2, <3>3, <3>4
    <3>6. ASSUME NEW t \in Threads, NEW i \in DOMAIN timerElements[t], timerElements[t][i] = e
          PROVE  <<t, i>> \in kept
        BY <3>6
    <3>7. e \in KeptOnes <=> \E p : p \in kept
        BY <2>0, <3>2, <3>6 DEF KeptOnes
    <3> HIDE DEF kept
    <3> QED BY <3>5, <3>7
  <2>4. /\ e \in InHand => \E t : holders = {t}
        /\ e \notin InHand => holders = {}
    <3>1. \A t, u \in holders : t = u
        BY <2>0 DEF Control, OneDistributor
    <3>2. e \in InHand <=> \E t : t \in holders
        BY <2>0 DEF InHand
    <3> QED BY <3>1, <3>2
  <2> HIDE DEF ahead, kept, holders
  <2>5. /\ Cardinality(ahead) = IF e \in Waiting THEN 1 ELSE 0
        /\ Cardinality(kept) = IF e \in KeptOnes THEN 1 ELSE 0
        /\ Cardinality(holders) = IF e \in InHand THEN 1 ELSE 0
    <3>1. \A S : S = {} => Cardinality(S) = 0
        BY FS_EmptySet
    <3>2. \A S : (\E x : S = {x}) => Cardinality(S) = 1
        BY FS_Singleton
    <3> QED BY <2>2, <2>3, <2>4, <3>1, <3>2
  <2>6. e \in addedElements_ \cup Waiting \cup KeptOnes \cup InHand
      BY <2>0 DEF Found
  <2>7. /\ e \in addedElements_ => e \notin Waiting /\ e \notin KeptOnes /\ e \notin InHand
        /\ e \in Waiting => e \notin KeptOnes /\ e \notin InHand
        /\ e \in KeptOnes => e \notin InHand
      BY <2>0 DEF Apart
  <2> QED BY <2>1, <2>5, <2>6, <2>7
<1> QED BY <1>1, Inductive, PTL

\* What a step changes of fired.
LEMMA OnlyFirePushes ==
    ASSUME IInv, [Next]_vars, NEW e \in Timers, fired'[e] # fired[e]
    PROVE  \E t \in Threads : pc[t] = "push" /\ hand[t] = e
<1> USE DEF dataVars, queueVars, localVars, histVars
<1>1. CASE UNCHANGED fired
    BY <1>1
<1>2. ASSUME NEW t \in Threads, Fire(t) PROVE pc[t] = "push" /\ hand[t] = e
    BY <1>2 DEF Fire, At, IInv, TypeOK
<1> QED BY <1>1, <1>2 DEF Next, Distribute, Tick, AddTimer, RemoveTimer, SpinEnd, Enter, PumpPop,
           PumpKeep, PumpEnd, Finish, Mark, ScanEnd, Drop, Keep, Rearm, vars

\* Once RemoveTimer has returned, no distributor pushes the timer's task: it
\* is not pushing it now and finds the mark before it would again.
THEOREM RemovedStaysQuietAlways == Spec => RemovedStaysQuiet
<1>1. IInv /\ [Next]_vars => [\A e \in Timers : e \in removed => fired'[e] = fired[e]]_vars
  <2> SUFFICES ASSUME IInv, [Next]_vars, NEW e \in Timers, e \in removed, fired'[e] # fired[e]
               PROVE  FALSE
      OBVIOUS
  <2>1. PICK t \in Threads : pc[t] = "push" /\ hand[t] = e
      BY OnlyFirePushes
  <2> QED BY <2>1 DEF IInv, Quiet
<1> QED BY <1>1, Inductive, PTL DEF Spec, RemovedStaysQuiet

\* A task is pushed at its tick or later, and only once if it does not loop.
THEOREM NeverEarlyNeverTwiceAlways == Spec => NeverEarlyNeverTwice
<1>1. IInv /\ [Next]_vars =>
          [\A e \in Timers : fired'[e] # fired[e] =>
              /\ executeTick[e] <= now
              /\ isLoop[e] \/ fired[e] = 0]_vars
  <2> SUFFICES ASSUME IInv, [Next]_vars, NEW e \in Timers, fired'[e] # fired[e]
               PROVE  executeTick[e] <= now /\ (isLoop[e] \/ fired[e] = 0)
      OBVIOUS
  <2>0. TypeOK /\ Due /\ Spent
      BY DEF IInv
  <2>1. PICK t \in Threads : pc[t] = "push" /\ hand[t] = e
      BY OnlyFirePushes
  <2>2. executeTick[e] \in Nat /\ currentTick \in Nat /\ now \in Nat /\ fired[e] \in Nat
      BY <2>0, MaxTickNat DEF TypeOK
  <2>3. executeTick[e] <= currentTick /\ currentTick <= now
      BY <2>0, <2>1 DEF Due
  <2>4. ~(~isLoop[e] /\ fired[e] > 0)
      BY <2>0, <2>1 DEF Spent, Distributes
  <2> QED BY <2>2, <2>3, <2>4
<1> QED BY <1>1, Inductive, PTL DEF Spec, NeverEarlyNeverTwice

=============================================================================
