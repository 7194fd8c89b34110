----------------------------- MODULE TimerTask -----------------------------
(***************************************************************************)
(* ServerLibrary/TimerTask.{h,cpp}: one TimerTaskManager for the process.  *)
(* Every worker calls Distribute in each turn of its loop; the exchange on *)
(* distributing_ lets one of them in. Any task may add a timer or remove   *)
(* one while Distribute works on it: the two meet in TimerData::state,     *)
(* a word with the id of the distributing thread in its high half and the  *)
(* removed bit in its low half.                                            *)
(*                                                                         *)
(* A firing is `object->Push(task, true)`: it puts the task in the mailbox *)
(* of its object (CommandTask). Running the task is not part of this       *)
(* module. The weak_ptr to the object never expires while its timer lives, *)
(* because the task holds a strong one, so the else branch of the firing   *)
(* is not reachable and has no action.                                     *)
(***************************************************************************)
EXTENDS Naturals, Sequences, FiniteSets

CONSTANTS Threads,   (* ids of the threads: LThreadID counts from 1        *)
          Timers,    (* TimerData objects ever created                     *)
          Delays,    (* values of delayTick                                *)
          MaxTick,   (* bound on GetTickCount64                            *)
          NoTimer    (* nullptr                                            *)

ASSUME ThreadIds      == Threads \subseteq Nat \ {0}
ASSUME DelaysPositive == Delays \subseteq Nat \ {0}
ASSUME MaxTickNat     == MaxTick \in Nat
ASSUME NoTimerFresh   == NoTimer \notin Timers

VARIABLES
    now,            (* GetTickCount64()                                    *)
    distributing_, currentTick, addedElements_, elements_,
    state,          (* TimerData::state: [id, removed]                     *)
    executeTick, delayTick, isLoop,
    pc, hand,       (* where each thread is, and the element it handles    *)
    elementIdx,     (* Distribute's locals: number of elements_ passed,    *)
    timerElements,  (* and the elements to keep                            *)
    added,          (* history: the timers AddTimer has created            *)
    fired,          (* history: how often each was pushed to its object    *)
    removed         (* history: the timers for which RemoveTimer returned  *)

dataVars  == <<executeTick, delayTick, isLoop>>
queueVars == <<addedElements_, elements_>>
localVars == <<elementIdx, timerElements>>
histVars  == <<added, fired, removed>>
vars == <<now, distributing_, currentTick, queueVars, state, dataVars, pc, hand,
          localVars, histVars>>

TypeOK ==
    /\ now \in 0 .. MaxTick /\ currentTick \in 0 .. MaxTick
    /\ distributing_ \in BOOLEAN
    /\ addedElements_ \subseteq Timers
    /\ elements_ \in Seq(Timers)
    /\ state \in [Timers -> [id : Threads \cup {0}, removed : BOOLEAN]]
    /\ executeTick \in [Timers -> Nat]
    /\ delayTick \in [Timers -> Delays \cup {0}]
    /\ isLoop \in [Timers -> BOOLEAN]
    /\ pc \in [Threads -> {"out", "spin", "pump", "pumped", "scan", "drop", "keep",
                           "push", "pushed"}]
    /\ hand \in [Threads -> Timers \cup {NoTimer}]
    /\ elementIdx \in [Threads -> Nat]
    /\ timerElements \in [Threads -> Seq(Timers)]
    /\ added \subseteq Timers /\ removed \subseteq Timers
    /\ fired \in [Timers -> Nat]

Init ==
    /\ now = 0 /\ currentTick = 0
    /\ distributing_ = FALSE
    /\ addedElements_ = {} /\ elements_ = <<>>
    /\ state = [e \in Timers |-> [id |-> 0, removed |-> FALSE]]
    /\ executeTick = [e \in Timers |-> 0]
    /\ delayTick = [e \in Timers |-> 0]
    /\ isLoop = [e \in Timers |-> FALSE]
    /\ pc = [t \in Threads |-> "out"]
    /\ hand = [t \in Threads |-> NoTimer]
    /\ elementIdx = [t \in Threads |-> 0]
    /\ timerElements = [t \in Threads |-> <<>>]
    /\ added = {} /\ removed = {}
    /\ fired = [e \in Timers |-> 0]

At(t, here) == pc[t] = here
Goto(t, there) == pc' = [pc EXCEPT ![t] = there]

InElements == {elements_[i] : i \in DOMAIN elements_}
Kept(t)    == {timerElements[t][i] : i \in DOMAIN timerElements[t]}

\* handle.lock() succeeds: some queue or some thread still owns the timer.
Alive(e) ==
    \/ e \in addedElements_ \cup InElements
    \/ \E t \in Threads : hand[t] = e \/ e \in Kept(t)

-----------------------------------------------------------------------------
\* GetTickCount64 advances.
Tick ==
    /\ now < MaxTick
    /\ now' = now + 1
    /\ UNCHANGED <<distributing_, currentTick, queueVars, state, dataVars, pc, hand,
                   localVars, histVars>>

\* AddTimer, up to addedElements_.Push(newTimerElement).
AddTimer(t, e, delay, loop) ==
    /\ At(t, "out")
    /\ e \notin added
    /\ added' = added \cup {e}
    /\ delayTick' = [delayTick EXCEPT ![e] = delay]
    /\ executeTick' = [executeTick EXCEPT ![e] = now + delay]
    /\ isLoop' = [isLoop EXCEPT ![e] = loop]
    /\ addedElements_' = addedElements_ \cup {e}
    /\ UNCHANGED <<now, distributing_, currentTick, elements_, state, pc, hand, localVars,
                   fired, removed>>

\* Mutant: RemoveTimer does not wait for the thread that executes the timer.
RemoveTimerNoSpin(t, e) ==
    /\ At(t, "out")
    /\ e \in added /\ Alive(e)
    /\ state' = [state EXCEPT ![e].removed = TRUE]
    /\ removed' = removed \cup {e}
    /\ UNCHANGED <<now, distributing_, currentTick, queueVars, dataVars, pc, hand, localVars,
                   added, fired>>

\* state.fetch_or(RemovedState): RemoveTimer returns at once, or spins while
\* another thread has its id in the word.
RemoveTimer(t, e) ==
    /\ At(t, "out")
    /\ e \in added /\ Alive(e)
    /\ state' = [state EXCEPT ![e].removed = TRUE]
    /\ IF state[e].id \in {0, t}
       THEN removed' = removed \cup {e} /\ UNCHANGED <<pc, hand>>
       ELSE /\ Goto(t, "spin")
            /\ hand' = [hand EXCEPT ![t] = e]
            /\ UNCHANGED removed
    /\ UNCHANGED <<now, distributing_, currentTick, queueVars, dataVars, localVars, added, fired>>

\* The spin's load finds that nobody else is executing the timer.
SpinEnd(t) ==
    /\ At(t, "spin")
    /\ state[hand[t]].id \in {0, t}
    /\ removed' = removed \cup {hand[t]}
    /\ hand' = [hand EXCEPT ![t] = NoTimer]
    /\ Goto(t, "out")
    /\ UNCHANGED <<now, distributing_, currentTick, queueVars, state, dataVars, localVars,
                   added, fired>>

-----------------------------------------------------------------------------
(* Distribute.                                                             *)

\* Mutant: Distribute does not look at what the exchange returned.
EnterAnyway(t) ==
    /\ At(t, "out")
    /\ distributing_' = TRUE
    /\ Goto(t, "pump")
    /\ UNCHANGED <<now, currentTick, queueVars, state, dataVars, hand, localVars, histVars>>

\* distributing_.exchange(true) found false; who finds true just returns.
Enter(t) ==
    /\ At(t, "out")
    /\ ~distributing_
    /\ distributing_' = TRUE
    /\ Goto(t, "pump")
    /\ UNCHANGED <<now, currentTick, queueVars, state, dataVars, hand, localVars, histVars>>

\* PumpAddedElementsQueue: addedElements_.Pop(). The heap orders shared
\* pointers by address, so any element may come first.
PumpPop(t, e) ==
    /\ At(t, "pump")
    /\ e \in addedElements_
    /\ addedElements_' = addedElements_ \ {e}
    /\ hand' = [hand EXCEPT ![t] = e]
    /\ Goto(t, "pumped")
    /\ UNCHANGED <<now, distributing_, currentTick, elements_, state, dataVars, localVars,
                   histVars>>

\* state.load: an element removed meanwhile is dropped.
PumpKeep(t) ==
    /\ At(t, "pumped")
    /\ elements_' = IF state[hand[t]] = [id |-> 0, removed |-> FALSE]
                    THEN Append(elements_, hand[t]) ELSE elements_
    /\ hand' = [hand EXCEPT ![t] = NoTimer]
    /\ Goto(t, "pump")
    /\ UNCHANGED <<now, distributing_, currentTick, addedElements_, state, dataVars, localVars,
                   histVars>>

\* Pop found nothing and there are elements to look at. After the first pump
\* the tick of this pass is read.
PumpEnd(t) ==
    /\ At(t, "pump")
    /\ addedElements_ = {}
    /\ elementIdx[t] < Len(elements_)
    /\ currentTick' = IF elementIdx[t] = 0 THEN now ELSE currentTick
    /\ Goto(t, "scan")
    /\ UNCHANGED <<now, distributing_, queueVars, state, dataVars, hand, localVars, histVars>>

\* Mutant: the flag is not reset on the way out.
FinishKeepFlag(t) ==
    /\ At(t, "pump")
    /\ addedElements_ = {}
    /\ elementIdx[t] = Len(elements_)
    /\ elements_' = timerElements[t]
    /\ timerElements' = [timerElements EXCEPT ![t] = <<>>]
    /\ elementIdx' = [elementIdx EXCEPT ![t] = 0]
    /\ Goto(t, "out")
    /\ UNCHANGED <<now, distributing_, currentTick, addedElements_, state, dataVars, hand,
                   histVars>>

\* Nothing was added and nothing is left: elements_ = move(timerElements) and
\* distributing_.store(false). With elements_ empty this is the early return.
Finish(t) ==
    /\ At(t, "pump")
    /\ addedElements_ = {}
    /\ elementIdx[t] = Len(elements_)
    /\ elements_' = timerElements[t]
    /\ timerElements' = [timerElements EXCEPT ![t] = <<>>]
    /\ elementIdx' = [elementIdx EXCEPT ![t] = 0]
    /\ distributing_' = FALSE
    /\ Goto(t, "out")
    /\ UNCHANGED <<now, currentTick, addedElements_, state, dataVars, hand, histVars>>

\* Mutant: the test for a due timer is off by one.
MarkEarly(t) ==
    /\ At(t, "scan")
    /\ elementIdx[t] < Len(elements_)
    /\ LET e == elements_[elementIdx[t] + 1] IN
       /\ state' = [state EXCEPT ![e].id = @ + t]
       /\ hand' = [hand EXCEPT ![t] = e]
       /\ Goto(t, IF state[e].removed THEN "drop"
                  ELSE IF executeTick[e] > currentTick + 1 THEN "keep" ELSE "push")
    /\ elementIdx' = [elementIdx EXCEPT ![t] = @ + 1]
    /\ UNCHANGED <<now, distributing_, currentTick, queueVars, dataVars, timerElements, histVars>>

\* state.fetch_add(currentThreadId), and the choice made on its result.
Mark(t) ==
    /\ At(t, "scan")
    /\ elementIdx[t] < Len(elements_)
    /\ LET e == elements_[elementIdx[t] + 1] IN
       /\ state' = [state EXCEPT ![e].id = @ + t]
       /\ hand' = [hand EXCEPT ![t] = e]
       /\ Goto(t, IF state[e].removed THEN "drop"
                  ELSE IF executeTick[e] > currentTick THEN "keep" ELSE "push")
    /\ elementIdx' = [elementIdx EXCEPT ![t] = @ + 1]
    /\ UNCHANGED <<now, distributing_, currentTick, queueVars, dataVars, timerElements, histVars>>

\* The for loop has passed every element: pump again.
ScanEnd(t) ==
    /\ At(t, "scan")
    /\ elementIdx[t] = Len(elements_)
    /\ Goto(t, "pump")
    /\ UNCHANGED <<now, distributing_, currentTick, queueVars, state, dataVars, hand, localVars,
                   histVars>>

\* Mutant: the flag is left set.
ClearNothing(t, e) ==
    /\ UNCHANGED state
    /\ hand' = [hand EXCEPT ![t] = NoTimer]
    /\ Goto(t, "scan")

\* ClearExecutionFlag: state.fetch_sub(currentThreadId).
Clear(t, e) ==
    /\ state' = [state EXCEPT ![e].id = @ - t]
    /\ hand' = [hand EXCEPT ![t] = NoTimer]
    /\ Goto(t, "scan")

\* prevState == RemovedState: the element is left behind in elements_.
Drop(t) ==
    /\ At(t, "drop")
    /\ Clear(t, hand[t])
    /\ UNCHANGED <<now, distributing_, currentTick, queueVars, dataVars, localVars, histVars>>

\* Mutant: an element that is not due is not kept.
KeepForgets(t) ==
    /\ At(t, "keep")
    /\ Clear(t, hand[t])
    /\ UNCHANGED <<now, distributing_, currentTick, queueVars, dataVars, localVars, histVars>>

\* executeTick > currentTick: not due. What the word held is not looked at.
Keep(t) ==
    /\ At(t, "keep")
    /\ Clear(t, hand[t])
    /\ timerElements' = [timerElements EXCEPT ![t] = Append(@, hand[t])]
    /\ UNCHANGED <<now, distributing_, currentTick, queueVars, dataVars, elementIdx, histVars>>

\* object->Push(element->taskData->task, true).
Fire(t) ==
    /\ At(t, "push")
    /\ fired' = [fired EXCEPT ![hand[t]] = @ + 1]
    /\ Goto(t, "pushed")
    /\ UNCHANGED <<now, distributing_, currentTick, queueVars, state, dataVars, hand, localVars,
                   added, removed>>

\* A loop timer that was not removed while it fired is kept for its next turn.
Rearm(t) ==
    /\ At(t, "pushed")
    /\ Clear(t, hand[t])
    /\ IF ~state[hand[t]].removed /\ isLoop[hand[t]]
       THEN /\ executeTick' = [executeTick EXCEPT ![hand[t]] = currentTick + delayTick[hand[t]]]
            /\ timerElements' = [timerElements EXCEPT ![t] = Append(@, hand[t])]
       ELSE UNCHANGED <<executeTick, timerElements>>
    /\ UNCHANGED <<now, distributing_, currentTick, queueVars, delayTick, isLoop, elementIdx,
                   histVars>>

Distribute(t) ==
    \/ \E e \in Timers : PumpPop(t, e)
    \/ PumpKeep(t) \/ PumpEnd(t) \/ Finish(t)
    \/ Mark(t) \/ ScanEnd(t) \/ Drop(t) \/ Keep(t) \/ Fire(t) \/ Rearm(t)

Next ==
    \/ Tick
    \/ \E t \in Threads :
          \/ \E e \in Timers, delay \in Delays, loop \in BOOLEAN : AddTimer(t, e, delay, loop)
          \/ \E e \in Timers : RemoveTimer(t, e)
          \/ SpinEnd(t)
          \/ Enter(t)
          \/ Distribute(t)

Spec == Init /\ [][Next]_vars

\* Threads inside Distribute or the spin keep running, some worker's loop
\* comes back to Distribute, and time passes. Nobody owes a call to AddTimer
\* or RemoveTimer.
FairSpec ==
    /\ Spec
    /\ WF_vars(Tick)
    /\ WF_vars(\E t \in Threads : Enter(t))
    /\ \A t \in Threads : WF_vars(Distribute(t)) /\ WF_vars(SpinEnd(t))

-----------------------------------------------------------------------------
Distributes(t) == pc[t] \notin {"out", "spin"}
Marking(t, e)  == pc[t] \in {"drop", "keep", "push", "pushed"} /\ hand[t] = e

\* Only one thread is inside Distribute, so that elements_, currentTick and
\* executeTick, which have no lock, are never shared.
OneDistributor == \A t, u \in Threads : Distributes(t) /\ Distributes(u) => t = u

\* ASSERT_CRASH(GetThreadId(prevState) == 0): whenever fetch_add is next, no
\* thread id is in the word; and the word holds the id of whoever marked it.
ExecutingIdExact == \A e \in Timers :
    /\ \A t \in Threads : Marking(t, e) => state[e].id = t
    /\ (\A t \in Threads : ~Marking(t, e)) => state[e].id = 0

\* A timer that is not removed and not spent is never lost: it is in exactly
\* one of the added queue, the part of elements_ still to be passed, the kept
\* ones and the distributor's hand.
Places(e) ==
    (IF e \in addedElements_ THEN 1 ELSE 0)
    + Cardinality({i \in DOMAIN elements_ : elements_[i] = e
                     /\ \A t \in Threads : Distributes(t) => i > elementIdx[t]})
    + Cardinality({p \in Threads \X UNION {DOMAIN timerElements[t] : t \in Threads} :
                     p[2] \in DOMAIN timerElements[p[1]] /\ timerElements[p[1]][p[2]] = e})
    + Cardinality({t \in Threads : Distributes(t) /\ hand[t] = e})

NoTimerForgotten == \A e \in added :
    ~state[e].removed /\ (isLoop[e] \/ fired[e] = 0) => Places(e) = 1

\* Once RemoveTimer has returned, the timer's task is not pushed any more.
RemovedStaysQuiet == [][\A e \in Timers : e \in removed => fired'[e] = fired[e]]_vars

\* A task is pushed only when its tick has come, and a timer that does not
\* loop pushes it once.
NeverEarlyNeverTwice ==
    [][\A e \in Timers : fired'[e] # fired[e] =>
          /\ executeTick[e] <= now
          /\ isLoop[e] \/ fired[e] = 0]_vars

\* A timer whose tick has come fires, unless it is removed.
DueTimerFires == \A e \in Timers :
    e \in added /\ fired[e] = 0 /\ executeTick[e] <= now
        ~> fired[e] > 0 \/ state[e].removed

\* RemoveTimer returns: the spin ends whatever the distributor does.
RemoveReturns == \A t \in Threads : pc[t] = "spin" ~> pc[t] = "out"
=============================================================================
