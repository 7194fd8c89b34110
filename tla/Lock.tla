-------------------------------- MODULE Lock --------------------------------
(***************************************************************************)
(* ServerLibrary/Lock.{h,cpp}: the recursive read/write lock under         *)
(* WRITE_LOCK and READ_LOCK, and the guard that takes two locks at once.   *)
(*                                                                         *)
(* lockFlag_ holds the id of the writing thread in its upper half and the  *)
(* number of readers in its lower half; it is a record here. An action is  *)
(* the code between two accesses to a lock. A failed write exchange        *)
(* changes nothing and is not a step.                                      *)
(*                                                                         *)
(* Threads use the lock through guards: objects of a scope that lock in    *)
(* their constructor and unlock in their destructor, so of each lock the   *)
(* innermost guard goes first. LockQueue::PopAll nests them most deeply:   *)
(* a write guard, Pop's write guard in it and IsEmpty's read guard.        *)
(***************************************************************************)
EXTENDS Integers, Sequences

CONSTANTS Threads, Locks, \* locks are numbers: their order is the lock order
          Nobody,         \* the id 0, which no thread has
          MaxGuards       \* bound on the guards of a thread on one lock

ASSUME NobodyIsNone  == Nobody \notin Threads
ASSUME LocksOrdered  == Locks \subseteq Nat
ASSUME GuardBound    == MaxGuards \in Nat

NoLock == -1
EMPTY_FLAG == [writer |-> Nobody, readers |-> 0]
Modes == {"read", "write"}

VARIABLES
    lockFlag_, writeCount_, (* of each lock                                *)
    guards,    (* the guards each thread has of each lock, innermost last  *)
    pc,        (* where each thread is                                     *)
    at,        (* the lock each thread is working on                       *)
    next,      (* the lock it tries after that one, in a two-lock guard    *)
    expected,  (* ReadLock's expected readers                              *)
    crashed    (* one of the CRASH macros was reached                      *)

lockVars   == <<lockFlag_, writeCount_>>
threadVars == <<at, next, expected>>
vars == <<lockFlag_, writeCount_, guards, pc, at, next, expected, crashed>>

Places == {"idle", "writeCas", "writeCount", "try", "tryCount", "backOff", "store", "readAdd",
           "readExpect", "readCas"}

TypeOK ==
    /\ lockFlag_ \in [Locks -> [writer : Threads \cup {Nobody}, readers : Nat]]
    /\ writeCount_ \in [Locks -> Nat]
    /\ guards \in [Threads -> [Locks -> Seq(Modes)]]
    /\ pc \in [Threads -> Places]
    /\ at \in [Threads -> Locks \cup {NoLock}] /\ next \in [Threads -> Locks \cup {NoLock}]
    /\ expected \in [Threads -> Nat]
    /\ crashed \in BOOLEAN

Init ==
    /\ lockFlag_ = [l \in Locks |-> EMPTY_FLAG] /\ writeCount_ = [l \in Locks |-> 0]
    /\ guards = [t \in Threads |-> [l \in Locks |-> <<>>]]
    /\ pc = [t \in Threads |-> "idle"]
    /\ at = [t \in Threads |-> NoLock] /\ next = [t \in Threads |-> NoLock]
    /\ expected = [t \in Threads |-> 0]
    /\ crashed = FALSE

At(t, here)    == ~crashed /\ pc[t] = here
Goto(t, there) == pc' = [pc EXCEPT ![t] = there]
Return(t)      == Goto(t, "idle") /\ at' = [at EXCEPT ![t] = NoLock]

Owns(t, l)      == lockFlag_[l].writer = t
Has(t, l, mode) == \E i \in DOMAIN guards[t][l] : guards[t][l][i] = mode
Holds(t, l)     == guards[t][l] # <<>>
Open(t, l, mode) == guards' = [guards EXCEPT ![t][l] = Append(@, mode)]
Close(t, l)      == guards' = [guards EXCEPT ![t][l] = SubSeq(@, 1, Len(@) - 1)]

\* A lock a thread does not have comes after those it has, which is what
\* DeadLockProfiler tests; no code opens a write guard in a read guard.
MayOpen(t, l, mode) ==
    /\ Len(guards[t][l]) < MaxGuards
    /\ ~Holds(t, l) => \A m \in Locks : Holds(t, m) => m < l
    /\ mode = "write" => ~Has(t, l, "read")

-----------------------------------------------------------------------------
(* WriteLock                                                               *)

\* Mutant: the owner does not count, as in TryWriteLock.
WriteLoadUncounted(t, l) ==
    /\ At(t, "idle") /\ MayOpen(t, l, "write")
    /\ IF Owns(t, l)
       THEN Open(t, l, "write") /\ UNCHANGED <<pc, at>>
       ELSE Goto(t, "writeCas") /\ at' = [at EXCEPT ![t] = l] /\ UNCHANGED guards
    /\ UNCHANGED <<lockVars, next, expected, crashed>>

\* The owner only counts; who is not the owner spins on the exchange.
WriteLoad(t, l) ==
    /\ At(t, "idle") /\ MayOpen(t, l, "write")
    /\ IF Owns(t, l)
       THEN /\ writeCount_' = [writeCount_ EXCEPT ![l] = @ + 1]
            /\ Open(t, l, "write")
            /\ UNCHANGED <<pc, at>>
       ELSE /\ Goto(t, "writeCas")
            /\ at' = [at EXCEPT ![t] = l]
            /\ UNCHANGED <<writeCount_, guards>>
    /\ UNCHANGED <<lockFlag_, next, expected, crashed>>

\* Mutant: the exchange expects no writer, whatever the number of readers.
WriteCasReaders(t) ==
    /\ At(t, "writeCas")
    /\ lockFlag_[at[t]].writer = Nobody
    /\ lockFlag_' = [lockFlag_ EXCEPT ![at[t]].writer = t]
    /\ Goto(t, "writeCount")
    /\ UNCHANGED <<writeCount_, guards, threadVars, crashed>>

WriteCas(t) ==
    /\ At(t, "writeCas")
    /\ lockFlag_[at[t]] = EMPTY_FLAG
    /\ lockFlag_' = [lockFlag_ EXCEPT ![at[t]].writer = t]
    /\ Goto(t, "writeCount")
    /\ UNCHANGED <<writeCount_, guards, threadVars, crashed>>

\* writeCount_++ of the new owner; a two-lock guard goes on to the other lock.
WriteCounted(t) ==
    /\ At(t, "writeCount")
    /\ writeCount_' = [writeCount_ EXCEPT ![at[t]] = @ + 1]
    /\ Open(t, at[t], "write")
    /\ IF next[t] = NoLock THEN Return(t) ELSE Goto(t, "try") /\ UNCHANGED at
    /\ UNCHANGED <<lockFlag_, next, expected, crashed>>

-----------------------------------------------------------------------------
(* WriteUnlock                                                             *)

\* Mutant: the count is compared before it is decremented.
UncountLate(t, l) ==
    /\ writeCount_' = [writeCount_ EXCEPT ![l] = @ - 1]
    /\ IF writeCount_[l] = 0
       THEN Goto(t, "store") /\ at' = [at EXCEPT ![t] = l] /\ UNCHANGED guards
       ELSE Close(t, l) /\ UNCHANGED <<pc, at>>

\* --writeCount_; the last one goes on to the store.
Uncount(t, l) ==
    /\ writeCount_' = [writeCount_ EXCEPT ![l] = @ - 1]
    /\ IF writeCount_[l] = 1
       THEN Goto(t, "store") /\ at' = [at EXCEPT ![t] = l] /\ UNCHANGED guards
       ELSE Close(t, l) /\ UNCHANGED <<pc, at>>

\* CRASH("INVALID_UNLOCK_ORDER") if there are readers.
WriteUnlock(t, l) ==
    /\ At(t, "idle") /\ Holds(t, l) /\ guards[t][l][Len(guards[t][l])] = "write"
    /\ IF lockFlag_[l].readers # 0
       THEN crashed' = TRUE /\ UNCHANGED <<writeCount_, guards, pc, at>>
       ELSE Uncount(t, l) /\ UNCHANGED crashed
    /\ UNCHANGED <<lockFlag_, next, expected>>

\* lockFlag_.store(EMPTY_FLAG); in a failed attempt on two locks the other
\* one is taken first next.
UnlockStore(t) ==
    /\ At(t, "store")
    /\ lockFlag_' = [lockFlag_ EXCEPT ![at[t]] = EMPTY_FLAG]
    /\ Close(t, at[t])
    /\ Goto(t, IF next[t] = NoLock THEN "idle" ELSE "writeCas")
    /\ at' = [at EXCEPT ![t] = next[t]]
    /\ next' = [next EXCEPT ![t] = IF @ = NoLock THEN NoLock ELSE at[t]]
    /\ UNCHANGED <<writeCount_, expected, crashed>>

-----------------------------------------------------------------------------
(* ReadLock and ReadUnlock                                                 *)

ReadLoad(t, l) ==
    /\ At(t, "idle") /\ MayOpen(t, l, "read")
    /\ Goto(t, IF Owns(t, l) THEN "readAdd" ELSE "readExpect")
    /\ at' = [at EXCEPT ![t] = l]
    /\ UNCHANGED <<lockVars, guards, next, expected, crashed>>

\* The reader is counted: by the owner's fetch_add or another's exchange.
Enter(t) ==
    /\ lockFlag_' = [lockFlag_ EXCEPT ![at[t]].readers = @ + 1]
    /\ Open(t, at[t], "read")
    /\ Return(t)

ReadAdd(t) ==
    /\ At(t, "readAdd")
    /\ Enter(t)
    /\ UNCHANGED <<writeCount_, next, expected, crashed>>

\* expected = lockFlag_.load() & READ_COUNT_MASK.
ReadExpect(t) ==
    /\ At(t, "readExpect")
    /\ expected' = [expected EXCEPT ![t] = lockFlag_[at[t]].readers]
    /\ Goto(t, "readCas")
    /\ UNCHANGED <<lockVars, guards, at, next, crashed>>

\* Mutant: the reader counts itself whoever writes.
ReadCasBlind(t) ==
    /\ At(t, "readCas")
    /\ Enter(t)
    /\ expected' = [expected EXCEPT ![t] = 0]
    /\ UNCHANGED <<writeCount_, next, crashed>>

\* The exchange succeeds if there is no writer and the count is as expected.
ReadCas(t) ==
    /\ At(t, "readCas")
    /\ IF lockFlag_[at[t]] = [writer |-> Nobody, readers |-> expected[t]]
       THEN Enter(t)
       ELSE Goto(t, "readExpect") /\ UNCHANGED <<lockFlag_, guards, at>>
    /\ expected' = [expected EXCEPT ![t] = 0]
    /\ UNCHANGED <<writeCount_, next, crashed>>

\* fetch_sub(1); CRASH("MULTIPLE_UNLOCK") if there were no readers.
ReadUnlock(t, l) ==
    /\ At(t, "idle") /\ Holds(t, l) /\ guards[t][l][Len(guards[t][l])] = "read"
    /\ IF lockFlag_[l].readers = 0
       THEN crashed' = TRUE /\ UNCHANGED <<lockFlag_, guards>>
       ELSE /\ lockFlag_' = [lockFlag_ EXCEPT ![l].readers = @ - 1]
            /\ Close(t, l)
            /\ UNCHANGED crashed
    /\ UNCHANGED <<writeCount_, pc, threadVars>>

-----------------------------------------------------------------------------
(* MultipleLockAttempt on two locks.                                       *)

\* A two-lock guard of a thread that has no guard yet, in either order.
MultipleLock(t, l, other) ==
    /\ At(t, "idle") /\ \A m \in Locks : ~Holds(t, m)
    /\ l # other
    /\ Goto(t, "writeCas")
    /\ at' = [at EXCEPT ![t] = l] /\ next' = [next EXCEPT ![t] = other]
    /\ UNCHANGED <<lockVars, guards, expected, crashed>>

\* TryWriteLock of the second lock; its owner is never the caller here.
TryWriteLock(t) ==
    /\ At(t, "try")
    /\ IF lockFlag_[next[t]] = EMPTY_FLAG
       THEN /\ lockFlag_' = [lockFlag_ EXCEPT ![next[t]].writer = t]
            /\ Goto(t, "tryCount")
       ELSE Goto(t, "backOff") /\ UNCHANGED lockFlag_
    /\ UNCHANGED <<writeCount_, guards, threadVars, crashed>>

TryCounted(t) ==
    /\ At(t, "tryCount")
    /\ writeCount_' = [writeCount_ EXCEPT ![next[t]] = @ + 1]
    /\ Open(t, next[t], "write")
    /\ next' = [next EXCEPT ![t] = NoLock]
    /\ Return(t)
    /\ UNCHANGED <<lockFlag_, expected, crashed>>

\* WriteUnlock of the first lock, whose only guard is this attempt's.
BackOff(t) ==
    /\ At(t, "backOff")
    /\ Uncount(t, at[t])
    /\ UNCHANGED <<lockFlag_, next, expected, crashed>>

-----------------------------------------------------------------------------
Next ==
    \E t \in Threads :
        \/ \E l \in Locks : \/ WriteLoad(t, l) \/ WriteUnlock(t, l)
                            \/ ReadLoad(t, l) \/ ReadUnlock(t, l)
                            \/ \E other \in Locks : MultipleLock(t, l, other)
        \/ WriteCas(t) \/ WriteCounted(t) \/ UnlockStore(t)
        \/ ReadAdd(t) \/ ReadExpect(t) \/ ReadCas(t)
        \/ TryWriteLock(t) \/ TryCounted(t) \/ BackOff(t)

Spec == Init /\ [][Next]_vars

-----------------------------------------------------------------------------
\* Seen from the code in the guards, recursion, the two halves of the flag and
\* the attempts on two locks are a read/write lock.
Abstract == INSTANCE ReadWriteLock
IsReadWriteLock == Abstract!Spec

\* A thread with a write guard is alone, though owners and non-owners count
\* readers into the same word.
MutualExclusion == \A l \in Locks : \A t, u \in Threads :
    t # u /\ Has(t, l, "write") => ~Holds(u, l)

\* The unlocks' two assertions hold.
NeverCrashes == ~crashed

\* A lock nobody has or is working on is free for everybody.
LeavesFree == \A l \in Locks :
    (\A t \in Threads : ~Holds(t, l) /\ l \notin {at[t], next[t]})
        => lockFlag_[l] = EMPTY_FLAG /\ writeCount_[l] = 0

=============================================================================
