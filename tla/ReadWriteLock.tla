--------------------------- MODULE ReadWriteLock ---------------------------
(***************************************************************************)
(* What WRITE_LOCK and READ_LOCK promise to the code they guard: of each   *)
(* lock, one thread may have write guards (and read guards in them), or    *)
(* any number of threads have read guards.                                 *)
(***************************************************************************)
EXTENDS Integers, Sequences

CONSTANTS Threads, Locks

Modes == {"read", "write"}

\* The guards each thread has of each lock, the innermost last.
VARIABLE guards

Init == guards = [t \in Threads |-> [l \in Locks |-> <<>>]]

Free(t, l, mode) == \A u \in Threads \ {t} :
    \A i \in DOMAIN guards[u][l] : mode = "read" /\ guards[u][l][i] = "read"

Acquire(t, l, mode) ==
    /\ Free(t, l, mode)
    /\ guards' = [guards EXCEPT ![t][l] = Append(@, mode)]

Release(t, l) ==
    /\ guards[t][l] # <<>>
    /\ guards' = [guards EXCEPT ![t][l] = SubSeq(@, 1, Len(@) - 1)]

Next == \E t \in Threads, l \in Locks :
    Release(t, l) \/ \E mode \in Modes : Acquire(t, l, mode)

Spec == Init /\ [][Next]_guards

=============================================================================
