----------------------------- MODULE LockProofs -----------------------------
(***************************************************************************)
(* Theorems about Lock, for any number of threads, locks and guards.       *)
(***************************************************************************)
EXTENDS Lock, FiniteSetTheorems, SequenceTheorems, TLAPS

\* A thread whose exchange has succeeded and that has not counted yet.
Pending(t, l) == \/ pc[t] = "writeCount" /\ at[t] = l
                 \/ pc[t] = "tryCount" /\ next[t] = l
Storing(t, l) == pc[t] = "store" /\ at[t] = l

\* The flag names exactly the thread with a write guard, or about to have one.
Writer(t, l) == Owns(t, l) <=> Has(t, l, "write") \/ Pending(t, l)

\* The write guards of a thread are below its read guards, and writeCount_ is
\* their number; before the store of the last unlock it is one less.
Writes(t, l) == IF ~Owns(t, l) THEN 0 ELSE IF Storing(t, l) THEN 1 ELSE writeCount_[l]
Shape(t, l) ==
    /\ Writes(t, l) <= Len(guards[t][l])
    /\ \A i \in 1 .. Len(guards[t][l]) : guards[t][l][i] = "write" <=> i <= Writes(t, l)

\* Where a thread is, it knows this of its locks.
Local(t) ==
    /\ pc[t] # "idle" => at[t] \in Locks
    /\ next[t] # NoLock => /\ pc[t] \in {"writeCas", "writeCount", "try", "tryCount", "backOff", "store"}
                           /\ next[t] # at[t] /\ ~Holds(t, next[t])
    /\ pc[t] \in {"try", "tryCount", "backOff"} => next[t] # NoLock /\ guards[t][at[t]] = <<"write">>
    /\ pc[t] \in {"writeCas", "writeCount"} => ~Holds(t, at[t])
    /\ pc[t] = "readAdd" => Owns(t, at[t])
    /\ pc[t] = "store" => /\ guards[t][at[t]] = <<"write">>
                          /\ Owns(t, at[t]) /\ writeCount_[at[t]] = 0

\* The readers of the flag are the read guards, of whichever thread.
Tokens(l) == {x \in Threads \X Nat : /\ x[2] \in 1 .. Len(guards[x[1]][l])
                                     /\ guards[x[1]][l][x[2]] = "read"}
Readers(l) == IsFiniteSet(Tokens(l)) /\ lockFlag_[l].readers = Cardinality(Tokens(l))

Alone(l)   == \A t, u \in Threads : t # u /\ Owns(t, l) => ~Holds(u, l)
Unowned(l) == (\A t \in Threads : ~Owns(t, l)) => writeCount_[l] = 0

IInv ==
    /\ TypeOK /\ ~crashed
    /\ \A t \in Threads : Local(t) /\ \A l \in Locks : Writer(t, l) /\ Shape(t, l)
    /\ \A l \in Locks : Readers(l) /\ Alone(l) /\ Unowned(l)

-----------------------------------------------------------------------------
(* What opening and closing a guard does.                                  *)

LEMMA OpenGuard ==
    ASSUME TypeOK, NEW t \in Threads, NEW l \in Locks, NEW mode \in Modes, Open(t, l, mode)
    PROVE  /\ guards' \in [Threads -> [Locks -> Seq(Modes)]]
           /\ guards'[t][l] = Append(guards[t][l], mode)
           /\ Len(guards'[t][l]) = Len(guards[t][l]) + 1
           /\ Len(guards[t][l]) \in Nat
           /\ \A i \in 1 .. Len(guards[t][l]) : guards'[t][l][i] = guards[t][l][i]
           /\ guards'[t][l][Len(guards[t][l]) + 1] = mode
           /\ \A u \in Threads, k \in Locks : u # t \/ k # l => guards'[u][k] = guards[u][k]
<1>1. guards[t][l] \in Seq(Modes)
    BY DEF TypeOK
<1>2. Append(guards[t][l], mode) \in Seq(Modes)
    BY <1>1, AppendProperties
<1>3. guards'[t][l] = Append(guards[t][l], mode)
    BY DEF TypeOK, Open
<1>4. \A u \in Threads, k \in Locks : u # t \/ k # l => guards'[u][k] = guards[u][k]
    BY DEF TypeOK, Open
<1>5. guards' \in [Threads -> [Locks -> Seq(Modes)]]
    BY <1>2 DEF TypeOK, Open
<1> QED BY <1>1, <1>3, <1>4, <1>5, AppendProperties, LenProperties

LEMMA CloseGuard ==
    ASSUME TypeOK, NEW t \in Threads, NEW l \in Locks, Holds(t, l), Close(t, l)
    PROVE  /\ guards' \in [Threads -> [Locks -> Seq(Modes)]]
           /\ Len(guards'[t][l]) = Len(guards[t][l]) - 1
           /\ Len(guards[t][l]) \in Nat \ {0}
           /\ \A i \in 1 .. Len(guards[t][l]) - 1 : guards'[t][l][i] = guards[t][l][i]
           /\ \A u \in Threads, k \in Locks : u # t \/ k # l => guards'[u][k] = guards[u][k]
<1> DEFINE s == guards[t][l]
<1>1. s \in Seq(Modes) /\ s # <<>>
    BY DEF TypeOK, Holds
<1>2. Len(s) \in Nat \ {0}
    BY <1>1, EmptySeq, LenProperties
<1>3. /\ SubSeq(s, 1, Len(s) - 1) \in Seq(Modes)
      /\ Len(SubSeq(s, 1, Len(s) - 1)) = Len(s) - 1
      /\ \A i \in 1 .. Len(s) - 1 : SubSeq(s, 1, Len(s) - 1)[i] = s[i]
    BY <1>1, <1>2, SubSeqProperties
<1>4. guards'[t][l] = SubSeq(s, 1, Len(s) - 1)
    BY DEF TypeOK, Close
<1>5. \A u \in Threads, k \in Locks : u # t \/ k # l => guards'[u][k] = guards[u][k]
    BY DEF TypeOK, Close
<1>6. guards' \in [Threads -> [Locks -> Seq(Modes)]]
    BY <1>3 DEF TypeOK, Close
<1> QED BY <1>2, <1>3, <1>4, <1>5, <1>6

-----------------------------------------------------------------------------
(* An action is about one thread t and one lock l. If it leaves the others *)
(* alone, it is enough to look at t and l.                                 *)

Frame(t, l) ==
    /\ \A u \in Threads \ {t} : pc'[u] = pc[u] /\ at'[u] = at[u] /\ next'[u] = next[u]
    /\ \A u \in Threads, k \in Locks : u # t \/ k # l => guards'[u][k] = guards[u][k]
    /\ \A k \in Locks \ {l} : /\ lockFlag_'[k] = lockFlag_[k] /\ writeCount_'[k] = writeCount_[k]
                              /\ Pending(t, k)' <=> Pending(t, k)
                              /\ Storing(t, k)' <=> Storing(t, k)
    /\ \A u \in Threads \ {t} : Owns(u, l)' <=> Owns(u, l)
    /\ (\E u \in Threads \ {t} : Owns(u, l)) => writeCount_'[l] = writeCount_[l]

LEMMA FrameStep ==
    ASSUME IInv, NEW t \in Threads, NEW l \in Locks, Frame(t, l),
           TypeOK', ~crashed', Local(t)', Writer(t, l)', Shape(t, l)',
           Readers(l)', Alone(l)', Unowned(l)'
    PROVE  IInv'
<1>1. ASSUME NEW u \in Threads \ {t}, NEW k \in Locks
      PROVE  Owns(u, k)' <=> Owns(u, k)
    BY <1>1 DEF Frame, Owns
<1>2. ASSUME NEW u \in Threads \ {t} PROVE Local(u)'
  <2>1. /\ pc'[u] = pc[u] /\ at'[u] = at[u] /\ next'[u] = next[u]
        /\ \A k \in Locks : guards'[u][k] = guards[u][k]
        /\ at[u] \in Locks \cup {NoLock} /\ next[u] \in Locks \cup {NoLock}
    BY DEF Frame, IInv, TypeOK
  <2>2. Local(u)
    BY DEF IInv
  <2>3. pc[u] = "store" => writeCount_'[at[u]] = writeCount_[at[u]]
    BY <2>1, <2>2 DEF Local, Frame
  <2>4. \A k \in Locks : Holds(u, k)' <=> Holds(u, k)
    BY <2>1 DEF Holds
  <2> QED BY <1>1, <2>1, <2>2, <2>3, <2>4 DEF Local
<1>3. ASSUME NEW u \in Threads, NEW k \in Locks, u # t \/ k # l
      PROVE  Writer(u, k)' /\ Shape(u, k)'
  <2>1. /\ Owns(u, k)' <=> Owns(u, k)
        /\ guards'[u][k] = guards[u][k]
        /\ Pending(u, k)' <=> Pending(u, k)
        /\ Storing(u, k)' <=> Storing(u, k)
    <3>1. CASE u # t
      BY <1>1, <3>1 DEF Frame, Pending, Storing
    <3>2. CASE u = t /\ k # l
      BY <3>2 DEF Frame, Owns
    <3> QED BY <1>3, <3>1, <3>2
  <2>2. Writer(u, k) /\ Shape(u, k)
    BY DEF IInv
  <2>3. Has(u, k, "write")' <=> Has(u, k, "write")
    BY <2>1 DEF Has
  <2>4. Owns(u, k) => writeCount_'[k] = writeCount_[k]
    BY <1>3 DEF Frame
  <2>5. Writes(u, k)' = Writes(u, k)
    BY <2>1, <2>4 DEF Writes
  <2> QED BY <2>1, <2>2, <2>3, <2>5 DEF Writer, Shape
<1>4. ASSUME NEW k \in Locks, k # l PROVE Readers(k)' /\ Alone(k)' /\ Unowned(k)'
  <2>1. /\ \A u \in Threads : guards'[u][k] = guards[u][k]
        /\ lockFlag_'[k] = lockFlag_[k] /\ writeCount_'[k] = writeCount_[k]
    BY <1>4 DEF Frame
  <2>2. Tokens(k)' = Tokens(k)
    BY <2>1 DEF Tokens
  <2>3. Readers(k) /\ Alone(k) /\ Unowned(k)
    BY DEF IInv
  <2> QED BY <2>1, <2>2, <2>3 DEF Readers, Alone, Unowned, Owns, Holds
<1> QED BY <1>2, <1>3, <1>4 DEF IInv

\* What a step does that opens no guard and takes and gives back no lock.
LEMMA QuietStep ==
    ASSUME IInv, NEW t \in Threads, NEW l \in Locks,
           UNCHANGED <<lockFlag_, writeCount_, guards, crashed>>,
           \A u \in Threads \ {t} : pc'[u] = pc[u] /\ at'[u] = at[u] /\ next'[u] = next[u],
           {pc[t], pc'[t]} \cap {"writeCount", "tryCount", "store"} = {},
           TypeOK', Local(t)'
    PROVE  IInv'
<1>1. \A k \in Locks : /\ ~Pending(t, k) /\ ~Pending(t, k)' /\ ~Storing(t, k) /\ ~Storing(t, k)'
    BY DEF Pending, Storing
<1>2. Frame(t, l)
    BY <1>1 DEF Frame, Owns
<1>3. Writer(t, l)' /\ Shape(t, l)'
    BY <1>1 DEF Writer, Shape, Writes, Has, Owns, IInv
<1>4. Readers(l)' /\ Alone(l)' /\ Unowned(l)'
  <2>1. Tokens(l)' = Tokens(l)
    BY DEF Tokens
  <2> QED BY <2>1 DEF IInv, Readers, Alone, Unowned, Owns, Holds
<1> QED BY <1>2, <1>3, <1>4, FrameStep DEF IInv

-----------------------------------------------------------------------------
(* The read guards as a set.                                               *)

LEMMA TokensOpen ==
    ASSUME TypeOK, NEW t \in Threads, NEW l \in Locks, NEW mode \in Modes, Open(t, l, mode)
    PROVE  LET new == <<t, Len(guards[t][l]) + 1>> IN
           /\ new \notin Tokens(l)
           /\ Tokens(l)' = IF mode = "read" THEN Tokens(l) \cup {new} ELSE Tokens(l)
<1> DEFINE n == Len(guards[t][l])
           new == <<t, n + 1>>
<1>1. new \notin Tokens(l)
    BY OpenGuard DEF Tokens
<1>2. \A u \in Threads, i \in Nat :
          <<u, i>> \in Tokens(l)' <=> <<u, i>> \in Tokens(l) \/ (mode = "read" /\ u = t /\ i = n + 1)
  <2> SUFFICES ASSUME NEW u \in Threads, NEW i \in Nat
               PROVE  <<u, i>> \in Tokens(l)' <=>
                          <<u, i>> \in Tokens(l) \/ (mode = "read" /\ u = t /\ i = n + 1)
      OBVIOUS
  <2>1. CASE u # t
      BY <2>1, OpenGuard DEF Tokens
  <2>2. CASE u = t
    <3>1. <<t, i>> \in Tokens(l)' <=> i \in 1 .. n + 1 /\ guards'[t][l][i] = "read"
      BY OpenGuard DEF Tokens
    <3>2. <<t, i>> \in Tokens(l) <=> i \in 1 .. n /\ guards[t][l][i] = "read"
      BY DEF Tokens
    <3>3. i \in 1 .. n + 1 <=> i \in 1 .. n \/ i = n + 1
      BY OpenGuard
    <3> QED BY <2>2, <3>1, <3>2, <3>3, OpenGuard DEF Modes
  <2> QED BY <2>1, <2>2
<1>3. Tokens(l) \subseteq Threads \X Nat /\ Tokens(l)' \subseteq Threads \X Nat /\ new \in Threads \X Nat
    BY OpenGuard DEF Tokens
<1>4. \A u \in Threads, i \in Nat : <<u, i>> \in Tokens(l)' <=>
          <<u, i>> \in (IF mode = "read" THEN Tokens(l) \cup {new} ELSE Tokens(l))
    BY <1>2
<1>5. Tokens(l)' = IF mode = "read" THEN Tokens(l) \cup {new} ELSE Tokens(l)
  <2> DEFINE grown == IF mode = "read" THEN Tokens(l) \cup {new} ELSE Tokens(l)
  <2>1. grown \subseteq Threads \X Nat
    BY <1>3
  <2>2. \A x \in Threads \X Nat : x \in Tokens(l)' <=> x \in grown
    BY <1>4
  <2> HIDE DEF grown
  <2>3. Tokens(l)' = grown
    BY <1>3, <2>1, <2>2
  <2> QED BY <2>3 DEF grown
<1> QED BY <1>1, <1>5

LEMMA TokensClose ==
    ASSUME TypeOK, NEW t \in Threads, NEW l \in Locks, Holds(t, l), Close(t, l)
    PROVE  LET last == <<t, Len(guards[t][l])>> IN
           /\ Tokens(l)' = Tokens(l) \ {last}
           /\ last \in Tokens(l) <=> guards[t][l][Len(guards[t][l])] = "read"
<1> DEFINE n == Len(guards[t][l])
           last == <<t, n>>
<1>1. last \in Tokens(l) <=> guards[t][l][n] = "read"
    BY CloseGuard DEF Tokens
<1>2. \A u \in Threads, i \in Nat :
          <<u, i>> \in Tokens(l)' <=> <<u, i>> \in Tokens(l) /\ ~(u = t /\ i = n)
  <2> SUFFICES ASSUME NEW u \in Threads, NEW i \in Nat
               PROVE  <<u, i>> \in Tokens(l)' <=> <<u, i>> \in Tokens(l) /\ ~(u = t /\ i = n)
      OBVIOUS
  <2>1. CASE u # t
      BY <2>1, CloseGuard DEF Tokens
  <2>2. CASE u = t
    <3>1. <<t, i>> \in Tokens(l)' <=> i \in 1 .. n - 1 /\ guards'[t][l][i] = "read"
      BY CloseGuard DEF Tokens
    <3>2. <<t, i>> \in Tokens(l) <=> i \in 1 .. n /\ guards[t][l][i] = "read"
      BY DEF Tokens
    <3>3. i \in 1 .. n - 1 <=> i \in 1 .. n /\ i # n
      BY CloseGuard
    <3> QED BY <2>2, <3>1, <3>2, <3>3, CloseGuard
  <2> QED BY <2>1, <2>2
<1>3. Tokens(l) \subseteq Threads \X Nat /\ Tokens(l)' \subseteq Threads \X Nat
    BY DEF Tokens
<1> QED BY <1>1, <1>2, <1>3

\* A guard is open, so it counts.
LEMMA NoReaders ==
    ASSUME IInv, NEW l \in Locks, lockFlag_[l].readers = 0
    PROVE  \A u \in Threads : \A i \in 1 .. Len(guards[u][l]) : guards[u][l][i] # "read"
<1>1. Tokens(l) = {}
    BY FS_EmptySet DEF IInv, Readers
<1>2. \A u \in Threads, i \in Nat :
          <<u, i>> \in Tokens(l) <=> i \in 1 .. Len(guards[u][l]) /\ guards[u][l][i] = "read"
    BY DEF Tokens
<1> QED BY <1>1, <1>2

LEMMA GuardModes ==
    ASSUME TypeOK, NEW u \in Threads, NEW l \in Locks
    PROVE  /\ Len(guards[u][l]) \in Nat /\ DOMAIN guards[u][l] = 1 .. Len(guards[u][l])
           /\ \A i \in 1 .. Len(guards[u][l]) : guards[u][l][i] \in Modes
           /\ Holds(u, l) <=> Len(guards[u][l]) # 0
<1>1. guards[u][l] \in Seq(Modes)
    BY DEF TypeOK
<1> QED BY <1>1, LenProperties, EmptySeq DEF Holds

LEMMA NoWriter ==
    ASSUME IInv, NEW l \in Locks, lockFlag_[l].writer = Nobody
    PROVE  /\ writeCount_[l] = 0
           /\ \A u \in Threads : \A i \in 1 .. Len(guards[u][l]) : guards[u][l][i] = "read"
<1>1. \A u \in Threads : ~Owns(u, l)
    BY NobodyIsNone DEF Owns
<1>2. \A u \in Threads : ~Has(u, l, "write")
    BY <1>1 DEF IInv, Writer
<1>3. \A u \in Threads : \A i \in 1 .. Len(guards[u][l]) : guards[u][l][i] = "read"
    BY <1>2, GuardModes DEF IInv, Has, Modes
<1> QED BY <1>1, <1>3 DEF IInv, Unowned

LEMMA EmptyFlag ==
    ASSUME IInv, NEW l \in Locks, lockFlag_[l] = EMPTY_FLAG
    PROVE  writeCount_[l] = 0 /\ \A u \in Threads : ~Holds(u, l)
<1>1. lockFlag_[l].writer = Nobody /\ lockFlag_[l].readers = 0
    BY DEF EMPTY_FLAG
<1>2. \A u \in Threads : 1 .. Len(guards[u][l]) = {}
    BY <1>1, NoWriter, NoReaders
<1> QED BY <1>1, <1>2, NoWriter, GuardModes DEF IInv

-----------------------------------------------------------------------------
(* What the steps do to the invariant, by what they do to t and l.         *)

Others(t) == \A u \in Threads \ {t} : pc'[u] = pc[u] /\ at'[u] = at[u] /\ next'[u] = next[u]

LEMMA TakeStep ==
    ASSUME IInv, NEW t \in Threads, NEW l \in Locks, lockFlag_[l] = EMPTY_FLAG,
           lockFlag_' = [lockFlag_ EXCEPT ![l].writer = t],
           UNCHANGED <<writeCount_, guards, crashed>>, Others(t),
           Pending(t, l)', \A k \in Locks \ {l} : ~Pending(t, k)',
           \A k \in Locks : ~Pending(t, k) /\ ~Storing(t, k) /\ ~Storing(t, k)',
           TypeOK', Local(t)'
    PROVE  IInv'
<1>1. /\ lockFlag_'[l].writer = t /\ lockFlag_'[l].readers = lockFlag_[l].readers
      /\ \A k \in Locks \ {l} : lockFlag_'[k] = lockFlag_[k]
    BY DEF IInv, TypeOK
<1>2. lockFlag_[l].writer = Nobody
    BY DEF EMPTY_FLAG
<1>3. writeCount_[l] = 0 /\ \A u \in Threads : ~Holds(u, l)
    BY EmptyFlag
<1>4. Frame(t, l)
    BY <1>1, <1>2, NobodyIsNone DEF Frame, Others, Owns
<1>5. Writer(t, l)' /\ Unowned(l)'
    BY <1>1 DEF Writer, Unowned, Owns
<1>6. Shape(t, l)'
    BY <1>1, <1>3, GuardModes DEF IInv, Shape, Writes
<1>7. Readers(l)'
  <2>1. Tokens(l)' = Tokens(l)
    BY DEF Tokens
  <2> QED BY <1>1, <2>1 DEF IInv, Readers
<1>8. Alone(l)'
    BY <1>3 DEF Alone, Holds
<1> QED BY <1>4, <1>5, <1>6, <1>7, <1>8, FrameStep DEF IInv

LEMMA CountStep ==
    ASSUME IInv, NEW t \in Threads, NEW l \in Locks, Owns(t, l),
           \A i \in 1 .. Len(guards[t][l]) : guards[t][l][i] = "write",
           Open(t, l, "write"), writeCount_' = [writeCount_ EXCEPT ![l] = @ + 1],
           UNCHANGED <<lockFlag_, crashed>>, Others(t),
           \A k \in Locks \ {l} : ~Pending(t, k),
           \A k \in Locks : ~Pending(t, k)' /\ ~Storing(t, k) /\ ~Storing(t, k)',
           TypeOK', Local(t)'
    PROVE  IInv'
<1> USE DEF Modes
<1>1. TypeOK /\ Shape(t, l) /\ Readers(l) /\ Alone(l) /\ writeCount_[l] \in Nat
    BY DEF IInv, TypeOK
<1>2. /\ writeCount_'[l] = writeCount_[l] + 1
      /\ \A k \in Locks \ {l} : writeCount_'[k] = writeCount_[k]
    BY <1>1 DEF TypeOK
<1>3. \A u \in Threads \ {t} : ~Owns(u, l)
    BY DEF Owns
<1>4. Frame(t, l)
    BY <1>1, <1>2, <1>3, OpenGuard DEF Frame, Others, Owns
<1>5. writeCount_[l] = Len(guards[t][l])
    BY <1>1, GuardModes DEF Shape, Writes
<1>6. Shape(t, l)'
    BY <1>1, <1>2, <1>5, OpenGuard DEF Shape, Writes, Owns
<1>7. Writer(t, l)' /\ Unowned(l)'
  <2>1. Has(t, l, "write")'
    BY <1>1, OpenGuard, LenProperties DEF Has
  <2> QED BY <2>1 DEF Writer, Unowned, Owns
<1>8. Readers(l)'
    BY <1>1, TokensOpen DEF Readers
<1>9. Alone(l)'
  <2>1. \A u \in Threads \ {t} : guards'[u][l] = guards[u][l] /\ ~Holds(u, l)
    BY <1>1, OpenGuard DEF Alone
  <2> QED BY <1>3, <2>1 DEF Alone, Owns, Holds
<1> QED BY <1>4, <1>6, <1>7, <1>8, <1>9, FrameStep DEF IInv

\* The innermost guard is a write guard: all of them are.
LEMMA LastWrite ==
    ASSUME IInv, NEW t \in Threads, NEW l \in Locks, Holds(t, l), ~Storing(t, l),
           guards[t][l][Len(guards[t][l])] = "write"
    PROVE  /\ Owns(t, l) /\ writeCount_[l] = Len(guards[t][l])
           /\ \A i \in 1 .. Len(guards[t][l]) : guards[t][l][i] = "write"
           /\ lockFlag_[l].readers = 0
           /\ Len(guards[t][l]) = 1 => guards[t][l] = <<"write">>
<1>1. TypeOK /\ Shape(t, l) /\ Writer(t, l) /\ Alone(l) /\ Readers(l) /\ writeCount_[l] \in Nat
    BY DEF IInv, TypeOK
<1>2. Len(guards[t][l]) \in Nat \ {0}
    BY <1>1, GuardModes
<1>3. Has(t, l, "write")
    BY <1>1, <1>2, GuardModes DEF Has
<1>4. Owns(t, l)
    BY <1>1, <1>3 DEF Writer
<1>5. writeCount_[l] = Len(guards[t][l]) /\ \A i \in 1 .. Len(guards[t][l]) : guards[t][l][i] = "write"
    BY <1>1, <1>2, <1>4 DEF Shape, Writes
<1>6. \A u \in Threads, i \in Nat : <<u, i>> \notin Tokens(l)
    BY <1>1, <1>4, <1>5, GuardModes DEF Tokens, Alone
<1>7. Tokens(l) = {}
    BY <1>6 DEF Tokens
<1>8. lockFlag_[l].readers = 0
    BY <1>1, <1>7, FS_EmptySet DEF Readers
<1>9. Len(guards[t][l]) = 1 => guards[t][l] = <<"write">>
  <2>1. guards[t][l] \in Seq(Modes)
    BY <1>1 DEF TypeOK
  <2> QED BY <1>5, <2>1
<1> QED BY <1>4, <1>5, <1>8, <1>9

\* WriteUnlock of a write guard in another one.
LEMMA UncountStep ==
    ASSUME IInv, NEW t \in Threads, NEW l \in Locks, Holds(t, l), pc[t] = "idle",
           guards[t][l][Len(guards[t][l])] = "write", writeCount_[l] # 1,
           Close(t, l), writeCount_' = [writeCount_ EXCEPT ![l] = @ - 1],
           UNCHANGED <<lockFlag_, pc, at, next, crashed>>
    PROVE  writeCount_' \in [Locks -> Nat] /\ (TypeOK' /\ Local(t)' => IInv')
<1> DEFINE n == Len(guards[t][l])
<1>1. TypeOK /\ Shape(t, l) /\ Readers(l) /\ Alone(l) /\ writeCount_[l] \in Nat
    BY DEF IInv, TypeOK
<1>2. /\ writeCount_'[l] = writeCount_[l] - 1
      /\ \A k \in Locks \ {l} : writeCount_'[k] = writeCount_[k]
    BY <1>1 DEF TypeOK
<1>3. ~Storing(t, l)
    BY DEF Storing
<1>4. /\ Owns(t, l) /\ writeCount_[l] = n /\ n \in Nat /\ n > 1
      /\ \A i \in 1 .. n : guards[t][l][i] = "write"
  <2>1. /\ Owns(t, l) /\ writeCount_[l] = n /\ n \in Nat \ {0}
        /\ \A i \in 1 .. n : guards[t][l][i] = "write"
    BY <1>1, <1>3, LastWrite, CloseGuard
  <2>2. n # 1
    BY <2>1
  <2> HIDE DEF n
  <2> QED BY <2>1, <2>2
<1>5. writeCount_' \in [Locks -> Nat]
    BY <1>1, <1>4 DEF TypeOK
<1>6. /\ Len(guards'[t][l]) = n - 1 /\ guards'[t][l] \in Seq(Modes)
      /\ \A i \in 1 .. n - 1 : guards'[t][l][i] = "write"
      /\ \A u \in Threads, k \in Locks : u # t \/ k # l => guards'[u][k] = guards[u][k]
  <2>1. /\ Len(guards'[t][l]) = n - 1 /\ guards'[t][l] \in Seq(Modes)
        /\ \A i \in 1 .. n - 1 : guards'[t][l][i] = guards[t][l][i]
        /\ \A u \in Threads, k \in Locks : u # t \/ k # l => guards'[u][k] = guards[u][k]
    BY <1>1, CloseGuard
  <2>2. \A i \in 1 .. n - 1 : i \in 1 .. n
    BY <1>4
  <2> QED BY <1>4, <2>1, <2>2
<1>7. \A u \in Threads \ {t} : ~Owns(u, l)
    BY <1>4 DEF Owns
<1>8. ASSUME TypeOK', Local(t)' PROVE IInv'
  <2>1. Frame(t, l)
    BY <1>2, <1>6, <1>7 DEF Frame, Owns, Pending, Storing
  <2>2. Shape(t, l)'
    BY <1>2, <1>3, <1>4, <1>6 DEF Shape, Writes, Owns, Storing
  <2>3. Has(t, l, "write")'
    <3>1. DOMAIN guards'[t][l] = 1 .. n - 1
      BY <1>6, LenProperties
    <3>2. 1 \in 1 .. n - 1
      <4> HIDE DEF n
      <4> QED BY <1>4
    <3>3. 1 \in DOMAIN guards'[t][l] /\ guards'[t][l][1] = "write"
      BY <1>6, <3>1, <3>2
    <3> QED BY <3>3 DEF Has
  <2>4. Writer(t, l)' /\ Unowned(l)'
    BY <1>4, <2>3 DEF Writer, Unowned, Owns
  <2>5. Readers(l)'
    <3>1. Tokens(l)' = Tokens(l) \ {<<t, n>>} /\ <<t, n>> \notin Tokens(l)
      BY <1>1, TokensClose
    <3> QED BY <1>1, <3>1 DEF Readers
  <2>6. Alone(l)'
    <3>1. \A u \in Threads \ {t} : guards'[u][l] = guards[u][l] /\ ~Holds(u, l)
      BY <1>1, <1>4, <1>6 DEF Alone
    <3> QED BY <1>7, <3>1 DEF Alone, Owns, Holds
  <2> QED BY <1>8, <2>1, <2>2, <2>4, <2>5, <2>6, FrameStep DEF IInv
<1> QED BY <1>5, <1>8

\* The last one goes on to the store; its guard is closed there.
LEMMA LastUncountStep ==
    ASSUME IInv, NEW t \in Threads, NEW l \in Locks, Holds(t, l),
           pc[t] \in {"idle", "backOff"},
           guards[t][l][Len(guards[t][l])] = "write", writeCount_[l] = 1,
           writeCount_' = [writeCount_ EXCEPT ![l] = @ - 1],
           pc' = [pc EXCEPT ![t] = "store"], at'[t] = l, Others(t),
           UNCHANGED <<lockFlag_, guards, crashed>>, TypeOK', Local(t)'
    PROVE  IInv'
<1>1. TypeOK /\ Readers(l) /\ Alone(l) /\ Writer(t, l)
    BY DEF IInv
<1>2. /\ writeCount_'[l] = 0 /\ pc'[t] = "store"
      /\ \A k \in Locks \ {l} : writeCount_'[k] = writeCount_[k]
    BY <1>1 DEF TypeOK
<1>3. \A k \in Locks : ~Storing(t, k) /\ ~Pending(t, k) /\ ~Pending(t, k)'
    BY <1>2 DEF Storing, Pending
<1>4. Storing(t, l)' /\ \A k \in Locks \ {l} : ~Storing(t, k)'
    BY <1>2 DEF Storing
<1>5. Owns(t, l) /\ Len(guards[t][l]) = 1 /\ \A i \in 1 .. Len(guards[t][l]) : guards[t][l][i] = "write"
    BY <1>3, LastWrite
<1>6. Frame(t, l)
    BY <1>2, <1>3, <1>4, <1>5 DEF Frame, Others, Owns
<1>7. Shape(t, l)'
    BY <1>4, <1>5 DEF Shape, Writes, Owns
<1>8. Writer(t, l)' /\ Unowned(l)'
    BY <1>1, <1>3, <1>5 DEF Writer, Unowned, Has, Owns
<1>9. Readers(l)' /\ Alone(l)'
  <2>1. Tokens(l)' = Tokens(l)
    BY DEF Tokens
  <2> QED BY <1>1, <2>1 DEF Readers, Alone, Owns, Holds
<1> QED BY <1>6, <1>7, <1>8, <1>9, FrameStep DEF IInv

\* UnlockStore of the only guard of the lock.
LEMMA StoreStep ==
    ASSUME IInv, NEW t \in Threads, NEW l \in Locks, Storing(t, l),
           guards[t][l] = <<"write">>, Owns(t, l), writeCount_[l] = 0,
           lockFlag_' = [lockFlag_ EXCEPT ![l] = EMPTY_FLAG], Close(t, l),
           UNCHANGED <<writeCount_, crashed>>, Others(t), pc'[t] \in {"idle", "writeCas"},
           TypeOK', Local(t)'
    PROVE  IInv'
<1>1. TypeOK /\ Readers(l) /\ Alone(l) /\ Shape(t, l)
    BY DEF IInv
<1>2. /\ lockFlag_'[l].writer = Nobody /\ lockFlag_'[l].readers = 0
      /\ \A k \in Locks \ {l} : lockFlag_'[k] = lockFlag_[k]
    BY <1>1 DEF TypeOK, EMPTY_FLAG
<1>3. \A k \in Locks : ~Pending(t, k) /\ ~Pending(t, k)' /\ ~Storing(t, k)'
    BY DEF Storing, Pending
<1>4. \A k \in Locks \ {l} : ~Storing(t, k)
    BY DEF Storing
<1>5. Holds(t, l) /\ Len(guards[t][l]) = 1
  <2>1. Len(<<"write">>) = 1 /\ <<"write">> # <<>>
    OBVIOUS
  <2> QED BY <2>1 DEF Holds
<1>6. /\ Len(guards'[t][l]) = 0 /\ guards'[t][l] \in Seq(Modes)
      /\ \A u \in Threads, k \in Locks : u # t \/ k # l => guards'[u][k] = guards[u][k]
  <2> DEFINE n == Len(guards[t][l])
  <2>1. /\ Len(guards'[t][l]) = n - 1 /\ guards'[t][l] \in Seq(Modes)
        /\ \A u \in Threads, k \in Locks : u # t \/ k # l => guards'[u][k] = guards[u][k]
    BY <1>1, <1>5, CloseGuard
  <2>2. n = 1
    BY <1>5
  <2> HIDE DEF n
  <2> QED BY <2>1, <2>2
<1>7. \A u \in Threads \ {t} : ~Owns(u, l) /\ ~Holds(u, l)
    BY <1>1 DEF Alone, Owns
<1>8. \A u \in Threads : ~Owns(u, l)' /\ ~Holds(u, l)'
    BY <1>2, <1>6, <1>7, EmptySeq, NobodyIsNone DEF Owns, Holds
<1>9. Frame(t, l)
    BY <1>2, <1>3, <1>4, <1>6, <1>7, <1>8 DEF Frame, Others, Owns
<1>10. Shape(t, l)'
    BY <1>6, <1>8 DEF Shape, Writes
<1>11. Writer(t, l)' /\ Unowned(l)' /\ Alone(l)'
    BY <1>3, <1>8 DEF Writer, Unowned, Alone, Has, Holds
<1>12. Readers(l)'
  <2>1. \A u \in Threads : Len(guards'[u][l]) = 0
    BY <1>8 DEF Holds
  <2>2. Tokens(l)' = {}
    BY <2>1 DEF Tokens
  <2> QED BY <1>2, <2>2, FS_EmptySet DEF Readers
<1> QED BY <1>9, <1>10, <1>11, <1>12, FrameStep DEF IInv

\* A reader enters: the owner, or a thread of a lock nobody owns.
LEMMA EnterStep ==
    ASSUME IInv, NEW t \in Threads, NEW l \in Locks,
           pc[t] \in {"readAdd", "readCas"}, at[t] = l, Enter(t),
           lockFlag_[l].writer \in {t, Nobody},
           UNCHANGED <<writeCount_, next, crashed>>, TypeOK', Local(t)'
    PROVE  IInv'
<1>1. TypeOK /\ Readers(l) /\ Alone(l) /\ Shape(t, l) /\ Writer(t, l) /\ Unowned(l)
    BY DEF IInv
<1>2. /\ lockFlag_'[l].readers = lockFlag_[l].readers + 1
      /\ lockFlag_'[l].writer = lockFlag_[l].writer /\ lockFlag_[l].readers \in Nat
      /\ \A k \in Locks \ {l} : lockFlag_'[k] = lockFlag_[k]
    BY <1>1 DEF Enter, TypeOK
<1>3. Open(t, l, "read") /\ "read" \in Modes /\ pc'[t] = "idle" /\ Others(t)
    BY <1>1 DEF Enter, Return, Goto, Others, TypeOK, Modes
<1>4. \A k \in Locks : ~Pending(t, k) /\ ~Pending(t, k)' /\ ~Storing(t, k) /\ ~Storing(t, k)'
    BY <1>3 DEF Pending, Storing
<1>5. Frame(t, l)
    BY <1>1, <1>2, <1>3, <1>4, OpenGuard DEF Frame, Others, Owns
<1> DEFINE n == Len(guards[t][l])
<1>6. /\ guards'[t][l] \in Seq(Modes) /\ n \in Nat /\ Len(guards'[t][l]) = n + 1
      /\ \A i \in 1 .. n : guards'[t][l][i] = guards[t][l][i]
      /\ guards'[t][l][n + 1] = "read"
      /\ \A u \in Threads, k \in Locks : u # t \/ k # l => guards'[u][k] = guards[u][k]
    BY <1>1, <1>3, OpenGuard
<1>7. Writes(t, l)' = Writes(t, l) /\ Writes(t, l) \in Nat
    BY <1>1, <1>2, <1>4 DEF Writes, Owns, TypeOK
<1>8. Shape(t, l)'
  <2> DEFINE w == Writes(t, l)
  <2>1. w <= n /\ \A i \in 1 .. n : guards[t][l][i] = "write" <=> i <= w
    BY <1>1 DEF Shape
  <2> HIDE DEF w
  <2>2. w \in Nat
    BY <1>7 DEF w
  <2>3. \A i \in 1 .. n + 1 : guards'[t][l][i] = "write" <=> i <= w
    BY <1>6, <2>1, <2>2
  <2>4. w <= n + 1
    BY <1>6, <2>1, <2>2
  <2> QED BY <1>6, <1>7, <2>3, <2>4 DEF Shape, w
<1>9. Writer(t, l)'
  <2>1. DOMAIN guards[t][l] = 1 .. n /\ DOMAIN guards'[t][l] = 1 .. n + 1
    BY <1>1, <1>6, GuardModes, LenProperties
  <2>2. Has(t, l, "write")' => Has(t, l, "write")
    <3>1. ASSUME NEW i \in 1 .. n + 1, guards'[t][l][i] = "write"
          PROVE  i \in 1 .. n /\ guards[t][l][i] = "write"
      BY <1>6, <3>1
    <3> QED BY <2>1, <3>1 DEF Has
  <2>3. Has(t, l, "write") => Has(t, l, "write")'
    <3>1. ASSUME NEW i \in 1 .. n, guards[t][l][i] = "write"
          PROVE  i \in 1 .. n + 1 /\ guards'[t][l][i] = "write"
      BY <1>6, <3>1
    <3> QED BY <2>1, <3>1 DEF Has
  <2> QED BY <1>1, <1>2, <1>4, <2>2, <2>3 DEF Writer, Owns
<1>10. Readers(l)'
  <2> DEFINE new == <<t, n + 1>>
  <2>1. new \notin Tokens(l) /\ Tokens(l)' = Tokens(l) \cup {new}
    BY <1>1, <1>3, TokensOpen
  <2> HIDE DEF new
  <2> QED BY <1>1, <1>2, <2>1, FS_AddElement DEF Readers
<1>11. Alone(l)'
    BY <1>1, <1>2, <1>6, NobodyIsNone DEF Alone, Owns, Holds
<1>12. Unowned(l)'
    BY <1>1, <1>2 DEF Unowned, Owns
<1> QED BY <1>5, <1>8, <1>9, <1>10, <1>11, <1>12, FrameStep DEF IInv

\* The innermost guard is a read guard: it is counted.
LEMMA LastRead ==
    ASSUME IInv, NEW t \in Threads, NEW l \in Locks, Holds(t, l),
           guards[t][l][Len(guards[t][l])] = "read"
    PROVE  lockFlag_[l].readers \in Nat \ {0}
<1>1. TypeOK /\ Readers(l)
    BY DEF IInv
<1>2. <<t, Len(guards[t][l])>> \in Tokens(l)
    BY <1>1, GuardModes DEF Tokens
<1>3. Tokens(l) # {}
    BY <1>2
<1> QED BY <1>1, <1>3, FS_EmptySet DEF Readers, TypeOK

LEMMA ExitStep ==
    ASSUME IInv, NEW t \in Threads, NEW l \in Locks, Holds(t, l), pc[t] = "idle",
           guards[t][l][Len(guards[t][l])] = "read", Close(t, l),
           lockFlag_' = [lockFlag_ EXCEPT ![l].readers = @ - 1],
           UNCHANGED <<writeCount_, pc, at, next, crashed>>, TypeOK', Local(t)'
    PROVE  IInv'
<1> DEFINE n == Len(guards[t][l])
<1>1. TypeOK /\ Readers(l) /\ Alone(l) /\ Shape(t, l) /\ Writer(t, l) /\ Unowned(l)
    BY DEF IInv
<1>2. /\ lockFlag_'[l].readers = lockFlag_[l].readers - 1
      /\ lockFlag_'[l].writer = lockFlag_[l].writer /\ lockFlag_[l].readers \in Nat
      /\ \A k \in Locks \ {l} : lockFlag_'[k] = lockFlag_[k]
    BY <1>1 DEF TypeOK
<1>3. \A k \in Locks : ~Pending(t, k) /\ ~Pending(t, k)' /\ ~Storing(t, k) /\ ~Storing(t, k)'
    BY DEF Pending, Storing
<1>4. /\ guards'[t][l] \in Seq(Modes) /\ n \in Nat \ {0} /\ Len(guards'[t][l]) = n - 1
      /\ \A i \in 1 .. n - 1 : guards'[t][l][i] = guards[t][l][i]
      /\ \A u \in Threads, k \in Locks : u # t \/ k # l => guards'[u][k] = guards[u][k]
    BY <1>1, CloseGuard
<1>5. Frame(t, l)
    BY <1>2, <1>3, <1>4 DEF Frame, Owns
<1>6. Writes(t, l)' = Writes(t, l) /\ Writes(t, l) \in Nat
    BY <1>1, <1>2, <1>3 DEF Writes, Owns, TypeOK
<1>7. Shape(t, l)'
  <2> DEFINE w == Writes(t, l)
  <2>1. w <= n /\ \A i \in 1 .. n : guards[t][l][i] = "write" <=> i <= w
    BY <1>1 DEF Shape
  <2> HIDE DEF w
  <2>2. w \in Nat
    BY <1>6 DEF w
  <2>3. ~(n <= w)
    BY <1>4, <2>1
  <2>4. \A i \in 1 .. n - 1 : guards'[t][l][i] = "write" <=> i <= w
    BY <1>4, <2>1, <2>2
  <2>5. w <= n - 1
    BY <1>4, <2>2, <2>3
  <2> QED BY <1>4, <1>6, <2>4, <2>5 DEF Shape, w
<1>8. Writer(t, l)'
  <2>1. DOMAIN guards[t][l] = 1 .. n /\ DOMAIN guards'[t][l] = 1 .. n - 1
    BY <1>1, <1>4, GuardModes, LenProperties
  <2>2. Has(t, l, "write")' => Has(t, l, "write")
    <3>1. ASSUME NEW i \in 1 .. n - 1, guards'[t][l][i] = "write"
          PROVE  i \in 1 .. n /\ guards[t][l][i] = "write"
      BY <1>4, <3>1
    <3> QED BY <2>1, <3>1 DEF Has
  <2>3. Has(t, l, "write") => Has(t, l, "write")'
    <3>1. ASSUME NEW i \in 1 .. n, guards[t][l][i] = "write"
          PROVE  i \in 1 .. n - 1 /\ guards'[t][l][i] = "write"
      BY <1>4, <3>1
    <3> QED BY <2>1, <3>1 DEF Has
  <2> QED BY <1>1, <1>2, <1>3, <2>2, <2>3 DEF Writer, Owns
<1>9. Readers(l)'
  <2> DEFINE last == <<t, n>>
  <2>1. last \in Tokens(l) /\ Tokens(l)' = Tokens(l) \ {last}
    BY <1>1, TokensClose
  <2> HIDE DEF last
  <2> QED BY <1>1, <1>2, <2>1, FS_RemoveElement DEF Readers
<1>10. Alone(l)'
  <2>1. \A u \in Threads : Holds(u, l)' => Holds(u, l)
    BY <1>4 DEF Holds
  <2> QED BY <1>1, <1>2, <2>1 DEF Alone, Owns
<1>11. Unowned(l)'
    BY <1>1, <1>2 DEF Unowned, Owns
<1> QED BY <1>5, <1>7, <1>8, <1>9, <1>10, <1>11, FrameStep DEF IInv

-----------------------------------------------------------------------------
(* One lemma per action.                                                   *)

\* A thread between two operations is not in a two-lock guard.
LEMMA IdleLocal ==
    ASSUME NEW t \in Threads
    PROVE  /\ IInv /\ pc[t] \in {"idle", "readAdd", "readExpect", "readCas"} => next[t] = NoLock
           /\ pc'[t] = "idle" /\ next'[t] = NoLock => Local(t)'
    BY DEF IInv, Local

\* What the steps store has its type.
LEMMA StoreTypes ==
    ASSUME TypeOK, NEW l \in Locks, NEW t \in Threads \cup {Nobody}, NEW n \in Nat
    PROVE  LET Flags == [Locks -> [writer : Threads \cup {Nobody}, readers : Nat]] IN
           /\ [lockFlag_ EXCEPT ![l].writer = t] \in Flags
           /\ [lockFlag_ EXCEPT ![l].readers = n] \in Flags
           /\ [lockFlag_ EXCEPT ![l] = EMPTY_FLAG] \in Flags
           /\ [writeCount_ EXCEPT ![l] = n] \in [Locks -> Nat]
    BY DEF TypeOK, EMPTY_FLAG

LEMMA WriteLoadStep ==
    ASSUME IInv, NEW t \in Threads, NEW l \in Locks, WriteLoad(t, l)
    PROVE  IInv'
<1>1. TypeOK /\ Writer(t, l) /\ pc[t] = "idle" /\ next[t] = NoLock
    BY IdleLocal DEF IInv, WriteLoad, At
<1>2. \A i \in 1 .. Len(guards[t][l]) : guards[t][l][i] = "write"
    BY <1>1, GuardModes DEF WriteLoad, MayOpen, Has, Modes
<1>3. CASE Owns(t, l)
  <2>1. /\ Open(t, l, "write") /\ writeCount_' = [writeCount_ EXCEPT ![l] = @ + 1]
        /\ UNCHANGED <<lockFlag_, pc, at, next, expected, crashed>>
    BY <1>3 DEF WriteLoad
  <2>2. TypeOK'
    BY <1>1, <2>1, OpenGuard DEF TypeOK, Modes
  <2>3. Local(t)'
    BY <1>1, <2>1, IdleLocal
  <2>4. \A k \in Locks : ~Pending(t, k) /\ ~Pending(t, k)' /\ ~Storing(t, k) /\ ~Storing(t, k)'
    BY <1>1, <2>1 DEF Pending, Storing
  <2> QED BY <1>2, <1>3, <2>1, <2>2, <2>3, <2>4, CountStep DEF Others
<1>4. CASE ~Owns(t, l)
  <2>1. /\ pc' = [pc EXCEPT ![t] = "writeCas"] /\ at' = [at EXCEPT ![t] = l]
        /\ UNCHANGED <<lockFlag_, writeCount_, guards, next, expected, crashed>>
    BY <1>4 DEF WriteLoad, Goto
  <2>2. TypeOK'
    BY <1>1, <2>1 DEF TypeOK, Places
  <2>3. ~Has(t, l, "write")
    BY <1>1, <1>4 DEF Writer
  <2>4. 1 .. Len(guards[t][l]) = {}
    BY <1>1, <1>2, <2>3, GuardModes DEF Has
  <2>5. ~Holds(t, l)
    BY <1>1, <2>4, GuardModes
  <2>6. pc'[t] = "writeCas" /\ at'[t] = l /\ next'[t] = NoLock
    BY <1>1, <2>1 DEF TypeOK
  <2>7. Local(t)'
    BY <2>1, <2>5, <2>6 DEF Local, Holds
  <2>8. Others(t)
    BY <1>1, <2>1 DEF Others, TypeOK
  <2> QED BY <1>1, <2>1, <2>2, <2>6, <2>7, <2>8, QuietStep DEF Others
<1> QED BY <1>3, <1>4

LEMMA WriteCasStep ==
    ASSUME IInv, NEW t \in Threads, WriteCas(t)
    PROVE  IInv'
<1>1. TypeOK /\ Local(t) /\ pc[t] = "writeCas"
    BY DEF IInv, WriteCas, At
<1>2. PICK l \in Locks : l = at[t]
    BY <1>1 DEF Local
<1>3. /\ lockFlag_[l] = EMPTY_FLAG /\ lockFlag_' = [lockFlag_ EXCEPT ![l].writer = t]
      /\ pc' = [pc EXCEPT ![t] = "writeCount"]
      /\ UNCHANGED <<writeCount_, guards, at, next, expected, crashed>>
    BY <1>2 DEF WriteCas, Goto, threadVars
<1>4. TypeOK'
  <2>1. lockFlag_' \in [Locks -> [writer : Threads \cup {Nobody}, readers : Nat]]
    BY <1>1, <1>3, StoreTypes
  <2> QED BY <1>1, <1>3, <2>1 DEF TypeOK, Places
<1>5. pc'[t] = "writeCount" /\ Others(t)
    BY <1>1, <1>3 DEF TypeOK, Others
<1>6. Local(t)'
    BY <1>1, <1>3, <1>5 DEF Local, Holds
<1>7. /\ Pending(t, l)' /\ \A k \in Locks \ {l} : ~Pending(t, k)'
      /\ \A k \in Locks : ~Pending(t, k) /\ ~Storing(t, k) /\ ~Storing(t, k)'
    BY <1>1, <1>2, <1>3, <1>5 DEF Pending, Storing
<1> QED BY <1>2, <1>3, <1>4, <1>5, <1>6, <1>7, TakeStep

LEMMA WriteCountedStep ==
    ASSUME IInv, NEW t \in Threads, WriteCounted(t)
    PROVE  IInv'
<1>1. TypeOK /\ Local(t) /\ pc[t] = "writeCount"
    BY DEF IInv, WriteCounted, At
<1>2. PICK l \in Locks : l = at[t] /\ ~Holds(t, l)
    BY <1>1 DEF Local
<1>3. Writer(t, l)
    BY <1>2 DEF IInv
<1>4. Owns(t, l)
    BY <1>1, <1>2, <1>3 DEF Writer, Pending
<1>5. /\ writeCount_' = [writeCount_ EXCEPT ![l] = @ + 1] /\ Open(t, l, "write")
      /\ UNCHANGED <<lockFlag_, next, expected, crashed>>
    BY <1>2 DEF WriteCounted
<1>6. /\ next[t] = NoLock => pc' = [pc EXCEPT ![t] = "idle"] /\ at' = [at EXCEPT ![t] = NoLock]
      /\ next[t] # NoLock => pc' = [pc EXCEPT ![t] = "try"] /\ at' = at
    BY DEF WriteCounted, Return, Goto
<1>7. TypeOK'
  <2>1. guards' \in [Threads -> [Locks -> Seq(Modes)]]
    BY <1>1, <1>2, <1>5, OpenGuard DEF Modes
  <2>2. writeCount_' \in [Locks -> Nat]
    <3>1. writeCount_[l] + 1 \in Nat
      BY <1>1 DEF TypeOK
    <3> QED BY <1>1, <1>5, <3>1, StoreTypes
  <2> QED BY <1>1, <1>5, <1>6, <2>1, <2>2 DEF TypeOK, Places
<1>8. Others(t) /\ (next[t] = NoLock => pc'[t] = "idle")
      /\ (next[t] # NoLock => pc'[t] = "try" /\ at'[t] = l)
    BY <1>1, <1>2, <1>5, <1>6 DEF TypeOK, Others
<1>9. Local(t)'
  <2>1. CASE next[t] = NoLock
    BY <1>5, <1>8, <2>1, IdleLocal
  <2>2. CASE next[t] # NoLock
    <3>1. guards'[t][l] = <<"write">>
      <4>1. guards'[t][l] = Append(guards[t][l], "write")
        BY <1>1, <1>2, <1>5, OpenGuard DEF Modes
      <4>2. guards[t][l] = <<>>
        BY <1>2 DEF Holds
      <4> QED BY <4>1, <4>2
    <3>2. next[t] # l /\ ~Holds(t, next[t]) /\ next[t] \in Locks
      BY <1>1, <1>2, <2>2 DEF Local, TypeOK
    <3>3. ~Holds(t, next[t])'
      BY <1>1, <1>2, <1>5, <3>2, OpenGuard DEF Modes, Holds
    <3> QED BY <1>2, <1>5, <1>8, <2>2, <3>1, <3>2, <3>3 DEF Local, Holds
  <2> QED BY <2>1, <2>2
<1>10. /\ \A k \in Locks \ {l} : ~Pending(t, k)
       /\ \A k \in Locks : ~Pending(t, k)' /\ ~Storing(t, k) /\ ~Storing(t, k)'
    BY <1>1, <1>2, <1>8 DEF Pending, Storing
<1>11. \A i \in 1 .. Len(guards[t][l]) : guards[t][l][i] = "write"
    BY <1>1, <1>2, GuardModes
<1> QED BY <1>2, <1>4, <1>5, <1>7, <1>8, <1>9, <1>10, <1>11, CountStep

LEMMA UnlockStoreStep ==
    ASSUME IInv, NEW t \in Threads, UnlockStore(t)
    PROVE  IInv'
<1>1. TypeOK /\ Local(t) /\ pc[t] = "store"
    BY DEF IInv, UnlockStore, At
<1>2. PICK l \in Locks : l = at[t]
    BY <1>1 DEF Local
<1>3. guards[t][l] = <<"write">> /\ Owns(t, l) /\ writeCount_[l] = 0 /\ Holds(t, l)
  <2>1. guards[t][l] = <<"write">> /\ Owns(t, l) /\ writeCount_[l] = 0
    BY <1>1, <1>2 DEF Local
  <2>2. <<"write">> # <<>>
    OBVIOUS
  <2> QED BY <2>1, <2>2 DEF Holds
<1>4. /\ lockFlag_' = [lockFlag_ EXCEPT ![l] = EMPTY_FLAG] /\ Close(t, l)
      /\ UNCHANGED <<writeCount_, expected, crashed>>
    BY <1>2 DEF UnlockStore
<1>5. /\ pc' = [pc EXCEPT ![t] = IF next[t] = NoLock THEN "idle" ELSE "writeCas"]
      /\ at' = [at EXCEPT ![t] = next[t]]
      /\ next' = [next EXCEPT ![t] = IF next[t] = NoLock THEN NoLock ELSE l]
    BY <1>2 DEF UnlockStore, Goto
<1>6. TypeOK'
  <2>1. lockFlag_' \in [Locks -> [writer : Threads \cup {Nobody}, readers : Nat]]
    BY <1>1, <1>4, StoreTypes
  <2>2. guards' \in [Threads -> [Locks -> Seq(Modes)]]
    BY <1>1, <1>3, <1>4, CloseGuard
  <2>3. /\ pc' \in [Threads -> Places]
        /\ at' \in [Threads -> Locks \cup {NoLock}] /\ next' \in [Threads -> Locks \cup {NoLock}]
    BY <1>1, <1>5 DEF TypeOK, Places
  <2> QED BY <1>1, <1>4, <2>1, <2>2, <2>3 DEF TypeOK
<1>7. Others(t)
    BY <1>1, <1>5 DEF TypeOK, Others
<1>8. /\ next[t] = NoLock => pc'[t] = "idle" /\ next'[t] = NoLock
      /\ next[t] # NoLock => pc'[t] = "writeCas" /\ at'[t] = next[t] /\ next'[t] = l
    BY <1>1, <1>5 DEF TypeOK
<1>9. Local(t)'
  <2>1. CASE next[t] = NoLock
    BY <1>8, <2>1, IdleLocal
  <2>2. CASE next[t] # NoLock
    <3>1. PICK m \in Locks : m = next[t] /\ m # l /\ ~Holds(t, m)
      BY <1>1, <1>2, <2>2 DEF Local, TypeOK
    <3>2. guards'[t][m] = guards[t][m] /\ Len(guards'[t][l]) = Len(guards[t][l]) - 1
      BY <1>1, <1>3, <1>4, <3>1, CloseGuard
    <3>3. ~Holds(t, m)'
      BY <3>1, <3>2 DEF Holds
    <3>4. guards'[t][l] = <<>>
      <4>1. Len(<<"write">>) = 1
        OBVIOUS
      <4>2. Len(guards'[t][l]) = 0
        BY <1>3, <3>2, <4>1
      <4>3. guards'[t][l] \in Seq(Modes)
        BY <1>6 DEF TypeOK
      <4> QED BY <4>2, <4>3, EmptySeq
    <3> QED BY <1>8, <2>2, <3>1, <3>3, <3>4 DEF Local, Holds
  <2> QED BY <2>1, <2>2
<1>10. Storing(t, l) /\ pc'[t] \in {"idle", "writeCas"}
    BY <1>1, <1>2, <1>8 DEF Storing
<1> QED BY <1>3, <1>4, <1>6, <1>7, <1>9, <1>10, StoreStep

LEMMA ReadLoadStep ==
    ASSUME IInv, NEW t \in Threads, NEW l \in Locks, ReadLoad(t, l)
    PROVE  IInv'
<1>1. TypeOK /\ pc[t] = "idle" /\ next[t] = NoLock
    BY IdleLocal DEF IInv, ReadLoad, At
<1>2. /\ pc' = [pc EXCEPT ![t] = IF Owns(t, l) THEN "readAdd" ELSE "readExpect"]
      /\ at' = [at EXCEPT ![t] = l]
      /\ UNCHANGED <<lockFlag_, writeCount_, guards, next, expected, crashed>>
    BY DEF ReadLoad, Goto, lockVars
<1>3. TypeOK'
    BY <1>1, <1>2 DEF TypeOK, Places
<1>4. /\ pc'[t] = (IF Owns(t, l) THEN "readAdd" ELSE "readExpect") /\ at'[t] = l /\ next'[t] = NoLock
      /\ Others(t)
    BY <1>1, <1>2 DEF TypeOK, Others
<1>5. Local(t)'
    BY <1>2, <1>4 DEF Local, Owns
<1>6. {pc[t], pc'[t]} \cap {"writeCount", "tryCount", "store"} = {}
    BY <1>1, <1>4
<1> QED BY <1>2, <1>3, <1>4, <1>5, <1>6, QuietStep DEF Others

LEMMA ReadExpectStep ==
    ASSUME IInv, NEW t \in Threads, ReadExpect(t)
    PROVE  IInv'
<1>1. TypeOK /\ Local(t) /\ pc[t] = "readExpect" /\ next[t] = NoLock
    BY IdleLocal DEF IInv, ReadExpect, At
<1>2. PICK l \in Locks : l = at[t]
    BY <1>1 DEF Local
<1>3. /\ pc' = [pc EXCEPT ![t] = "readCas"] /\ expected' = [expected EXCEPT ![t] = lockFlag_[l].readers]
      /\ UNCHANGED <<lockFlag_, writeCount_, guards, at, next, crashed>>
    BY <1>2 DEF ReadExpect, Goto, lockVars
<1>4. TypeOK'
    BY <1>1, <1>3 DEF TypeOK, Places
<1>5. pc'[t] = "readCas" /\ at'[t] = l /\ next'[t] = NoLock /\ Others(t)
    BY <1>1, <1>2, <1>3 DEF TypeOK, Others
<1>6. Local(t)'
    BY <1>5 DEF Local
<1>7. {pc[t], pc'[t]} \cap {"writeCount", "tryCount", "store"} = {}
    BY <1>1, <1>5
<1> QED BY <1>3, <1>4, <1>5, <1>6, <1>7, QuietStep DEF Others

\* ReadAdd, and ReadCas when the exchange succeeds.
LEMMA EnterTypes ==
    ASSUME IInv, NEW t \in Threads, NEW l \in Locks, at[t] = l, Enter(t), next[t] = NoLock,
           UNCHANGED <<writeCount_, next, crashed>>, expected' \in [Threads -> Nat]
    PROVE  TypeOK' /\ Local(t)'
<1>1. TypeOK
    BY DEF IInv
<1>2. /\ lockFlag_' = [lockFlag_ EXCEPT ![l].readers = @ + 1] /\ Open(t, l, "read")
      /\ pc' = [pc EXCEPT ![t] = "idle"] /\ at' = [at EXCEPT ![t] = NoLock]
    BY DEF Enter, Return, Goto
<1>3. lockFlag_' \in [Locks -> [writer : Threads \cup {Nobody}, readers : Nat]]
  <2>1. lockFlag_[l].readers + 1 \in Nat
    BY <1>1 DEF TypeOK
  <2> QED BY <1>1, <1>2, <2>1, StoreTypes
<1>4. guards' \in [Threads -> [Locks -> Seq(Modes)]]
    BY <1>1, <1>2, OpenGuard DEF Modes
<1>5. TypeOK'
    BY <1>1, <1>2, <1>3, <1>4 DEF TypeOK, Places
<1>6. pc'[t] = "idle" /\ next'[t] = NoLock
    BY <1>1, <1>2 DEF TypeOK
<1> QED BY <1>5, <1>6, IdleLocal

LEMMA ReadAddStep ==
    ASSUME IInv, NEW t \in Threads, ReadAdd(t)
    PROVE  IInv'
<1>1. TypeOK /\ Local(t) /\ pc[t] = "readAdd" /\ next[t] = NoLock
    BY IdleLocal DEF IInv, ReadAdd, At
<1>2. PICK l \in Locks : at[t] = l
    BY <1>1 DEF Local
<1>3. Enter(t) /\ UNCHANGED <<writeCount_, next, expected, crashed>>
    BY DEF ReadAdd
<1>4. TypeOK' /\ Local(t)'
    BY <1>1, <1>2, <1>3, EnterTypes DEF TypeOK
<1>5. lockFlag_[l].writer = t
    BY <1>1, <1>2 DEF Local, Owns
<1> QED BY <1>1, <1>2, <1>3, <1>4, <1>5, EnterStep

LEMMA ReadCasStep ==
    ASSUME IInv, NEW t \in Threads, ReadCas(t)
    PROVE  IInv'
<1>1. TypeOK /\ Local(t) /\ pc[t] = "readCas" /\ next[t] = NoLock
    BY IdleLocal DEF IInv, ReadCas, At
<1>2. PICK l \in Locks : at[t] = l
    BY <1>1 DEF Local
<1>3. expected' \in [Threads -> Nat] /\ UNCHANGED <<writeCount_, next, crashed>>
    BY <1>1 DEF ReadCas, TypeOK
<1>4. CASE lockFlag_[l] = [writer |-> Nobody, readers |-> expected[t]]
  <2>1. Enter(t)
    BY <1>2, <1>4 DEF ReadCas
  <2>2. TypeOK' /\ Local(t)'
    BY <1>1, <1>2, <1>3, <2>1, EnterTypes
  <2>3. lockFlag_[l].writer = Nobody
    BY <1>4
  <2> QED BY <1>1, <1>2, <1>3, <2>1, <2>2, <2>3, EnterStep
<1>5. CASE lockFlag_[l] # [writer |-> Nobody, readers |-> expected[t]]
  <2>1. pc' = [pc EXCEPT ![t] = "readExpect"] /\ UNCHANGED <<lockFlag_, guards, at>>
    BY <1>2, <1>5 DEF ReadCas, Goto
  <2>2. TypeOK'
    BY <1>1, <1>3, <2>1 DEF TypeOK, Places
  <2>3. pc'[t] = "readExpect" /\ at'[t] = l /\ next'[t] = NoLock /\ Others(t)
    BY <1>1, <1>2, <1>3, <2>1 DEF TypeOK, Others
  <2>4. Local(t)'
    BY <2>3 DEF Local
  <2>5. {pc[t], pc'[t]} \cap {"writeCount", "tryCount", "store"} = {}
    BY <1>1, <2>3
  <2> QED BY <1>3, <2>1, <2>2, <2>3, <2>4, <2>5, QuietStep DEF Others
<1> QED BY <1>4, <1>5

LEMMA ReadUnlockStep ==
    ASSUME IInv, NEW t \in Threads, NEW l \in Locks, ReadUnlock(t, l)
    PROVE  IInv' /\ Close(t, l)
<1>1. TypeOK /\ pc[t] = "idle" /\ next[t] = NoLock /\ Holds(t, l)
      /\ guards[t][l][Len(guards[t][l])] = "read"
    BY IdleLocal DEF IInv, ReadUnlock, At
<1>2. lockFlag_[l].readers \in Nat \ {0}
    BY <1>1, LastRead
<1>3. /\ lockFlag_' = [lockFlag_ EXCEPT ![l].readers = @ - 1] /\ Close(t, l)
      /\ UNCHANGED <<writeCount_, pc, at, next, expected, crashed>>
    BY <1>2 DEF ReadUnlock, threadVars
<1>4. TypeOK'
  <2>1. lockFlag_' \in [Locks -> [writer : Threads \cup {Nobody}, readers : Nat]]
    <3>1. lockFlag_[l].readers - 1 \in Nat
      BY <1>2
    <3> QED BY <1>1, <1>3, <3>1, StoreTypes
  <2>2. guards' \in [Threads -> [Locks -> Seq(Modes)]]
    BY <1>1, <1>3, CloseGuard
  <2> QED BY <1>1, <1>3, <2>1, <2>2 DEF TypeOK
<1>5. Local(t)'
    BY <1>1, <1>3, IdleLocal
<1> QED BY <1>1, <1>3, <1>4, <1>5, ExitStep

LEMMA WriteUnlockStep ==
    ASSUME IInv, NEW t \in Threads, NEW l \in Locks, WriteUnlock(t, l)
    PROVE  IInv' /\ (Close(t, l) \/ guards' = guards)
<1>1. TypeOK /\ pc[t] = "idle" /\ next[t] = NoLock /\ Holds(t, l)
      /\ guards[t][l][Len(guards[t][l])] = "write"
    BY IdleLocal DEF IInv, WriteUnlock, At
<1>2. ~Storing(t, l)
    BY <1>1 DEF Storing
<1>3. /\ Owns(t, l) /\ writeCount_[l] = Len(guards[t][l]) /\ lockFlag_[l].readers = 0
      /\ Len(guards[t][l]) = 1 => guards[t][l] = <<"write">>
    BY <1>1, <1>2, LastWrite
<1>4. Uncount(t, l) /\ UNCHANGED <<lockFlag_, next, expected, crashed>>
    BY <1>3 DEF WriteUnlock
<1>5. CASE writeCount_[l] = 1
  <2>1. /\ writeCount_' = [writeCount_ EXCEPT ![l] = @ - 1] /\ pc' = [pc EXCEPT ![t] = "store"]
        /\ at' = [at EXCEPT ![t] = l] /\ guards' = guards
    BY <1>4, <1>5 DEF Uncount, Goto
  <2>2. TypeOK'
    <3>1. writeCount_' \in [Locks -> Nat]
      <4>1. writeCount_[l] - 1 \in Nat
        BY <1>5
      <4> QED BY <1>1, <2>1, <4>1, StoreTypes
    <3> QED BY <1>1, <1>4, <2>1, <3>1 DEF TypeOK, Places
  <2>3. pc'[t] = "store" /\ at'[t] = l /\ next'[t] = NoLock /\ writeCount_'[l] = 0 /\ Others(t)
    BY <1>1, <1>4, <1>5, <2>1 DEF TypeOK, Others
  <2>4. Local(t)'
    BY <1>3, <1>4, <1>5, <2>1, <2>3 DEF Local, Owns
  <2> QED BY <1>1, <1>4, <1>5, <2>1, <2>2, <2>3, <2>4, LastUncountStep
<1>6. CASE writeCount_[l] # 1
  <2>1. /\ writeCount_' = [writeCount_ EXCEPT ![l] = @ - 1] /\ Close(t, l) /\ UNCHANGED <<pc, at>>
    BY <1>4, <1>6 DEF Uncount
  <2>2. writeCount_' \in [Locks -> Nat] /\ (TypeOK' /\ Local(t)' => IInv')
    BY <1>1, <1>4, <1>6, <2>1, UncountStep
  <2>3. TypeOK'
    <3>1. guards' \in [Threads -> [Locks -> Seq(Modes)]]
      BY <1>1, <2>1, CloseGuard
    <3> QED BY <1>1, <1>4, <2>1, <2>2, <3>1 DEF TypeOK
  <2>4. Local(t)'
    BY <1>1, <1>4, <2>1, IdleLocal
  <2> QED BY <2>1, <2>2, <2>3, <2>4
<1> QED BY <1>5, <1>6

LEMMA MultipleLockStep ==
    ASSUME IInv, NEW t \in Threads, NEW l \in Locks, NEW other \in Locks, MultipleLock(t, l, other)
    PROVE  IInv'
<1>1. TypeOK /\ pc[t] = "idle" /\ l # other /\ \A m \in Locks : ~Holds(t, m)
    BY DEF IInv, MultipleLock, At
<1>2. /\ pc' = [pc EXCEPT ![t] = "writeCas"]
      /\ at' = [at EXCEPT ![t] = l] /\ next' = [next EXCEPT ![t] = other]
      /\ UNCHANGED <<lockFlag_, writeCount_, guards, expected, crashed>>
    BY DEF MultipleLock, Goto, lockVars
<1>3. TypeOK'
    BY <1>1, <1>2 DEF TypeOK, Places
<1>4. pc'[t] = "writeCas" /\ at'[t] = l /\ next'[t] = other /\ Others(t)
    BY <1>1, <1>2 DEF TypeOK, Others
<1>5. Local(t)'
    BY <1>1, <1>2, <1>4 DEF Local, Holds
<1>6. {pc[t], pc'[t]} \cap {"writeCount", "tryCount", "store"} = {}
    BY <1>1, <1>4
<1> QED BY <1>2, <1>3, <1>4, <1>5, <1>6, QuietStep DEF Others

LEMMA TryWriteLockStep ==
    ASSUME IInv, NEW t \in Threads, TryWriteLock(t)
    PROVE  IInv'
<1>1. TypeOK /\ Local(t) /\ pc[t] = "try"
    BY DEF IInv, TryWriteLock, At
<1>2. PICK l \in Locks : l = next[t]
    BY <1>1 DEF Local, TypeOK
<1>3. UNCHANGED <<writeCount_, guards, at, next, expected, crashed>>
    BY DEF TryWriteLock, threadVars
<1>4. CASE lockFlag_[l] = EMPTY_FLAG
  <2>1. /\ lockFlag_' = [lockFlag_ EXCEPT ![l].writer = t] /\ pc' = [pc EXCEPT ![t] = "tryCount"]
    BY <1>2, <1>4 DEF TryWriteLock, Goto
  <2>2. TypeOK'
    <3>1. lockFlag_' \in [Locks -> [writer : Threads \cup {Nobody}, readers : Nat]]
      BY <1>1, <2>1, StoreTypes
    <3> QED BY <1>1, <1>3, <2>1, <3>1 DEF TypeOK, Places
  <2>3. pc'[t] = "tryCount" /\ Others(t)
    BY <1>1, <1>3, <2>1 DEF TypeOK, Others
  <2>4. Local(t)'
    BY <1>1, <1>3, <2>3 DEF Local, Holds
  <2>5. /\ Pending(t, l)' /\ \A k \in Locks \ {l} : ~Pending(t, k)'
        /\ \A k \in Locks : ~Pending(t, k) /\ ~Storing(t, k) /\ ~Storing(t, k)'
    BY <1>1, <1>2, <1>3, <2>3 DEF Pending, Storing
  <2> QED BY <1>3, <1>4, <2>1, <2>2, <2>3, <2>4, <2>5, TakeStep
<1>5. CASE lockFlag_[l] # EMPTY_FLAG
  <2>1. pc' = [pc EXCEPT ![t] = "backOff"] /\ lockFlag_' = lockFlag_
    BY <1>2, <1>5 DEF TryWriteLock, Goto
  <2>2. TypeOK'
    BY <1>1, <1>3, <2>1 DEF TypeOK, Places
  <2>3. pc'[t] = "backOff" /\ Others(t)
    BY <1>1, <1>3, <2>1 DEF TypeOK, Others
  <2>4. Local(t)'
    BY <1>1, <1>3, <2>3 DEF Local, Holds
  <2>5. {pc[t], pc'[t]} \cap {"writeCount", "tryCount", "store"} = {}
    BY <1>1, <2>3
  <2> QED BY <1>2, <1>3, <2>1, <2>2, <2>3, <2>4, <2>5, QuietStep DEF Others
<1> QED BY <1>4, <1>5

LEMMA TryCountedStep ==
    ASSUME IInv, NEW t \in Threads, TryCounted(t)
    PROVE  IInv'
<1>1. TypeOK /\ Local(t) /\ pc[t] = "tryCount"
    BY DEF IInv, TryCounted, At
<1>2. PICK l \in Locks : l = next[t] /\ ~Holds(t, l)
    BY <1>1 DEF Local, TypeOK
<1>3. Writer(t, l)
    BY <1>2 DEF IInv
<1>4. Owns(t, l)
    BY <1>1, <1>2, <1>3 DEF Writer, Pending
<1>5. /\ writeCount_' = [writeCount_ EXCEPT ![l] = @ + 1] /\ Open(t, l, "write")
      /\ next' = [next EXCEPT ![t] = NoLock]
      /\ UNCHANGED <<lockFlag_, expected, crashed>>
    BY <1>2 DEF TryCounted
<1>6. pc' = [pc EXCEPT ![t] = "idle"] /\ at' = [at EXCEPT ![t] = NoLock]
    BY DEF TryCounted, Return, Goto
<1>7. TypeOK'
  <2>1. guards' \in [Threads -> [Locks -> Seq(Modes)]]
    BY <1>1, <1>2, <1>5, OpenGuard DEF Modes
  <2>2. writeCount_' \in [Locks -> Nat]
    <3>1. writeCount_[l] + 1 \in Nat
      BY <1>1 DEF TypeOK
    <3> QED BY <1>1, <1>5, <3>1, StoreTypes
  <2> QED BY <1>1, <1>5, <1>6, <2>1, <2>2 DEF TypeOK, Places
<1>8. pc'[t] = "idle" /\ next'[t] = NoLock /\ Others(t)
    BY <1>1, <1>5, <1>6 DEF TypeOK, Others
<1>9. Local(t)'
    BY <1>8, IdleLocal
<1>10. /\ \A k \in Locks \ {l} : ~Pending(t, k)
       /\ \A k \in Locks : ~Pending(t, k)' /\ ~Storing(t, k) /\ ~Storing(t, k)'
    BY <1>1, <1>2, <1>8 DEF Pending, Storing
<1>11. \A i \in 1 .. Len(guards[t][l]) : guards[t][l][i] = "write"
    BY <1>1, <1>2, GuardModes
<1> QED BY <1>4, <1>5, <1>7, <1>8, <1>9, <1>10, <1>11, CountStep

LEMMA BackOffStep ==
    ASSUME IInv, NEW t \in Threads, BackOff(t)
    PROVE  IInv' /\ guards' = guards
<1>1. TypeOK /\ Local(t) /\ pc[t] = "backOff" /\ next[t] # NoLock
    BY DEF IInv, BackOff, At, Local
<1>2. PICK l \in Locks : l = at[t] /\ guards[t][l] = <<"write">>
    BY <1>1 DEF Local
<1>3. Len(guards[t][l]) = 1 /\ guards[t][l][Len(guards[t][l])] = "write" /\ Holds(t, l)
  <2>1. Len(<<"write">>) = 1 /\ <<"write">>[1] = "write" /\ <<"write">> # <<>>
    OBVIOUS
  <2> QED BY <1>2, <2>1 DEF Holds
<1>4. ~Storing(t, l)
    BY <1>1 DEF Storing
<1>5. Owns(t, l) /\ writeCount_[l] = 1
    BY <1>3, <1>4, LastWrite
<1>6. /\ writeCount_' = [writeCount_ EXCEPT ![l] = @ - 1] /\ pc' = [pc EXCEPT ![t] = "store"]
      /\ at' = [at EXCEPT ![t] = l] /\ UNCHANGED <<lockFlag_, guards, next, expected, crashed>>
    BY <1>2, <1>5 DEF BackOff, Uncount, Goto
<1>7. TypeOK'
  <2>1. writeCount_' \in [Locks -> Nat]
    <3>1. writeCount_[l] - 1 \in Nat
      BY <1>5
    <3> QED BY <1>1, <1>6, <3>1, StoreTypes
  <2> QED BY <1>1, <1>6, <2>1 DEF TypeOK, Places
<1>8. pc'[t] = "store" /\ at'[t] = l /\ writeCount_'[l] = 0 /\ Others(t)
    BY <1>1, <1>5, <1>6 DEF TypeOK, Others
<1>9. Local(t)'
    BY <1>1, <1>2, <1>5, <1>6, <1>8 DEF Local, Owns, Holds
<1>10. IInv'
    BY <1>1, <1>3, <1>5, <1>6, <1>7, <1>8, <1>9, LastUncountStep
<1> QED BY <1>6, <1>10

-----------------------------------------------------------------------------
(* The theorems.                                                           *)

LEMMA InitIInv == Init => IInv
<1> SUFFICES ASSUME Init PROVE IInv
    OBVIOUS
<1>1. \A t \in Threads, l \in Locks : guards[t][l] = <<>> /\ ~Holds(t, l) /\ ~Has(t, l, "write")
                                      /\ Len(guards[t][l]) = 0 /\ ~Owns(t, l)
    BY NobodyIsNone DEF Init, Holds, Has, Owns, EMPTY_FLAG
<1>2. TypeOK
  <2>1. <<>> \in Seq(Modes)
    OBVIOUS
  <2> QED BY <2>1 DEF Init, TypeOK, EMPTY_FLAG, Places
<1>3. \A t \in Threads : Local(t) /\ \A l \in Locks : Writer(t, l) /\ Shape(t, l)
  <2>1. \A t \in Threads, l \in Locks : Writer(t, l) /\ Shape(t, l)
    BY <1>1 DEF Init, Writer, Shape, Writes, Pending
  <2> QED BY <2>1 DEF Init, Local
<1>4. \A l \in Locks : Readers(l) /\ Alone(l) /\ Unowned(l)
  <2> SUFFICES ASSUME NEW l \in Locks PROVE Readers(l) /\ Alone(l) /\ Unowned(l)
      OBVIOUS
  <2>1. Tokens(l) = {}
    BY <1>1 DEF Tokens
  <2>2. Readers(l)
    BY <2>1, FS_EmptySet DEF Init, Readers, EMPTY_FLAG
  <2> QED BY <1>1, <2>2 DEF Init, Alone, Unowned
<1> QED BY <1>2, <1>3, <1>4 DEF Init, IInv

LEMMA NextIInv ==
    ASSUME IInv, [Next]_vars
    PROVE  IInv'
<1>1. CASE UNCHANGED vars
  <2>1. TypeOK' /\ ~crashed'
    BY <1>1 DEF vars, IInv, TypeOK
  <2>2. ASSUME NEW t \in Threads PROVE Local(t)'
    BY <1>1 DEF vars, IInv, Local, Owns, Holds
  <2>3. ASSUME NEW t \in Threads, NEW l \in Locks PROVE Writer(t, l)' /\ Shape(t, l)'
    BY <1>1 DEF vars, IInv, Writer, Shape, Writes, Owns, Has, Pending, Storing
  <2>4. ASSUME NEW l \in Locks PROVE Readers(l)' /\ Alone(l)' /\ Unowned(l)'
    BY <1>1 DEF vars, IInv, Readers, Tokens, Alone, Unowned, Owns, Holds
  <2> QED BY <2>1, <2>2, <2>3, <2>4 DEF IInv
<1>2. ASSUME NEW t \in Threads, NEW l \in Locks,
             \/ WriteLoad(t, l) \/ WriteUnlock(t, l) \/ ReadLoad(t, l) \/ ReadUnlock(t, l)
             \/ \E other \in Locks : MultipleLock(t, l, other)
      PROVE  IInv'
    BY <1>2, WriteLoadStep, WriteUnlockStep, ReadLoadStep, ReadUnlockStep, MultipleLockStep
<1>3. ASSUME NEW t \in Threads,
             \/ WriteCas(t) \/ WriteCounted(t) \/ UnlockStore(t)
             \/ ReadAdd(t) \/ ReadExpect(t) \/ ReadCas(t)
             \/ TryWriteLock(t) \/ TryCounted(t) \/ BackOff(t)
      PROVE  IInv'
    BY <1>3, WriteCasStep, WriteCountedStep, UnlockStoreStep, ReadAddStep, ReadExpectStep,
       ReadCasStep, TryWriteLockStep, TryCountedStep, BackOffStep
<1> QED BY <1>1, <1>2, <1>3 DEF Next

LEMMA Invariance == Spec => []IInv
<1>1. IInv /\ [Next]_vars => IInv'
    BY NextIInv
<1> QED BY <1>1, InitIInv, PTL DEF Spec

\* However many threads share a lock, one that has a write guard has it alone,
\* with the owner's readers and those of the other threads in one counter.
THEOREM Exclusion == Spec => []MutualExclusion
<1>1. IInv => MutualExclusion
  <2> SUFFICES ASSUME IInv, NEW l \in Locks, NEW t \in Threads, NEW u \in Threads,
                      t # u, Has(t, l, "write")
               PROVE  ~Holds(u, l)
      BY DEF MutualExclusion
  <2>1. Writer(t, l) /\ Alone(l)
    BY DEF IInv
  <2> QED BY <2>1 DEF Writer, Alone
<1> QED BY <1>1, Invariance, PTL

\* No schedule of nested guards makes WriteUnlock's or ReadUnlock's assertion fail.
THEOREM NoCrash == Spec => []NeverCrashes
<1>1. IInv => NeverCrashes
    BY DEF IInv, NeverCrashes
<1> QED BY <1>1, Invariance, PTL

\* When the last guard is closed, and an attempt on two locks given up, flag and
\* count are as they were at the start.
THEOREM Released == Spec => []LeavesFree
<1>1. IInv => LeavesFree
  <2> SUFFICES ASSUME IInv, NEW l \in Locks,
                      \A t \in Threads : ~Holds(t, l) /\ l \notin {at[t], next[t]}
               PROVE  lockFlag_[l] = EMPTY_FLAG /\ writeCount_[l] = 0
      BY DEF LeavesFree
  <2>1. TypeOK /\ Readers(l) /\ Unowned(l) /\ \A t \in Threads : Writer(t, l)
    BY DEF IInv
  <2>2. \A t \in Threads : Len(guards[t][l]) = 0 /\ ~Has(t, l, "write") /\ ~Pending(t, l)
    <3> SUFFICES ASSUME NEW t \in Threads
                 PROVE  Len(guards[t][l]) = 0 /\ ~Has(t, l, "write") /\ ~Pending(t, l)
        OBVIOUS
    <3>1. Len(guards[t][l]) = 0 /\ DOMAIN guards[t][l] = {}
      BY <2>1, GuardModes
    <3> QED BY <3>1 DEF Has, Pending
  <2>3. \A t \in Threads : ~Owns(t, l)
    BY <2>1, <2>2 DEF Writer
  <2>4. Tokens(l) = {}
    BY <2>2 DEF Tokens
  <2>5. lockFlag_[l].readers = 0 /\ lockFlag_[l].writer = Nobody
    BY <2>1, <2>3, <2>4, FS_EmptySet DEF Readers, Owns, TypeOK
  <2> QED BY <2>1, <2>3, <2>5 DEF Unowned, TypeOK, EMPTY_FLAG
<1> QED BY <1>1, Invariance, PTL

\* A guard opened by the owner of a lock, or a read guard of a lock nobody owns.
LEMMA AcquireStep ==
    ASSUME IInv, NEW t \in Threads, NEW l \in Locks, NEW mode \in Modes, Open(t, l, mode),
           Owns(t, l) \/ (mode = "read" /\ lockFlag_[l].writer = Nobody)
    PROVE  Abstract!Next
<1>1. Abstract!Free(t, l, mode)
  <2>1. CASE Owns(t, l)
    <3>1. \A u \in Threads \ {t} : guards[u][l] = <<>>
      BY <2>1 DEF IInv, Alone, Holds
    <3> QED BY <3>1 DEF Abstract!Free
  <2>2. CASE mode = "read" /\ lockFlag_[l].writer = Nobody
    BY <2>2, NoWriter, GuardModes DEF Abstract!Free, IInv
  <2> QED BY <2>1, <2>2
<1> QED BY <1>1 DEF Abstract!Next, Abstract!Acquire, Abstract!Modes, Open, Modes

LEMMA ReleaseStep ==
    ASSUME NEW t \in Threads, NEW l \in Locks, Holds(t, l), Close(t, l)
    PROVE  Abstract!Next
    BY DEF Abstract!Next, Abstract!Release, Close, Holds

LEMMA NextRefines ==
    ASSUME IInv, [Next]_vars
    PROVE  [Abstract!Next]_guards
<1>1. CASE UNCHANGED vars
    BY <1>1 DEF vars
<1>2. ASSUME NEW t \in Threads, NEW l \in Locks, WriteLoad(t, l) PROVE [Abstract!Next]_guards
  <2>1. (Owns(t, l) /\ Open(t, l, "write")) \/ guards' = guards
    BY <1>2 DEF WriteLoad
  <2> QED BY <2>1, AcquireStep DEF Modes
<1>3. ASSUME NEW t \in Threads, NEW l \in Locks, WriteUnlock(t, l) PROVE [Abstract!Next]_guards
    BY <1>3, WriteUnlockStep, ReleaseStep DEF WriteUnlock
<1>4. ASSUME NEW t \in Threads, NEW l \in Locks, ReadUnlock(t, l) PROVE [Abstract!Next]_guards
    BY <1>4, ReadUnlockStep, ReleaseStep DEF ReadUnlock
<1>5. ASSUME NEW t \in Threads, UnlockStore(t) PROVE [Abstract!Next]_guards
  <2>1. PICK l \in Locks : l = at[t] /\ guards[t][l] = <<"write">>
    BY <1>5 DEF IInv, Local, UnlockStore, At
  <2>2. Holds(t, l)
    <3>1. <<"write">> # <<>>
      OBVIOUS
    <3> QED BY <2>1, <3>1 DEF Holds
  <2>3. Close(t, l)
    BY <1>5, <2>1 DEF UnlockStore
  <2> QED BY <2>2, <2>3, ReleaseStep
<1>6. ASSUME NEW t \in Threads, WriteCounted(t) PROVE [Abstract!Next]_guards
  <2>1. Local(t) /\ pc[t] = "writeCount"
    BY <1>6 DEF IInv, WriteCounted, At
  <2>2. PICK l \in Locks : l = at[t]
    BY <2>1 DEF Local
  <2>3. Writer(t, l) /\ Pending(t, l)
    BY <2>1, <2>2 DEF IInv, Pending
  <2>4. Open(t, l, "write")
    BY <1>6, <2>2 DEF WriteCounted
  <2> QED BY <2>3, <2>4, AcquireStep DEF Writer, Modes
<1>7. ASSUME NEW t \in Threads, TryCounted(t) PROVE [Abstract!Next]_guards
  <2>1. TypeOK /\ Local(t) /\ pc[t] = "tryCount"
    BY <1>7 DEF IInv, TryCounted, At
  <2>2. PICK l \in Locks : l = next[t]
    BY <2>1 DEF Local, TypeOK
  <2>3. Writer(t, l) /\ Pending(t, l)
    BY <2>1, <2>2 DEF IInv, Pending
  <2>4. Open(t, l, "write")
    BY <1>7, <2>2 DEF TryCounted
  <2> QED BY <2>3, <2>4, AcquireStep DEF Writer, Modes
<1>8. ASSUME NEW t \in Threads, ReadAdd(t) PROVE [Abstract!Next]_guards
  <2>1. PICK l \in Locks : l = at[t] /\ Owns(t, l)
    BY <1>8 DEF IInv, Local, ReadAdd, At
  <2>2. Open(t, l, "read")
    BY <1>8, <2>1 DEF ReadAdd, Enter
  <2> QED BY <2>1, <2>2, AcquireStep DEF Modes
<1>9. ASSUME NEW t \in Threads, ReadCas(t) PROVE [Abstract!Next]_guards
  <2>1. PICK l \in Locks : l = at[t]
    BY <1>9 DEF IInv, Local, ReadCas, At
  <2>2. CASE lockFlag_[l] = [writer |-> Nobody, readers |-> expected[t]]
    <3>1. lockFlag_[l].writer = Nobody /\ Open(t, l, "read")
      BY <1>9, <2>1, <2>2 DEF ReadCas, Enter
    <3> QED BY <3>1, AcquireStep DEF Modes
  <2>3. CASE lockFlag_[l] # [writer |-> Nobody, readers |-> expected[t]]
    BY <1>9, <2>1, <2>3 DEF ReadCas
  <2> QED BY <2>2, <2>3
<1>10. ASSUME NEW t \in Threads, NEW l \in Locks,
              ReadLoad(t, l) \/ \E other \in Locks : MultipleLock(t, l, other)
       PROVE  [Abstract!Next]_guards
    BY <1>10 DEF ReadLoad, MultipleLock
<1>11. ASSUME NEW t \in Threads, WriteCas(t) \/ ReadExpect(t) \/ TryWriteLock(t) \/ BackOff(t)
       PROVE  [Abstract!Next]_guards
    BY <1>11, BackOffStep DEF WriteCas, ReadExpect, TryWriteLock
<1> QED BY <1>1, <1>2, <1>3, <1>4, <1>5, <1>6, <1>7, <1>8, <1>9, <1>10, <1>11 DEF Next

\* The compare-exchanges, the counting after them, the owner's shortcuts and the
\* attempts on two locks are, to the code in the guards, a read/write lock.
THEOREM Refines == Spec => IsReadWriteLock
<1>1. Init => Abstract!Init
    BY DEF Init, Abstract!Init
<1>2. IInv /\ [Next]_vars => [Abstract!Next]_guards
    BY NextRefines
<1> QED BY <1>1, <1>2, Invariance, PTL DEF Spec, IsReadWriteLock, Abstract!Spec

=============================================================================
