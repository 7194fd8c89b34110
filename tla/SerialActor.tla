---------------------------- MODULE SerialActor ----------------------------
(***************************************************************************)
(* What a CommandTaskObject promises to Room, Match and Lobby code: the    *)
(* tasks posted to one object form a mailbox, and they run one at a time,  *)
(* each exactly once, in the order in which they entered the mailbox.      *)
(* Threads, counters and the global object queue do not appear here;       *)
(* CommandTask shows that ServerLibrary/CommandTask.cpp implements this.   *)
(***************************************************************************)
EXTENDS Sequences, FiniteSets

CONSTANTS Objects,   (* the task objects: rooms, matches, lobbies          *)
          Tasks,     (* the tasks that are ever posted                     *)
          NoTask     (* no task is running                                 *)

VARIABLES mailbox,   (* the tasks waiting on each object, oldest first     *)
          running,   (* the task each object is executing, or NoTask       *)
          finished   (* every task that has returned                       *)

vars == <<mailbox, running, finished>>

Waiting == UNION {{mailbox[o][i] : i \in DOMAIN mailbox[o]} : o \in Objects}

Known == Waiting \cup {running[o] : o \in Objects} \cup finished

Init ==
    /\ mailbox = [o \in Objects |-> <<>>]
    /\ running = [o \in Objects |-> NoTask]
    /\ finished = {}

\* A task is new when it enters a mailbox: nothing runs twice.
Enter(o, k) ==
    /\ k \notin Known
    /\ mailbox' = [mailbox EXCEPT ![o] = Append(@, k)]
    /\ UNCHANGED <<running, finished>>

Begin(o) ==
    /\ running[o] = NoTask
    /\ mailbox[o] # <<>>
    /\ running' = [running EXCEPT ![o] = Head(mailbox[o])]
    /\ mailbox' = [mailbox EXCEPT ![o] = Tail(@)]
    /\ UNCHANGED finished

End(o) ==
    /\ running[o] # NoTask
    /\ finished' = finished \cup {running[o]}
    /\ running' = [running EXCEPT ![o] = NoTask]
    /\ UNCHANGED mailbox

Next == \E o \in Objects : Begin(o) \/ End(o) \/ \E k \in Tasks : Enter(o, k)

Spec == Init /\ [][Next]_vars
=============================================================================
