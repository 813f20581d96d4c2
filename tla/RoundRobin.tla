----------------------------- MODULE RoundRobin -----------------------------
(***************************************************************************)
(* What the scheduler promises, "round-robin kernel-level scheduling": the *)
(* tasks that want the CPU wait in one queue, the head of the queue is     *)
(* next, and a task that gives the CPU up goes to the back, unless it      *)
(* parked: then it is back in the queue when somebody wakes it.            *)
(***************************************************************************)
EXTENDS Sequences

CONSTANTS Task, First

VARIABLES
    running,  \* the task on the CPU
    queue,    \* the tasks waiting for it, in order
    parked    \* the tasks that wait to be woken

rrVars == <<running, queue, parked>>

InQueue(t) == \E i \in DOMAIN queue : queue[i] = t

Init ==
    /\ running = First
    /\ queue = <<>>
    /\ parked = {}

\* A new task joins at the back.
Join(t) ==
    /\ t # running /\ ~ InQueue(t) /\ t \notin parked
    /\ queue' = Append(queue, t)
    /\ UNCHANGED <<running, parked>>

\* A parked task joins at the back.
Wake(t) ==
    /\ t \in parked \ {running}
    /\ parked' = parked \ {t}
    /\ queue' = Append(queue, t)
    /\ UNCHANGED running

\* The running task gives the CPU up and will want it again.
Rotate ==
    /\ queue # <<>> /\ running \notin parked
    /\ running' = Head(queue)
    /\ queue' = Append(Tail(queue), running)
    /\ UNCHANGED parked

\* The running task parks, but it has to keep the CPU for now.
ParkLater ==
    /\ parked' = parked \cup {running}
    /\ UNCHANGED <<running, queue>>

\* The running task parks, or has parked, and gives the CPU up.
Park ==
    /\ queue # <<>>
    /\ running' = Head(queue)
    /\ queue' = Tail(queue)
    /\ parked' = parked \cup {running}

Next ==
    \/ \E t \in Task : Join(t) \/ Wake(t)
    \/ Rotate
    \/ ParkLater
    \/ Park

Spec == Init /\ [][Next]_rrVars
=============================================================================
