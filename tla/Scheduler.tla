------------------------------ MODULE Scheduler ------------------------------
(***************************************************************************)
(* The cooperative kernel scheduler of SplongleOS: sched/sched.c and       *)
(* sched/sched.asm, at the level of the TCB pointers.                      *)
(*                                                                         *)
(* The ready-to-run list is the chain g_first_ready, next, next, ... that  *)
(* the code threads through tasks[]; a task is its slot in tasks[].        *)
(* Nothing preempts a task (the Schedule() call in PIT_Handler is          *)
(* commented out), so each call into the scheduler is one step, up to the  *)
(* point where switch_to_task hands the CPU to another stack.  What the    *)
(* interrupted caller has still to do once it is switched back to is its   *)
(* pc: "unlock" inside block_task, unblock_task, release_lock or a locked  *)
(* Schedule(), "run" otherwise.                                            *)
(*                                                                         *)
(* A definition with a suffix (PutsBack_Always) is the one without it with *)
(* a slip the code could have; no action uses it.                          *)
(***************************************************************************)
EXTENDS Integers, Sequences, FiniteSets

CONSTANTS
    MAX_TASKS,  \* slots in tasks[] (sched.h)
    NULL,       \* the null TCB pointer
    Startup,    \* the entry points kernel_main passes to create_kernel_task
    Body,       \* entry point -> the scheduler calls its code makes
    MaxLocks    \* bound: nesting depth of acquire_lock

RUNNING == 0
READY_TO_RUN == 1
PAUSED == 2

Slots == 0 .. MAX_TASKS - 1
main == 0       \* Multitasking_Init puts kernel_main in slot 0 ...
idle_task == 1  \* ... and creates the idle task first, which gets slot 1
Pointers == Slots \cup {NULL}

Calls == {"schedule", "yield", "block", "unblock", "acquire", "sleep"}

\* The bodies the repository has.  "schedule" is a bare Schedule(), "yield"
\* is lock_scheduler(); Schedule(); unlock_scheduler().
KernelTaskBody ==
    [ kernel_main      |-> {"schedule"},
      kernel_idle_task |-> {},
      Shell_Run        |-> {"yield", "sleep"},
      task1            |-> {"sleep", "yield", "block"},
      task2            |-> {"sleep", "yield"},
      task3            |-> {"sleep", "yield"} ]

ASSUME SlotsAssumption == MAX_TASKS \in Nat /\ MAX_TASKS >= 2 /\ NULL \notin Slots

ASSUME WorkloadAssumption ==
    /\ MaxLocks \in Nat
    /\ {"kernel_main", "kernel_idle_task"} \subseteq DOMAIN Body
    /\ \A e \in DOMAIN Body : Body[e] \subseteq Calls
    /\ Body["kernel_idle_task"] = {}
    /\ Startup \in Seq(DOMAIN Body)
    /\ NULL \notin DOMAIN Body

VARIABLES
    used,               \* the slots of tasks[] in use
    g_num_tasks,
    entrypoint,         \* slot -> entry point of its TCB
    state,              \* slot -> TCB state
    next,               \* slot -> TCB next pointer
    g_first_ready,
    g_last_ready,
    current_task_TCB,
    task_switches_postponed,
    postpone_task_switches_counter,
    IRQ_disable_counter,
    intsOn,             \* the CPU's interrupt flag
    pc,                 \* slot -> "run" | "unlock"
    created,            \* how many create_kernel_task calls kernel_main has made
    blocked             \* history: tasks that blocked and were not unblocked since

tasks == <<used, g_num_tasks, entrypoint, created>>
list == <<state, next, g_first_ready, g_last_ready, current_task_TCB>>
locks == <<task_switches_postponed, postpone_task_switches_counter>>
irqs == <<IRQ_disable_counter, intsOn>>
vars == <<tasks, list, locks, irqs, pc, blocked>>

-----------------------------------------------------------------------------
\* Multitasking_Init, after HAL_Init left interrupts on: kernel_main runs in
\* slot 0 and create_kernel_task(kernel_idle_task) was called on an empty list.
Init ==
    /\ used = {main, idle_task}
    /\ g_num_tasks = 2
    /\ entrypoint = [t \in Slots |-> CASE t = main -> "kernel_main"
                                       [] t = idle_task -> "kernel_idle_task"
                                       [] OTHER -> NULL]
    /\ state = [t \in Slots |-> IF t = idle_task THEN READY_TO_RUN ELSE RUNNING]
    /\ next = [t \in Slots |-> NULL]
    /\ g_first_ready = idle_task
    /\ g_last_ready = idle_task
    /\ current_task_TCB = main
    /\ task_switches_postponed = FALSE
    /\ postpone_task_switches_counter = 0
    /\ IRQ_disable_counter = 0
    /\ intsOn = TRUE
    /\ pc = [t \in Slots |-> "run"]
    /\ created = 0
    /\ blocked = {}

-----------------------------------------------------------------------------
FirstFreeSlot == CHOOSE t \in Slots \ used : \A u \in Slots \ used : t <= u

MarkUsed_Forgotten(t) == UNCHANGED used
MarkUsed(t) == used' = used \cup {t}

TableFull == g_num_tasks >= MAX_TASKS \/ used = Slots

NoSlotLeft_Counted ==
    /\ TableFull
    /\ g_num_tasks' = g_num_tasks + 1
    /\ UNCHANGED <<used, entrypoint, list>>
NoSlotLeft ==
    /\ TableFull
    /\ UNCHANGED <<used, g_num_tasks, entrypoint, list>>

\* create_kernel_task(e): a READY_TO_RUN TCB in the first free slot, appended
\* behind g_last_ready; NULL and no change when tasks[] is full.
create_kernel_task(e) ==
    \/ NoSlotLeft
    \/ /\ ~ TableFull
       /\ LET t == FirstFreeSlot IN
          /\ MarkUsed(t)
          /\ g_num_tasks' = g_num_tasks + 1
          /\ entrypoint' = [entrypoint EXCEPT ![t] = e]
          /\ state' = [state EXCEPT ![t] = READY_TO_RUN]
          /\ next' = [u \in Slots |-> IF u = t THEN NULL
                                      ELSE IF u = g_last_ready THEN t ELSE next[u]]
          /\ g_first_ready' = IF g_last_ready = NULL THEN t ELSE g_first_ready
          /\ g_last_ready' = t
          /\ UNCHANGED current_task_TCB

-----------------------------------------------------------------------------
\* switch_to_task puts the previous task back only if it was RUNNING.
PutsBack_Always(st) == TRUE
PutsBack_Never(st) == FALSE
PutsBack(st) == st[current_task_TCB] = RUNNING

\* switch_to_task(t) from .continue on, when the caller has already stored
\* the TCB states st, the next pointers nx and the list head first: the
\* previous task goes behind g_last_ready (or becomes the list when
\* g_last_ready is NULL), and t becomes the current, RUNNING task.
SwitchTo(t, st, nx, first) ==
    LET cur == current_task_TCB
    IN  /\ state' = [u \in Slots |-> IF u = t THEN RUNNING
                                     ELSE IF u = cur /\ PutsBack(st) THEN READY_TO_RUN
                                     ELSE st[u]]
        /\ next' = [u \in Slots |-> IF PutsBack(st) /\ u = cur THEN NULL
                                    ELSE IF PutsBack(st) /\ u = g_last_ready THEN cur
                                    ELSE nx[u]]
        /\ g_first_ready' = IF PutsBack(st) /\ g_last_ready = NULL THEN cur ELSE first
        /\ g_last_ready' = IF PutsBack(st) THEN cur ELSE g_last_ready
        /\ current_task_TCB' = t

\* The call leaves the current task on the CPU.
StayOn(st, first) ==
    /\ state' = st
    /\ g_first_ready' = first
    /\ UNCHANGED <<next, g_last_ready, current_task_TCB>>

\* The idle task heads the list and another task is behind it: run that one,
\* and leave the idle task at the head.
SkipIdle_NotRelinked(st) ==
    /\ next[idle_task] # NULL
    /\ SwitchTo(next[idle_task], st, next, idle_task)
SkipIdle(st) ==
    /\ next[idle_task] # NULL
    /\ LET task == next[idle_task] IN
       SwitchTo(task, st, [next EXCEPT ![idle_task] = next[task]], idle_task)

\* Schedule() past its postponed-switch check: take the head of the list.
\* When that is the idle task with nothing behind it, keep a RUNNING current
\* task on the CPU, else run the idle task.
Dispatch(st) ==
    \/ /\ g_first_ready = NULL
       /\ StayOn(st, NULL)
    \/ /\ g_first_ready \notin {NULL, idle_task}
       /\ SwitchTo(g_first_ready, st, next, next[g_first_ready])
    \/ /\ g_first_ready = idle_task
       /\ SkipIdle(st)
    \/ /\ g_first_ready = idle_task
       /\ next[idle_task] = NULL
       /\ st[current_task_TCB] = RUNNING
       /\ StayOn(st, NULL)
    \/ /\ g_first_ready = idle_task
       /\ next[idle_task] = NULL
       /\ st[current_task_TCB] # RUNNING
       /\ SwitchTo(idle_task, st, next, NULL)

\* Schedule(), called with the TCB states st: while a lock is held it only
\* sets task_switches_postponed.
Schedule_Unchecked(st) ==
    /\ Dispatch(st)
    /\ UNCHANGED task_switches_postponed
Schedule(st) ==
    \/ /\ postpone_task_switches_counter > 0
       /\ task_switches_postponed' = TRUE
       /\ StayOn(st, g_first_ready)
    \/ /\ postpone_task_switches_counter = 0
       /\ UNCHANGED task_switches_postponed
       /\ Dispatch(st)

\* lock_scheduler(): cli, and one more piece of code wants IRQs off.  The
\* matching unlock_scheduler() is still to be done when the caller resumes.
lock_scheduler_Uncounted ==
    /\ intsOn' = FALSE
    /\ pc' = [pc EXCEPT ![current_task_TCB] = "unlock"]
    /\ UNCHANGED IRQ_disable_counter
lock_scheduler ==
    /\ intsOn' = FALSE
    /\ IRQ_disable_counter' = IRQ_disable_counter + 1
    /\ pc' = [pc EXCEPT ![current_task_TCB] = "unlock"]

-----------------------------------------------------------------------------
\* The task on the CPU is in its own code and its body makes this call;
\* kernel_main creates every task before it enters its loop.
CanCall(call) ==
    /\ pc[current_task_TCB] = "run"
    /\ call \in Body[entrypoint[current_task_TCB]]
    /\ current_task_TCB = main => created = Len(Startup)

\* kernel_main: create_kernel_task(Startup[created + 1]), result unused.
Create ==
    /\ current_task_TCB = main
    /\ created < Len(Startup)
    /\ create_kernel_task(Startup[created + 1])
    /\ created' = created + 1
    /\ UNCHANGED <<locks, irqs, pc, blocked>>

\* kernel_main's loop: Schedule() with no lock around it.
BareSchedule ==
    /\ CanCall("schedule")
    /\ Schedule(state)
    /\ UNCHANGED <<tasks, postpone_task_switches_counter, irqs, pc, blocked>>

\* lock_scheduler(); Schedule(); -- up to the switch.
Yield ==
    /\ CanCall("yield")
    /\ lock_scheduler
    /\ Schedule(state)
    /\ UNCHANGED <<tasks, postpone_task_switches_counter, blocked>>

\* block_task(PAUSED), up to the switch.
block_task ==
    /\ CanCall("block")
    /\ lock_scheduler
    /\ Schedule([state EXCEPT ![current_task_TCB] = PAUSED])
    /\ blocked' = blocked \cup {current_task_TCB}
    /\ UNCHANGED <<tasks, postpone_task_switches_counter>>

\* switch_to_task(t) as unblock_task calls it: postponed while a lock is held.
SwitchToUnblocked(t) ==
    \/ /\ postpone_task_switches_counter = 0
       /\ SwitchTo(t, state, next, g_first_ready)
       /\ UNCHANGED task_switches_postponed
    \/ /\ postpone_task_switches_counter > 0
       /\ task_switches_postponed' = TRUE
       /\ UNCHANGED list

AppendUnblocked_NotLast(t) ==
    /\ next' = [next EXCEPT ![g_last_ready] = t]
    /\ UNCHANGED <<g_last_ready, state, g_first_ready, current_task_TCB>>
AppendUnblocked(t) ==
    /\ next' = [next EXCEPT ![g_last_ready] = t]
    /\ g_last_ready' = t
    /\ UNCHANGED <<state, g_first_ready, current_task_TCB>>

\* unblock_task(t) of a task that blocked and was not unblocked since: switch
\* to it at once when the list is empty or the idle task runs, else append it.
\* Its state stays PAUSED and its next pointer what it was when it blocked.
unblock_task(t) ==
    /\ CanCall("unblock")
    /\ t # current_task_TCB
    /\ lock_scheduler
    /\ \/ /\ g_first_ready = NULL \/ current_task_TCB = idle_task
          /\ SwitchToUnblocked(t)
       \/ /\ ~ (g_first_ready = NULL \/ current_task_TCB = idle_task)
          /\ AppendUnblocked(t)
          /\ UNCHANGED task_switches_postponed
    /\ blocked' = blocked \ {t}
    /\ UNCHANGED <<tasks, postpone_task_switches_counter>>

acquire_lock ==
    /\ CanCall("acquire")
    /\ postpone_task_switches_counter < MaxLocks
    /\ intsOn' = FALSE
    /\ IRQ_disable_counter' = IRQ_disable_counter + 1
    /\ postpone_task_switches_counter' = postpone_task_switches_counter + 1
    /\ UNCHANGED <<tasks, list, task_switches_postponed, pc, blocked>>

\* The last lock is released and a switch was postponed.
RunPostponed_NoSchedule ==
    /\ postpone_task_switches_counter = 1 /\ task_switches_postponed
    /\ task_switches_postponed' = FALSE
    /\ UNCHANGED list
RunPostponed_FlagKept ==
    /\ postpone_task_switches_counter = 1 /\ task_switches_postponed
    /\ Dispatch(state)
    /\ UNCHANGED task_switches_postponed
RunPostponed ==
    /\ postpone_task_switches_counter = 1 /\ task_switches_postponed
    /\ task_switches_postponed' = FALSE
    /\ Dispatch(state)

\* release_lock, up to the IRQ_disable_counter-- that every resumed caller
\* shares: the last lock released carries out a postponed switch.
release_lock ==
    /\ CanCall("acquire")
    /\ postpone_task_switches_counter > 0
    /\ postpone_task_switches_counter' = postpone_task_switches_counter - 1
    /\ \/ RunPostponed
       \/ /\ ~ (postpone_task_switches_counter = 1 /\ task_switches_postponed)
          /\ UNCHANGED <<list, task_switches_postponed>>
    /\ pc' = [pc EXCEPT ![current_task_TCB] = "unlock"]
    /\ UNCHANGED <<tasks, irqs, blocked>>

\* unlock_scheduler(), and the same two lines at the end of release_lock,
\* run by the task that is (again) on the CPU.
unlock_scheduler_AlwaysSti ==
    /\ pc[current_task_TCB] = "unlock"
    /\ IRQ_disable_counter' = IRQ_disable_counter - 1
    /\ intsOn' = TRUE
    /\ pc' = [pc EXCEPT ![current_task_TCB] = "run"]
    /\ UNCHANGED <<tasks, list, locks, blocked>>
unlock_scheduler ==
    /\ pc[current_task_TCB] = "unlock"
    /\ IRQ_disable_counter' = IRQ_disable_counter - 1
    /\ intsOn' = (intsOn \/ IRQ_disable_counter' = 0)
    /\ pc' = [pc EXCEPT ![current_task_TCB] = "run"]
    /\ UNCHANGED <<tasks, list, locks, blocked>>

\* sleep(): sti, whatever IRQ_disable_counter says, then hlt until enough
\* PIT ticks have passed; no task can run meanwhile.
Sleep ==
    /\ CanCall("sleep")
    /\ intsOn' = TRUE
    /\ UNCHANGED <<tasks, list, locks, IRQ_disable_counter, pc, blocked>>

Next ==
    \/ Create
    \/ BareSchedule
    \/ Yield
    \/ block_task
    \/ \E t \in blocked : unblock_task(t)
    \/ acquire_lock
    \/ release_lock
    \/ unlock_scheduler
    \/ Sleep

Spec == Init /\ [][Next]_vars

\* A task that has the CPU gets on with its code: it finishes the call it is
\* in, its endless loop comes round to its next yield, and a lock it took is
\* released.  SF for the last two, because the loop makes other calls between.
Fairness ==
    /\ WF_vars(Create)
    /\ WF_vars(unlock_scheduler)
    /\ SF_vars(BareSchedule \/ Yield \/ block_task)
    /\ SF_vars(release_lock)

FairSpec == Spec /\ Fairness

-----------------------------------------------------------------------------
(* Properties *)

\* Every variable keeps its type.
TypeOK ==
    /\ used \subseteq Slots /\ {main, idle_task} \subseteq used
    /\ g_num_tasks \in 2 .. MAX_TASKS
    /\ entrypoint \in [Slots -> DOMAIN Body \cup {NULL}]
    /\ state \in [Slots -> {RUNNING, READY_TO_RUN, PAUSED}]
    /\ next \in [Slots -> Pointers]
    /\ g_first_ready \in Pointers
    /\ g_last_ready \in Slots
    /\ current_task_TCB \in Slots
    /\ task_switches_postponed \in BOOLEAN
    /\ postpone_task_switches_counter \in 0 .. MaxLocks
    /\ IRQ_disable_counter \in Int
    /\ intsOn \in BOOLEAN
    /\ pc \in [Slots -> {"run", "unlock"}]
    /\ created \in 0 .. Len(Startup)
    /\ blocked \subseteq used

\* However the calls interleave, no pointer of the scheduler ever leads to a
\* slot without a task (whose esp would be zero), and a task in use always has
\* the entry point it was created with.
PointersToTasks ==
    /\ current_task_TCB \in used
    /\ {g_first_ready, g_last_ready} \subseteq used \cup {NULL}
    /\ \A t \in Slots : next[t] \in used \cup {NULL}
    /\ \A t \in used : entrypoint[t] # NULL

\* Only the task whose stack the CPU is on is marked RUNNING, across every
\* switch, postponed switch and failed block.
OneRunning == \A t \in used : state[t] = RUNNING => t = current_task_TCB

\* The calls under way: the tasks switched away inside a locked call, and the
\* one on the CPU that has yet to unlock.
InsideCall == {t \in Slots : pc[t] = "unlock"}

\* IRQ_disable_counter is exactly "how many pieces of code want IRQs disabled"
\* (sched.c:9): one per call under way, whichever task made it and however
\* many switches ago, and one per lock held.
IrqBalance ==
    IRQ_disable_counter = Cardinality(InsideCall) + postpone_task_switches_counter

\* "decrements IRQ_disable_counter and, if it equals 0, enables IRQs"
\* (sched.c:153): as long as no task sleeps, IRQs are on exactly when no code
\* wants them off, across switches that carry the flag from task to task.
IrqsFollowCounter == intsOn <=> IRQ_disable_counter = 0

\* A postponed switch is remembered only while a lock is held: releasing the
\* last lock always carries it out (release_lock).
PostponedOnlyWhileHeld == task_switches_postponed => postpone_task_switches_counter > 0

\* No call changes the current task while a lock is held before and after it
\* (the postponed-switch checks of Schedule and switch_to_task).
NoSwitchWhileLocked ==
    [][postpone_task_switches_counter > 0 /\ postpone_task_switches_counter' > 0
       => current_task_TCB' = current_task_TCB]_vars

\* A task that blocked does not get the CPU again until it is unblocked.
NoResumeOfBlocked ==
    [][current_task_TCB' # current_task_TCB => current_task_TCB' \notin blocked]_vars

Ready == {t \in used : state[t] = READY_TO_RUN}

\* The tasks that should get the CPU: unblock_task leaves the state PAUSED.
Waiting ==
    Ready \cup {t \in used : state[t] = PAUSED /\ t # current_task_TCB /\ t \notin blocked}

\* q lists the waiting tasks once each, along the next pointers, from
\* g_first_ready to g_last_ready, the idle task first.  Nothing is said of the
\* last one's next: unblock_task leaves a stale pointer there.
IsReadyList(n, q) ==
    /\ q[1] = g_first_ready /\ g_first_ready = idle_task
    /\ q[n] = g_last_ready
    /\ \A i \in 1 .. n - 1 : next[q[i]] = q[i + 1]
    /\ \A i, j \in 1 .. n : q[i] = q[j] => i = j
    /\ \A t \in Waiting : \E i \in 1 .. n : q[i] = t

\* The pointer chain holds exactly the tasks that wait for the CPU: none is
\* dropped behind a popped g_last_ready, duplicated, or resurrected through a
\* stale next.
ReadyListOK == \E n \in 1 .. MAX_TASKS : \E q \in [1 .. n -> Waiting] : IsReadyList(n, q)

\* The workloads the scheduler serves: kernel_main and two more of the tasks
\* that fit in tasks[] never block, so that two of the three are always on the
\* ready list and its last element is never popped.
NeverBlocks(e) == "block" \notin Body[e]
HealthyWorkload ==
    /\ NeverBlocks("kernel_main")
    /\ \E i, j \in 1 .. Len(Startup) :
          /\ i # j /\ i + 1 < MAX_TASKS /\ j + 1 < MAX_TASKS
          /\ NeverBlocks(Startup[i]) /\ NeverBlocks(Startup[j])

\* Every task that is ready to run can be reached from the list that Schedule
\* picks from: a task switched away while RUNNING is marked "as ready to run
\* instead" and appended to the ready list (sched.asm:55).
Reachable ==
    LET walk[n \in 0 .. MAX_TASKS, p \in Pointers] ==
            IF n = 0 \/ p = NULL THEN {} ELSE {p} \cup walk[n - 1, next[p]]
    IN  walk[MAX_TASKS, g_first_ready]

\* (see Reachable)
ReadyTasksListed == Ready \ {idle_task} \subseteq Reachable

\* The task that gives up the CPU does so with IRQs off, also when it releases a lock
\* long after it was asked to ("Caller is expected to disable IRQs before calling",
\* sched.asm:24); all but kernel_main, whose loop calls Schedule() bare (main.c:135).
SwitchWithIrqsOff ==
    [][current_task_TCB' # current_task_TCB /\ current_task_TCB # main => ~ intsOn']_vars

\* The chain from each pointer on, one link longer than rest has it: it ends
\* with last, and the idle task is left out.
Longer(nx, last, rest) ==
    [p \in Pointers |->
        IF p = NULL THEN <<>>
        ELSE (IF p = idle_task THEN <<>> ELSE <<p>>)
             \o (IF p = last THEN <<>> ELSE rest[nx[p]])]

\* The chain along nx as a sequence, without the idle task.
QueueOf(nx, first, last) ==
    LET walk[n \in 0 .. MAX_TASKS] ==
            IF n = 0 THEN [p \in Pointers |-> <<>>] ELSE Longer(nx, last, walk[n - 1])
    IN  walk[MAX_TASKS][first]

ReadyQueue == QueueOf(next, g_first_ready, g_last_ready)

RR == INSTANCE RoundRobin
        WITH Task <- Slots, First <- main,
             running <- current_task_TCB, queue <- ReadyQueue, parked <- blocked

\* The pointer-level scheduler is a round-robin scheduler.
RoundRobinScheduling == RR!Spec

\* Every task that waits for the CPU gets it.
EveryReadyTaskRuns ==
    \A t \in Slots \ {idle_task} : (t \in Waiting) ~> (current_task_TCB = t)
=============================================================================
