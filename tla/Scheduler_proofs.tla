-------------------------- MODULE Scheduler_proofs --------------------------
(***************************************************************************)
(* Theorems about Scheduler for every number of slots, every list of tasks *)
(* kernel_main creates and every task body.                                *)
(***************************************************************************)
EXTENDS Scheduler, FiniteSetTheorems, TLAPS

States == {RUNNING, READY_TO_RUN, PAUSED}

-----------------------------------------------------------------------------
(* The scheduler's data never breaks: types, pointers, the RUNNING mark.   *)

\* The slots in use are the first g_num_tasks ones: no task ever ends.
Dense == used = 0 .. g_num_tasks - 1

\* A dense table with room for one more has its first free slot right behind.
LEMMA FirstFreeSlotIsNext ==
    ASSUME g_num_tasks \in 2 .. MAX_TASKS, Dense, ~ TableFull
    PROVE  FirstFreeSlot = g_num_tasks /\ g_num_tasks \in Slots /\ g_num_tasks < MAX_TASKS
<1>1. g_num_tasks < MAX_TASKS /\ g_num_tasks \in Slots
  BY SlotsAssumption DEF TableFull, Slots
<1>2. \A t \in Slots : t \in used <=> t < g_num_tasks
  BY DEF Dense, Slots
<1>3. g_num_tasks \in Slots \ used /\ \A u \in Slots \ used : g_num_tasks <= u
  BY <1>1, <1>2 DEF Slots
<1>4. \A t \in Slots \ used : (\A u \in Slots \ used : t <= u) => t = g_num_tasks
  BY <1>1, <1>3 DEF Slots
<1>5. FirstFreeSlot = g_num_tasks
  BY <1>3, <1>4 DEF FirstFreeSlot
<1> QED BY <1>1, <1>5

\* What every call keeps of the ready list and the tasks: the part of TypeOK,
\* PointersToTasks and OneRunning that a switch can disturb.
ListInv ==
    /\ state \in [Slots -> States]
    /\ next \in [Slots -> used \cup {NULL}]
    /\ g_first_ready \in used \cup {NULL}
    /\ g_last_ready \in used
    /\ current_task_TCB \in used
    /\ OneRunning

\* The parts of TypeOK that no switch touches.
FrameInv ==
    /\ used \subseteq Slots /\ {main, idle_task} \subseteq used
    /\ g_num_tasks \in 2 .. MAX_TASKS
    /\ Dense
    /\ entrypoint \in [Slots -> DOMAIN Body \cup {NULL}]
    /\ \A t \in used : entrypoint[t] # NULL
    /\ task_switches_postponed \in BOOLEAN
    /\ postpone_task_switches_counter \in 0 .. MaxLocks
    /\ IRQ_disable_counter \in Int
    /\ intsOn \in BOOLEAN
    /\ pc \in [Slots -> {"run", "unlock"}]
    /\ created \in 0 .. Len(Startup)
    /\ blocked \subseteq used

DataInv == ListInv /\ FrameInv

\* The TCB states a call hands to Schedule.
GoodStates(st) ==
    /\ st \in [Slots -> States]
    /\ \A t \in used : st[t] = RUNNING => t = current_task_TCB

LEMMA SwitchToKeeps ==
    ASSUME DataInv, used' = used,
           NEW t \in used, NEW st, GoodStates(st),
           NEW nx \in [Slots -> used \cup {NULL}], NEW first \in used \cup {NULL},
           SwitchTo(t, st, nx, first)
    PROVE  ListInv'
<1> USE DEF DataInv, ListInv, FrameInv, GoodStates
<1>1. state' \in [Slots -> States]
  BY DEF SwitchTo, States
<1>2. next' \in [Slots -> used' \cup {NULL}]
  BY DEF SwitchTo
<1>3. /\ g_first_ready' \in used' \cup {NULL}
      /\ g_last_ready' \in used'
      /\ current_task_TCB' \in used'
  BY DEF SwitchTo
<1>4. OneRunning'
  <2> SUFFICES ASSUME NEW u \in used, state'[u] = RUNNING, u # t
               PROVE  FALSE
    BY DEF OneRunning, SwitchTo
  <2>1. u \in Slots
    OBVIOUS
  <2>2. CASE u = current_task_TCB /\ PutsBack(st)
    BY <2>1, <2>2 DEF SwitchTo, RUNNING, READY_TO_RUN
  <2>3. CASE u = current_task_TCB /\ ~ PutsBack(st)
    BY <2>1, <2>3 DEF SwitchTo, PutsBack
  <2>4. CASE u # current_task_TCB
    BY <2>1, <2>4 DEF SwitchTo
  <2> QED BY <2>2, <2>3, <2>4
<1> QED BY <1>1, <1>2, <1>3, <1>4

LEMMA StayOnKeeps ==
    ASSUME DataInv, used' = used, NEW st, GoodStates(st),
           NEW first \in used \cup {NULL}, StayOn(st, first)
    PROVE  ListInv'
  BY DEF DataInv, ListInv, FrameInv, GoodStates, StayOn, OneRunning

LEMMA DispatchKeeps ==
    ASSUME DataInv, used' = used, NEW st, GoodStates(st), Dispatch(st)
    PROVE  ListInv'
<1> USE DEF DataInv, ListInv, FrameInv
<1>1. CASE g_first_ready = NULL /\ StayOn(st, NULL)
  BY <1>1, StayOnKeeps
<1>2. CASE /\ g_first_ready \notin {NULL, idle_task}
           /\ SwitchTo(g_first_ready, st, next, next[g_first_ready])
  <2>1. g_first_ready \in used /\ next[g_first_ready] \in used \cup {NULL}
    BY <1>2
  <2> QED BY <1>2, <2>1, SwitchToKeeps
<1>3. CASE g_first_ready = idle_task /\ SkipIdle(st)
  <2> DEFINE task == next[idle_task]
             nx == [next EXCEPT ![idle_task] = next[task]]
  <2>1. task \in used /\ nx \in [Slots -> used \cup {NULL}]
    BY <1>3 DEF SkipIdle
  <2>2. SwitchTo(task, st, nx, idle_task)
    BY <1>3 DEF SkipIdle
  <2> QED BY <2>1, <2>2, SwitchToKeeps
<1>4. CASE StayOn(st, NULL)
  BY <1>4, StayOnKeeps
<1>5. CASE SwitchTo(idle_task, st, next, NULL)
  BY <1>5, SwitchToKeeps
<1> QED BY <1>1, <1>2, <1>3, <1>4, <1>5 DEF Dispatch

LEMMA ScheduleKeeps ==
    ASSUME DataInv, used' = used, NEW st, GoodStates(st), Schedule(st)
    PROVE  ListInv' /\ task_switches_postponed' \in BOOLEAN
<1>1. CASE task_switches_postponed' = TRUE /\ StayOn(st, g_first_ready)
  <2>1. g_first_ready \in used \cup {NULL}
    BY DEF DataInv, ListInv
  <2> QED BY <1>1, <2>1, StayOnKeeps
<1>2. CASE UNCHANGED task_switches_postponed /\ Dispatch(st)
  BY <1>2, DispatchKeeps DEF DataInv, FrameInv
<1> QED BY <1>1, <1>2 DEF Schedule

LEMMA StateIsGood ==
    ASSUME DataInv PROVE GoodStates(state)
  BY DEF DataInv, ListInv, GoodStates, OneRunning

LEMMA CreateKeeps ==
    ASSUME DataInv, Create
    PROVE  DataInv'
<1> USE DEF DataInv
<1>1. CASE NoSlotLeft
  BY <1>1 DEF Create, NoSlotLeft, list, locks, irqs, ListInv, FrameInv, OneRunning, Dense
<1>2. CASE ~ TableFull
  <2> DEFINE t == g_num_tasks
  <2>1. FirstFreeSlot = t /\ t \in Slots /\ t < MAX_TASKS
    BY <1>2, FirstFreeSlotIsNext DEF FrameInv
  <2>2. t \in Nat /\ t \notin used /\ t # main /\ t # current_task_TCB
    BY DEF FrameInv, ListInv, Dense, main
  <2>3. /\ used' = used \cup {t}
        /\ g_num_tasks' = t + 1
        /\ entrypoint' = [entrypoint EXCEPT ![t] = Startup[created + 1]]
        /\ state' = [state EXCEPT ![t] = READY_TO_RUN]
        /\ next' = [u \in Slots |-> IF u = t THEN NULL
                                    ELSE IF u = g_last_ready THEN t ELSE next[u]]
        /\ g_first_ready' = IF g_last_ready = NULL THEN t ELSE g_first_ready
        /\ g_last_ready' = t
        /\ created < Len(Startup) /\ created' = created + 1
        /\ UNCHANGED <<current_task_TCB, locks, irqs, pc, blocked>>
    BY <1>2, <2>1 DEF Create, create_kernel_task, NoSlotLeft, MarkUsed
  <2> HIDE DEF t
  <2>4. ListInv'
    <3>1. used \subseteq Slots
      BY DEF FrameInv
    <3>2. OneRunning'
      BY <2>1, <2>2, <2>3, <3>1 DEF OneRunning, ListInv, RUNNING, READY_TO_RUN
    <3> QED BY <2>1, <2>2, <2>3, <3>1, <3>2 DEF ListInv, States
  <2>5. Startup[created + 1] \in DOMAIN Body
    BY <2>3, WorkloadAssumption DEF FrameInv
  <2>6. Dense' /\ g_num_tasks' \in 2 .. MAX_TASKS
    BY <2>1, <2>2, <2>3, SlotsAssumption DEF FrameInv, Dense, t
  <2>7. entrypoint' \in [Slots -> DOMAIN Body \cup {NULL}] /\ \A u \in used' : entrypoint'[u] # NULL
    BY <2>1, <2>3, <2>5, WorkloadAssumption DEF FrameInv
  <2>8. created' \in 0 .. Len(Startup)
    BY <2>3, WorkloadAssumption DEF FrameInv
  <2> QED BY <2>1, <2>3, <2>4, <2>6, <2>7, <2>8 DEF FrameInv, locks, irqs
<1> QED BY <1>1, <1>2 DEF Create, create_kernel_task

\* The task on the CPU belongs to the table, and to the function's domain.
LEMMA CurrentIsSlot ==
    ASSUME DataInv
    PROVE  current_task_TCB \in Slots /\ current_task_TCB \in used
  BY DEF DataInv, ListInv, FrameInv

LEMMA LockKeeps ==
    ASSUME DataInv, lock_scheduler
    PROVE  /\ IRQ_disable_counter' \in Int
           /\ intsOn' \in BOOLEAN
           /\ pc' \in [Slots -> {"run", "unlock"}]
<1>1. IRQ_disable_counter' \in Int
  BY DEF DataInv, FrameInv, lock_scheduler
<1>2. intsOn' \in BOOLEAN
  BY DEF lock_scheduler
<1>3. pc' \in [Slots -> {"run", "unlock"}]
  BY CurrentIsSlot DEF DataInv, FrameInv, lock_scheduler
<1> QED BY <1>1, <1>2, <1>3

LEMMA DataInvInit == Init => DataInv
<1> SUFFICES ASSUME Init PROVE DataInv
  OBVIOUS
<1>1. main \in Slots /\ idle_task \in Slots /\ main # idle_task /\ main # NULL
  BY SlotsAssumption DEF Slots, main, idle_task
<1>2. ListInv
  <2>1. state \in [Slots -> States] /\ next \in [Slots -> used \cup {NULL}]
    BY DEF Init, States
  <2>2. OneRunning
    BY <1>1 DEF Init, OneRunning, RUNNING, READY_TO_RUN
  <2> QED BY <1>1, <2>1, <2>2 DEF Init, ListInv
<1>3. Dense
  BY DEF Init, Dense, main, idle_task
<1>4. entrypoint \in [Slots -> DOMAIN Body \cup {NULL}] /\ \A t \in used : entrypoint[t] # NULL
  BY <1>1, WorkloadAssumption DEF Init
<1>5. g_num_tasks \in 2 .. MAX_TASKS /\ created \in 0 .. Len(Startup)
  BY SlotsAssumption, WorkloadAssumption DEF Init
<1>6. /\ postpone_task_switches_counter \in 0 .. MaxLocks
      /\ IRQ_disable_counter \in Int
  BY WorkloadAssumption DEF Init
<1>7. pc \in [Slots -> {"run", "unlock"}]
  BY DEF Init
<1> QED BY <1>1, <1>2, <1>3, <1>4, <1>5, <1>6, <1>7 DEF Init, DataInv, FrameInv

LEMMA DataInvNext == DataInv /\ [Next]_vars => DataInv'
<1> SUFFICES ASSUME DataInv, [Next]_vars PROVE DataInv'
  OBVIOUS
<1> USE CurrentIsSlot, StateIsGood DEF tasks, locks, irqs
<1>1. CASE Create
  BY <1>1, CreateKeeps
<1>2. CASE BareSchedule
  <2>1. ListInv' /\ task_switches_postponed' \in BOOLEAN
    BY <1>2, ScheduleKeeps DEF BareSchedule
  <2> QED BY <1>2, <2>1 DEF BareSchedule, DataInv, FrameInv, Dense
<1>3. CASE Yield
  <2>1. ListInv' /\ task_switches_postponed' \in BOOLEAN
    BY <1>3, ScheduleKeeps DEF Yield
  <2> QED BY <1>3, <2>1, LockKeeps DEF Yield, DataInv, FrameInv, Dense
<1>4. CASE block_task
  <2> DEFINE st == [state EXCEPT ![current_task_TCB] = PAUSED]
  <2>1. GoodStates(st)
    BY DEF GoodStates, States, PAUSED, RUNNING
  <2>2. ListInv' /\ task_switches_postponed' \in BOOLEAN
    BY <1>4, <2>1, ScheduleKeeps DEF block_task
  <2> QED BY <1>4, <2>2, LockKeeps DEF block_task, DataInv, FrameInv, Dense
<1>5. ASSUME NEW t \in blocked, unblock_task(t) PROVE DataInv'
  <2>0. t \in used
    BY DEF DataInv, FrameInv
  <2>1. CASE SwitchToUnblocked(t)
    <3>1. ListInv' /\ task_switches_postponed' \in BOOLEAN
      <4>1. CASE SwitchTo(t, state, next, g_first_ready) /\ UNCHANGED task_switches_postponed
        BY <1>5, <2>0, <4>1, SwitchToKeeps DEF unblock_task, DataInv, ListInv, FrameInv
      <4>2. CASE task_switches_postponed' = TRUE /\ UNCHANGED list
        BY <1>5, <4>2 DEF unblock_task, DataInv, ListInv, list, OneRunning
      <4> QED BY <2>1, <4>1, <4>2 DEF SwitchToUnblocked
    <3> QED BY <1>5, <3>1, LockKeeps DEF unblock_task, DataInv, FrameInv, Dense
  <2>2. CASE AppendUnblocked(t) /\ UNCHANGED task_switches_postponed
    <3>1. ListInv'
      BY <1>5, <2>0, <2>2 DEF unblock_task, AppendUnblocked, DataInv, ListInv, OneRunning
    <3> QED BY <1>5, <2>2, <3>1, LockKeeps DEF unblock_task, DataInv, FrameInv, Dense
  <2> QED BY <1>5, <2>1, <2>2 DEF unblock_task
<1>6. CASE acquire_lock
  <2>1. ListInv'
    BY <1>6 DEF acquire_lock, list, DataInv, ListInv, OneRunning
  <2>2. postpone_task_switches_counter' \in 0 .. MaxLocks /\ IRQ_disable_counter' \in Int
    BY <1>6, WorkloadAssumption DEF acquire_lock, DataInv, FrameInv
  <2> QED BY <1>6, <2>1, <2>2 DEF acquire_lock, DataInv, FrameInv, Dense
<1>7. CASE release_lock
  <2>1. ListInv' /\ task_switches_postponed' \in BOOLEAN
    <3>1. CASE RunPostponed
      BY <1>7, <3>1, DispatchKeeps DEF release_lock, RunPostponed
    <3>2. CASE UNCHANGED <<list, task_switches_postponed>>
      BY <1>7, <3>2 DEF release_lock, list, DataInv, ListInv, FrameInv, OneRunning
    <3> QED BY <1>7, <3>1, <3>2 DEF release_lock
  <2>2. postpone_task_switches_counter' \in 0 .. MaxLocks
    BY <1>7, WorkloadAssumption DEF release_lock, DataInv, FrameInv
  <2>3. pc' \in [Slots -> {"run", "unlock"}]
    BY <1>7 DEF release_lock, DataInv, FrameInv
  <2> QED BY <1>7, <2>1, <2>2, <2>3 DEF release_lock, DataInv, FrameInv, Dense
<1>8. CASE unlock_scheduler
  BY <1>8 DEF unlock_scheduler, list, DataInv, ListInv, FrameInv, OneRunning, Dense
<1>9. CASE Sleep
  BY <1>9 DEF Sleep, list, DataInv, ListInv, FrameInv, OneRunning, Dense
<1>10. CASE UNCHANGED vars
  BY <1>10 DEF vars, list, DataInv, ListInv, FrameInv, OneRunning, Dense
<1> QED BY <1>1, <1>2, <1>3, <1>4, <1>5, <1>6, <1>7, <1>8, <1>9, <1>10 DEF Next

LEMMA DataInvAlways == Spec => []DataInv
  BY DataInvInit, DataInvNext, PTL DEF Spec

\* Every variable keeps its type.
THEOREM TypeCorrect == Spec => []TypeOK
<1>1. DataInv => TypeOK
  BY DEF DataInv, ListInv, FrameInv, TypeOK, States, Pointers
<1> QED BY <1>1, DataInvAlways, PTL

\* However the calls of the tasks interleave, the scheduler's pointers lead to
\* tasks that were created, never to an empty slot.
THEOREM PointersStayValid == Spec => []PointersToTasks
<1>1. DataInv => PointersToTasks
  BY DEF DataInv, ListInv, FrameInv, PointersToTasks
<1> QED BY <1>1, DataInvAlways, PTL

\* Only the task on the CPU is marked RUNNING.
THEOREM OnlyCurrentRuns == Spec => []OneRunning
<1>1. DataInv => OneRunning
  BY DEF DataInv, ListInv
<1> QED BY <1>1, DataInvAlways, PTL

-----------------------------------------------------------------------------
(* The two counters and the interrupt flag.                                *)

LEMMA InsideCallFinite ==
    ASSUME DataInv
    PROVE  IsFiniteSet(InsideCall) /\ Cardinality(InsideCall) \in Nat
<1>1. IsFiniteSet(Slots)
  BY FS_Interval, SlotsAssumption DEF Slots
<1>2. InsideCall \subseteq Slots
  BY DEF InsideCall
<1> QED BY <1>1, <1>2, FS_Subset, FS_CardinalityType

\* Entering a call adds the current task to those inside one.
LEMMA EnterCall ==
    ASSUME DataInv, pc[current_task_TCB] = "run",
           pc' = [pc EXCEPT ![current_task_TCB] = "unlock"]
    PROVE  Cardinality(InsideCall') = Cardinality(InsideCall) + 1
<1>1. InsideCall' = InsideCall \cup {current_task_TCB} /\ current_task_TCB \notin InsideCall
  BY CurrentIsSlot DEF InsideCall, DataInv, FrameInv
<1> QED BY <1>1, InsideCallFinite, FS_AddElement

LEMMA LeaveCall ==
    ASSUME DataInv, pc[current_task_TCB] = "unlock",
           pc' = [pc EXCEPT ![current_task_TCB] = "run"]
    PROVE  Cardinality(InsideCall') = Cardinality(InsideCall) - 1
<1>1. InsideCall' = InsideCall \ {current_task_TCB} /\ current_task_TCB \in InsideCall
  BY CurrentIsSlot DEF InsideCall, DataInv, FrameInv
<1> QED BY <1>1, InsideCallFinite, FS_RemoveElement

LEMMA IrqBalanceInit == Init => IrqBalance
<1> SUFFICES ASSUME Init PROVE IrqBalance
  OBVIOUS
<1>1. InsideCall = {}
  BY DEF Init, InsideCall
<1> QED BY <1>1, FS_EmptySet DEF Init, IrqBalance

LEMMA IrqBalanceNext == DataInv /\ IrqBalance /\ [Next]_vars => IrqBalance'
<1> SUFFICES ASSUME DataInv, IrqBalance, [Next]_vars PROVE IrqBalance'
  OBVIOUS
<1>0. /\ IRQ_disable_counter \in Int /\ postpone_task_switches_counter \in Int
      /\ Cardinality(InsideCall) \in Nat
  BY InsideCallFinite DEF DataInv, FrameInv
<1>1. ASSUME pc[current_task_TCB] = "run", lock_scheduler, UNCHANGED postpone_task_switches_counter
      PROVE  IrqBalance'
  BY <1>0, <1>1, EnterCall DEF lock_scheduler, IrqBalance
<1>2. ASSUME UNCHANGED <<pc, IRQ_disable_counter, postpone_task_switches_counter>>
      PROVE  IrqBalance'
  BY <1>2 DEF IrqBalance, InsideCall
<1>3. CASE Create \/ BareSchedule \/ Sleep \/ UNCHANGED vars
  BY <1>2, <1>3 DEF Create, BareSchedule, Sleep, vars, locks, irqs
<1>4. CASE Yield \/ block_task \/ \E t \in blocked : unblock_task(t)
  BY <1>1, <1>4 DEF Yield, block_task, unblock_task, CanCall
<1>5. CASE acquire_lock
  BY <1>0, <1>5 DEF acquire_lock, IrqBalance, InsideCall
<1>6. CASE release_lock
  BY <1>0, <1>6, EnterCall DEF release_lock, CanCall, irqs, IrqBalance
<1>7. CASE unlock_scheduler
  BY <1>0, <1>7, LeaveCall DEF unlock_scheduler, locks, IrqBalance
<1> QED BY <1>3, <1>4, <1>5, <1>6, <1>7 DEF Next

LEMMA BalanceAlways == Spec => [](DataInv /\ IrqBalance)
  BY DataInvInit, DataInvNext, IrqBalanceInit, IrqBalanceNext, PTL DEF Spec

\* IRQ_disable_counter always is the number of calls under way in all tasks
\* together plus the number of locks held.
THEOREM IrqCounterBalanced == Spec => []IrqBalance
  BY BalanceAlways, PTL

\* A switch is remembered as postponed only while a lock is held.
THEOREM NoForgottenSwitch == Spec => []PostponedOnlyWhileHeld
<1>1. Init => PostponedOnlyWhileHeld
  BY DEF Init, PostponedOnlyWhileHeld
<1>2. DataInv /\ PostponedOnlyWhileHeld /\ [Next]_vars => PostponedOnlyWhileHeld'
  <2> SUFFICES ASSUME DataInv, PostponedOnlyWhileHeld, [Next]_vars
               PROVE  PostponedOnlyWhileHeld'
    OBVIOUS
  <2>0. postpone_task_switches_counter \in Nat /\ task_switches_postponed \in BOOLEAN
    BY WorkloadAssumption DEF DataInv, FrameInv
  <2> USE <2>0 DEF PostponedOnlyWhileHeld
  <2>1. ASSUME NEW st, Schedule(st), UNCHANGED postpone_task_switches_counter
        PROVE  PostponedOnlyWhileHeld'
    BY <2>1 DEF Schedule
  <2>2. CASE Create \/ unlock_scheduler \/ Sleep \/ UNCHANGED vars
    BY <2>2 DEF Create, unlock_scheduler, Sleep, vars, locks
  <2>3. CASE BareSchedule \/ Yield \/ block_task
    BY <2>1, <2>3 DEF BareSchedule, Yield, block_task
  <2>4. CASE \E t \in blocked : unblock_task(t)
    BY <2>4 DEF unblock_task, SwitchToUnblocked
  <2>5. CASE acquire_lock
    BY <2>5 DEF acquire_lock
  <2>6. CASE release_lock
    <3>1. CASE task_switches_postponed' = FALSE
      BY <3>1
    <3>2. CASE /\ ~ (postpone_task_switches_counter = 1 /\ task_switches_postponed)
               /\ UNCHANGED task_switches_postponed
               /\ postpone_task_switches_counter' = postpone_task_switches_counter - 1
      BY <3>2
    <3> QED BY <2>6, <3>1, <3>2 DEF release_lock, RunPostponed
  <2> QED BY <2>2, <2>3, <2>4, <2>5, <2>6 DEF Next
<1> QED BY <1>1, <1>2, DataInvAlways, PTL DEF Spec

\* No switch while a lock is held.
THEOREM LockedMeansNoSwitch == Spec => NoSwitchWhileLocked
<1> DEFINE NoSwitch == postpone_task_switches_counter > 0 /\ postpone_task_switches_counter' > 0
                       => current_task_TCB' = current_task_TCB
<1>1. DataInv /\ [Next]_vars => NoSwitch
  <2> SUFFICES ASSUME DataInv, [Next]_vars, postpone_task_switches_counter > 0,
                      postpone_task_switches_counter' > 0
               PROVE  current_task_TCB' = current_task_TCB
    OBVIOUS
  <2>0. postpone_task_switches_counter \in Nat /\ postpone_task_switches_counter # 0
    BY WorkloadAssumption DEF DataInv, FrameInv
  <2>1. ASSUME NEW st, Schedule(st) PROVE UNCHANGED current_task_TCB
    BY <2>0, <2>1 DEF Schedule, StayOn
  <2>2. CASE Create \/ unlock_scheduler \/ Sleep \/ UNCHANGED vars \/ acquire_lock
    BY <2>2 DEF Create, create_kernel_task, NoSlotLeft, unlock_scheduler, Sleep, acquire_lock,
                vars, list
  <2>3. CASE BareSchedule \/ Yield \/ block_task
    BY <2>1, <2>3 DEF BareSchedule, Yield, block_task
  <2>4. CASE \E t \in blocked : unblock_task(t)
    BY <2>0, <2>4 DEF unblock_task, SwitchToUnblocked, AppendUnblocked, list
  <2>5. CASE release_lock
    BY <2>0, <2>5 DEF release_lock, RunPostponed, list
  <2> QED BY <2>2, <2>3, <2>4, <2>5 DEF Next
<1> QED BY <1>1, DataInvAlways, PTL DEF Spec, NoSwitchWhileLocked

\* In a workload that does not sleep, IRQs are on exactly when nobody wants
\* them off.  sleep() turns them on behind the counter's back.
NeverSleeps == \A e \in DOMAIN Body : "sleep" \notin Body[e]

THEOREM IrqFlagFollowsCounter == NeverSleeps => (Spec => []IrqsFollowCounter)
<1> SUFFICES ASSUME NeverSleeps PROVE Spec => []IrqsFollowCounter
  OBVIOUS
<1>1. Init => IrqsFollowCounter
  BY DEF Init, IrqsFollowCounter
<1>2. DataInv /\ IrqBalance /\ IrqsFollowCounter /\ [Next]_vars => IrqsFollowCounter'
  <2> SUFFICES ASSUME DataInv, IrqBalance, IrqsFollowCounter, [Next]_vars
               PROVE  IrqsFollowCounter'
    OBVIOUS
  <2>0. /\ IRQ_disable_counter \in Nat /\ postpone_task_switches_counter \in Nat
        /\ Cardinality(InsideCall) \in Nat /\ intsOn \in BOOLEAN
    BY InsideCallFinite, WorkloadAssumption DEF DataInv, FrameInv, IrqBalance
  <2>1. ASSUME intsOn' = FALSE, IRQ_disable_counter' = IRQ_disable_counter + 1
        PROVE  IrqsFollowCounter'
    BY <2>0, <2>1 DEF IrqsFollowCounter
  <2>2. CASE Create \/ BareSchedule \/ release_lock \/ UNCHANGED vars
    BY <2>2 DEF Create, BareSchedule, release_lock, vars, irqs, IrqsFollowCounter
  <2>3. CASE Yield \/ block_task \/ acquire_lock \/ \E t \in blocked : unblock_task(t)
    BY <2>1, <2>3 DEF Yield, block_task, acquire_lock, unblock_task, lock_scheduler
  <2>4. CASE unlock_scheduler
    <3>1. current_task_TCB \in InsideCall
      BY <2>4, CurrentIsSlot DEF unlock_scheduler, InsideCall
    <3>2. Cardinality(InsideCall) # 0
      BY <3>1, InsideCallFinite, FS_EmptySet
    <3>3. IRQ_disable_counter # 0 /\ ~ intsOn
      BY <2>0, <3>2 DEF IrqBalance, IrqsFollowCounter
    <3> QED BY <2>4, <3>3 DEF unlock_scheduler, IrqsFollowCounter
  <2>5. ~ Sleep
    <3>1. entrypoint[current_task_TCB] \in DOMAIN Body
      BY CurrentIsSlot DEF DataInv, FrameInv
    <3> QED BY <3>1 DEF Sleep, CanCall, NeverSleeps
  <2> QED BY <2>2, <2>3, <2>4, <2>5 DEF Next
<1> QED BY <1>1, <1>2, BalanceAlways, PTL DEF Spec

\* Schedule() is called bare by kernel_main alone, which runs in slot 0 alone.
OnlyMainBare ==
    /\ \A e \in DOMAIN Body : "schedule" \in Body[e] => e = "kernel_main"
    /\ \A i \in 1 .. Len(Startup) : Startup[i] # "kernel_main"

OneKernelMain == \A t \in Slots : entrypoint[t] = "kernel_main" => t = main

LEMMA OneKernelMainAlways == OnlyMainBare => (Spec => []OneKernelMain)
<1> SUFFICES ASSUME OnlyMainBare PROVE Spec => []OneKernelMain
  OBVIOUS
<1>1. Init => OneKernelMain
  BY WorkloadAssumption DEF Init, OneKernelMain
<1>2. DataInv /\ OneKernelMain /\ [Next]_vars => OneKernelMain'
  <2> SUFFICES ASSUME DataInv, OneKernelMain, [Next]_vars PROVE OneKernelMain'
    OBVIOUS
  <2>1. ASSUME UNCHANGED entrypoint PROVE OneKernelMain'
    BY <2>1 DEF OneKernelMain
  <2>2. CASE Create
    <3>1. CASE NoSlotLeft
      BY <2>1, <3>1 DEF NoSlotLeft
    <3>2. CASE ~ TableFull
      <4>1. created + 1 \in 1 .. Len(Startup)
        BY <2>2, WorkloadAssumption DEF Create, DataInv, FrameInv
      <4>2. entrypoint' = [entrypoint EXCEPT ![FirstFreeSlot] = Startup[created + 1]]
        BY <2>2, <3>2 DEF Create, create_kernel_task, NoSlotLeft
      <4>3. FirstFreeSlot \in Slots /\ entrypoint \in [Slots -> DOMAIN Body \cup {NULL}]
        BY <3>2, FirstFreeSlotIsNext DEF DataInv, FrameInv
      <4> QED BY <4>1, <4>2, <4>3 DEF OnlyMainBare, OneKernelMain
    <3> QED BY <2>2, <3>1, <3>2 DEF Create, create_kernel_task
  <2>3. CASE BareSchedule \/ Yield \/ block_task \/ \E t \in blocked : unblock_task(t)
    BY <2>1, <2>3 DEF BareSchedule, Yield, block_task, unblock_task, tasks
  <2>4. CASE acquire_lock \/ release_lock \/ unlock_scheduler \/ Sleep \/ UNCHANGED vars
    BY <2>1, <2>4 DEF acquire_lock, release_lock, unlock_scheduler, Sleep, vars, tasks
  <2> QED BY <2>2, <2>3, <2>4 DEF Next
<1> QED BY <1>1, <1>2, DataInvAlways, PTL DEF Spec

\* In a workload that does not sleep, a task other than kernel_main gives up
\* the CPU with IRQs off, also when the last release carries out a switch that
\* was postponed any number of calls ago.
THEOREM SwitchesWithIrqsOff == NeverSleeps /\ OnlyMainBare => (Spec => SwitchWithIrqsOff)
<1> SUFFICES ASSUME NeverSleeps, OnlyMainBare PROVE Spec => SwitchWithIrqsOff
  OBVIOUS
<1> DEFINE Off == current_task_TCB' # current_task_TCB /\ current_task_TCB # main => ~ intsOn'
<1>1. DataInv /\ IrqBalance /\ IrqsFollowCounter /\ OneKernelMain /\ [Next]_vars => Off
  <2> SUFFICES ASSUME DataInv, IrqBalance, IrqsFollowCounter, OneKernelMain, [Next]_vars,
                      current_task_TCB' # current_task_TCB, current_task_TCB # main
               PROVE  ~ intsOn'
    OBVIOUS
  <2>1. CASE Create \/ acquire_lock \/ unlock_scheduler \/ Sleep \/ UNCHANGED vars
    BY <2>1 DEF Create, create_kernel_task, NoSlotLeft, acquire_lock, unlock_scheduler, Sleep,
                vars, list
  <2>2. ~ BareSchedule
    <3>1. /\ entrypoint[current_task_TCB] \in DOMAIN Body
          /\ entrypoint[current_task_TCB] # "kernel_main"
      BY CurrentIsSlot DEF DataInv, FrameInv, OneKernelMain
    <3> QED BY <3>1 DEF BareSchedule, CanCall, OnlyMainBare
  <2>3. CASE Yield \/ block_task \/ \E t \in blocked : unblock_task(t)
    BY <2>3 DEF Yield, block_task, unblock_task, lock_scheduler
  <2>4. CASE release_lock
    <3>1. IRQ_disable_counter # 0
      BY <2>4, InsideCallFinite DEF release_lock, IrqBalance, DataInv, FrameInv
    <3> QED BY <2>4, <3>1 DEF release_lock, irqs, IrqsFollowCounter
  <2> QED BY <2>1, <2>2, <2>3, <2>4 DEF Next
<1>2. Spec => []IrqsFollowCounter
  BY IrqFlagFollowsCounter
<1>3. Spec => []OneKernelMain
  BY OneKernelMainAlways
<1> QED BY <1>1, <1>2, <1>3, BalanceAlways, PTL DEF Spec, SwitchWithIrqsOff
=============================================================================
