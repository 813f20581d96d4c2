-------------------------- MODULE ReadyList_proofs --------------------------
(***************************************************************************)
(* The ready list is right in every healthy workload: kernel_main and two  *)
(* more tasks never block.  Then two of the three always wait, the list    *)
(* never shrinks to the idle task and one more, and Schedule never pops    *)
(* the element g_last_ready points to.                                     *)
(***************************************************************************)
EXTENDS Scheduler_proofs

-----------------------------------------------------------------------------
(* Chains of next pointers, as functions from positions.                   *)

\* q lists S along nx, from first to last.
Chain(n, q, S, nx, first, last) ==
    /\ n \in Nat \ {0}
    /\ q \in [1 .. n -> S]
    /\ q[1] = first /\ q[n] = last
    /\ \A i \in 1 .. n - 1 : nx[q[i]] = q[i + 1]
    /\ \A i, j \in 1 .. n : q[i] = q[j] => i = j
    /\ \A t \in S : \E i \in 1 .. n : q[i] = t

Appended(n, q, t) == [i \in 1 .. n + 1 |-> IF i = n + 1 THEN t ELSE q[i]]

\* Appending behind last: what create_kernel_task and unblock_task do.
LEMMA AppendChain ==
    ASSUME NEW n, NEW q, NEW S, NEW nx, NEW first, NEW last, NEW t, NEW nx2,
           Chain(n, q, S, nx, first, last), t \notin S, nx2[last] = t,
           \A u \in S : u # last => nx2[u] = nx[u]
    PROVE  Chain(n + 1, Appended(n, q, t), S \cup {t}, nx2, first, t)
<1> DEFINE p == Appended(n, q, t)
<1> USE DEF Chain, Appended
<1>1. p \in [1 .. n + 1 -> S \cup {t}] /\ p[1] = first /\ p[n + 1] = t
  OBVIOUS
<1>2. ASSUME NEW i \in 1 .. n PROVE nx2[p[i]] = p[i + 1]
  <2>1. CASE i = n
    BY <2>1
  <2>2. CASE i # n
    <3>1. i \in 1 .. n - 1 /\ q[i] # last /\ q[i] \in S
      BY <2>2
    <3> QED BY <3>1
  <2> QED BY <2>1, <2>2
<1>3. \A i, j \in 1 .. n + 1 : p[i] = p[j] => i = j
  OBVIOUS
<1>4. \A u \in S \cup {t} : \E i \in 1 .. n + 1 : p[i] = u
  <2> SUFFICES ASSUME NEW u \in S \cup {t} PROVE \E i \in 1 .. n + 1 : p[i] = u
    OBVIOUS
  <2>1. CASE u = t
    BY <1>1, <2>1
  <2>2. CASE u \in S
    <3>1. PICK i \in 1 .. n : q[i] = u
      BY <2>2
    <3> QED BY <3>1
  <2> QED BY <2>1, <2>2
<1>5. n + 1 \in Nat \ {0} /\ (n + 1) - 1 = n
  OBVIOUS
<1> HIDE DEF p
<1>6. Chain(n + 1, p, S \cup {t}, nx2, first, t)
  <2> HIDE DEF Chain, Appended
  <2>1. n + 1 \in Nat \ {0} /\ \A i \in 1 .. (n + 1) - 1 : nx2[p[i]] = p[i + 1]
    BY <1>2, <1>5
  <2> QED BY <1>1, <1>3, <1>4, <2>1 DEF Chain
<1> HIDE DEF Chain, Appended
<1> QED BY <1>6 DEF p

\* The pointer of first goes past x, the others stay.
Relinked(x, S, nx, nx2, first, last) ==
    /\ nx2[first] = nx[x]
    /\ \A u \in S : u \notin {first, last} => nx2[u] = nx[u]

Skipped(n, q) == [i \in 1 .. n - 1 |-> IF i = 1 THEN q[1] ELSE q[i + 1]]

\* Taking the second element out: what Schedule does when it skips the idle
\* task at the head.
LEMMA SkipChain ==
    ASSUME NEW n, NEW q, NEW S, NEW nx, NEW first, NEW last, NEW nx2,
           Chain(n, q, S, nx, first, last), n >= 3,
           Relinked(q[2], S, nx, nx2, first, last)
    PROVE  Chain(n - 1, Skipped(n, q), S \ {q[2]}, nx2, first, last)
<1> DEFINE p == Skipped(n, q)
<1> USE DEF Chain, Relinked, Skipped
<1>0. n \in Nat /\ 1 \in 1 .. n /\ 2 \in 1 .. n /\ 3 \in 1 .. n /\ n \in 1 .. n
  OBVIOUS
<1>1. p \in [1 .. n - 1 -> S \ {q[2]}]
  <2> SUFFICES ASSUME NEW i \in 1 .. n - 1 PROVE p[i] \in S \ {q[2]}
    OBVIOUS
  <2>1. CASE i = 1
    BY <1>0, <2>1
  <2>2. CASE i # 1
    <3>1. i + 1 \in 1 .. n /\ i + 1 # 2
      BY <1>0, <2>2
    <3> QED BY <1>0, <2>2, <3>1
  <2> QED BY <2>1, <2>2
<1>2. p[1] = first /\ p[n - 1] = last
  BY <1>0
<1>3. ASSUME NEW i \in 1 .. (n - 1) - 1 PROVE nx2[p[i]] = p[i + 1]
  <2>1. CASE i = 1
    <3>1. nx[q[2]] = q[3]
      BY <1>0
    <3> QED BY <1>0, <2>1, <3>1
  <2>2. CASE i # 1
    <3>1. i + 1 \in 1 .. n - 1 /\ i + 1 # n /\ i + 1 # 1 /\ i + 1 \in 1 .. n
      BY <1>0, <2>2
    <3>2. q[i + 1] \notin {first, last} /\ q[i + 1] \in S
      BY <1>0, <3>1
    <3>3. nx2[q[i + 1]] = q[(i + 1) + 1]
      BY <3>1, <3>2
    <3> QED BY <1>0, <2>2, <3>3
  <2> QED BY <2>1, <2>2
<1>4. \A i, j \in 1 .. n - 1 : p[i] = p[j] => i = j
  <2> SUFFICES ASSUME NEW i \in 1 .. n - 1, NEW j \in 1 .. n - 1, p[i] = p[j] PROVE i = j
    OBVIOUS
  <2> DEFINE at(k) == IF k = 1 THEN 1 ELSE k + 1
  <2>1. at(i) \in 1 .. n /\ at(j) \in 1 .. n /\ p[i] = q[at(i)] /\ p[j] = q[at(j)]
    BY <1>0
  <2>2. at(i) = at(j)
    BY <2>1
  <2> QED BY <2>2
<1>5. \A u \in S \ {q[2]} : \E i \in 1 .. n - 1 : p[i] = u
  <2> SUFFICES ASSUME NEW u \in S \ {q[2]} PROVE \E i \in 1 .. n - 1 : p[i] = u
    OBVIOUS
  <2>1. PICK k \in 1 .. n : q[k] = u
    OBVIOUS
  <2>2. CASE k = 1
    BY <1>0, <2>1, <2>2
  <2>3. CASE k # 1
    <3>1. k - 1 \in 1 .. n - 1 /\ k - 1 # 1
      BY <2>1, <2>3, <1>0
    <3>2. p[k - 1] = u
      BY <2>1, <3>1, <1>0
    <3> QED BY <3>1, <3>2
  <2> QED BY <2>2, <2>3
<1>6. n - 1 \in Nat \ {0}
  BY <1>0
<1> HIDE DEF p
<1>7. Chain(n - 1, p, S \ {q[2]}, nx2, first, last)
  <2> HIDE DEF Chain, Skipped
  <2> QED BY <1>1, <1>2, <1>3, <1>4, <1>5, <1>6 DEF Chain
<1> HIDE DEF Chain, Skipped
<1> QED BY <1>7 DEF p

-----------------------------------------------------------------------------
(* The inductive invariant of healthy workloads.                           *)

\* Who is who: the tasks created so far, in the order of their slots.
TaskInv ==
    /\ entrypoint[main] = "kernel_main" /\ entrypoint[idle_task] = "kernel_idle_task"
    /\ \A k \in 1 .. created :
          k + 1 < MAX_TASKS => k + 1 \in used /\ entrypoint[k + 1] = Startup[k]
    /\ IF g_num_tasks = MAX_TASKS THEN MAX_TASKS <= created + 2 ELSE g_num_tasks = created + 2
    /\ created < Len(Startup) => current_task_TCB = main

\* The list, and how the TCB states relate to the tasks that blocked.
ListHealth ==
    /\ current_task_TCB # idle_task
    /\ state[current_task_TCB] \in {RUNNING, PAUSED}
    /\ state[current_task_TCB] = PAUSED => current_task_TCB \in blocked
    /\ \A t \in blocked : state[t] = PAUSED
    /\ \A t \in used : state[t] = PAUSED => ~ NeverBlocks(entrypoint[t])
    /\ g_first_ready = idle_task
    /\ \E n, q : Chain(n, q, Waiting, next, g_first_ready, g_last_ready)

\* Two of the three tasks that never block wait, behind the idle task.
LEMMA ListHasThree ==
    ASSUME HealthyWorkload, DataInv, TaskInv, ListHealth, created = Len(Startup),
           NEW n, NEW q, Chain(n, q, Waiting, next, g_first_ready, g_last_ready)
    PROVE  n >= 3
<1>1. PICK i, j \in 1 .. Len(Startup) :
          /\ i # j /\ i + 1 < MAX_TASKS /\ j + 1 < MAX_TASKS
          /\ NeverBlocks(Startup[i]) /\ NeverBlocks(Startup[j])
  BY DEF HealthyWorkload
<1> DEFINE a == i + 1
           b == j + 1
<1>2. a # b /\ {a, b} \cap {main, idle_task} = {} /\ main # idle_task
  BY <1>1 DEF main, idle_task
<1>3. /\ {main, a, b} \subseteq used
      /\ \A t \in {main, a, b} : NeverBlocks(entrypoint[t])
  BY <1>1 DEF TaskInv, DataInv, FrameInv, HealthyWorkload
<1> HIDE DEF a, b
<1>4. ASSUME NEW t \in {main, a, b}, t # current_task_TCB PROVE t \in Waiting
  <2>1. t \in used /\ t \in Slots /\ state[t] # PAUSED
    BY <1>3 DEF ListHealth, DataInv, FrameInv
  <2>2. state[t] # RUNNING
    BY <1>4, <2>1 DEF DataInv, ListInv, OneRunning
  <2>3. state[t] = READY_TO_RUN
    BY <2>1, <2>2 DEF DataInv, ListInv, States
  <2> QED BY <2>1, <2>3 DEF Waiting, Ready
<1>5. PICK x, y \in {main, a, b} : x # y /\ x \in Waiting /\ y \in Waiting
  BY <1>2, <1>4
<1>6. x # idle_task /\ y # idle_task
  BY <1>2
<1>7. PICK k, l \in 1 .. n : q[k] = x /\ q[l] = y
  BY <1>5 DEF Chain
<1>8. k # 1 /\ l # 1 /\ k # l
  BY <1>5, <1>6, <1>7 DEF Chain, ListHealth
<1> QED BY <1>7, <1>8 DEF Chain

\* A switch in a healthy workload: st is what the caller made of the TCB
\* states, and only a caller that blocks changes the current task's.  The
\* second of the list is next, and the current task goes behind the last.
LEMMA DispatchList ==
    ASSUME HealthyWorkload, DataInv, TaskInv, ListHealth, created = Len(Startup),
           UNCHANGED <<used, entrypoint>>,
           NEW st, st \in [Slots -> States],
           \A u \in Slots : u # current_task_TCB => st[u] = state[u],
           \/ st = state /\ blocked' = blocked
           \/ /\ st[current_task_TCB] = PAUSED
              /\ blocked' = blocked \cup {current_task_TCB}
              /\ ~ NeverBlocks(entrypoint[current_task_TCB]),
           Dispatch(st),
           NEW n, NEW q, Chain(n, q, Waiting, next, g_first_ready, g_last_ready)
    PROVE  /\ ListHealth'
           /\ n >= 3 /\ current_task_TCB' = q[2] /\ q[2] \notin blocked
           /\ g_first_ready' = idle_task
           /\ Waiting' \subseteq used
           /\ st[current_task_TCB] = RUNNING =>
                 Chain(n, Appended(n - 1, Skipped(n, q), current_task_TCB),
                       Waiting', next', idle_task, g_last_ready')
           /\ st[current_task_TCB] # RUNNING =>
                 Chain(n - 1, Skipped(n, q), Waiting', next', idle_task, g_last_ready')
<1> DEFINE cur == current_task_TCB
<1>1. Chain(n, q, Waiting, next, g_first_ready, g_last_ready)
  OBVIOUS
<1>2. n >= 3 /\ n \in Nat
  BY <1>1, ListHasThree DEF Chain
<1> DEFINE t == q[2]
<1>3. /\ 1 \in 1 .. n - 1 /\ 1 \in 1 .. n /\ 2 \in 1 .. n /\ n \in 1 .. n
      /\ g_first_ready = idle_task /\ q[1] = idle_task /\ q[n] = g_last_ready
  BY <1>1, <1>2 DEF Chain, ListHealth
<1>4. /\ next[idle_task] = t /\ t \in Waiting /\ t # idle_task
      /\ idle_task # g_last_ready /\ idle_task \in Waiting /\ g_last_ready \in Waiting
      /\ t # g_last_ready
  BY <1>1, <1>2, <1>3 DEF Chain
<1>5. /\ cur \in Slots /\ cur \in used /\ Waiting \subseteq used /\ used \subseteq Slots
      /\ cur \notin Waiting /\ NULL \notin Slots
  BY SlotsAssumption
     DEF DataInv, ListInv, FrameInv, ListHealth, Waiting, Ready, READY_TO_RUN, RUNNING, PAUSED
<1>6. t \notin blocked /\ t # cur
  BY <1>4, <1>5 DEF ListHealth, Waiting, Ready, READY_TO_RUN, PAUSED
<1> DEFINE nx == [next EXCEPT ![idle_task] = next[t]]
<1>7. SwitchTo(t, st, nx, idle_task)
  BY <1>3, <1>4, <1>5, SlotsAssumption DEF Dispatch, SkipIdle, idle_task
<1>8. /\ current_task_TCB' = t /\ g_first_ready' = idle_task
      /\ state' \in [Slots -> States]
      /\ state'[t] = RUNNING
      /\ \A u \in Slots : u # t /\ u # cur => state'[u] = state[u]
      /\ state'[cur] = IF st[cur] = RUNNING THEN READY_TO_RUN ELSE st[cur]
      /\ st[cur] \in {RUNNING, PAUSED}
  <2>1. g_last_ready # NULL
    BY <1>4, <1>5
  <2>2. current_task_TCB' = t /\ g_first_ready' = idle_task
    BY <1>7, <2>1 DEF SwitchTo
  <2>3. state' = [u \in Slots |-> IF u = t THEN RUNNING
                                  ELSE IF u = cur /\ st[cur] = RUNNING THEN READY_TO_RUN
                                  ELSE st[u]]
    BY <1>7 DEF SwitchTo, PutsBack
  <2>4. state' \in [Slots -> States] /\ t \in Slots
    BY <1>4, <1>5, <2>3 DEF States
  <2>5. st[cur] \in {RUNNING, PAUSED}
    BY DEF ListHealth
  <2> QED BY <1>5, <1>6, <2>2, <2>3, <2>4, <2>5
<1>9. /\ \A u \in Waiting : u \notin {idle_task, g_last_ready} => next'[u] = next[u]
      /\ next'[idle_task] = next[t]
      /\ st[cur] = RUNNING => next'[g_last_ready] = cur /\ g_last_ready' = cur
      /\ st[cur] # RUNNING => g_last_ready' = g_last_ready
  BY <1>4, <1>5, <1>7 DEF SwitchTo, PutsBack, DataInv, ListInv
<1> HIDE DEF cur, nx
<1>10. Chain(n - 1, Skipped(n, q), Waiting \ {q[2]}, next', idle_task, g_last_ready)
  <2>1. Chain(n, q, Waiting, next, idle_task, g_last_ready)
    BY <1>1, <1>3
  <2>2. next'[idle_task] = next[q[2]]
    BY <1>9
  <2>3. \A u \in Waiting : u \notin {idle_task, g_last_ready} => next'[u] = next[u]
    BY <1>9
  <2>4. Relinked(q[2], Waiting, next, next', idle_task, g_last_ready)
    BY <2>2, <2>3 DEF Relinked
  <2> QED BY <1>2, <2>1, <2>4, SkipChain
<1> HIDE DEF t
<1>11. ASSUME NEW u \in used, u # t, u # cur PROVE u \in Waiting' <=> u \in Waiting
  <2>1. u \in blocked' <=> u \in blocked
    BY <1>11 DEF cur
  <2> QED BY <1>5, <1>8, <1>11, <2>1 DEF Waiting, Ready, cur
<1>12. t \notin Waiting'
  BY <1>4, <1>5, <1>8 DEF Waiting, Ready, RUNNING, READY_TO_RUN, PAUSED
<1>16. Waiting' \subseteq used
  BY DEF Waiting, Ready
<1>13. ASSUME st[cur] = RUNNING
       PROVE  Chain(n, Appended(n - 1, Skipped(n, q), cur), Waiting', next', idle_task,
                    g_last_ready')
  <2>1. cur \in Waiting'
    BY <1>5, <1>8, <1>13 DEF Waiting, Ready
  <2>2. Waiting' = (Waiting \ {t}) \cup {cur}
    BY <1>4, <1>5, <1>6, <1>11, <1>12, <1>16, <2>1
  <2>3. Chain(n - 1 + 1, Appended(n - 1, Skipped(n, q), cur), (Waiting \ {q[2]}) \cup {cur},
              next', idle_task, cur)
    BY <1>5, <1>9, <1>10, <1>13, AppendChain
  <2>4. n - 1 + 1 = n
    BY <1>2
  <2> QED BY <1>9, <1>13, <2>2, <2>3, <2>4 DEF t
<1>17. ASSUME st[cur] # RUNNING
       PROVE  Chain(n - 1, Skipped(n, q), Waiting', next', idle_task, g_last_ready')
  <2>1. cur \notin Waiting'
    BY <1>5, <1>8, <1>17 DEF Waiting, Ready, READY_TO_RUN, PAUSED, RUNNING, ListHealth, cur
  <2>2. Waiting' = Waiting \ {t}
    BY <1>4, <1>5, <1>11, <1>12, <1>16, <2>1
  <2> QED BY <1>9, <1>10, <1>17, <2>2 DEF t
<1>14. \A u \in blocked' : state'[u] = PAUSED
  <2> SUFFICES ASSUME NEW u \in blocked' PROVE state'[u] = PAUSED
    OBVIOUS
  <2>1. u \in Slots /\ u # t
    BY <1>5, <1>6 DEF cur, DataInv, FrameInv
  <2>2. CASE u = cur
    BY <1>8, <2>2 DEF ListHealth, RUNNING, PAUSED, cur
  <2>3. CASE u # cur
    BY <1>8, <2>1, <2>3 DEF ListHealth, cur
  <2> QED BY <2>2, <2>3
<1>15. \A u \in used' : state'[u] = PAUSED => ~ NeverBlocks(entrypoint'[u])
  <2> SUFFICES ASSUME NEW u \in used, state'[u] = PAUSED PROVE ~ NeverBlocks(entrypoint[u])
    OBVIOUS
  <2>1. u # t
    BY <1>8 DEF RUNNING, PAUSED
  <2>2. CASE u = cur
    BY <1>5, <1>8, <2>2 DEF ListHealth, READY_TO_RUN, PAUSED, cur
  <2>3. CASE u # cur
    BY <1>5, <1>8, <2>1, <2>3 DEF ListHealth
  <2> QED BY <2>2, <2>3
<1>18. ListHealth'
  <2>1. \E p, f : Chain(p, f, Waiting', next', g_first_ready', g_last_ready')
    BY <1>8, <1>13, <1>17
  <2> QED BY <1>4, <1>5, <1>6, <1>8, <1>14, <1>15, <2>1 DEF ListHealth, RUNNING, PAUSED, t
<1> QED BY <1>2, <1>6, <1>8, <1>13, <1>16, <1>17, <1>18 DEF t, cur

LEMMA DispatchHealthy ==
    ASSUME HealthyWorkload, DataInv, TaskInv, ListHealth, created = Len(Startup),
           UNCHANGED <<used, entrypoint>>,
           NEW st, st \in [Slots -> States],
           \A u \in Slots : u # current_task_TCB => st[u] = state[u],
           \/ st = state /\ blocked' = blocked
           \/ /\ st[current_task_TCB] = PAUSED
              /\ blocked' = blocked \cup {current_task_TCB}
              /\ ~ NeverBlocks(entrypoint[current_task_TCB]),
           Dispatch(st)
    PROVE  ListHealth' /\ current_task_TCB' \notin blocked
<1>1. PICK n, q : Chain(n, q, Waiting, next, g_first_ready, g_last_ready)
  BY DEF ListHealth
<1> QED BY <1>1, DispatchList

\* A call that leaves the current task on the CPU, having marked it PAUSED or not.
LEMMA StayOnHealthy ==
    ASSUME DataInv, ListHealth, UNCHANGED <<used, entrypoint>>,
           NEW st, st \in [Slots -> States],
           \A u \in Slots : u # current_task_TCB => st[u] = state[u],
           \/ st = state /\ blocked' = blocked
           \/ /\ st[current_task_TCB] = PAUSED
              /\ blocked' = blocked \cup {current_task_TCB}
              /\ ~ NeverBlocks(entrypoint[current_task_TCB]),
           StayOn(st, g_first_ready)
    PROVE  ListHealth'
<1> DEFINE cur == current_task_TCB
<1>1. UNCHANGED <<next, g_first_ready, g_last_ready, current_task_TCB>> /\ state' = st
  BY DEF StayOn
<1>2. used \subseteq Slots /\ cur \in used /\ blocked \subseteq used
  BY DEF DataInv, ListInv, FrameInv
<1>3. st[cur] \in {RUNNING, PAUSED} /\ (st[cur] = PAUSED => cur \in blocked')
  BY <1>2 DEF ListHealth
<1>4. Waiting' = Waiting
  <2>1. ASSUME NEW u \in used PROVE u \in Waiting' <=> u \in Waiting
    <3>1. CASE u = cur
      BY <1>1, <1>3, <3>1 DEF Waiting, Ready, ListHealth, RUNNING, READY_TO_RUN, PAUSED
    <3>2. CASE u # cur
      BY <1>1, <1>2, <3>2 DEF Waiting, Ready
    <3> QED BY <3>1, <3>2
  <2>2. Waiting \subseteq used /\ Waiting' \subseteq used
    BY DEF Waiting, Ready
  <2> QED BY <2>1, <2>2
<1>5. \A t \in blocked' : state'[t] = PAUSED
  BY <1>1, <1>2 DEF ListHealth
<1>6. \A t \in used' : state'[t] = PAUSED => ~ NeverBlocks(entrypoint'[t])
  BY <1>1, <1>2 DEF ListHealth
<1> QED BY <1>1, <1>3, <1>4, <1>5, <1>6 DEF ListHealth

LEMMA ScheduleHealthy ==
    ASSUME HealthyWorkload, DataInv, TaskInv, ListHealth, created = Len(Startup),
           UNCHANGED <<used, entrypoint>>,
           NEW st, st \in [Slots -> States],
           \A u \in Slots : u # current_task_TCB => st[u] = state[u],
           \/ st = state /\ blocked' = blocked
           \/ /\ st[current_task_TCB] = PAUSED
              /\ blocked' = blocked \cup {current_task_TCB}
              /\ ~ NeverBlocks(entrypoint[current_task_TCB]),
           Schedule(st)
    PROVE  /\ ListHealth'
           /\ current_task_TCB' # current_task_TCB => current_task_TCB' \notin blocked
<1>1. CASE StayOn(st, g_first_ready)
  BY <1>1, StayOnHealthy DEF StayOn
<1>2. CASE Dispatch(st)
  BY <1>2, DispatchHealthy
<1> QED BY <1>1, <1>2 DEF Schedule

\* Nothing the list depends on changes.
LEMMA ListUnchanged ==
    ASSUME ListHealth, UNCHANGED <<used, entrypoint, list, blocked>>
    PROVE  ListHealth'
<1>1. Waiting' = Waiting
  BY DEF Waiting, Ready, list
<1> QED BY <1>1 DEF ListHealth, list

HealthyInv == DataInv /\ TaskInv /\ ListHealth

\* Only a task that is done creating makes calls.
LEMMA CallerHasCreated ==
    ASSUME DataInv, TaskInv, NEW c, CanCall(c)
    PROVE  created = Len(Startup)
  BY WorkloadAssumption DEF CanCall, TaskInv, DataInv, FrameInv

LEMMA HealthyInit == Init => HealthyInv
<1> SUFFICES ASSUME Init PROVE HealthyInv
  OBVIOUS
<1>1. main \in Slots /\ idle_task \in Slots /\ main # idle_task
  BY SlotsAssumption DEF Slots, main, idle_task
<1>2. TaskInv
  BY <1>1, SlotsAssumption, WorkloadAssumption DEF Init, TaskInv
<1>3. Waiting = {idle_task}
  BY <1>1 DEF Init, Waiting, Ready, RUNNING, READY_TO_RUN, PAUSED
<1>4. Chain(1, [i \in 1 .. 1 |-> idle_task], {idle_task}, next, idle_task, idle_task)
  BY DEF Chain
<1>5. ListHealth
  BY <1>1, <1>3, <1>4 DEF Init, ListHealth, RUNNING, READY_TO_RUN, PAUSED
<1> QED BY <1>2, <1>5, DataInvInit DEF HealthyInv

LEMMA CreateHealthy ==
    ASSUME DataInv, TaskInv, ListHealth, Create
    PROVE  TaskInv' /\ ListHealth'
<1>0. created < Len(Startup) /\ created' = created + 1 /\ created \in Nat /\ Len(Startup) \in Nat
      /\ UNCHANGED blocked
  BY WorkloadAssumption DEF Create, DataInv, FrameInv
<1>1. CASE NoSlotLeft
  <2>1. g_num_tasks = MAX_TASKS
    BY <1>1, SlotsAssumption DEF NoSlotLeft, TableFull, DataInv, FrameInv, Dense, Slots
  <2>2. UNCHANGED <<used, g_num_tasks, entrypoint, list>>
    BY <1>1 DEF NoSlotLeft
  <2>3. TaskInv'
    BY <1>0, <2>1, <2>2, SlotsAssumption DEF TaskInv, list
  <2> QED BY <1>0, <2>2, <2>3, ListUnchanged
<1>2. CASE ~ TableFull
  <2> DEFINE t == g_num_tasks
  <2>1. FirstFreeSlot = t /\ t \in Slots /\ t < MAX_TASKS
    BY <1>2, FirstFreeSlotIsNext DEF DataInv, FrameInv
  <2>2. /\ used' = used \cup {t}
        /\ g_num_tasks' = t + 1
        /\ entrypoint' = [entrypoint EXCEPT ![t] = Startup[created + 1]]
        /\ state' = [state EXCEPT ![t] = READY_TO_RUN]
        /\ next' = [u \in Slots |-> IF u = t THEN NULL
                                    ELSE IF u = g_last_ready THEN t ELSE next[u]]
        /\ g_first_ready' = IF g_last_ready = NULL THEN t ELSE g_first_ready
        /\ g_last_ready' = t
        /\ UNCHANGED <<current_task_TCB, blocked>>
    BY <1>2, <2>1 DEF Create, create_kernel_task, NoSlotLeft, MarkUsed
  <2>3. /\ t \in Nat /\ t \notin used /\ t # main /\ t # idle_task /\ used \subseteq Slots
        /\ g_last_ready \in used /\ NULL \notin used /\ main \in used /\ idle_task \in used
        /\ current_task_TCB \in used /\ blocked \subseteq used
    BY SlotsAssumption DEF DataInv, FrameInv, ListInv, Dense, main, idle_task
  <2>4. TaskInv'
    <3>1. t = created + 2
      BY <2>1, <2>3, SlotsAssumption DEF TaskInv
    <3>2. entrypoint'[main] = "kernel_main" /\ entrypoint'[idle_task] = "kernel_idle_task"
      BY <2>2, <2>3 DEF TaskInv
    <3>3. ASSUME NEW k \in 1 .. created', k + 1 < MAX_TASKS
          PROVE  k + 1 \in used' /\ entrypoint'[k + 1] = Startup[k]
      <4>1. CASE k = created + 1
        BY <2>1, <2>2, <2>3, <3>1, <4>1 DEF DataInv, FrameInv
      <4>2. CASE k # created + 1
        <5>1. k \in 1 .. created
          BY <1>0, <4>2
        <5> QED BY <2>2, <2>3, <3>3, <5>1 DEF TaskInv, DataInv, FrameInv
      <4> QED BY <4>1, <4>2
    <3>4. current_task_TCB' = main
      BY <2>2 DEF Create
    <3> QED BY <1>0, <2>1, <2>2, <3>1, <3>2, <3>3, <3>4, SlotsAssumption DEF TaskInv
  <2> HIDE DEF t
  <2>5. Waiting' = Waiting \cup {t}
    <3>1. ASSUME NEW u \in used PROVE u \in Waiting' <=> u \in Waiting
      BY <2>2, <2>3 DEF Waiting, Ready, DataInv, ListInv
    <3>2. t \in Waiting'
      BY <2>1, <2>2 DEF Waiting, Ready, DataInv, ListInv
    <3>3. Waiting \subseteq used /\ Waiting' \subseteq used \cup {t}
      BY <2>2 DEF Waiting, Ready
    <3> QED BY <3>1, <3>2, <3>3
  <2>6. PICK n, q : Chain(n, q, Waiting, next, g_first_ready, g_last_ready)
    BY DEF ListHealth
  <2>7. Waiting \subseteq used
    BY DEF Waiting, Ready
  <2>8. next'[g_last_ready] = t /\ \A u \in Waiting : u # g_last_ready => next'[u] = next[u]
    BY <2>2, <2>3, <2>7
  <2>9. \E m, r : Chain(m, r, Waiting \cup {t}, next', g_first_ready, t)
    BY <2>3, <2>6, <2>7, <2>8, AppendChain
  <2>10. \E m, r : Chain(m, r, Waiting', next', g_first_ready', g_last_ready')
    BY <2>2, <2>3, <2>5, <2>9
  <2>11. \A u \in used' : state'[u] = PAUSED => ~ NeverBlocks(entrypoint'[u])
    BY <2>1, <2>2, <2>3 DEF ListHealth, DataInv, ListInv, FrameInv, READY_TO_RUN, PAUSED
  <2>12. \A u \in blocked' : state'[u] = PAUSED
    BY <2>2, <2>3 DEF ListHealth, DataInv, ListInv
  <2>13. state'[current_task_TCB'] = state[current_task_TCB]
    BY <2>2, <2>3 DEF DataInv, ListInv
  <2> QED BY <2>2, <2>3, <2>4, <2>10, <2>11, <2>12, <2>13 DEF ListHealth
<1> QED BY <1>1, <1>2 DEF Create, create_kernel_task

\* unblock_task appends the task and leaves its state PAUSED.
LEMMA UnblockHealthy ==
    ASSUME DataInv, ListHealth, NEW t \in blocked, unblock_task(t)
    PROVE  ListHealth' /\ UNCHANGED current_task_TCB
<1>1. /\ AppendUnblocked(t) /\ blocked' = blocked \ {t} /\ t # current_task_TCB
      /\ UNCHANGED <<used, entrypoint>>
  BY SlotsAssumption
     DEF unblock_task, tasks, ListHealth, DataInv, FrameInv, idle_task
<1>2. /\ t \in used /\ used \subseteq Slots /\ g_last_ready \in used /\ current_task_TCB \in used
      /\ state[t] = PAUSED
  BY DEF DataInv, ListInv, FrameInv, ListHealth
<1>3. t \notin Waiting /\ Waiting \subseteq used
  BY <1>2 DEF Waiting, Ready, READY_TO_RUN, PAUSED
<1>4. Waiting' = Waiting \cup {t}
  <2>1. ASSUME NEW u \in used, u # t PROVE u \in Waiting' <=> u \in Waiting
    BY <1>1, <2>1 DEF AppendUnblocked, Waiting, Ready
  <2>2. t \in Waiting'
    BY <1>1, <1>2 DEF AppendUnblocked, Waiting
  <2>3. Waiting' \subseteq used
    BY <1>1 DEF Waiting, Ready
  <2> QED BY <1>3, <2>1, <2>2, <2>3
<1>5. /\ next'[g_last_ready] = t
      /\ \A u \in Waiting : u # g_last_ready => next'[u] = next[u]
  BY <1>1, <1>2, <1>3 DEF AppendUnblocked, DataInv, ListInv
<1>6. PICK n, q : Chain(n, q, Waiting, next, g_first_ready, g_last_ready)
  BY DEF ListHealth
<1>7. \E m, r : Chain(m, r, Waiting \cup {t}, next', g_first_ready, t)
  BY <1>3, <1>5, <1>6, AppendChain
<1>8. \E m, r : Chain(m, r, Waiting', next', g_first_ready', g_last_ready')
  BY <1>1, <1>4, <1>7 DEF AppendUnblocked
<1> QED BY <1>1, <1>8 DEF ListHealth, AppendUnblocked

\* Every step keeps the invariant, and gives the CPU to no blocked task.
LEMMA HealthyNext ==
    ASSUME HealthyWorkload, HealthyInv, [Next]_vars
    PROVE  /\ HealthyInv'
           /\ current_task_TCB' # current_task_TCB => current_task_TCB' \notin blocked
<1>0. DataInv /\ TaskInv /\ ListHealth /\ DataInv'
  BY DataInvNext DEF HealthyInv
<1>1. ASSUME UNCHANGED tasks, created = Len(Startup) PROVE TaskInv'
  BY <1>0, <1>1 DEF TaskInv, tasks
<1> DEFINE Good == /\ ListHealth'
                   /\ current_task_TCB' # current_task_TCB => current_task_TCB' \notin blocked
<1>2. \A c : CanCall(c) => created = Len(Startup)
  BY <1>0, CallerHasCreated
<1>3. CASE Create
  <2>1. UNCHANGED current_task_TCB
    BY <1>3 DEF Create, create_kernel_task, NoSlotLeft, list
  <2> QED BY <1>0, <1>3, <2>1, CreateHealthy DEF HealthyInv
<1>4. state \in [Slots -> States] /\ current_task_TCB \in Slots /\ current_task_TCB \in used
  BY <1>0 DEF DataInv, ListInv, FrameInv
<1>5. CASE BareSchedule \/ Yield
  <2>1. created = Len(Startup) /\ UNCHANGED <<tasks, blocked>> /\ Schedule(state)
    BY <1>2, <1>5 DEF BareSchedule, Yield
  <2>2. UNCHANGED <<used, entrypoint>>
    BY <2>1 DEF tasks
  <2>3. Good
    BY <1>0, <1>4, <2>1, <2>2, ScheduleHealthy
  <2> QED BY <1>0, <1>1, <2>1, <2>3 DEF HealthyInv
<1>6. CASE block_task
  <2> DEFINE st == [state EXCEPT ![current_task_TCB] = PAUSED]
  <2>1. /\ created = Len(Startup) /\ UNCHANGED tasks /\ Schedule(st)
        /\ blocked' = blocked \cup {current_task_TCB}
        /\ ~ NeverBlocks(entrypoint[current_task_TCB])
    BY <1>2, <1>6 DEF block_task, CanCall, NeverBlocks
  <2>2. /\ UNCHANGED <<used, entrypoint>>
        /\ st \in [Slots -> States] /\ st[current_task_TCB] = PAUSED
        /\ \A u \in Slots : u # current_task_TCB => st[u] = state[u]
    BY <1>4, <2>1 DEF tasks, States
  <2> HIDE DEF st
  <2>3. Good
    BY <1>0, <2>1, <2>2, ScheduleHealthy
  <2> QED BY <1>0, <1>1, <2>1, <2>3 DEF HealthyInv
<1>7. ASSUME NEW t \in blocked, unblock_task(t) PROVE HealthyInv' /\ UNCHANGED current_task_TCB
  <2>1. created = Len(Startup) /\ UNCHANGED tasks
    BY <1>2, <1>7 DEF unblock_task
  <2> QED BY <1>0, <1>1, <1>7, <2>1, UnblockHealthy DEF HealthyInv
<1>8. CASE release_lock
  <2>1. created = Len(Startup) /\ UNCHANGED <<tasks, blocked>>
    BY <1>2, <1>8 DEF release_lock
  <2>2. UNCHANGED <<used, entrypoint>>
    BY <2>1 DEF tasks
  <2>3. Good
    <3>1. CASE Dispatch(state)
      BY <1>0, <1>4, <2>1, <2>2, <3>1, DispatchHealthy
    <3>2. CASE UNCHANGED list
      BY <1>0, <2>1, <2>2, <3>2, ListUnchanged DEF list
    <3> QED BY <1>8, <3>1, <3>2 DEF release_lock, RunPostponed
  <2> QED BY <1>0, <1>1, <2>1, <2>3 DEF HealthyInv
<1>9. CASE acquire_lock \/ unlock_scheduler \/ Sleep \/ UNCHANGED vars
  <2>1. UNCHANGED <<tasks, list, blocked>>
    BY <1>9 DEF acquire_lock, unlock_scheduler, Sleep, vars
  <2>2. UNCHANGED <<used, entrypoint, current_task_TCB>>
    BY <2>1 DEF tasks, list
  <2>3. TaskInv'
    BY <1>0, <2>1, <2>2 DEF TaskInv, tasks
  <2> QED BY <1>0, <2>1, <2>2, <2>3, ListUnchanged DEF HealthyInv
<1> QED BY <1>3, <1>5, <1>6, <1>7, <1>8, <1>9 DEF Next, HealthyInv

LEMMA HealthyAlways == HealthyWorkload => (Spec => []HealthyInv)
<1> SUFFICES ASSUME HealthyWorkload PROVE Spec => []HealthyInv
  OBVIOUS
<1>1. HealthyInv /\ [Next]_vars => HealthyInv'
  BY HealthyNext
<1> QED BY <1>1, HealthyInit, PTL DEF Spec

\* A list without repetition is no longer than the table of tasks.
LEMMA ChainFits ==
    ASSUME NEW n, NEW q, NEW S, NEW nx, NEW first, NEW last,
           Chain(n, q, S, nx, first, last), S \subseteq Slots
    PROVE  n \in 1 .. MAX_TASKS
<1>1. n \in Nat /\ n >= 1 /\ q \in [1 .. n -> Slots]
  BY DEF Chain
<1>2. q \in Injection(1 .. n, Slots)
  BY <1>1 DEF Injection, Chain, IsInjective
<1>3. Cardinality(1 .. n) = n /\ IsFiniteSet(Slots) /\ Cardinality(Slots) = MAX_TASKS
  BY <1>1, SlotsAssumption, FS_Interval DEF Slots
<1>4. n <= MAX_TASKS
  BY <1>2, <1>3, FS_Injection
<1> QED BY <1>1, <1>4, SlotsAssumption

LEMMA HealthyListFits == HealthyInv => ReadyListOK
<1> SUFFICES ASSUME HealthyInv PROVE ReadyListOK
  OBVIOUS
<1>1. PICK n, q : Chain(n, q, Waiting, next, g_first_ready, g_last_ready)
  BY DEF HealthyInv, ListHealth
<1>2. Waiting \subseteq Slots
  BY DEF HealthyInv, DataInv, FrameInv, Waiting, Ready
<1>3. n \in 1 .. MAX_TASKS
  BY <1>1, <1>2, ChainFits
<1>4. q \in [1 .. n -> Waiting] /\ IsReadyList(n, q)
  BY <1>1 DEF Chain, IsReadyList, HealthyInv, ListHealth
<1> QED BY <1>3, <1>4 DEF ReadyListOK

\* In every healthy workload, whatever its tasks call and in whatever order,
\* the chain from g_first_ready to g_last_ready is exactly the tasks waiting
\* for the CPU.
THEOREM ReadyListCorrect == HealthyWorkload => (Spec => []ReadyListOK)
<1> SUFFICES ASSUME HealthyWorkload PROVE Spec => []ReadyListOK
  OBVIOUS
<1> QED BY HealthyAlways, HealthyListFits, PTL

\* In every healthy workload a blocked task gets the CPU only once unblocked.
THEOREM BlockedTasksStayOff == HealthyWorkload => (Spec => NoResumeOfBlocked)
<1> SUFFICES ASSUME HealthyWorkload PROVE Spec => NoResumeOfBlocked
  OBVIOUS
<1> DEFINE Stays == current_task_TCB' # current_task_TCB => current_task_TCB' \notin blocked
<1>1. HealthyInv /\ [Next]_vars => Stays
  BY HealthyNext
<1> QED BY <1>1, HealthyAlways, PTL DEF Spec, NoResumeOfBlocked
=============================================================================
