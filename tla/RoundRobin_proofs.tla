-------------------------- MODULE RoundRobin_proofs --------------------------
(***************************************************************************)
(* In every healthy workload the pointer-level scheduler implements the    *)
(* abstract one: ReadyQueue, what a walk along the chain finds, is the     *)
(* list of ReadyList_proofs without the idle task, and each call of the    *)
(* scheduler does to it what an action of RoundRobin says, or nothing.     *)
(***************************************************************************)
EXTENDS ReadyList_proofs, SequenceTheorems, WellFoundedInduction

-----------------------------------------------------------------------------
(* The walk along the chain.                                               *)

\* The induction principle of the two lemmas below, over sets.
LEMMA LeastNatural ==
    ASSUME NEW T \in SUBSET Nat, T # {}
    PROVE  \E x \in T : \A y \in T : x <= y
<1> DEFINE R == {ss \in Nat \X Nat : ss[1] < ss[2]}
<1>1. R = OpToRel(<, Nat)
  BY DEF OpToRel
<1>2. \A x, y \in Nat : x < y => <<x, y>> \in R
  <2> SUFFICES ASSUME NEW x \in Nat, NEW y \in Nat, x < y PROVE <<x, y>> \in R
    OBVIOUS
  <2>1. <<x, y>> \in Nat \X Nat /\ <<x, y>>[1] = x /\ <<x, y>>[2] = y
    OBVIOUS
  <2> QED BY <2>1
<1> HIDE DEF R
<1>3. IsWellFoundedOn(R, Nat)
  BY <1>1, NatLessThanWellFounded
<1>4. \E x \in T : \A y \in T : ~ (<<y, x>> \in R)
  BY <1>3, WFMin
<1>5. PICK x \in T : \A y \in T : ~ (<<y, x>> \in R)
  BY <1>4
<1>6. ASSUME NEW y \in T PROVE x <= y
  <2>1. ~ (y < x)
    BY <1>2, <1>5
  <2> QED BY <2>1
<1> QED BY <1>6

\* The equation of QueueOf's walk.
WalkEq(f, m, nx, last) ==
    f = [n \in 0 .. m |->
            IF n = 0 THEN [p \in Pointers |-> <<>>] ELSE Longer(nx, last, f[n - 1])]

\* It has a solution.
LEMMA WalkIsDefined ==
    ASSUME NEW nx, NEW last
    PROVE  \A m \in Nat : \E f : WalkEq(f, m, nx, last)
<1> DEFINE Solved(m) == \E f : WalkEq(f, m, nx, last)
           T == {m \in Nat : ~ Solved(m)}
<1>1. Solved(0)
  <2>1. WalkEq([n \in 0 .. 0 |-> [p \in Pointers |-> <<>>]], 0, nx, last)
    BY DEF WalkEq
  <2> QED BY <2>1
<1>2. ASSUME NEW m \in Nat, Solved(m) PROVE Solved(m + 1)
  <2>1. PICK f : WalkEq(f, m, nx, last)
    BY <1>2
  <2> DEFINE g == [n \in 0 .. m + 1 |-> IF n <= m THEN f[n] ELSE Longer(nx, last, f[m])]
             h == [n \in 0 .. m + 1 |->
                      IF n = 0 THEN [p \in Pointers |-> <<>>] ELSE Longer(nx, last, g[n - 1])]
  <2>2. ASSUME NEW n \in 0 .. m + 1 PROVE g[n] = h[n]
    <3>1. CASE n = 0
      BY <2>1, <3>1 DEF WalkEq
    <3>2. CASE n # 0
      <4>1. n - 1 \in 0 .. m /\ g[n - 1] = f[n - 1] /\ h[n] = Longer(nx, last, f[n - 1])
        BY <3>2
      <4>2. CASE n <= m
        <5>1. n \in 0 .. m
          BY <4>2
        <5> QED BY <2>1, <3>2, <4>1, <4>2, <5>1 DEF WalkEq
      <4>3. CASE ~ (n <= m)
        <5>1. n - 1 = m
          BY <4>3
        <5> QED BY <4>1, <4>3, <5>1
      <4> QED BY <4>2, <4>3
    <3> QED BY <3>1, <3>2
  <2>3. g = h
    BY <2>2
  <2>4. WalkEq(g, m + 1, nx, last)
    BY <2>3 DEF WalkEq
  <2> HIDE DEF g
  <2> QED BY <2>4
<1>3. ASSUME T # {} PROVE FALSE
  <2>1. PICK x \in T : \A y \in T : x <= y
    BY <1>3, LeastNatural
  <2>2. x # 0 /\ x \in Nat /\ ~ Solved(x)
    BY <1>1
  <2>3. x - 1 \in Nat /\ Solved(x - 1)
    BY <2>1, <2>2
  <2> HIDE DEF Solved
  <2>4. Solved((x - 1) + 1) /\ (x - 1) + 1 = x
    BY <1>2, <2>2, <2>3
  <2> QED BY <2>2, <2>4
<1> QED BY <1>3

LEMMA QueueIsWalk ==
    ASSUME NEW nx, NEW first, NEW last
    PROVE  \E f : WalkEq(f, MAX_TASKS, nx, last) /\ QueueOf(nx, first, last) = f[MAX_TASKS][first]
<1> DEFINE walk[n \in 0 .. MAX_TASKS] ==
        IF n = 0 THEN [p \in Pointers |-> <<>>] ELSE Longer(nx, last, walk[n - 1])
<1>1. QueueOf(nx, first, last) = walk[MAX_TASKS][first]
  BY DEF QueueOf
<1>2. walk = CHOOSE f : WalkEq(f, MAX_TASKS, nx, last)
  BY DEF WalkEq
<1> HIDE DEF walk
<1>3. WalkEq(walk, MAX_TASKS, nx, last)
  BY <1>2, WalkIsDefined, SlotsAssumption
<1> QED BY <1>1, <1>3

\* From its second element on, a chain as a sequence: the idle task is first.
LEMMA QueueOfChain ==
    ASSUME NEW n, NEW q, NEW S, NEW nx, NEW last,
           Chain(n, q, S, nx, idle_task, last), S \subseteq Slots
    PROVE  QueueOf(nx, idle_task, last) = SubSeq(q, 2, n)
<1>0. n \in Nat /\ n >= 1 /\ MAX_TASKS \in Nat /\ n <= MAX_TASKS
  BY SlotsAssumption, ChainFits
<1>1. PICK f : WalkEq(f, MAX_TASKS, nx, last)
               /\ QueueOf(nx, idle_task, last) = f[MAX_TASKS][idle_task]
  BY QueueIsWalk
<1>2. /\ n \in Nat /\ n >= 1 /\ q \in [1 .. n -> S] /\ q[1] = idle_task /\ q[n] = last
      /\ \A i \in 1 .. n - 1 : nx[q[i]] = q[i + 1]
      /\ \A i, j \in 1 .. n : q[i] = q[j] => i = j
  BY DEF Chain
<1>3. q \in Seq(S) /\ Len(q) = n /\ n \in 1 .. n /\ 1 \in 1 .. n
  BY <1>2, SeqDef
<1>4. \A i \in 1 .. n : q[i] \in Slots /\ q[i] \in Pointers /\ q[i] # NULL
  BY <1>2, SlotsAssumption DEF Pointers
<1>5. ASSUME NEW m \in 1 .. MAX_TASKS, NEW i \in 1 .. n
      PROVE  f[m][q[i]] = (IF i = 1 THEN <<>> ELSE <<q[i]>>)
                          \o (IF i = n THEN <<>> ELSE f[m - 1][q[i + 1]])
  <2>1. m \in 0 .. MAX_TASKS /\ m # 0
    OBVIOUS
  <2>2. f[m] = Longer(nx, last, f[m - 1])
    BY <1>1, <2>1 DEF WalkEq
  <2>3. q[i] = idle_task <=> i = 1
    BY <1>2, <1>3
  <2>4. q[i] = last <=> i = n
    BY <1>2, <1>3
  <2>5. i # n => nx[q[i]] = q[i + 1]
    BY <1>2
  <2> DEFINE p == q[i]
  <2>6. f[m][p] = (IF p = idle_task THEN <<>> ELSE <<p>>)
                  \o (IF p = last THEN <<>> ELSE f[m - 1][nx[p]])
    <3> HIDE DEF p
    <3>1. p \in Pointers /\ p # NULL
      BY <1>4 DEF p
    <3> QED BY <2>2, <3>1 DEF Longer
  <2> QED BY <2>3, <2>4, <2>5, <2>6
<1> DEFINE Found(d) == \A m \in d + 1 .. MAX_TASKS : f[m][q[n - d]] = SubSeq(q, n - d, n)
           T == {d \in 0 .. n - 2 : ~ Found(d)}
<1>6. ASSUME 0 \in 0 .. n - 2 PROVE Found(0)
  <2> SUFFICES ASSUME NEW m \in 1 .. MAX_TASKS PROVE f[m][q[n]] = SubSeq(q, n, n)
    BY <1>2
  <2>1. n # 1
    BY <1>2, <1>6
  <2>2. f[m][q[n]] = <<q[n]>> \o <<>>
    BY <1>3, <1>5, <2>1
  <2>3. <<q[n]>> \in Seq(S) /\ SubSeq(q, n, n) = <<q[n]>>
    <3>1. q[n] \in S /\ n \in Int
      BY <1>2, <1>3
    <3>2. /\ SubSeq(q, n, n) \in Seq(S) /\ Len(SubSeq(q, n, n)) = 1
          /\ \A i \in 1 .. n - n + 1 : SubSeq(q, n, n)[i] = q[n + i - 1]
      BY <3>1, SubSeqProperties
    <3>3. <<q[n]>> \in Seq(S) /\ Len(<<q[n]>>) = 1 /\ <<q[n]>>[1] = q[n]
      BY <3>1
    <3>4. SubSeq(q, n, n)[1] = q[n]
      <4>1. 1 \in 1 .. n - n + 1 /\ n + 1 - 1 = n
        BY <3>1
      <4> QED BY <3>2, <4>1
    <3> HIDE DEF Found, T
    <3> DEFINE a == <<q[n]>>
               b == SubSeq(q, n, n)
    <3>5. a \in Seq(S) /\ b \in Seq(S) /\ Len(a) = 1 /\ Len(b) = 1 /\ a[1] = b[1]
      BY <3>2, <3>3, <3>4
    <3> HIDE DEF a, b
    <3>6. a = b
      BY <3>5, SeqEqual
    <3> QED BY <3>5, <3>6 DEF a, b
  <2> QED BY <2>2, <2>3, ConcatEmptySeq
<1>7. ASSUME NEW d \in 0 .. n - 2, d - 1 \in 0 .. n - 2, Found(d - 1) PROVE Found(d)
  <2> SUFFICES ASSUME NEW m \in d + 1 .. MAX_TASKS PROVE f[m][q[n - d]] = SubSeq(q, n - d, n)
    OBVIOUS
  <2> DEFINE i == n - d
  <2>1. /\ i \in 1 .. n /\ i # 1 /\ i # n /\ i + 1 \in 1 .. n /\ n - (d - 1) = i + 1
        /\ m \in 1 .. MAX_TASKS /\ m - 1 \in (d - 1) + 1 .. MAX_TASKS
    <3> HIDE DEF Found
    <3>1. d >= 1 /\ d <= n - 2 /\ d \in Int /\ m >= d + 1 /\ m <= MAX_TASKS /\ m \in Int
      BY <1>0, <1>7
    <3> QED BY <1>0, <3>1
  <2>2. f[m - 1][q[i + 1]] = SubSeq(q, i + 1, n)
    <3> DEFINE k == n - (d - 1)
    <3>1. f[m - 1][q[k]] = SubSeq(q, k, n)
      BY <1>7, <2>1
    <3>2. k = i + 1
      BY <2>1
    <3> HIDE DEF k, i
    <3> QED BY <3>1, <3>2
  <2> HIDE DEF i
  <2>3. f[m][q[i]] = <<q[i]>> \o SubSeq(q, i + 1, n)
    BY <1>5, <2>1, <2>2
  <2>4. SubSeq(q, i, n) = <<q[i]>> \o SubSeq(q, i + 1, n)
    BY <1>2, <1>3, <2>1, SubSeqRecursiveFirst
  <2> QED BY <2>3, <2>4 DEF i
<1>8. T = {}
  <2> SUFFICES ASSUME T # {} PROVE FALSE
    OBVIOUS
  <2>0. T \in SUBSET Nat
    BY <1>2
  <2>1. PICK x \in T : \A y \in T : x <= y
    <3> HIDE DEF T
    <3> QED BY <2>0, LeastNatural
  <2>2. x \in 0 .. n - 2 /\ ~ Found(x) /\ x # 0
    BY <1>6
  <2> HIDE DEF Found
  <2>3. x - 1 \in 0 .. n - 2 /\ Found(x - 1)
    <3>1. x - 1 \in 0 .. n - 2 /\ ~ (x <= x - 1)
      BY <1>2, <2>2
    <3> QED BY <2>1, <3>1
  <2> QED BY <1>7, <2>2, <2>3
<1>9. MAX_TASKS \in 1 .. MAX_TASKS /\ MAX_TASKS \in Nat
  BY SlotsAssumption
<1>10. CASE n = 1
  <2>1. f[MAX_TASKS][q[1]] = <<>> \o <<>>
    BY <1>3, <1>5, <1>9, <1>10
  <2>2. <<>> \o <<>> = <<>>
    BY ConcatEmptySeq, EmptySeq
  <2>3. SubSeq(q, 2, n) = <<>>
    BY <1>10, SubSeqEmpty
  <2> QED BY <1>1, <1>2, <2>1, <2>2, <2>3
<1>11. CASE n # 1
  <2>1. n - 2 \in 0 .. n - 2 /\ n - (n - 2) = 2 /\ MAX_TASKS - 1 \in (n - 2) + 1 .. MAX_TASKS
    BY <1>0, <1>9, <1>11
  <2>2. Found(n - 2)
    BY <1>8, <2>1
  <2>3. f[MAX_TASKS - 1][q[2]] = SubSeq(q, 2, n)
    BY <2>1, <2>2
  <2>4. f[MAX_TASKS][q[1]] = <<>> \o SubSeq(q, 2, n)
    <3> HIDE DEF Found, T
    <3>1. f[MAX_TASKS][q[1]] = (IF 1 = 1 THEN <<>> ELSE <<q[1]>>)
                               \o (IF 1 = n THEN <<>> ELSE f[MAX_TASKS - 1][q[1 + 1]])
      BY <1>3, <1>5, <1>9, Zenon
    <3>2. 1 + 1 = 2 /\ 1 # n
      BY <1>11
    <3> QED BY <2>3, <3>1, <3>2
  <2>5. SubSeq(q, 2, n) \in Seq(S)
    BY <1>2, <1>3, SubSeqProperties
  <2> QED BY <1>1, <1>2, <2>4, <2>5, ConcatEmptySeq
<1> QED BY <1>10, <1>11

\* What the two changes of a chain do to its queue.
LEMMA AppendedQueue ==
    ASSUME NEW n \in Nat, n >= 1, NEW S, NEW q \in [1 .. n -> S], NEW t \in S
    PROVE  SubSeq(Appended(n, q, t), 2, n + 1) = Append(SubSeq(q, 2, n), t)
<1> DEFINE a == SubSeq(Appended(n, q, t), 2, n + 1)
           b == SubSeq(q, 2, n)
<1>1. \A i \in 2 .. n + 1 : Appended(n, q, t)[i] \in S
  BY DEF Appended
<1>2. a \in Seq(S) /\ Len(a) = n /\ \A i \in 1 .. n : a[i] = Appended(n, q, t)[2 + i - 1]
  <2>1. IF 2 <= n + 1 THEN n + 1 - 2 + 1 = n ELSE 0 = n
    OBVIOUS
  <2>2. 2 \in Int /\ n + 1 \in Int /\ 2 <= n + 1 /\ n + 1 - 2 + 1 = n
    OBVIOUS
  <2> QED BY <1>1, <2>2, SubSeqProperties
<1>3. b \in Seq(S) /\ Len(b) = n - 1 /\ \A i \in 1 .. n - 1 : b[i] = q[2 + i - 1]
  <2>1. 2 \in Int /\ n \in Int /\ n - 2 + 1 = n - 1 /\ \A i \in 2 .. n : q[i] \in S
    OBVIOUS
  <2>2. (IF 2 <= n THEN n - 2 + 1 ELSE 0) = n - 1
    OBVIOUS
  <2> QED BY <2>1, <2>2, SubSeqProperties
<1> HIDE DEF a, b
<1>4. /\ Append(b, t) \in Seq(S) /\ Len(Append(b, t)) = n /\ Append(b, t)[n] = t
      /\ \A i \in 1 .. n - 1 : Append(b, t)[i] = b[i]
  <2>1. (n - 1) + 1 = n
    OBVIOUS
  <2> QED BY <1>3, <2>1, AppendProperties
<1>5. ASSUME NEW i \in 1 .. n PROVE a[i] = Append(b, t)[i]
  <2>1. 2 + i - 1 = i + 1 /\ i + 1 \in 1 .. n + 1
    OBVIOUS
  <2>2. CASE i = n
    <3>1. a[i] = t
      BY <1>2, <2>1, <2>2 DEF Appended
    <3> QED BY <1>4, <2>2, <3>1
  <2>3. CASE i # n
    <3>1. i \in 1 .. n - 1 /\ i + 1 # n + 1
      BY <2>3
    <3>2. a[i] = q[i + 1]
      BY <1>2, <2>1, <3>1 DEF Appended
    <3> QED BY <1>3, <1>4, <2>1, <3>1, <3>2
  <2> QED BY <2>2, <2>3
<1>6. a = Append(b, t)
  BY <1>2, <1>4, <1>5, SeqEqual
<1> QED BY <1>6 DEF a, b

LEMMA SkippedQueue ==
    ASSUME NEW n \in Nat, n >= 2, NEW S, NEW q \in [1 .. n -> S]
    PROVE  /\ SubSeq(q, 2, n) # <<>> /\ Head(SubSeq(q, 2, n)) = q[2]
           /\ SubSeq(Skipped(n, q), 2, n - 1) = Tail(SubSeq(q, 2, n))
<1>1. q \in Seq(S) /\ Len(q) = n /\ 2 \in 1 .. Len(q) /\ n \in 2 .. Len(q)
  BY SeqDef
<1>2. Head(SubSeq(q, 2, n)) = q[2] /\ Tail(SubSeq(q, 2, n)) = SubSeq(q, 3, n)
  <2>1. 2 + 1 = 3
    OBVIOUS
  <2> QED BY <1>1, <2>1, HeadTailOfSubSeq
<1> DEFINE a == SubSeq(Skipped(n, q), 2, n - 1)
           b == SubSeq(q, 3, n)
<1>3. SubSeq(q, 2, n) # <<>>
  <2>1. SubSeq(q, 2, n) \in Seq(S) /\ Len(SubSeq(q, 2, n)) = n - 2 + 1
    BY SubSeqProperties
  <2> QED BY <2>1, EmptySeq
<1>4. /\ a \in Seq(S) /\ Len(a) = n - 2
      /\ \A i \in 1 .. n - 2 : a[i] = Skipped(n, q)[2 + i - 1]
  <2>1. \A i \in 2 .. n - 1 : Skipped(n, q)[i] \in S
    BY DEF Skipped
  <2>2. 2 \in Int /\ n - 1 \in Int /\ n - 1 - 2 + 1 = n - 2
        /\ (IF 2 <= n - 1 THEN n - 1 - 2 + 1 ELSE 0) = n - 2
    OBVIOUS
  <2> QED BY <2>1, <2>2, SubSeqProperties
<1>5. /\ b \in Seq(S) /\ Len(b) = n - 2
      /\ \A i \in 1 .. n - 2 : b[i] = q[3 + i - 1]
  <2>1. 3 \in Int /\ n \in Int /\ n - 3 + 1 = n - 2 /\ \A i \in 3 .. n : q[i] \in S
        /\ (IF 3 <= n THEN n - 3 + 1 ELSE 0) = n - 2
    OBVIOUS
  <2> QED BY <2>1, SubSeqProperties
<1> HIDE DEF a, b
<1>6. ASSUME NEW i \in 1 .. n - 2 PROVE a[i] = b[i]
  <2>1. 2 + i - 1 = i + 1 /\ 3 + i - 1 = i + 2 /\ i + 1 \in 1 .. n - 1 /\ i + 1 # 1
        /\ (i + 1) + 1 = i + 2
    OBVIOUS
  <2>2. a[i] = q[i + 2]
    BY <1>4, <2>1 DEF Skipped
  <2> QED BY <1>5, <2>1, <2>2
<1>7. a = b
  BY <1>4, <1>5, <1>6, SeqEqual
<1> QED BY <1>2, <1>3, <1>7 DEF a, b

-----------------------------------------------------------------------------
(* The refinement.                                                         *)

\* What the scheduler holds, as RoundRobin sees it.
LEMMA QueueSeen ==
    ASSUME HealthyInv
    PROVE  /\ current_task_TCB \in Slots \ Waiting /\ current_task_TCB # idle_task
           /\ Waiting \subseteq Slots
           /\ \E n, q : Chain(n, q, Waiting, next, g_first_ready, g_last_ready)
           /\ \A n, q : Chain(n, q, Waiting, next, g_first_ready, g_last_ready)
                 => ReadyQueue = SubSeq(q, 2, n)
<1>1. Waiting \subseteq Slots
  BY DEF HealthyInv, DataInv, FrameInv, Waiting, Ready
<1>2. current_task_TCB \in Slots \ Waiting /\ current_task_TCB # idle_task
  BY DEF HealthyInv, DataInv, ListInv, FrameInv, ListHealth, Waiting, Ready,
         READY_TO_RUN, RUNNING, PAUSED
<1>3. \E n, q : Chain(n, q, Waiting, next, g_first_ready, g_last_ready)
  BY DEF HealthyInv, ListHealth
<1>4. g_first_ready = idle_task
  BY DEF HealthyInv, ListHealth
<1> QED BY <1>1, <1>2, <1>3, <1>4, QueueOfChain DEF ReadyQueue

\* A step that leaves the list alone leaves the queue alone.
LEMMA QueueUnchanged ==
    ASSUME UNCHANGED <<next, g_first_ready, g_last_ready>>
    PROVE  UNCHANGED ReadyQueue
  BY DEF ReadyQueue

\* A task that joins: create_kernel_task and unblock_task append it.
LEMMA QueueAppended ==
    ASSUME HealthyInv, HealthyInv', NEW t, t \notin Waiting, Waiting' = Waiting \cup {t},
           next'[g_last_ready] = t, g_first_ready' = g_first_ready, g_last_ready' = t,
           \A u \in Waiting : u # g_last_ready => next'[u] = next[u]
    PROVE  ReadyQueue' = Append(ReadyQueue, t) /\ \A i \in DOMAIN ReadyQueue : ReadyQueue[i] # t
<1>1. PICK n, q : Chain(n, q, Waiting, next, g_first_ready, g_last_ready)
  BY QueueSeen
<1>2. ReadyQueue = SubSeq(q, 2, n)
  BY <1>1, QueueSeen
<1>3. Chain(n + 1, Appended(n, q, t), Waiting', next', g_first_ready', g_last_ready')
  BY <1>1, AppendChain
<1>4. Waiting' \subseteq Slots /\ g_first_ready' = idle_task
  BY DEF HealthyInv, DataInv, FrameInv, ListHealth, Waiting, Ready
<1>5. QueueOf(next', idle_task, g_last_ready') = SubSeq(Appended(n, q, t), 2, n + 1)
  <2>1. Chain(n + 1, Appended(n, q, t), Waiting', next', idle_task, g_last_ready')
    BY <1>3, <1>4
  <2> QED BY <1>4, <2>1, QueueOfChain
<1>6. n \in Nat /\ n >= 1 /\ q \in [1 .. n -> Slots] /\ t \in Slots
  BY <1>1, <1>4 DEF Chain
<1>7. SubSeq(Appended(n, q, t), 2, n + 1) = Append(SubSeq(q, 2, n), t)
  BY <1>6, AppendedQueue
<1>8. \A i \in DOMAIN SubSeq(q, 2, n) : SubSeq(q, 2, n)[i] # t
  <2>1. q \in [1 .. n -> Waiting] /\ \A i \in 2 .. n : q[i] \in Waiting
    BY <1>1 DEF Chain
  <2>2. SubSeq(q, 2, n) \in Seq(Waiting)
    BY <1>6, <2>1, SubSeqProperties
  <2> QED BY <2>2, LenProperties, ElementOfSeq
<1> QED BY <1>2, <1>4, <1>5, <1>7, <1>8 DEF ReadyQueue

\* A switch serves the head of the queue, and puts the current task at the
\* back if it is RUNNING.
LEMMA DispatchServes ==
    ASSUME HealthyWorkload, HealthyInv, HealthyInv', created = Len(Startup),
           UNCHANGED <<used, entrypoint>>,
           NEW st, st \in [Slots -> States],
           \A u \in Slots : u # current_task_TCB => st[u] = state[u],
           \/ st = state /\ blocked' = blocked
           \/ /\ st[current_task_TCB] = PAUSED
              /\ blocked' = blocked \cup {current_task_TCB}
              /\ ~ NeverBlocks(entrypoint[current_task_TCB]),
           Dispatch(st)
    PROVE  RR!Rotate \/ RR!Park
<1> DEFINE cur == current_task_TCB
<1>1. PICK n, q : Chain(n, q, Waiting, next, g_first_ready, g_last_ready)
  BY QueueSeen
<1>2. ReadyQueue = SubSeq(q, 2, n)
  BY <1>1, QueueSeen
<1>3. /\ n >= 3 /\ current_task_TCB' = q[2] /\ g_first_ready' = idle_task
      /\ st[cur] = RUNNING =>
            Chain(n, Appended(n - 1, Skipped(n, q), cur), Waiting', next', idle_task, g_last_ready')
      /\ st[cur] # RUNNING =>
            Chain(n - 1, Skipped(n, q), Waiting', next', idle_task, g_last_ready')
  BY <1>1, DispatchList DEF HealthyInv
<1>4. Waiting' \subseteq Slots /\ cur \in Slots /\ Waiting \subseteq Slots
  BY QueueSeen DEF HealthyInv, DataInv, FrameInv, Waiting, Ready
<1>5. n \in Nat /\ n >= 2 /\ q \in [1 .. n -> Slots]
  BY <1>1, <1>3, <1>4 DEF Chain
<1>6. /\ ReadyQueue # <<>> /\ Head(ReadyQueue) = current_task_TCB'
      /\ SubSeq(Skipped(n, q), 2, n - 1) = Tail(ReadyQueue)
  BY <1>2, <1>3, <1>5, SkippedQueue
<1>7. ReadyQueue' = QueueOf(next', idle_task, g_last_ready')
  BY <1>3 DEF ReadyQueue
<1>8. CASE st[cur] = RUNNING
  <2>1. st = state /\ blocked' = blocked
    BY <1>8 DEF RUNNING, PAUSED
  <2>2. cur \notin blocked
    BY <1>8, <2>1 DEF HealthyInv, ListHealth, RUNNING, PAUSED
  <2>3. ReadyQueue' = SubSeq(Appended(n - 1, Skipped(n, q), cur), 2, n)
    BY <1>3, <1>4, <1>7, <1>8, QueueOfChain
  <2>4. ReadyQueue' = Append(Tail(ReadyQueue), cur)
    <3>1. Skipped(n, q) \in [1 .. n - 1 -> Slots] /\ n - 1 \in Nat /\ n - 1 >= 1 /\ (n - 1) + 1 = n
      BY <1>5 DEF Skipped
    <3>2. SubSeq(Appended(n - 1, Skipped(n, q), cur), 2, (n - 1) + 1)
          = Append(SubSeq(Skipped(n, q), 2, n - 1), cur)
      BY <1>4, <3>1, AppendedQueue
    <3> QED BY <1>6, <2>3, <3>1, <3>2
  <2> QED BY <1>6, <2>1, <2>2, <2>4 DEF RR!Rotate
<1>9. CASE st[cur] # RUNNING
  <2>1. blocked' = blocked \cup {cur}
    BY <1>9 DEF HealthyInv, ListHealth
  <2>2. ReadyQueue' = SubSeq(Skipped(n, q), 2, n - 1)
    BY <1>3, <1>4, <1>7, <1>9, QueueOfChain
  <2> QED BY <1>6, <2>1, <2>2 DEF RR!Park
<1> QED BY <1>8, <1>9

\* A call of Schedule() by a task that wants the CPU again, or that blocks.
LEMMA ScheduleServes ==
    ASSUME HealthyWorkload, HealthyInv, HealthyInv', created = Len(Startup),
           UNCHANGED <<used, entrypoint>>,
           NEW st, st \in [Slots -> States],
           \A u \in Slots : u # current_task_TCB => st[u] = state[u],
           \/ st = state /\ blocked' = blocked
           \/ /\ st[current_task_TCB] = PAUSED
              /\ blocked' = blocked \cup {current_task_TCB}
              /\ ~ NeverBlocks(entrypoint[current_task_TCB]),
           Schedule(st)
    PROVE  RR!Rotate \/ RR!Park \/ RR!ParkLater \/ UNCHANGED RR!rrVars
<1>1. CASE StayOn(st, g_first_ready)
  <2>1. UNCHANGED <<current_task_TCB, ReadyQueue>>
    BY <1>1, QueueUnchanged DEF StayOn
  <2> QED BY <2>1 DEF RR!ParkLater, RR!rrVars
<1>2. CASE Dispatch(st)
  BY <1>2, DispatchServes
<1> QED BY <1>1, <1>2 DEF Schedule

LEMMA CreateJoins ==
    ASSUME HealthyInv, HealthyInv', Create
    PROVE  (\E t \in Slots : RR!Join(t)) \/ UNCHANGED RR!rrVars
<1>1. CASE NoSlotLeft
  <2>1. UNCHANGED <<current_task_TCB, blocked, ReadyQueue>>
    BY <1>1, QueueUnchanged DEF NoSlotLeft, list, Create
  <2> QED BY <2>1 DEF RR!rrVars
<1>2. CASE ~ TableFull
  <2> DEFINE t == g_num_tasks
  <2>1. FirstFreeSlot = t /\ t \in Slots
    BY <1>2, FirstFreeSlotIsNext DEF HealthyInv, DataInv, FrameInv
  <2>2. /\ used' = used \cup {t}
        /\ state' = [state EXCEPT ![t] = READY_TO_RUN]
        /\ next' = [u \in Slots |-> IF u = t THEN NULL
                                    ELSE IF u = g_last_ready THEN t ELSE next[u]]
        /\ g_first_ready' = IF g_last_ready = NULL THEN t ELSE g_first_ready
        /\ g_last_ready' = t
        /\ UNCHANGED <<current_task_TCB, blocked>>
    BY <1>2, <2>1 DEF Create, create_kernel_task, NoSlotLeft, MarkUsed
  <2>3. /\ t \notin used /\ used \subseteq Slots /\ g_last_ready \in used /\ NULL \notin used
        /\ current_task_TCB \in used /\ blocked \subseteq used /\ state \in [Slots -> States]
    BY SlotsAssumption DEF HealthyInv, DataInv, FrameInv, ListInv, Dense
  <2> HIDE DEF t
  <2>4. Waiting \subseteq used /\ Waiting' \subseteq used \cup {t}
    BY <2>2 DEF Waiting, Ready
  <2>5. Waiting' = Waiting \cup {t}
    <3>1. ASSUME NEW u \in used PROVE u \in Waiting' <=> u \in Waiting
      BY <2>2, <2>3 DEF Waiting, Ready
    <3>2. t \in Waiting'
      BY <2>1, <2>2, <2>3 DEF Waiting, Ready
    <3> QED BY <2>4, <3>1, <3>2
  <2>6. /\ next'[g_last_ready] = t /\ g_first_ready' = g_first_ready
        /\ \A u \in Waiting : u # g_last_ready => next'[u] = next[u]
    BY <2>2, <2>3, <2>4
  <2>7. ReadyQueue' = Append(ReadyQueue, t) /\ \A i \in DOMAIN ReadyQueue : ReadyQueue[i] # t
    BY <2>2, <2>3, <2>4, <2>5, <2>6, QueueAppended
  <2> QED BY <2>1, <2>2, <2>3, <2>7 DEF RR!Join, RR!InQueue
<1> QED BY <1>1, <1>2 DEF Create, create_kernel_task

LEMMA UnblockWakes ==
    ASSUME HealthyInv, HealthyInv', NEW t \in blocked, unblock_task(t)
    PROVE  RR!Wake(t) /\ t \in Slots
<1>1. /\ AppendUnblocked(t) /\ blocked' = blocked \ {t} /\ t # current_task_TCB
      /\ UNCHANGED <<used, entrypoint>>
  BY SlotsAssumption
     DEF unblock_task, tasks, HealthyInv, ListHealth, DataInv, FrameInv, idle_task
<1>2. /\ t \in used /\ used \subseteq Slots /\ g_last_ready \in used /\ state[t] = PAUSED
  BY DEF HealthyInv, DataInv, ListInv, FrameInv, ListHealth
<1>3. t \notin Waiting /\ Waiting \subseteq used
  BY <1>2 DEF Waiting, Ready, READY_TO_RUN, PAUSED
<1>4. Waiting' = Waiting \cup {t}
  <2>1. ASSUME NEW u \in used, u # t PROVE u \in Waiting' <=> u \in Waiting
    BY <1>1, <2>1 DEF AppendUnblocked, Waiting, Ready
  <2>2. t \in Waiting'
    BY <1>1, <1>2 DEF AppendUnblocked, Waiting
  <2>3. Waiting' \subseteq used
    BY <1>1 DEF Waiting, Ready
  <2> QED BY <1>3, <2>1, <2>2, <2>3
<1>5. /\ next'[g_last_ready] = t /\ g_first_ready' = g_first_ready /\ g_last_ready' = t
      /\ \A u \in Waiting : u # g_last_ready => next'[u] = next[u]
  BY <1>1, <1>2, <1>3 DEF AppendUnblocked, HealthyInv, DataInv, ListInv
<1>6. ReadyQueue' = Append(ReadyQueue, t)
  BY <1>3, <1>4, <1>5, QueueAppended
<1> QED BY <1>1, <1>2, <1>6 DEF RR!Wake, AppendUnblocked

LEMMA StepIsRoundRobin ==
    ASSUME HealthyWorkload, HealthyInv, HealthyInv', [Next]_vars
    PROVE  [RR!Next]_(RR!rrVars)
<1>1. \A c : CanCall(c) => created = Len(Startup)
  BY CallerHasCreated DEF HealthyInv
<1>2. state \in [Slots -> States] /\ current_task_TCB \in Slots /\ current_task_TCB \in used
  BY DEF HealthyInv, DataInv, ListInv, FrameInv
<1>3. CASE Create
  BY <1>3, CreateJoins DEF RR!Next
<1>4. CASE BareSchedule \/ Yield
  <2>1. created = Len(Startup) /\ UNCHANGED <<used, entrypoint, blocked>> /\ Schedule(state)
    BY <1>1, <1>4 DEF BareSchedule, Yield, tasks
  <2> QED BY <1>2, <2>1, ScheduleServes DEF RR!Next
<1>5. CASE block_task
  <2> DEFINE st == [state EXCEPT ![current_task_TCB] = PAUSED]
  <2>1. /\ created = Len(Startup) /\ UNCHANGED <<used, entrypoint>> /\ Schedule(st)
        /\ blocked' = blocked \cup {current_task_TCB}
        /\ ~ NeverBlocks(entrypoint[current_task_TCB])
    BY <1>1, <1>5 DEF block_task, CanCall, NeverBlocks, tasks
  <2>2. /\ st \in [Slots -> States] /\ st[current_task_TCB] = PAUSED
        /\ \A u \in Slots : u # current_task_TCB => st[u] = state[u]
    BY <1>2 DEF States
  <2> HIDE DEF st
  <2> QED BY <2>1, <2>2, ScheduleServes DEF RR!Next
<1>6. CASE \E t \in blocked : unblock_task(t)
  BY <1>6, UnblockWakes DEF RR!Next
<1>7. ASSUME UNCHANGED <<list, blocked>> PROVE UNCHANGED RR!rrVars
  BY <1>7, QueueUnchanged DEF list, RR!rrVars
<1>8. CASE release_lock
  <2>1. created = Len(Startup) /\ UNCHANGED <<used, entrypoint, blocked>>
    BY <1>1, <1>8 DEF release_lock, tasks
  <2>2. CASE Dispatch(state)
    BY <1>2, <2>1, <2>2, DispatchServes DEF RR!Next
  <2>3. CASE UNCHANGED list
    BY <1>7, <2>1, <2>3
  <2> QED BY <1>8, <2>2, <2>3 DEF release_lock, RunPostponed
<1>9. CASE acquire_lock \/ unlock_scheduler \/ Sleep \/ UNCHANGED vars
  <2>1. UNCHANGED <<list, blocked>>
    BY <1>9 DEF acquire_lock, unlock_scheduler, Sleep, vars
  <2> QED BY <1>7, <2>1
<1> QED BY <1>3, <1>4, <1>5, <1>6, <1>8, <1>9 DEF Next

LEMMA InitIsRoundRobin == Init => RR!Init
<1> SUFFICES ASSUME Init PROVE RR!Init
  OBVIOUS
<1> DEFINE q == [i \in 1 .. 1 |-> idle_task]
<1>1. Chain(1, q, {idle_task}, next, idle_task, idle_task) /\ {idle_task} \subseteq Slots
  BY SlotsAssumption DEF Chain, Slots, idle_task
<1> HIDE DEF q
<1>2. QueueOf(next, idle_task, idle_task) = SubSeq(q, 2, 1)
  BY <1>1, QueueOfChain
<1>3. SubSeq(q, 2, 1) = <<>>
  BY SubSeqEmpty
<1>4. ReadyQueue = <<>>
  BY <1>2, <1>3 DEF ReadyQueue, Init
<1> QED BY <1>4 DEF Init, RR!Init

\* In every healthy workload the scheduler on TCB pointers, with its skipped
\* and re-linked idle task, stale pointers and postponed switches, is a queue
\* of tasks served in turn.
THEOREM SchedulerIsRoundRobin == HealthyWorkload => (Spec => RoundRobinScheduling)
<1> SUFFICES ASSUME HealthyWorkload PROVE Spec => RoundRobinScheduling
  OBVIOUS
<1>1. HealthyInv /\ HealthyInv' /\ [Next]_vars => [RR!Next]_(RR!rrVars)
  BY StepIsRoundRobin
<1> QED BY <1>1, InitIsRoundRobin, HealthyAlways, PTL DEF Spec, RoundRobinScheduling, RR!Spec
=============================================================================
