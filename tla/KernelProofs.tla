---------------------------- MODULE KernelProofs ----------------------------
(***************************************************************************)
(* Mutexes and semaphores are correct for every number of tasks, mutexes   *)
(* and semaphores, and use the task manager as Sched demands.  The second  *)
(* part, about SchedHist, is how long a sleep lasts.  As in SchedProofs,   *)
(* the first task is made ready once, without line 148 of task.c.          *)
(***************************************************************************)
EXTENDS Kernel, SchedHist, SchedProofs, FiniteSetTheorems

(* Who waits is blocked, in one wait list and once.                        *)
WaitersQueued ==
    /\ \A x \in Obj : ToSet(wait_list[x]) \subseteq Blocked
    /\ \A x \in Obj : IsInjective(wait_list[x])
    /\ \A x, y \in Obj : x # y => ToSet(wait_list[x]) \intersect ToSet(wait_list[y]) = {}

(* The inductive invariant: that of Sched and the bookkeeping of ipc/.     *)
KInv ==
    /\ IInv
    /\ KTypeOK
    /\ WaitersQueued
    /\ MutexFields
    /\ SemExact

(* task_dispatch changes no list but the ready list.                       *)
LEMMA DispatchReady ==
  ASSUME NEW list, NEW st, task_dispatch(list, st) PROVE ready_list' = list
BY DEF task_dispatch

(* A task that blocks itself is the one task more that is blocked.         *)
LEMMA BlockBlocked ==
  ASSUME IInv, block_current
  PROVE  /\ Blocked' = Blocked \union {curr_task}
         /\ curr_task \notin Blocked
         /\ curr_task \in Task
<1> USE TaskAssumption
<1>1. curr_task \in Task /\ curr_task # NULL /\ curr_task # idle_task
  BY DEF block_current, Running
<1>2. curr_task \in ToSet(ready_list) /\ curr_task \in Created
  BY <1>1, RunningFacts
<1>3. ready_list' = RemoveFirst(ready_list, curr_task)
      /\ sleep_list' = sleep_list /\ task_list' = task_list
  BY <1>1, DispatchReady DEF block_current, task_set_block
<1>4. ToSet(ready_list') = ToSet(ready_list) \ {curr_task}
  BY <1>2, <1>3, RemoveFirstFacts DEF IInv, TypeOK, RunNodeOnce
<1>5. Created' = Created /\ ToSet(sleep_list') = ToSet(sleep_list)
      /\ curr_task \notin ToSet(sleep_list)
  BY <1>2, <1>3 DEF Created, IInv, RunNodeOnce
<1> QED
  BY <1>1, <1>2, <1>4, <1>5 DEF Blocked

(* A blocked task that is made ready is the one task less that is blocked. *)
LEMMA WakeBlocked ==
  ASSUME IInv, NEW t \in Task, wake(t)
  PROVE  Blocked' = Blocked \ {t}
<1> USE TaskAssumption
<1>1. ready_list' = Append(ready_list, t)
      /\ sleep_list' = sleep_list /\ task_list' = task_list
  BY DispatchReady DEF wake, make_ready, task_set_ready
<1>2. ToSet(ready_list') = ToSet(ready_list) \union {t}
  BY <1>1, AppendFacts DEF IInv, TypeOK
<1>3. Created' = Created /\ ToSet(sleep_list') = ToSet(sleep_list)
  BY <1>1 DEF Created
<1> QED
  BY <1>2, <1>3 DEF Blocked

(* A step of the task manager's own operations unblocks no task, and       *)
(* blocks none unless the sum in sys_msleep wraps.                         *)
LEMMA SchedStepBlocked ==
  ASSUME IInv, sched_step
  PROVE  Blocked \subseteq Blocked' /\ (NoWrap => Blocked' = Blocked)
<1> USE TaskAssumption
<1> DEFINE Q == ToSet(ready_list) \union ToSet(sleep_list)
<1>1. ASSUME ToSet(ready_list') \union ToSet(sleep_list') = Q, task_list' = task_list
      PROVE  Blocked' = Blocked
  BY <1>1 DEF Blocked, Created
<1>2. ASSUME NEW t \in Task, t \notin Created, task_init(t, FALSE), sleep_list' = sleep_list
      PROVE  Blocked' = Blocked
  <2>1. ready_list' = Append(ready_list, t) /\ task_list' = Append(task_list, t)
    BY <1>2 DEF task_init, task_set_ready
  <2>2. ToSet(ready_list') = ToSet(ready_list) \union {t}
    BY <2>1, AppendFacts DEF IInv, TypeOK
  <2>5. Created' = Created \union {t}
    <3>1. task_list \in Seq(AllTask) /\ t \in AllTask
      BY DEF IInv, TypeOK, AllTask
    <3> QED
      BY <2>1, <3>1, AppendFacts DEF Created
  <2>3. t \notin ToSet(ready_list) /\ t \notin ToSet(sleep_list)
    BY <1>2 DEF IInv, RunNodeOnce
  <2>4. sleep_list' = sleep_list
    BY <1>2
  <2> QED
    BY <2>2, <2>3, <2>4, <2>5, <1>2 DEF Blocked
<1>3. CASE task_first_init
  <2>1. first_task \notin Created
    BY <1>3 DEF task_first_init, IInv, Basics
  <2>2. task_init(first_task, FALSE)
    BY <1>3 DEF task_first_init, IInv, Basics
  <2> QED
    BY <1>2, <1>3, <2>1, <2>2 DEF task_first_init
<1>4. ASSUME NEW t \in Task, create(t) PROVE Blocked' = Blocked
  BY <1>2, <1>4 DEF create
<1>5. CASE sys_sched_yield
  <2>1. curr_task \in ToSet(ready_list)
    BY <1>5, RunningFacts DEF sys_sched_yield, Running
  <2>2. ready_list' = task_set_ready(task_set_block(ready_list, curr_task), curr_task)
    BY <1>5, DispatchReady DEF sys_sched_yield
  <2>3. ToSet(ready_list') = ToSet(ready_list)
    BY <2>1, <2>2, RequeueFacts DEF IInv, TypeOK, RunNodeOnce
  <2> QED
    BY <1>1, <1>5, <2>3 DEF sys_sched_yield
<1>6. ASSUME NEW ms \in Ms, sys_msleep(ms)
      PROVE  Blocked \subseteq Blocked' /\ (NoWrap => Blocked' = Blocked)
  <2>1. curr_task \in Task /\ curr_task # idle_task /\ curr_task # NULL
    BY <1>6 DEF sys_msleep, Running
  <2>2. curr_task \in ToSet(ready_list)
    BY <2>1, RunningFacts
  <2>3. ready_list' = RemoveFirst(ready_list, curr_task) /\ task_list' = task_list
    BY <1>6, <2>1, DispatchReady DEF sys_msleep, task_set_block
  <2>4. ToSet(ready_list') = ToSet(ready_list) \ {curr_task}
    BY <2>2, <2>3, RemoveFirstFacts DEF IInv, TypeOK, RunNodeOnce
  <2>5. CASE sleep_list' = Append(sleep_list, curr_task)
    <3>1. ToSet(sleep_list') = ToSet(sleep_list) \union {curr_task}
      BY <2>1, <2>5, AppendFacts DEF IInv, TypeOK
    <3> QED
      BY <1>1, <2>2, <2>3, <2>4, <3>1
  <2>6. CASE sleep_list' = sleep_list /\ msleep_ticks(ms) = 0
    <3>1. ~NoWrap
      BY <1>6, <2>6 DEF NoWrap
    <3>2. Created' = Created
      BY <2>3 DEF Created
    <3> QED
      BY <2>4, <2>6, <3>1, <3>2 DEF Blocked
  <2> QED
    BY <1>6, <2>5, <2>6 DEF sys_msleep
<1>7. CASE timer_interrupt
  BY <1>1, <1>7 DEF timer_interrupt
<1>8. CASE do_handler_timer
  <2>1. /\ curr_task # NULL /\ UNCHANGED <<sleep_list, task_list>>
        /\ \/ ready_list' = ready_list
           \/ ready_list' = task_set_ready(task_set_block(ready_list, curr_task), curr_task)
    BY <1>8, DispatchReady DEF do_handler_timer
  <2>2. curr_task = idle_task \/ curr_task \in ToSet(ready_list)
    BY <2>1, RunningFacts
  <2>3. ToSet(ready_list') = ToSet(ready_list)
    BY <2>1, <2>2, RequeueFacts DEF IInv, TypeOK, RunNodeOnce
  <2> QED
    BY <1>1, <2>1, <2>3
<1>9. CASE walk_begin
  BY <1>1, <1>9 DEF walk_begin
<1>10. CASE walk_step
  <2>1. cursor \in ToSet(sleep_list) /\ cursor \in Task /\ cursor # idle_task
    BY <1>10 DEF walk_step, IInv, TypeOK, CursorSleeps
  <2>2. task_list' = task_list
    BY <1>10 DEF walk_step
  <2>3. CASE UNCHANGED <<sleep_list, ready_list>>
    BY <1>1, <2>2, <2>3
  <2>4. CASE /\ sleep_list' = RemoveFirst(sleep_list, cursor)
             /\ ready_list' = Append(ready_list, cursor)
    <3>1. ToSet(sleep_list') = ToSet(sleep_list) \ {cursor}
      BY <2>1, <2>4, RemoveFirstFacts DEF IInv, TypeOK, RunNodeOnce
    <3>2. ToSet(ready_list') = ToSet(ready_list) \union {cursor}
      BY <2>1, <2>4, AppendFacts DEF IInv, TypeOK
    <3> QED
      BY <1>1, <2>1, <2>2, <3>1, <3>2
  <2> QED
    BY <1>10, <2>1, <2>3, <2>4 DEF walk_step, task_set_ready
<1>11. CASE walk_end
  <2>1. ready_list' = ready_list /\ UNCHANGED <<sleep_list, task_list>>
    BY <1>11, DispatchReady DEF walk_end
  <2> QED
    BY <1>1, <2>1
<1> QED
  BY <1>3, <1>4, <1>5, <1>6, <1>7, <1>8, <1>9, <1>10, <1>11 DEF sched_step, Handler

(* A running task waits in no wait list.                                   *)
LEMMA RunnerWaitsNowhere ==
  ASSUME KInv, Running
  PROVE  \A x \in Obj : curr_task \notin ToSet(wait_list[x])
<1> USE TaskAssumption
<1>1. curr_task \in ToSet(ready_list)
  BY RunningFacts DEF KInv, Running
<1> QED
  BY <1>1 DEF KInv, WaitersQueued, Blocked

(* Blocking the caller on x: the wait lists stay in order.                 *)
LEMMA WaitOnFacts ==
  ASSUME KInv, NEW x \in Obj, wait_on(x)
  PROVE  /\ block_current
         /\ wait_list' \in [Obj -> Seq(Task)]
         /\ WaitersQueued'
         /\ \A y \in Obj : y # x => wait_list'[y] = wait_list[y]
         /\ ToSet(wait_list'[x]) = ToSet(wait_list[x]) \union {curr_task}
         /\ Len(wait_list'[x]) = Len(wait_list[x]) + 1
<1> USE TaskAssumption
<1>1. block_current /\ Running /\ curr_task \in Task
  BY DEF wait_on, block_current, Running
<1>2. wait_list' = [wait_list EXCEPT ![x] = Append(@, curr_task)]
  BY DEF wait_on
<1>3. wait_list \in [Obj -> Seq(Task)] /\ wait_list[x] \in Seq(Task)
  BY DEF KInv, KTypeOK
<1>4. \A y \in Obj : curr_task \notin ToSet(wait_list[y])
  BY <1>1, RunnerWaitsNowhere
<1>5. PICK w : w = Append(wait_list[x], curr_task)
  OBVIOUS
<1>6. /\ w \in Seq(Task) /\ ToSet(w) = ToSet(wait_list[x]) \union {curr_task}
      /\ Len(w) = Len(wait_list[x]) + 1 /\ IsInjective(w)
  BY <1>1, <1>3, <1>4, <1>5, AppendFacts DEF KInv, WaitersQueued
<1>7. wait_list'[x] = w /\ \A y \in Obj : y # x => wait_list'[y] = wait_list[y]
  BY <1>2, <1>3, <1>5
<1>8. wait_list' \in [Obj -> Seq(Task)]
  BY <1>2, <1>3, <1>5, <1>6
<1>9. Blocked' = Blocked \union {curr_task}
  BY <1>1, BlockBlocked DEF KInv
<1>10. WaitersQueued'
  <2>1. \A y \in Obj : ToSet(wait_list'[y]) \subseteq Blocked'
    BY <1>6, <1>7, <1>9 DEF KInv, WaitersQueued
  <2>2. \A y \in Obj : IsInjective(wait_list'[y])
    BY <1>6, <1>7 DEF KInv, WaitersQueued
  <2>3. ASSUME NEW y \in Obj, NEW z \in Obj, y # z
        PROVE  ToSet(wait_list'[y]) \intersect ToSet(wait_list'[z]) = {}
    <3>1. ToSet(wait_list[y]) \intersect ToSet(wait_list[z]) = {}
      BY <2>3 DEF KInv, WaitersQueued
    <3> QED
      BY <1>4, <1>6, <1>7, <2>3, <3>1
  <2> QED
    BY <2>1, <2>2, <2>3 DEF WaitersQueued
<1> QED
  BY <1>1, <1>6, <1>7, <1>8, <1>10

(* Making the first waiter of x ready: it was blocked, and the wait lists  *)
(* stay in order.                                                          *)
LEMMA WakeFirstFacts ==
  ASSUME KInv, NEW x \in Obj, wait_list[x] # << >>, wake_first(x)
  PROVE  /\ Head(wait_list[x]) \in Task
         /\ wake(Head(wait_list[x]))
         /\ Head(wait_list[x]) \in ToSet(wait_list[x])
         /\ wait_list' \in [Obj -> Seq(Task)]
         /\ WaitersQueued'
         /\ \A y \in Obj : y # x => wait_list'[y] = wait_list[y]
         /\ ToSet(wait_list'[x]) = ToSet(wait_list[x]) \ {Head(wait_list[x])}
         /\ Len(wait_list'[x]) = Len(wait_list[x]) - 1
<1> USE TaskAssumption
<1>1. wait_list \in [Obj -> Seq(Task)] /\ wait_list[x] \in Seq(Task)
      /\ IsInjective(wait_list[x]) /\ ToSet(wait_list[x]) \subseteq Blocked
  BY DEF KInv, KTypeOK, WaitersQueued
<1>2. PICK h : h = Head(wait_list[x])
  OBVIOUS
<1>3. h \in ToSet(wait_list[x]) /\ h \in Task
  BY <1>1, <1>2, HeadFacts
<1>4. wake(h)
  BY <1>1, <1>2, <1>3 DEF wake_first, wake
<1>5. wait_list' = [wait_list EXCEPT ![x] = Tail(@)]
  BY DEF wake_first
<1>6. PICK w : w = Tail(wait_list[x])
  OBVIOUS
<1>7. /\ w \in Seq(Task) /\ IsInjective(w)
      /\ ToSet(w) = ToSet(wait_list[x]) \ {h}
      /\ Len(w) = Len(wait_list[x]) - 1
  BY <1>1, <1>2, <1>6, TailFacts
<1>8. wait_list'[x] = w /\ \A y \in Obj : y # x => wait_list'[y] = wait_list[y]
  BY <1>1, <1>5, <1>6
<1>9. wait_list' \in [Obj -> Seq(Task)]
  BY <1>1, <1>5, <1>6, <1>7
<1>10. Blocked' = Blocked \ {h}
  BY <1>3, <1>4, WakeBlocked DEF KInv
<1>11. WaitersQueued'
  <2>1. \A y \in Obj : h \in ToSet(wait_list[y]) => y = x
    BY <1>3 DEF KInv, WaitersQueued
  <2>2. \A y \in Obj : ToSet(wait_list'[y]) \subseteq Blocked'
    BY <1>7, <1>8, <1>10, <2>1 DEF KInv, WaitersQueued
  <2>3. \A y \in Obj : IsInjective(wait_list'[y])
    BY <1>7, <1>8 DEF KInv, WaitersQueued
  <2>4. \A y \in Obj : ToSet(wait_list'[y]) \subseteq ToSet(wait_list[y])
    BY <1>7, <1>8
  <2>5. \A y, z \in Obj : y # z =>
            ToSet(wait_list'[y]) \intersect ToSet(wait_list'[z]) = {}
    BY <2>4 DEF KInv, WaitersQueued
  <2> QED
    BY <2>2, <2>3, <2>5 DEF WaitersQueued
<1> QED
  BY <1>2, <1>3, <1>4, <1>7, <1>8, <1>9, <1>11

(* Steps of the mutexes and semaphores that leave the task manager and the *)
(* wait lists alone.                                                       *)
LEMMA QueuesSame ==
  ASSUME KInv, UNCHANGED <<vars, wait_list>>
  PROVE  WaitersQueued' /\ wait_list' \in [Obj -> Seq(Task)]
<1>1. Blocked' = Blocked /\ wait_list' = wait_list
  BY DEF vars, Blocked, Created
<1> QED
  BY <1>1 DEF KInv, KTypeOK, WaitersQueued

(* Every step of Kernel is a step of Sched or leaves it unchanged.         *)
LEMMA KNextSched == KInv /\ [KNext]_kvars => [Next]_vars
<1> SUFFICES ASSUME KInv, [KNext]_kvars PROVE [Next]_vars
  OBVIOUS
<1>1. CASE sched_step
  BY <1>1 DEF sched_step, Next
<1>2. ASSUME NEW m \in Mutex, mutex_lock(m) PROVE [Next]_vars
  BY <1>2 DEF mutex_lock, wait_on, Next
<1>3. ASSUME NEW m \in Mutex, mutex_unlock(m) PROVE [Next]_vars
  <2>1. CASE UNCHANGED vars
    BY <2>1
  <2>2. CASE wait_list[m] # << >> /\ wake_first(m)
    BY <2>2, WakeFirstFacts DEF Obj, Next
  <2> QED
    BY <1>3, <2>1, <2>2 DEF mutex_unlock
<1>4. ASSUME NEW s \in Sem, sem_wait(s) PROVE [Next]_vars
  BY <1>4 DEF sem_wait, wait_on, Next
<1>5. ASSUME NEW s \in Sem, sem_notify(s) PROVE [Next]_vars
  <2>1. CASE UNCHANGED vars
    BY <2>1
  <2>2. CASE wait_list[s] # << >> /\ wake_first(s)
    BY <2>2, WakeFirstFacts DEF Obj, Next
  <2> QED
    BY <1>5, <2>1, <2>2 DEF sem_notify
<1>6. CASE UNCHANGED kvars
  BY <1>6 DEF kvars
<1> QED
  BY <1>1, <1>2, <1>3, <1>4, <1>5, <1>6 DEF KNext

LEMMA KInitInv ==
  ASSUME RestartFirst = FALSE
  PROVE  KInit => KInv
<1> SUFFICES ASSUME KInit PROVE KInv
  OBVIOUS
<1> USE TaskAssumption, IpcAssumption
<1>1. IInv
  BY InitIInv DEF KInit
<1>2. \A x \in Obj : /\ wait_list[x] = << >> /\ ToSet(wait_list[x]) = {}
                     /\ IsInjective(wait_list[x]) /\ Len(wait_list[x]) = 0
  BY EmptyFacts DEF KInit
<1>3. WaitersQueued
  BY <1>2 DEF WaitersQueued
<1>4. /\ count \in [Sem -> Nat] /\ balance = count
      /\ wait_list \in [Obj -> Seq(Task)]
  <2>1. count \in [Sem -> Nat] /\ balance = count
    BY DEF KInit
  <2>2. wait_list \in [Obj -> Seq(Task)]
    BY EmptyFacts DEF KInit
  <2> QED
    BY <2>1, <2>2
<1>5. KTypeOK
  BY <1>4 DEF KInit, KTypeOK
<1>6. MutexFields
  <2> SUFFICES ASSUME NEW m \in Mutex, NEW t \in Task
               PROVE  /\ owner[m] = NULL /\ locked_count[m] = 0
                      /\ wait_list[m] = << >> /\ ToSet(wait_list[m]) = {}
                      /\ depth[t][m] = 0 /\ t # owner[m]
    BY DEF MutexFields, KInit
  <2> QED
    BY <1>2 DEF KInit, Obj
<1>7. SemExact
  BY <1>2, <1>4 DEF SemExact, Obj
<1> QED
  BY <1>1, <1>3, <1>5, <1>6, <1>7 DEF KInv

LEMMA SchedStepKInv == KInv /\ IInv' /\ sched_step => KInv'
<1> SUFFICES ASSUME KInv, IInv', sched_step PROVE KInv'
  OBVIOUS
<1>1. UNCHANGED ipcVars /\ Blocked \subseteq Blocked'
  BY SchedStepBlocked DEF KInv, sched_step
<1>2. WaitersQueued'
  BY <1>1 DEF KInv, WaitersQueued, ipcVars
<1>3. KTypeOK' /\ MutexFields' /\ SemExact'
  BY <1>1 DEF KInv, KTypeOK, MutexFields, SemExact, ipcVars
<1> QED
  BY <1>2, <1>3 DEF KInv

LEMMA LockKInv ==
  ASSUME NEW m \in Mutex PROVE KInv /\ IInv' /\ mutex_lock(m) => KInv'
<1> SUFFICES ASSUME KInv, IInv', mutex_lock(m) PROVE KInv'
  OBVIOUS
<1> USE TaskAssumption, IpcAssumption
<1> DEFINE c == curr_task
<1>1. /\ Running /\ c \in Task /\ c # NULL
      /\ depth' = [depth EXCEPT ![c][m] = @ + 1]
      /\ depth[c][m] < MaxDepth
      /\ UNCHANGED <<count, balance>>
  BY DEF mutex_lock, Running
<1>2. m \in Obj /\ c \notin ToSet(wait_list[m]) /\ Sem \subseteq Obj /\ Mutex \subseteq Obj
  BY <1>1, RunnerWaitsNowhere DEF Obj
<1>3. /\ depth \in [Task -> [Mutex -> 0..MaxDepth]]
      /\ locked_count \in [Mutex -> Nat] /\ owner \in [Mutex -> Task \union {NULL}]
  BY DEF KInv, KTypeOK
<1>4. depth' \in [Task -> [Mutex -> 0..MaxDepth]]
  BY <1>1, <1>3
<1>5. \A t \in Task, n \in Mutex :
         depth'[t][n] = IF t = c /\ n = m THEN depth[c][m] + 1 ELSE depth[t][n]
  BY <1>1, <1>3
<1>6. /\ owner[m] = NULL <=> locked_count[m] = 0
      /\ owner[m] = NULL => wait_list[m] = << >>
      /\ \A t \in Task :
            depth[t][m] = IF t = owner[m] THEN locked_count[m]
                          ELSE IF t \in ToSet(wait_list[m]) THEN 1 ELSE 0
  BY DEF KInv, MutexFields
<1>7. ASSUME NEW n \in Mutex, n # m,
             owner'[n] = owner[n], locked_count'[n] = locked_count[n],
             wait_list'[n] = wait_list[n]
      PROVE  /\ owner'[n] = NULL <=> locked_count'[n] = 0
             /\ owner'[n] = NULL => wait_list'[n] = << >>
             /\ \A t \in Task :
                   depth'[t][n] = IF t = owner'[n] THEN locked_count'[n]
                                  ELSE IF t \in ToSet(wait_list'[n]) THEN 1 ELSE 0
  BY <1>5, <1>7 DEF KInv, MutexFields
<1>8. CASE locked_count[m] = 0
  <2>1. /\ locked_count' = [locked_count EXCEPT ![m] = 1]
        /\ owner' = [owner EXCEPT ![m] = c] /\ UNCHANGED <<vars, wait_list>>
    BY <1>8 DEF mutex_lock
  <2>2. WaitersQueued' /\ wait_list' \in [Obj -> Seq(Task)]
    BY <2>1, QueuesSame
  <2>3. KTypeOK'
    BY <1>1, <1>3, <1>4, <2>1, <2>2 DEF KInv, KTypeOK
  <2>4. MutexFields'
    <3>1. /\ owner'[m] = c /\ locked_count'[m] = 1
          /\ wait_list'[m] = wait_list[m]
          /\ \A n \in Mutex : n # m => /\ owner'[n] = owner[n]
                                       /\ locked_count'[n] = locked_count[n]
                                       /\ wait_list'[n] = wait_list[n]
      BY <1>3, <2>1
    <3>2. wait_list[m] = << >> /\ ToSet(wait_list[m]) = {} /\ depth[c][m] = 0
      <4>1. wait_list[m] = << >>
        BY <1>6, <1>8
      <4>2. ToSet(wait_list[m]) = {}
        BY <4>1, EmptyFacts
      <4> QED
        BY <1>1, <1>6, <1>8, <4>1, <4>2
    <3>3. \A t \in Task :
             depth'[t][m] = IF t = owner'[m] THEN locked_count'[m]
                            ELSE IF t \in ToSet(wait_list'[m]) THEN 1 ELSE 0
      BY <1>1, <1>5, <1>6, <1>8, <3>1, <3>2
    <3> QED
      BY <1>1, <1>7, <3>1, <3>3 DEF MutexFields
  <2>5. SemExact'
    BY <1>1, <2>1 DEF KInv, SemExact
  <2> QED
    BY <2>2, <2>3, <2>4, <2>5 DEF KInv
<1>9. CASE locked_count[m] # 0 /\ owner[m] = c
  <2>1. /\ locked_count' = [locked_count EXCEPT ![m] = @ + 1]
        /\ UNCHANGED <<vars, wait_list, owner>>
    BY <1>9 DEF mutex_lock
  <2>2. WaitersQueued' /\ wait_list' \in [Obj -> Seq(Task)]
    BY <2>1, QueuesSame
  <2>3. KTypeOK'
    BY <1>1, <1>3, <1>4, <2>1, <2>2 DEF KInv, KTypeOK
  <2>4. MutexFields'
    <3>1. /\ owner'[m] = c /\ locked_count'[m] = locked_count[m] + 1
          /\ wait_list'[m] = wait_list[m]
          /\ \A n \in Mutex : n # m => /\ owner'[n] = owner[n]
                                       /\ locked_count'[n] = locked_count[n]
                                       /\ wait_list'[n] = wait_list[n]
      BY <1>3, <1>9, <2>1
    <3>2. \A t \in Task :
             depth'[t][m] = IF t = owner'[m] THEN locked_count'[m]
                            ELSE IF t \in ToSet(wait_list'[m]) THEN 1 ELSE 0
      BY <1>1, <1>5, <1>6, <1>9, <3>1
    <3>3. locked_count[m] + 1 # 0
      BY <1>3
    <3> QED
      BY <1>1, <1>7, <3>1, <3>2, <3>3 DEF MutexFields
  <2>5. SemExact'
    BY <1>1, <2>1 DEF KInv, SemExact
  <2> QED
    BY <2>2, <2>3, <2>4, <2>5 DEF KInv
<1>10. CASE locked_count[m] # 0 /\ owner[m] # c
  <2>1. wait_on(m) /\ UNCHANGED <<locked_count, owner>>
    BY <1>10 DEF mutex_lock
  <2>2. /\ wait_list' \in [Obj -> Seq(Task)] /\ WaitersQueued'
        /\ \A y \in Obj : y # m => wait_list'[y] = wait_list[y]
        /\ ToSet(wait_list'[m]) = ToSet(wait_list[m]) \union {c}
    BY <1>2, <2>1, WaitOnFacts
  <2>3. KTypeOK'
    BY <1>1, <1>3, <1>4, <2>1, <2>2 DEF KInv, KTypeOK
  <2>4. MutexFields'
    <3>1. depth[c][m] = 0
      BY <1>1, <1>2, <1>6, <1>10
    <3>2. \A t \in Task :
             depth'[t][m] = IF t = owner'[m] THEN locked_count'[m]
                            ELSE IF t \in ToSet(wait_list'[m]) THEN 1 ELSE 0
      BY <1>1, <1>5, <1>6, <1>10, <2>1, <2>2, <3>1
    <3>3. \A n \in Mutex : n # m => wait_list'[n] = wait_list[n]
      BY <1>2, <2>2
    <3> QED
      BY <1>6, <1>7, <1>10, <2>1, <3>2, <3>3 DEF MutexFields
  <2>5. SemExact'
    <3>1. \A s \in Sem : wait_list'[s] = wait_list[s]
      BY <1>2, <2>2
    <3> QED
      BY <1>1, <3>1 DEF KInv, SemExact
  <2> QED
    BY <2>2, <2>3, <2>4, <2>5 DEF KInv
<1> QED
  BY <1>8, <1>9, <1>10

LEMMA UnlockKInv ==
  ASSUME NEW m \in Mutex PROVE KInv /\ IInv' /\ mutex_unlock(m) => KInv'
<1> SUFFICES ASSUME KInv, IInv', mutex_unlock(m) PROVE KInv'
  OBVIOUS
<1> USE TaskAssumption, IpcAssumption
<1> DEFINE c == curr_task
           fields(n) == \A t \in Task :
              depth'[t][n] = IF t = owner'[n] THEN locked_count'[n]
                             ELSE IF t \in ToSet(wait_list'[n]) THEN 1 ELSE 0
<1>1. /\ Running /\ c \in Task /\ c # NULL
      /\ depth' = [depth EXCEPT ![c][m] = IF @ = 0 THEN 0 ELSE @ - 1]
      /\ UNCHANGED <<count, balance>>
  BY DEF mutex_unlock, Running
<1>2. m \in Obj /\ c \notin ToSet(wait_list[m]) /\ Sem \subseteq Obj /\ Mutex \subseteq Obj
  BY <1>1, RunnerWaitsNowhere DEF Obj
<1>3. /\ depth \in [Task -> [Mutex -> 0..MaxDepth]]
      /\ locked_count \in [Mutex -> Nat] /\ owner \in [Mutex -> Task \union {NULL}]
      /\ wait_list \in [Obj -> Seq(Task)]
  BY DEF KInv, KTypeOK
<1>4. depth' \in [Task -> [Mutex -> 0..MaxDepth]]
  BY <1>1, <1>3
<1>5. \A t \in Task, n \in Mutex :
         depth'[t][n] = IF t = c /\ n = m
                        THEN IF depth[c][m] = 0 THEN 0 ELSE depth[c][m] - 1
                        ELSE depth[t][n]
  BY <1>1, <1>3
<1>6. /\ owner[m] = NULL <=> locked_count[m] = 0
      /\ owner[m] = NULL => wait_list[m] = << >>
      /\ \A t \in Task :
            depth[t][m] = IF t = owner[m] THEN locked_count[m]
                          ELSE IF t \in ToSet(wait_list[m]) THEN 1 ELSE 0
  BY DEF KInv, MutexFields
<1>7. ASSUME NEW n \in Mutex, n # m,
             owner'[n] = owner[n], locked_count'[n] = locked_count[n],
             wait_list'[n] = wait_list[n]
      PROVE  /\ owner'[n] = NULL <=> locked_count'[n] = 0
             /\ owner'[n] = NULL => wait_list'[n] = << >>
             /\ fields(n)
  BY <1>5, <1>7 DEF KInv, MutexFields
<1>8. ASSUME \A n \in Mutex : n # m => /\ owner'[n] = owner[n]
                                      /\ locked_count'[n] = locked_count[n]
                                      /\ wait_list'[n] = wait_list[n],
             owner'[m] = NULL <=> locked_count'[m] = 0,
             owner'[m] = NULL => wait_list'[m] = << >>,
             fields(m)
      PROVE  MutexFields'
  BY <1>7, <1>8 DEF MutexFields
<1>9. CASE UNCHANGED <<vars, wait_list>>
  <2>1. WaitersQueued' /\ wait_list' \in [Obj -> Seq(Task)] /\ wait_list' = wait_list
    BY <1>9, QueuesSame
  <2>2. SemExact'
    BY <1>1, <2>1 DEF KInv, SemExact
  <2>3. CASE owner[m] # c /\ UNCHANGED <<locked_count, owner>>
    <3>1. KTypeOK'
      BY <1>1, <1>3, <1>4, <2>1, <2>3 DEF KInv, KTypeOK
    <3>2. depth[c][m] = 0
      BY <1>1, <1>2, <1>6, <2>3
    <3>3. fields(m)
      BY <1>1, <1>2, <1>5, <1>6, <2>1, <2>3, <3>2
    <3>4. MutexFields'
      BY <1>6, <1>8, <2>1, <2>3, <3>3
    <3> QED
      BY <2>1, <2>2, <3>1, <3>4 DEF KInv
  <2>4. CASE /\ owner[m] = c /\ locked_count[m] - 1 # 0 /\ owner' = owner
             /\ locked_count' = [locked_count EXCEPT ![m] = @ - 1]
    <3>1. locked_count[m] \in Nat /\ locked_count[m] # 0 /\ depth[c][m] = locked_count[m]
      BY <1>1, <1>3, <1>6, <2>4
    <3>2. locked_count' \in [Mutex -> Nat] /\ locked_count'[m] = locked_count[m] - 1
      BY <1>3, <2>4, <3>1
    <3>3. KTypeOK'
      BY <1>1, <1>3, <1>4, <2>1, <2>4, <3>2 DEF KInv, KTypeOK
    <3>4. fields(m)
      BY <1>1, <1>5, <1>6, <2>1, <2>4, <3>1, <3>2
    <3>5. \A n \in Mutex : n # m => locked_count'[n] = locked_count[n]
      BY <1>3, <2>4
    <3>6. MutexFields'
      BY <1>1, <1>8, <2>1, <2>4, <3>2, <3>4, <3>5
    <3> QED
      BY <2>1, <2>2, <3>3, <3>6 DEF KInv
  <2>5. CASE /\ owner[m] = c /\ locked_count[m] - 1 = 0 /\ wait_list[m] = << >>
             /\ locked_count' = [locked_count EXCEPT ![m] = 0]
             /\ owner' = [owner EXCEPT ![m] = NULL]
    <3>1. /\ locked_count' \in [Mutex -> Nat] /\ locked_count'[m] = 0
          /\ owner' \in [Mutex -> Task \union {NULL}] /\ owner'[m] = NULL
          /\ \A n \in Mutex : n # m => /\ owner'[n] = owner[n]
                                       /\ locked_count'[n] = locked_count[n]
      BY <1>3, <2>5
    <3>2. depth[c][m] = 1 /\ ToSet(wait_list[m]) = {}
      <4>1. locked_count[m] = 1
        BY <1>3, <2>5
      <4>2. ToSet(wait_list[m]) = {}
        BY <2>5, EmptyFacts
      <4> QED
        BY <1>1, <1>6, <2>5, <4>1, <4>2
    <3>3. KTypeOK'
      BY <1>1, <1>4, <2>1, <3>1 DEF KInv, KTypeOK
    <3>4. fields(m)
      BY <1>1, <1>5, <1>6, <2>1, <2>5, <3>1, <3>2
    <3>5. MutexFields'
      BY <1>8, <2>1, <2>5, <3>1, <3>4
    <3> QED
      BY <2>1, <2>2, <3>3, <3>5 DEF KInv
  <2>6. CASE /\ owner[m] = c /\ locked_count[m] - 1 = 0 /\ wait_list[m] # << >>
             /\ wake_first(m)
    <3>1. wait_list'[m] # wait_list[m]
      <4>1. Len(wait_list'[m]) = Len(wait_list[m]) - 1 /\ Len(wait_list[m]) \in Nat
        BY <1>2, <1>3, <2>6, WakeFirstFacts
      <4> QED
        BY <4>1
    <3> QED
      BY <2>1, <3>1
  <2> QED
    BY <2>3, <2>4, <2>5, <2>6 DEF mutex_unlock
<1>10. CASE /\ owner[m] = c /\ locked_count[m] - 1 = 0 /\ wait_list[m] # << >>
            /\ locked_count' = [locked_count EXCEPT ![m] = 1]
            /\ owner' = [owner EXCEPT ![m] = Head(wait_list[m])]
            /\ wake_first(m)
  <2>1. PICK h : h = Head(wait_list[m])
    OBVIOUS
  <2>2. /\ h \in Task /\ h \in ToSet(wait_list[m])
        /\ wait_list' \in [Obj -> Seq(Task)] /\ WaitersQueued'
        /\ \A y \in Obj : y # m => wait_list'[y] = wait_list[y]
        /\ ToSet(wait_list'[m]) = ToSet(wait_list[m]) \ {h}
    BY <1>2, <1>10, <2>1, WakeFirstFacts
  <2>3. /\ locked_count' \in [Mutex -> Nat] /\ locked_count'[m] = 1
        /\ owner' \in [Mutex -> Task \union {NULL}] /\ owner'[m] = h
        /\ \A n \in Mutex : n # m => /\ owner'[n] = owner[n]
                                     /\ locked_count'[n] = locked_count[n]
                                     /\ wait_list'[n] = wait_list[n]
    BY <1>2, <1>3, <1>10, <2>1, <2>2
  <2>4. KTypeOK'
    BY <1>1, <1>4, <2>2, <2>3 DEF KInv, KTypeOK
  <2>5. c # h /\ depth[c][m] = 1 /\ depth[h][m] = 1
    <3>1. locked_count[m] = 1
      BY <1>3, <1>10
    <3> QED
      BY <1>1, <1>2, <1>6, <1>10, <2>2, <3>1
  <2>6. fields(m)
    BY <1>1, <1>2, <1>5, <1>6, <1>10, <2>2, <2>3, <2>5
  <2>7. MutexFields'
    BY <1>8, <2>2, <2>3, <2>6
  <2>8. SemExact'
    <3>1. \A s \in Sem : wait_list'[s] = wait_list[s]
      BY <1>2, <2>2
    <3> QED
      BY <1>1, <3>1 DEF KInv, SemExact
  <2> QED
    BY <2>2, <2>4, <2>7, <2>8 DEF KInv
<1> QED
  BY <1>9, <1>10 DEF mutex_unlock

LEMMA WaitKInv ==
  ASSUME NEW s \in Sem PROVE KInv /\ IInv' /\ sem_wait(s) => KInv'
<1> SUFFICES ASSUME KInv, IInv', sem_wait(s) PROVE KInv'
  OBVIOUS
<1> USE IpcAssumption
<1>1. balance' = [balance EXCEPT ![s] = @ - 1] /\ UNCHANGED <<locked_count, owner, depth>>
  BY DEF sem_wait
<1>2. /\ count \in [Sem -> Nat] /\ balance \in [Sem -> Int]
      /\ s \in Obj /\ Sem \subseteq Obj /\ Mutex \subseteq Obj
      /\ \A m \in Mutex : m # s
  BY DEF KInv, KTypeOK, Obj
<1>3. /\ balance' \in [Sem -> Int] /\ balance'[s] = balance[s] - 1
      /\ \A r \in Sem : r # s => balance'[r] = balance[r]
  BY <1>1, <1>2
<1>4. /\ count[s] = IF balance[s] > 0 THEN balance[s] ELSE 0
      /\ Len(wait_list[s]) = IF balance[s] < 0 THEN -balance[s] ELSE 0
      /\ balance[s] \in Int
  BY <1>2 DEF KInv, SemExact
<1>5. CASE /\ count[s] > 0 /\ count' = [count EXCEPT ![s] = @ - 1]
           /\ UNCHANGED <<vars, wait_list>>
  <2>1. WaitersQueued' /\ wait_list' \in [Obj -> Seq(Task)] /\ wait_list' = wait_list
    BY <1>5, QueuesSame
  <2>2. /\ count' \in [Sem -> Nat] /\ count'[s] = count[s] - 1
        /\ \A r \in Sem : r # s => count'[r] = count[r]
    BY <1>2, <1>5
  <2>3. KTypeOK'
    BY <1>1, <1>3, <2>1, <2>2 DEF KInv, KTypeOK
  <2>4. MutexFields'
    BY <1>1, <2>1 DEF KInv, MutexFields
  <2>5. SemExact'
    BY <1>3, <1>4, <1>5, <2>1, <2>2 DEF KInv, SemExact
  <2> QED
    BY <2>1, <2>3, <2>4, <2>5 DEF KInv
<1>6. CASE ~(count[s] > 0) /\ wait_on(s) /\ UNCHANGED count
  <2>1. /\ wait_list' \in [Obj -> Seq(Task)] /\ WaitersQueued'
        /\ \A y \in Obj : y # s => wait_list'[y] = wait_list[y]
        /\ Len(wait_list'[s]) = Len(wait_list[s]) + 1
    BY <1>2, <1>6, WaitOnFacts
  <2>2. KTypeOK'
    BY <1>1, <1>3, <1>6, <2>1 DEF KInv, KTypeOK
  <2>3. MutexFields'
    <3>1. \A m \in Mutex : wait_list'[m] = wait_list[m]
      BY <1>2, <2>1
    <3> QED
      BY <1>1, <3>1 DEF KInv, MutexFields
  <2>4. SemExact'
    <3>1. /\ balance[s] \in Int /\ ~(balance[s] > 0) /\ count[s] = 0
          /\ Len(wait_list[s]) = -balance[s]
      BY <1>2, <1>4, <1>6
    <3>2. /\ count'[s] = IF balance'[s] > 0 THEN balance'[s] ELSE 0
          /\ Len(wait_list'[s]) = IF balance'[s] < 0 THEN -balance'[s] ELSE 0
      BY <1>3, <1>6, <2>1, <3>1
    <3>3. \A r \in Sem : r # s => /\ count'[r] = count[r] /\ balance'[r] = balance[r]
                                  /\ wait_list'[r] = wait_list[r]
      BY <1>2, <1>3, <1>6, <2>1
    <3>4. ASSUME NEW r \in Sem, r # s
          PROVE  /\ count'[r] = IF balance'[r] > 0 THEN balance'[r] ELSE 0
                 /\ Len(wait_list'[r]) = IF balance'[r] < 0 THEN -balance'[r] ELSE 0
      BY <3>3, <3>4 DEF KInv, SemExact
    <3> QED
      BY <3>2, <3>4 DEF SemExact
  <2> QED
    BY <2>1, <2>2, <2>3, <2>4 DEF KInv
<1> QED
  BY <1>5, <1>6 DEF sem_wait

LEMMA NotifyKInv ==
  ASSUME NEW s \in Sem PROVE KInv /\ IInv' /\ sem_notify(s) => KInv'
<1> SUFFICES ASSUME KInv, IInv', sem_notify(s) PROVE KInv'
  OBVIOUS
<1> USE IpcAssumption
<1>1. balance' = [balance EXCEPT ![s] = @ + 1] /\ UNCHANGED <<locked_count, owner, depth>>
  BY DEF sem_notify
<1>2. /\ count \in [Sem -> Nat] /\ balance \in [Sem -> Int]
      /\ wait_list \in [Obj -> Seq(Task)]
      /\ s \in Obj /\ Sem \subseteq Obj /\ Mutex \subseteq Obj
      /\ \A m \in Mutex : m # s
  BY DEF KInv, KTypeOK, Obj
<1>3. /\ balance' \in [Sem -> Int] /\ balance'[s] = balance[s] + 1
      /\ \A r \in Sem : r # s => balance'[r] = balance[r]
  BY <1>1, <1>2
<1>4. /\ count[s] = IF balance[s] > 0 THEN balance[s] ELSE 0
      /\ Len(wait_list[s]) = IF balance[s] < 0 THEN -balance[s] ELSE 0
      /\ balance[s] \in Int
      /\ wait_list[s] = << >> <=> Len(wait_list[s]) = 0
  <2>1. wait_list[s] = << >> <=> Len(wait_list[s]) = 0
    BY <1>2, HeadFacts
  <2> QED
    BY <1>2, <2>1 DEF KInv, SemExact
<1>5. CASE /\ wait_list[s] = << >> /\ count' = [count EXCEPT ![s] = @ + 1]
           /\ UNCHANGED <<vars, wait_list>>
  <2>1. WaitersQueued' /\ wait_list' \in [Obj -> Seq(Task)] /\ wait_list' = wait_list
    BY <1>5, QueuesSame
  <2>2. /\ count' \in [Sem -> Nat] /\ count'[s] = count[s] + 1
        /\ \A r \in Sem : r # s => count'[r] = count[r]
    BY <1>2, <1>5
  <2>3. KTypeOK'
    BY <1>1, <1>3, <2>1, <2>2 DEF KInv, KTypeOK
  <2>4. MutexFields'
    BY <1>1, <2>1 DEF KInv, MutexFields
  <2>5. SemExact'
    BY <1>3, <1>4, <1>5, <2>1, <2>2 DEF KInv, SemExact
  <2> QED
    BY <2>1, <2>3, <2>4, <2>5 DEF KInv
<1>6. CASE wait_list[s] # << >> /\ wake_first(s) /\ UNCHANGED count
  <2>1. /\ wait_list' \in [Obj -> Seq(Task)] /\ WaitersQueued'
        /\ \A y \in Obj : y # s => wait_list'[y] = wait_list[y]
        /\ Len(wait_list'[s]) = Len(wait_list[s]) - 1
    BY <1>2, <1>6, WakeFirstFacts
  <2>2. KTypeOK'
    BY <1>1, <1>3, <1>6, <2>1 DEF KInv, KTypeOK
  <2>3. MutexFields'
    <3>1. \A m \in Mutex : wait_list'[m] = wait_list[m]
      BY <1>2, <2>1
    <3> QED
      BY <1>1, <3>1 DEF KInv, MutexFields
  <2>4. SemExact'
    <3>1. balance[s] < 0 /\ count[s] = 0 /\ Len(wait_list[s]) = -balance[s]
      BY <1>4, <1>6
    <3>2. /\ count'[s] = IF balance'[s] > 0 THEN balance'[s] ELSE 0
          /\ Len(wait_list'[s]) = IF balance'[s] < 0 THEN -balance'[s] ELSE 0
      BY <1>3, <1>4, <1>6, <2>1, <3>1
    <3>3. \A r \in Sem : r # s => /\ count'[r] = count[r] /\ balance'[r] = balance[r]
                                  /\ wait_list'[r] = wait_list[r]
      BY <1>2, <1>3, <1>6, <2>1
    <3>4. ASSUME NEW r \in Sem, r # s
          PROVE  /\ count'[r] = IF balance'[r] > 0 THEN balance'[r] ELSE 0
                 /\ Len(wait_list'[r]) = IF balance'[r] < 0 THEN -balance'[r] ELSE 0
      BY <3>3, <3>4 DEF KInv, SemExact
    <3> QED
      BY <3>2, <3>4 DEF SemExact
  <2> QED
    BY <2>1, <2>2, <2>3, <2>4 DEF KInv
<1> QED
  BY <1>5, <1>6 DEF sem_notify

(* KInv is inductive.                                                      *)
LEMMA KNextInv == KInv /\ [KNext]_kvars => KInv'
<1> SUFFICES ASSUME KInv, [KNext]_kvars PROVE KInv'
  OBVIOUS
<1>1. IInv'
  BY KNextSched, NextIInv DEF KInv
<1>2. CASE sched_step
  BY <1>1, <1>2, SchedStepKInv
<1>3. ASSUME NEW m \in Mutex, mutex_lock(m) PROVE KInv'
  BY <1>1, <1>3, LockKInv
<1>4. ASSUME NEW m \in Mutex, mutex_unlock(m) PROVE KInv'
  BY <1>1, <1>4, UnlockKInv
<1>5. ASSUME NEW s \in Sem, sem_wait(s) PROVE KInv'
  BY <1>1, <1>5, WaitKInv
<1>6. ASSUME NEW s \in Sem, sem_notify(s) PROVE KInv'
  BY <1>1, <1>6, NotifyKInv
<1>7. CASE UNCHANGED kvars
  <2>1. UNCHANGED <<vars, wait_list>> /\ UNCHANGED ipcVars
    BY <1>7 DEF kvars, ipcVars
  <2>2. WaitersQueued'
    BY <2>1, QueuesSame
  <2>3. KTypeOK' /\ MutexFields' /\ SemExact'
    BY <2>1 DEF KInv, KTypeOK, MutexFields, SemExact, ipcVars
  <2> QED
    BY <1>1, <2>2, <2>3 DEF KInv
<1> QED
  BY <1>2, <1>3, <1>4, <1>5, <1>6, <1>7 DEF KNext

(* The variables of the mutexes and semaphores keep their types; in        *)
(* particular the unsigned nesting of mutex_lock and the count of a        *)
(* semaphore never go below zero.                                          *)
THEOREM KTypeCorrect ==
  ASSUME RestartFirst = FALSE
  PROVE  KSpec => []KTypeOK
<1>1. KInit => KInv
  BY KInitInv
<1>2. KInv /\ [KNext]_kvars => KInv'
  BY KNextInv
<1>3. KInv => KTypeOK
  BY DEF KInv
<1> QED
  BY <1>1, <1>2, <1>3, PTL DEF KSpec

(* mutex_lock and mutex_unlock give mutual exclusion: no two tasks are     *)
(* inside the same mutex, the hand-over of mutex_unlock to a waiter        *)
(* included.                                                               *)
THEOREM MutexSafe ==
  ASSUME RestartFirst = FALSE
  PROVE  KSpec => []MutualExclusion
<1>1. KInit => KInv
  BY KInitInv
<1>2. KInv /\ [KNext]_kvars => KInv'
  BY KNextInv
<1>3. KInv => MutualExclusion
  <2> SUFFICES ASSUME KInv, NEW m \in Mutex, NEW t \in Task, Inside(t, m)
               PROVE  t = owner[m]
    BY DEF MutualExclusion
  <2>1. depth[t][m] = IF t = owner[m] THEN locked_count[m]
                      ELSE IF t \in ToSet(wait_list[m]) THEN 1 ELSE 0
    BY DEF KInv, MutexFields
  <2>2. t \in ToSet(wait_list[m]) => t \in Blocked
    BY DEF KInv, WaitersQueued, Obj
  <2> QED
    BY <2>1, <2>2 DEF Inside
<1> QED
  BY <1>1, <1>2, <1>3, PTL DEF KSpec

(* owner, locked_count and wait_list of a mutex.c mutex always agree with  *)
(* the calls its users have made.                                          *)
THEOREM MutexExact ==
  ASSUME RestartFirst = FALSE
  PROVE  KSpec => []MutexFields
<1>1. KInit => KInv
  BY KInitInv
<1>2. KInv /\ [KNext]_kvars => KInv'
  BY KNextInv
<1>3. KInv => MutexFields
  BY DEF KInv
<1> QED
  BY <1>1, <1>2, <1>3, PTL DEF KSpec

(* sem_wait and sem_notify neither lose nor invent a unit.                 *)
THEOREM SemSafe ==
  ASSUME RestartFirst = FALSE
  PROVE  KSpec => []SemExact
<1>1. KInit => KInv
  BY KInitInv
<1>2. KInv /\ [KNext]_kvars => KInv'
  BY KNextInv
<1>3. KInv => SemExact
  BY DEF KInv
<1> QED
  BY <1>1, <1>2, <1>3, PTL DEF KSpec

(* What mutex.c and sem.c do to the task manager is a behaviour of Sched,  *)
(* so that all that is proved of Sched holds with mutexes and semaphores.  *)
THEOREM KernelUsesSched ==
  ASSUME RestartFirst = FALSE
  PROVE  KSpec => UsesSched
<1>1. KInit => KInv /\ Init
  BY KInitInv DEF KInit
<1>2. KInv /\ [KNext]_kvars => KInv'
  BY KNextInv
<1>3. KInv /\ [KNext]_kvars => [Next]_vars
  BY KNextSched
<1> QED
  BY <1>1, <1>2, <1>3, PTL DEF KSpec, UsesSched, Spec

(* A blocked task waits for some mutex or semaphore.                       *)
BlockedWait == \A t \in Blocked : \E x \in Obj : t \in ToSet(wait_list[x])

(* As long as no argument of sys_msleep makes its sum wrap, no step loses  *)
(* a task: it is either schedulable or in a wait list.                     *)
LEMMA BlockedWaitNext ==
  ASSUME NoWrap PROVE KInv /\ BlockedWait /\ [KNext]_kvars => BlockedWait'
<1> SUFFICES ASSUME KInv, BlockedWait, [KNext]_kvars PROVE BlockedWait'
  OBVIOUS
<1>1. ASSUME UNCHANGED <<vars, wait_list>> PROVE BlockedWait'
  <2>1. Blocked' = Blocked /\ wait_list' = wait_list
    BY <1>1 DEF vars, Blocked, Created
  <2> QED
    BY <2>1 DEF BlockedWait
<1>2. ASSUME NEW x \in Obj, wait_on(x) PROVE BlockedWait'
  <2>1. /\ block_current
        /\ \A y \in Obj : y # x => wait_list'[y] = wait_list[y]
        /\ ToSet(wait_list'[x]) = ToSet(wait_list[x]) \union {curr_task}
    BY <1>2, WaitOnFacts
  <2>2. Blocked' = Blocked \union {curr_task}
    BY <2>1, BlockBlocked DEF KInv
  <2>3. \A y \in Obj : ToSet(wait_list[y]) \subseteq ToSet(wait_list'[y])
    BY <2>1
  <2> QED
    BY <2>1, <2>2, <2>3 DEF BlockedWait
<1>3. ASSUME NEW x \in Obj, wait_list[x] # << >>, wake_first(x) PROVE BlockedWait'
  <2>1. PICK h : h = Head(wait_list[x])
    OBVIOUS
  <2>2. /\ h \in Task /\ wake(h)
        /\ \A y \in Obj : y # x => wait_list'[y] = wait_list[y]
        /\ ToSet(wait_list'[x]) = ToSet(wait_list[x]) \ {h}
    BY <1>3, <2>1, WakeFirstFacts
  <2>3. Blocked' = Blocked \ {h}
    BY <2>2, WakeBlocked DEF KInv
  <2>4. \A y \in Obj : ToSet(wait_list[y]) \ {h} \subseteq ToSet(wait_list'[y])
    BY <2>2
  <2> QED
    BY <2>3, <2>4 DEF BlockedWait
<1>4. CASE sched_step
  <2>1. Blocked' = Blocked /\ wait_list' = wait_list
    BY <1>4, SchedStepBlocked DEF KInv, sched_step, ipcVars
  <2> QED
    BY <2>1 DEF BlockedWait
<1>5. ASSUME NEW m \in Mutex, mutex_lock(m) PROVE BlockedWait'
  BY <1>1, <1>2, <1>5 DEF mutex_lock, Obj
<1>6. ASSUME NEW m \in Mutex, mutex_unlock(m) PROVE BlockedWait'
  BY <1>1, <1>3, <1>6 DEF mutex_unlock, Obj
<1>7. ASSUME NEW s \in Sem, sem_wait(s) PROVE BlockedWait'
  BY <1>1, <1>2, <1>7 DEF sem_wait, Obj
<1>8. ASSUME NEW s \in Sem, sem_notify(s) PROVE BlockedWait'
  BY <1>1, <1>3, <1>8 DEF sem_notify, Obj
<1>9. CASE UNCHANGED kvars
  BY <1>1, <1>9 DEF kvars, ipcVars
<1> QED
  BY <1>4, <1>5, <1>6, <1>7, <1>8, <1>9 DEF KNext

(* No task is lost: under NoWrap a task that exists is ready, asleep, the  *)
(* idle task, or in exactly one wait list, exactly once.                   *)
THEOREM NoTaskLost ==
  ASSUME RestartFirst = FALSE, NoWrap PROVE KSpec => []WaitersAreBlocked
<1>1. KInit => KInv /\ BlockedWait
  <2> SUFFICES ASSUME KInit PROVE BlockedWait
    BY KInitInv
  <2>1. Blocked = {}
    BY DEF KInit, Init, Blocked, Created, ToSet
  <2> QED
    BY <2>1 DEF BlockedWait
<1>2. KInv /\ BlockedWait /\ [KNext]_kvars => KInv' /\ BlockedWait'
  BY KNextInv, BlockedWaitNext
<1>3. KInv /\ BlockedWait => WaitersAreBlocked
  BY DEF KInv, WaitersQueued, BlockedWait, WaitersAreBlocked
<1> QED
  BY <1>1, <1>2, <1>3, PTL DEF KSpec
-----------------------------------------------------------------------------
(* How long a sleep lasts, for every set of tasks: the accounts of         *)
(* SchedHist balance in every reachable state, and bound how early and how *)
(* late a sleeper is woken.                                                *)

\* The tasks between the acceptance of a timer interrupt and the end of its
\* walk of the sleep list.
Pending == {u \in AllTask : pc[u] # "run"}

\* Some task is inside of the walk.
Walking == \E u \in AllTask : pc[u] = "walk"

(* The inductive invariant: that of the scheduler, the two accounts, and   *)
(* that they are accounts of natural numbers.                              *)
HInv ==
    /\ IInv
    /\ IsFiniteSet(Pending)
    /\ asked \in [Task -> Nat] /\ ticks \in [Task -> Nat]
    /\ walks \in [Task -> Nat] /\ debt \in [Task -> Nat]
    /\ TickAccounting
    /\ WalkAccounting

LEMMA InitHInv ==
  ASSUME RestartFirst = FALSE
  PROVE  HInit => HInv
<1> SUFFICES ASSUME HInit PROVE HInv
  OBVIOUS
<1>1. IInv
  BY InitIInv DEF HInit
<1>2. Pending = {}
  BY DEF HInit, Init, Pending
<1>3. Asleep = {}
  BY DEF HInit, Init, Asleep, ToSet
<1>4. /\ asked \in [Task -> Nat] /\ ticks \in [Task -> Nat]
      /\ walks \in [Task -> Nat] /\ debt \in [Task -> Nat]
  BY DEF HInit
<1>5. IsFiniteSet(Pending)
  BY <1>2, FS_EmptySet
<1> QED
  BY <1>1, <1>3, <1>4, <1>5 DEF HInv, TickAccounting, WalkAccounting

(* What Record does to the accounts of one task.                           *)
LEMMA RecordFacts ==
  ASSUME Record, NEW t \in Task
  PROVE  LET accepted == in_service' /\ ~in_service
             walked   == \E u \in AllTask : pc[u] = "walk" /\ pc'[u] = "run"
         IN  /\ t \in Asleep' \ Asleep =>
                   /\ asked'[t] = sleep_ticks'[t] /\ debt'[t] = Outstanding
                   /\ ticks'[t] = 0 /\ walks'[t] = 0
             /\ t \in Asleep' \intersect Asleep =>
                   /\ asked'[t] = asked[t] /\ debt'[t] = debt[t]
                   /\ ticks'[t] = ticks[t] + One(accepted)
                   /\ walks'[t] = walks[t] + One(walked)
             /\ t \notin Asleep' =>
                   asked'[t] = 0 /\ debt'[t] = 0 /\ ticks'[t] = 0 /\ walks'[t] = 0
<1>1. t \in Asleep' \ Asleep =>
         asked'[t] = sleep_ticks'[t] /\ debt'[t] = Outstanding
  BY DEF Record
<1>2. t \in Asleep' \ Asleep => ticks'[t] = 0 /\ walks'[t] = 0
  BY DEF Record
<1>3. t \in Asleep' \intersect Asleep => asked'[t] = asked[t] /\ debt'[t] = debt[t]
  BY DEF Record
<1>4. t \in Asleep' \intersect Asleep =>
         ticks'[t] = ticks[t] + One(in_service' /\ ~in_service)
  BY DEF Record
<1>5. t \in Asleep' \intersect Asleep =>
         walks'[t] = walks[t] + One(\E u \in AllTask : pc[u] = "walk" /\ pc'[u] = "run")
  BY DEF Record
<1>6. t \notin Asleep' =>
         asked'[t] = 0 /\ debt'[t] = 0 /\ ticks'[t] = 0 /\ walks'[t] = 0
  BY DEF Record
<1> QED
  BY <1>1, <1>2, <1>3, <1>4, <1>5, <1>6

(* The walk is made by the current task, if by anyone.                     *)
LEMMA WalkingFacts ==
  ASSUME IInv
  PROVE  /\ Walking <=> curr_task \in AllTask /\ pc[curr_task] = "walk"
         /\ cursor # NULL => Walking
<1> USE TaskAssumption DEF IInv, TypeOK, AllTask
<1>1. Walking => curr_task \in AllTask /\ pc[curr_task] = "walk"
  BY DEF Walking, HandlersPending
<1>2. curr_task \in AllTask /\ pc[curr_task] = "walk" => Walking
  BY DEF Walking
<1>3. cursor # NULL => curr_task \in AllTask /\ pc[curr_task] = "walk"
  BY DEF CursorSleeps
<1> QED
  BY <1>1, <1>2, <1>3
-----------------------------------------------------------------------------
(* What a step may do to the account of interrupts: the acceptance of one  *)
(* makes a walk outstanding, the end of a walk settles one, and no other   *)
(* step does either.                                                       *)
Accepts == /\ in_service' /\ ~in_service
           /\ curr_task \notin Pending /\ Pending' = Pending \union {curr_task}
Settles == /\ curr_task \in Pending /\ Pending' = Pending \ {curr_task}
           /\ pc[curr_task] = "walk" /\ pc'[curr_task] = "run" /\ curr_task \in AllTask
Accepted == in_service' /\ ~in_service
Walked == \E u \in AllTask : pc[u] = "walk" /\ pc'[u] = "run"

LEMMA PendingStep ==
  ASSUME IInv, [Next]_vars
  PROVE  \/ Accepts /\ ~Walked /\ sleep_list' = sleep_list
         \/ Settles /\ ~Accepted /\ sleep_list' = sleep_list
         \/ Pending' = Pending /\ ~Accepted /\ ~Walked
<1> USE TaskAssumption DEF AllTask
<1>0. /\ pc \in [AllTask -> {"run", "timer", "sleepers", "walk"}]
      /\ curr_task # NULL => curr_task \in AllTask
  BY DEF IInv, TypeOK
<1>1. ASSUME UNCHANGED <<pc, in_service>>
      PROVE  Pending' = Pending /\ ~Accepted /\ ~Walked
  BY <1>1 DEF Pending, Accepted, Walked
<1>2. CASE task_first_init
  BY <1>1, <1>2 DEF task_first_init
<1>3. ASSUME NEW t \in Task, create(t) \/ wake(t)
      PROVE  UNCHANGED <<pc, in_service>>
  BY <1>3 DEF create, wake, make_ready
<1>4. CASE sys_sched_yield \/ block_current
  BY <1>1, <1>4 DEF sys_sched_yield, block_current
<1>5. ASSUME NEW ms \in Ms, sys_msleep(ms)
      PROVE  UNCHANGED <<pc, in_service>>
  BY <1>5 DEF sys_msleep
<1>6. CASE timer_interrupt
  <2>1. /\ curr_task \in AllTask /\ pc[curr_task] = "run" /\ ~in_service
        /\ in_service' = TRUE /\ pc' = [pc EXCEPT ![curr_task] = "timer"]
        /\ sleep_list' = sleep_list
    BY <1>0, <1>6 DEF timer_interrupt
  <2>2. curr_task \notin Pending /\ Pending' = Pending \union {curr_task}
    BY <1>0, <2>1 DEF Pending
  <2>3. ~Walked
    BY <1>0, <2>1 DEF Walked
  <2> QED
    BY <2>1, <2>2, <2>3 DEF Accepts
<1>7. CASE do_handler_timer
  <2>1. /\ curr_task \in AllTask /\ pc[curr_task] = "timer"
        /\ in_service' = FALSE /\ pc' = [pc EXCEPT ![curr_task] = "sleepers"]
    BY <1>0, <1>7 DEF do_handler_timer, pic_send_eoi
  <2> QED
    BY <1>0, <2>1 DEF Pending, Accepted, Walked
<1>8. CASE walk_begin
  <2>1. /\ curr_task \in AllTask /\ pc[curr_task] = "sleepers"
        /\ in_service' = in_service /\ pc' = [pc EXCEPT ![curr_task] = "walk"]
    BY <1>0, <1>8 DEF walk_begin
  <2> QED
    BY <1>0, <2>1 DEF Pending, Accepted, Walked
<1>9. CASE walk_step
  BY <1>1, <1>9 DEF walk_step
<1>10. CASE walk_end
  <2>1. /\ curr_task \in AllTask /\ pc[curr_task] = "walk"
        /\ in_service' = in_service /\ pc' = [pc EXCEPT ![curr_task] = "run"]
        /\ sleep_list' = sleep_list
    BY <1>0, <1>10 DEF walk_end
  <2>2. curr_task \in Pending /\ Pending' = Pending \ {curr_task}
    BY <1>0, <2>1 DEF Pending
  <2> QED
    BY <1>0, <2>1, <2>2 DEF Settles, Accepted
<1>11. CASE UNCHANGED vars
  BY <1>1, <1>11 DEF vars
<1> QED
  BY <1>1, <1>2, <1>3, <1>4, <1>5, <1>6, <1>7, <1>8, <1>9, <1>10, <1>11 DEF Next, Handler
-----------------------------------------------------------------------------
(* The walk goes from a position of the list to the next one, or ends.     *)
LEMMA NodeNextPosition ==
  ASSUME NEW s \in Seq(Task), IsInjective(s), NEW p \in 1..Len(s)
  PROVE  list_node_next(s, s[p]) = IF p = Len(s) THEN NULL ELSE s[p+1]
<1> DEFINE later == {i \in 2..Len(s) : s[i-1] = s[p]}
<1>1. ASSUME NEW i \in 2..Len(s), s[i-1] = s[p] PROVE i = p + 1
  <2>1. i-1 \in DOMAIN s /\ p \in DOMAIN s
    OBVIOUS
  <2>2. i-1 = p
    BY <1>1, <2>1 DEF IsInjective
  <2> QED
    BY <2>2
<1>2. CASE p = Len(s)
  <2>1. later = {}
    BY <1>1, <1>2
  <2> HIDE DEF later
  <2> QED
    BY <1>2, <2>1 DEF list_node_next, later
<1>3. CASE p # Len(s)
  <2>1. later = {p+1}
    BY <1>1, <1>3
  <2>2. Min({p+1}) = p+1
    BY DEF Min
  <2> HIDE DEF later
  <2> QED
    BY <1>3, <2>1, <2>2 DEF list_node_next, later
<1> QED
  BY <1>2, <1>3

(* Who has been passed while the cursor stands on a node: the nodes in     *)
(* front of it.                                                            *)
LEMMA PassedAt ==
  ASSUME NEW s \in Seq(Task), IsInjective(s), s = sleep_list, Walking,
         NEW p \in 1..Len(s), cursor = s[p], NEW i \in 1..Len(s)
  PROVE  Passed(s[i]) <=> i < p
<1>1. cursor # NULL
  BY TaskAssumption, ElementFacts
<1>2. ASSUME NEW k \in 1..Len(s), NEW l \in 1..Len(s),
             k < l, s[k] = s[i], s[l] = cursor
      PROVE  i < p
  BY <1>2 DEF IsInjective
<1> QED
  BY <1>1, <1>2 DEF Passed, Walking

(* Nobody has been passed when nobody walks, and everybody when the walk   *)
(* has reached the end of the list.                                        *)
LEMMA PassedEnds ==
  ASSUME NEW t
  PROVE  /\ ~Walking => ~Passed(t)
         /\ Walking /\ cursor = NULL => Passed(t)
BY DEF Passed, Walking

(* What the walk does to the account of a sleeper in one turn: one tick is *)
(* taken from the sleeper that the cursor leaves, and from no other, also  *)
(* when that sleeper's node is taken off the list.                         *)
LEMMA WalkStepAccount ==
  ASSUME IInv, walk_step
  PROVE  /\ ~Walked /\ ~Accepted
         /\ Asleep' \subseteq Asleep
         /\ \A t \in Asleep' : sleep_ticks'[t] + One(Passed(t)')
                                 = sleep_ticks[t] + One(Passed(t))
         /\ \A t \in Asleep \ Asleep' : sleep_ticks[t] = 1 /\ ~Passed(t)
<1> USE TaskAssumption
<1>1. /\ curr_task # NULL /\ pc[curr_task] = "walk" /\ cursor # NULL
      /\ cursor' = list_node_next(sleep_list, cursor)
      /\ sleep_ticks' = [sleep_ticks EXCEPT ![cursor] = @ - 1]
      /\ UNCHANGED <<curr_task, pc, in_service>>
  BY DEF walk_step
<1>2. ~Walked /\ ~Accepted
  BY <1>1 DEF Walked, Accepted
<1>3. Walking /\ Walking'
  BY <1>1, WalkingFacts DEF Walking
<1>4. PICK s : s = sleep_list
  OBVIOUS
<1>5. /\ s \in Seq(Task) /\ IsInjective(s)
      /\ cursor \in ToSet(s)
      /\ sleep_ticks \in [AllTask -> Nat]
  BY <1>1, <1>4 DEF IInv, TypeOK, RunNodeOnce, CursorSleeps
<1>6. PICK p \in 1..Len(s) : s[p] = cursor
  BY <1>5, ElementFacts
<1>7. cursor' = IF p = Len(s) THEN NULL ELSE s[p+1]
  BY <1>1, <1>4, <1>5, <1>6, NodeNextPosition
<1>8. \A i \in 1..Len(s) : Passed(s[i]) <=> i < p
  BY <1>3, <1>4, <1>5, <1>6, PassedAt
<1>9. \A i \in 1..Len(s) :
         /\ s[i] \in Task /\ s[i] \in AllTask
         /\ sleep_ticks'[s[i]] = sleep_ticks[s[i]] - (IF i = p THEN 1 ELSE 0)
         /\ sleep_ticks[s[i]] \in Nat
  <2>1. \A i \in 1..Len(s) : s[i] \in Task /\ (s[i] = cursor <=> i = p)
    BY <1>5, <1>6, ElementFacts DEF IsInjective
  <2> QED
    BY <1>1, <1>5, <2>1 DEF AllTask
<1>10. CASE sleep_ticks[cursor] - 1 # 0
  <2>1. sleep_list' = s
    BY <1>4, <1>10 DEF walk_step
  <2>2. \A i \in 1..Len(s) : Passed(s[i])' <=> i <= p
    <3>1. CASE p = Len(s)
      BY <1>3, <1>7, <3>1, PassedEnds DEF Passed, Walking
    <3>2. CASE p # Len(s)
      <4>1. p+1 \in 1..Len(s) /\ s[p+1] # NULL
        BY <1>5, <3>2, ElementFacts
      <4>2. ASSUME NEW i \in 1..Len(s), i <= p PROVE Passed(s[i])'
        BY <1>3, <1>7, <2>1, <3>2, <4>1, <4>2 DEF Passed, Walking
      <4>3. ASSUME NEW i \in 1..Len(s), Passed(s[i])' PROVE i <= p
        <5>1. PICK k \in 1..Len(s), l \in 1..Len(s) : k < l /\ s[k] = s[i] /\ s[l] = s[p+1]
          BY <1>7, <2>1, <3>2, <4>1, <4>3 DEF Passed
        <5> QED
          BY <1>5, <4>1, <5>1 DEF IsInjective
      <4> QED
        BY <4>2, <4>3
    <3> QED
      BY <3>1, <3>2
  <2>3. Asleep' = Asleep
    BY <1>4, <2>1 DEF Asleep
  <2>4. ASSUME NEW t \in Asleep'
        PROVE  sleep_ticks'[t] + One(Passed(t)') = sleep_ticks[t] + One(Passed(t))
    <3>1. PICK i \in 1..Len(s) : s[i] = t
      BY <1>4, <1>5, <2>3, ElementFacts DEF Asleep
    <3>2. Passed(t) <=> i < p
      BY <1>8, <3>1
    <3>3. Passed(t)' <=> i <= p
      BY <2>2, <3>1
    <3> QED
      BY <1>9, <3>1, <3>2, <3>3 DEF One
  <2> QED
    BY <1>2, <2>3, <2>4
<1>11. CASE sleep_ticks[cursor] - 1 = 0
  <2>1. sleep_list' = RemoveFirst(s, cursor)
    BY <1>4, <1>11 DEF walk_step
  <2>2. PICK w : w = sleep_list'
    OBVIOUS
  <2>3. w \in Seq(Task) /\ IsInjective(w) /\ ToSet(w) = ToSet(s) \ {cursor}
    BY <1>5, <2>1, <2>2, RemoveFirstFacts
  <2>4. Len(w) = Len(s) - 1 /\ \A j \in 1..(Len(s)-1) : w[j] = IF j < p THEN s[j] ELSE s[j+1]
    <3>1. PICK k \in 1..Len(s) : s[k] = cursor /\ w = RemoveAt(s, k)
      BY <1>5, <2>1, <2>2, RemoveFirstIndex
    <3>2. k = p
      BY <1>5, <1>6, <3>1 DEF IsInjective
    <3> QED
      BY <1>5, <3>1, <3>2, RemoveAtFacts
  <2>5. \A i \in 1..(Len(s)-1) : Passed(w[i])' <=> i < p
    <3>1. CASE p = Len(s)
      BY <1>3, <1>7, <3>1, PassedEnds DEF Passed, Walking
    <3>2. CASE p # Len(s)
      <4>1. p \in 1..Len(w) /\ w[p] = s[p+1] /\ s[p+1] # NULL
        BY <1>5, <2>4, <3>2, ElementFacts
      <4>2. cursor' = w[p] /\ cursor' # NULL
        BY <1>7, <3>2, <4>1
      <4>3. ASSUME NEW i \in 1..Len(w), i < p PROVE Passed(w[i])'
        BY <1>3, <2>2, <4>1, <4>2, <4>3 DEF Passed, Walking
      <4>4. ASSUME NEW i \in 1..Len(w), Passed(w[i])' PROVE i < p
        <5>1. PICK k \in 1..Len(w), l \in 1..Len(w) : k < l /\ w[k] = w[i] /\ w[l] = w[p]
          BY <2>2, <4>2, <4>4 DEF Passed
        <5> QED
          BY <2>3, <4>1, <5>1 DEF IsInjective
      <4> QED
        BY <2>4, <4>3, <4>4
    <3> QED
      BY <3>1, <3>2
  <2>6. Asleep' = Asleep \ {cursor}
    BY <1>4, <2>2, <2>3 DEF Asleep
  <2>7. ASSUME NEW t \in Asleep'
        PROVE  sleep_ticks'[t] + One(Passed(t)') = sleep_ticks[t] + One(Passed(t))
    <3>1. PICK j \in 1..Len(w) : w[j] = t
      BY <2>2, <2>3, ElementFacts DEF Asleep
    <3>2. PICK i \in 1..Len(s) : s[i] = t /\ i = IF j < p THEN j ELSE j + 1
      BY <2>4, <3>1
    <3>3. Passed(t) <=> i < p
      BY <1>8, <3>2
    <3>4. Passed(t)' <=> j < p
      BY <2>4, <2>5, <3>1
    <3>5. sleep_ticks'[t] = sleep_ticks[t]
      BY <1>9, <3>2
    <3> QED
      BY <3>2, <3>3, <3>4, <3>5 DEF One
  <2>8. ASSUME NEW t \in Asleep \ Asleep' PROVE sleep_ticks[t] = 1 /\ ~Passed(t)
    <3>1. t = cursor
      BY <2>6, <2>8
    <3>2. sleep_ticks[cursor] = 1
      BY <1>6, <1>9, <1>11
    <3> QED
      BY <1>6, <1>8, <3>1, <3>2
  <2> QED
    BY <1>2, <2>6, <2>7, <2>8
<1> QED
  BY <1>10, <1>11

(* The three things any other step may be for the sleepers: one that none  *)
(* of them notices, the current task's falling asleep while nobody walks,  *)
(* and the end of the walk, which has by then passed all of them.          *)
Unnoticed ==
    /\ Asleep' = Asleep /\ ~Walked
    /\ \A t \in Asleep : sleep_ticks'[t] = sleep_ticks[t] /\ (Passed(t)' <=> Passed(t))

FallsAsleep ==
    /\ Asleep' = Asleep \union {curr_task}
    /\ curr_task \notin Asleep
    /\ UNCHANGED <<pc, in_service>> /\ ~Walking
    /\ \A t \in Asleep : sleep_ticks'[t] = sleep_ticks[t]

WalkCompletes ==
    /\ Asleep' = Asleep /\ Walked
    /\ \A t \in Asleep : sleep_ticks'[t] = sleep_ticks[t] /\ Passed(t) /\ ~Passed(t)'

LEMMA SleepersStep ==
  ASSUME IInv, [Next]_vars
  PROVE  Unnoticed \/ FallsAsleep \/ WalkCompletes \/ walk_step
<1> USE TaskAssumption DEF AllTask
<1>0. /\ pc \in [AllTask -> {"run", "timer", "sleepers", "walk"}]
      /\ curr_task # NULL => curr_task \in AllTask
      /\ sleep_list \in Seq(Task) /\ IsInjective(sleep_list)
      /\ sleep_ticks \in [AllTask -> Nat]
  BY DEF IInv, TypeOK, RunNodeOnce
<1>1. ASSUME UNCHANGED <<pc, cursor, sleep_list>>,
             \A t \in Asleep : sleep_ticks'[t] = sleep_ticks[t]
      PROVE  Unnoticed
  <2>1. Asleep' = Asleep /\ ~Walked
    BY <1>1 DEF Asleep, Walked
  <2>2. \A t \in Asleep : Passed(t)' <=> Passed(t)
    BY <1>1 DEF Passed
  <2> QED
    BY <1>1, <2>1, <2>2 DEF Unnoticed
<1>2. ASSUME NEW t \in Task, t \notin Created, task_init(t, FALSE),
             UNCHANGED <<pc, cursor, sleep_list>>
      PROVE  Unnoticed
  <2>1. t \notin Asleep
    BY <1>2 DEF IInv, RunNodeOnce, Asleep
  <2>2. \A u \in Asleep : sleep_ticks'[u] = sleep_ticks[u]
    <3>1. Asleep \subseteq Task
      BY <1>0, HeadFacts DEF Asleep
    <3> QED
      BY <1>0, <1>2, <2>1, <3>1 DEF task_init
  <2> QED
    BY <1>1, <1>2, <2>2
<1>3. CASE task_first_init
  <2>1. first_task \notin Created
    BY <1>3 DEF task_first_init, IInv, Basics
  <2>2. task_init(first_task, FALSE)
    BY <1>3 DEF task_first_init, IInv, Basics
  <2> QED
    BY <1>2, <1>3, <2>1, <2>2 DEF task_first_init
<1>4. ASSUME NEW t \in Task, create(t) PROVE Unnoticed
  BY <1>2, <1>4 DEF create
<1>5. ASSUME NEW t \in Task, wake(t) PROVE Unnoticed
  BY <1>1, <1>5 DEF wake, make_ready
<1>6. CASE sys_sched_yield \/ block_current
  BY <1>1, <1>6 DEF sys_sched_yield, block_current
<1>7. ASSUME NEW ms \in Ms, sys_msleep(ms) PROVE Unnoticed \/ FallsAsleep
  <2>1. /\ curr_task \in Task /\ pc[curr_task] = "run"
        /\ UNCHANGED <<pc, cursor, in_service>>
    BY <1>7 DEF sys_msleep, Running
  <2>2. curr_task \notin Asleep
    BY <2>1, RunningFacts DEF IInv, RunNodeOnce, Asleep
  <2>3. ~Walking
    BY <2>1, WalkingFacts
  <2>4. CASE UNCHANGED <<sleep_ticks, sleep_list>>
    BY <1>1, <2>1, <2>4
  <2>5. CASE /\ sleep_ticks' = [sleep_ticks EXCEPT ![curr_task] = msleep_ticks(ms)]
             /\ sleep_list' = Append(sleep_list, curr_task)
    <3>1. Asleep' = Asleep \union {curr_task}
      BY <1>0, <2>1, <2>5, AppendFacts DEF Asleep
    <3>2. \A t \in Asleep : sleep_ticks'[t] = sleep_ticks[t]
      BY <1>0, <2>2, <2>5
    <3> QED
      BY <2>1, <2>2, <2>3, <3>1, <3>2 DEF FallsAsleep
  <2> QED
    BY <1>7, <2>4, <2>5 DEF sys_msleep
<1>8. ASSUME UNCHANGED <<sleep_list, sleep_ticks>>, curr_task \in AllTask,
             pc[curr_task] # "walk", NEW h \in {"timer", "sleepers"},
             pc' = [pc EXCEPT ![curr_task] = h]
      PROVE  Unnoticed
  <2>1. ~Walking
    BY <1>8, WalkingFacts
  <2>2. ~Walking' /\ ~Walked
    BY <1>0, <1>8, <2>1 DEF Walking, Walked
  <2>3. \A t : ~Passed(t) /\ ~Passed(t)'
    BY <2>1, <2>2 DEF Passed, Walking
  <2> QED
    BY <1>8, <2>2, <2>3 DEF Unnoticed, Asleep
<1>9. CASE timer_interrupt
  BY <1>0, <1>8, <1>9 DEF timer_interrupt
<1>10. CASE do_handler_timer
  BY <1>0, <1>8, <1>10 DEF do_handler_timer
<1>11. CASE walk_begin
  <2>1. /\ curr_task \in AllTask /\ pc[curr_task] = "sleepers"
        /\ cursor' = IF sleep_list = << >> THEN NULL ELSE Head(sleep_list)
        /\ pc' = [pc EXCEPT ![curr_task] = "walk"]
        /\ UNCHANGED <<sleep_list, sleep_ticks>>
    BY <1>0, <1>11 DEF walk_begin
  <2>2. ~Walking /\ ~Walked
    BY <1>0, <2>1, WalkingFacts DEF Walked
  <2>3. ASSUME NEW t \in Asleep PROVE ~Passed(t)'
    <3>1. sleep_list # << >> /\ Head(sleep_list) = sleep_list[1] /\ Head(sleep_list) \in Task
      BY <1>0, HeadFacts DEF Asleep
    <3>2. cursor' = sleep_list[1] /\ cursor' # NULL
      BY <2>1, <3>1
    <3>3. \A j \in 1..Len(sleep_list) : sleep_list[j] = sleep_list[1] => j = 1
      BY <1>0 DEF IsInjective
    <3> QED
      BY <2>1, <3>2, <3>3 DEF Passed
  <2>4. \A t \in Asleep : ~Passed(t)
    BY <2>2, PassedEnds
  <2> QED
    BY <2>1, <2>2, <2>3, <2>4 DEF Unnoticed, Asleep
<1>12. CASE walk_end
  <2>1. /\ curr_task \in AllTask /\ pc[curr_task] = "walk" /\ cursor = NULL
        /\ pc' = [pc EXCEPT ![curr_task] = "run"]
        /\ UNCHANGED <<sleep_list, sleep_ticks>>
    BY <1>0, <1>12 DEF walk_end
  <2>2. Walking /\ Walked
    BY <1>0, <2>1 DEF Walking, Walked
  <2>3. ~Walking'
    BY <1>0, <2>1 DEF Walking, IInv, HandlersPending
  <2>4. \A t \in Asleep : Passed(t)
    BY <2>1, <2>2, PassedEnds
  <2>5. \A t : ~Passed(t)'
    BY <2>3 DEF Passed, Walking
  <2> QED
    BY <2>1, <2>2, <2>4, <2>5 DEF WalkCompletes, Asleep
<1>13. CASE UNCHANGED vars
  BY <1>1, <1>13 DEF vars
<1> QED
  BY <1>3, <1>4, <1>5, <1>6, <1>7, <1>9, <1>10, <1>11, <1>12, <1>13 DEF Next, Handler
-----------------------------------------------------------------------------
(* The set of outstanding walks stays finite, and their number changes by  *)
(* one where an interrupt is accepted and where a walk ends.               *)
LEMMA OutstandingStep ==
  ASSUME IInv, IsFiniteSet(Pending), [Next]_vars
  PROVE  /\ IsFiniteSet(Pending')
         /\ Outstanding \in Nat /\ Outstanding' \in Nat
         /\ Outstanding' + One(Walked) = Outstanding + One(Accepted)
<1>1. /\ Outstanding = Cardinality(Pending) /\ Outstanding' = Cardinality(Pending')
      /\ Cardinality(Pending) \in Nat
  BY FS_CardinalityType DEF Outstanding, Pending
<1>2. CASE Accepts /\ ~Walked
  <2>1. IsFiniteSet(Pending') /\ Cardinality(Pending') = Cardinality(Pending) + 1
    BY <1>2, FS_AddElement DEF Accepts
  <2>2. Accepted
    BY <1>2 DEF Accepts, Accepted
  <2> QED
    BY <1>1, <1>2, <2>1, <2>2 DEF One
<1>3. CASE Settles /\ ~Accepted
  <2>1. IsFiniteSet(Pending') /\ Cardinality(Pending') = Cardinality(Pending) - 1
    BY <1>3, FS_RemoveElement DEF Settles
  <2>2. Walked
    BY <1>3 DEF Settles, Walked
  <2>3. Cardinality(Pending') \in Nat
    BY <2>1, FS_CardinalityType
  <2> QED
    BY <1>1, <1>3, <2>1, <2>2, <2>3 DEF One
<1>4. CASE Pending' = Pending /\ ~Accepted /\ ~Walked
  BY <1>1, <1>4 DEF One
<1> QED
  BY <1>2, <1>3, <1>4, PendingStep

(* The accounts of a task that goes on sleeping.                           *)
LEMMA AccountsStep ==
  ASSUME HInv, HNext
  PROVE  HInv'
<1>1. IInv /\ IsFiniteSet(Pending) /\ [Next]_vars /\ Record
  BY DEF HInv, HNext
<1>2. IInv'
  BY <1>1, NextIInv
<1>3. /\ IsFiniteSet(Pending')
      /\ Outstanding \in Nat /\ Outstanding' \in Nat
      /\ Outstanding' + One(Walked) = Outstanding + One(Accepted)
  BY <1>1, OutstandingStep
<1>4. Asleep' \subseteq Task /\ Asleep \subseteq Task
  BY <1>1, <1>2, HeadFacts DEF IInv, TypeOK, Asleep
<1>5. sleep_ticks \in [AllTask -> Nat] /\ sleep_ticks' \in [AllTask -> Nat]
  BY <1>1, <1>2 DEF IInv, TypeOK
<1>6. One(Walked) \in Nat /\ One(Accepted) \in Nat
  BY DEF One
<1>7. ASSUME NEW t \in Task
      PROVE  /\ t \in Asleep' \ Asleep =>
                   /\ asked'[t] = sleep_ticks'[t] /\ debt'[t] = Outstanding
                   /\ ticks'[t] = 0 /\ walks'[t] = 0
             /\ t \in Asleep' \intersect Asleep =>
                   /\ asked'[t] = asked[t] /\ debt'[t] = debt[t]
                   /\ ticks'[t] = ticks[t] + One(Accepted)
                   /\ walks'[t] = walks[t] + One(Walked)
             /\ t \notin Asleep' =>
                   asked'[t] = 0 /\ debt'[t] = 0 /\ ticks'[t] = 0 /\ walks'[t] = 0
  BY <1>1, RecordFacts DEF Accepted, Walked
<1>8. /\ asked' \in [Task -> Nat] /\ ticks' \in [Task -> Nat]
      /\ walks' \in [Task -> Nat] /\ debt' \in [Task -> Nat]
  <2>1. /\ asked' = [t \in Task |-> asked'[t]] /\ ticks' = [t \in Task |-> ticks'[t]]
        /\ walks' = [t \in Task |-> walks'[t]] /\ debt' = [t \in Task |-> debt'[t]]
    BY <1>1 DEF Record
  <2>2. \A t \in Task : /\ asked[t] \in Nat /\ ticks[t] \in Nat
                        /\ walks[t] \in Nat /\ debt[t] \in Nat
                        /\ sleep_ticks'[t] \in Nat
    BY <1>5 DEF HInv, AllTask
  <2>3. \A t \in Task : /\ asked'[t] \in Nat /\ ticks'[t] \in Nat
                        /\ walks'[t] \in Nat /\ debt'[t] \in Nat
    BY <1>3, <1>6, <1>7, <2>2
  <2> QED
    BY <2>1, <2>3
<1>9. \A t \in Task : /\ asked[t] \in Nat /\ ticks[t] \in Nat
                      /\ walks[t] \in Nat /\ debt[t] \in Nat
                      /\ sleep_ticks[t] \in Nat /\ sleep_ticks'[t] \in Nat
  BY <1>5 DEF HInv, AllTask
<1>10. Asleep' # Asleep => FallsAsleep \/ walk_step
  BY <1>1, SleepersStep DEF Unnoticed, WalkCompletes
<1>11. TickAccounting'
  <2>1. ASSUME NEW t \in Asleep' PROVE ticks'[t] + debt'[t] = walks'[t] + Outstanding'
    <3>1. CASE t \in Asleep
      <4>1. ticks[t] + debt[t] = walks[t] + Outstanding
        BY <3>1 DEF HInv, TickAccounting
      <4> QED
        BY <1>3, <1>4, <1>6, <1>7, <1>9, <2>1, <3>1, <4>1
    <3>2. CASE t \notin Asleep
      <4>1. FallsAsleep
        BY <1>1, <1>10, <2>1, <3>2, WalkStepAccount
      <4>2. Outstanding' = Outstanding
        BY <4>1 DEF FallsAsleep, Outstanding
      <4> QED
        BY <1>3, <1>4, <1>7, <2>1, <3>2, <4>2
    <3> QED
      BY <3>1, <3>2
  <2> QED
    BY <2>1 DEF TickAccounting
<1>12. WalkAccounting'
  <2>1. ASSUME NEW t \in Asleep'
        PROVE  asked'[t] = sleep_ticks'[t] + walks'[t] + One(Passed(t)')
    <3>0. One(Passed(t)) \in Nat /\ One(Passed(t)') \in Nat
      BY DEF One
    <3>1. CASE t \in Asleep
      <4>1. asked[t] = sleep_ticks[t] + walks[t] + One(Passed(t))
        BY <3>1 DEF HInv, WalkAccounting
      <4>2. asked'[t] = asked[t] /\ walks'[t] = walks[t] + One(Walked)
        BY <1>4, <1>7, <2>1, <3>1
      <4>3. sleep_ticks'[t] + One(Passed(t)') + One(Walked) = sleep_ticks[t] + One(Passed(t))
        <5>1. CASE Unnoticed
          BY <1>4, <1>9, <3>0, <3>1, <5>1 DEF Unnoticed, One
        <5>2. CASE FallsAsleep
          <6>1. ~Walked /\ ~Walking'
            BY <5>2 DEF FallsAsleep, Walked, Walking
          <6>2. ~Passed(t) /\ ~Passed(t)'
            BY <5>2, <6>1 DEF FallsAsleep, Passed, Walking
          <6> QED
            BY <1>4, <1>9, <3>1, <5>2, <6>1, <6>2 DEF FallsAsleep, One
        <5>3. CASE WalkCompletes
          BY <1>4, <1>9, <3>1, <5>3 DEF WalkCompletes, One
        <5>4. CASE walk_step
          <6>1. /\ ~Walked
                /\ sleep_ticks'[t] + One(Passed(t)') = sleep_ticks[t] + One(Passed(t))
            BY <1>1, <2>1, <5>4, WalkStepAccount
          <6>2. One(Walked) = 0
            BY <6>1 DEF One
          <6> QED
            BY <1>4, <1>9, <3>0, <3>1, <6>1, <6>2
        <5> QED
          BY <1>1, <5>1, <5>2, <5>3, <5>4, SleepersStep
      <4> QED
        BY <1>4, <1>6, <1>9, <3>0, <3>1, <4>1, <4>2, <4>3
    <3>2. CASE t \notin Asleep
      <4>1. FallsAsleep
        BY <1>1, <1>10, <2>1, <3>2, WalkStepAccount
      <4>2. ~Passed(t)'
        BY <4>1 DEF FallsAsleep, Passed, Walking
      <4> QED
        BY <1>4, <1>7, <1>9, <2>1, <3>2, <4>2 DEF One
    <3> QED
      BY <3>1, <3>2
  <2> QED
    BY <2>1 DEF WalkAccounting
<1> QED
  BY <1>2, <1>3, <1>8, <1>11, <1>12 DEF HInv

(* Every step preserves the invariant.                                     *)
LEMMA NextHInv == HInv /\ [HNext]_<<vars, histVars>> => HInv'
<1> SUFFICES ASSUME HInv, [HNext]_<<vars, histVars>> PROVE HInv'
  OBVIOUS
<1>1. CASE HNext
  BY <1>1, AccountsStep
<1>2. CASE UNCHANGED <<vars, histVars>>
  <2>1. IInv'
    BY <1>2, NextIInv DEF HInv
  <2>2. Pending' = Pending /\ Asleep' = Asleep /\ Outstanding' = Outstanding
    BY <1>2 DEF Pending, Asleep, Outstanding, vars
  <2>3. \A t : Passed(t)' <=> Passed(t)
    BY <1>2 DEF Passed, vars
  <2>4. TickAccounting'
    BY <1>2, <2>2 DEF HInv, TickAccounting, vars, histVars
  <2>5. WalkAccounting'
    BY <1>2, <2>2, <2>3 DEF HInv, WalkAccounting, vars, histVars, One
  <2> QED
    BY <1>2, <2>1, <2>2, <2>4, <2>5 DEF HInv, histVars
<1> QED
  BY <1>1, <1>2

(* Every timer interrupt brings exactly one walk of the sleep list,        *)
(* however long the task that took it stays preempted at line 279.         *)
THEOREM TicksBalance ==
  ASSUME RestartFirst = FALSE
  PROVE  HSpec => []TickAccounting
<1>1. HInv => TickAccounting
  BY DEF HInv
<1> QED
  BY InitHInv, NextHInv, <1>1, PTL DEF HSpec

(* Every completed walk has taken exactly one tick from every sleeper,     *)
(* although nodes leave the list while it is walked.                       *)
THEOREM WalksBalance ==
  ASSUME RestartFirst = FALSE
  PROVE  HSpec => []WalkAccounting
<1>1. HInv => WalkAccounting
  BY DEF HInv
<1> QED
  BY InitHInv, NextHInv, <1>1, PTL DEF HSpec

(* A sleeper is woken early by no more ticks than there were walks         *)
(* outstanding when it fell asleep, and late by no more than the other     *)
(* walks outstanding when it is woken.                                     *)
THEOREM WakesInTime ==
  ASSUME RestartFirst = FALSE
  PROVE  HSpec => WakeAccuracy
<1>1. ASSUME HInv, HNext, NEW t \in Asleep \ Asleep'
      PROVE  /\ ticks[t] >= asked[t] - debt[t]
             /\ ticks[t] <= asked[t] + (Outstanding - 1)
  <2>1. IInv /\ IsFiniteSet(Pending) /\ [Next]_vars
    BY <1>1 DEF HInv, HNext
  <2>2. walk_step
    BY <1>1, <2>1, SleepersStep DEF Unnoticed, FallsAsleep, WalkCompletes
  <2>3. sleep_ticks[t] = 1 /\ ~Passed(t)
    BY <1>1, <2>1, <2>2, WalkStepAccount
  <2>4. t \in Task
    BY <2>1, HeadFacts DEF IInv, TypeOK, Asleep
  <2>5. asked[t] \in Nat /\ ticks[t] \in Nat /\ walks[t] \in Nat /\ debt[t] \in Nat
    BY <1>1, <2>4 DEF HInv
  <2>6. asked[t] = 1 + walks[t]
    BY <1>1, <2>3, <2>5 DEF HInv, WalkAccounting, One
  <2>7. ticks[t] + debt[t] = walks[t] + Outstanding
    BY <1>1 DEF HInv, TickAccounting
  <2>8. Outstanding \in Nat /\ Outstanding # 0
    <3>1. curr_task \in Pending
      BY <2>1, <2>2, RunningFacts DEF walk_step, Pending
    <3>2. Outstanding = Cardinality(Pending)
      BY DEF Outstanding, Pending
    <3> QED
      BY <2>1, <3>1, <3>2, FS_CardinalityType, FS_EmptySet
  <2> QED
    BY <2>5, <2>6, <2>7, <2>8
<1>2. HInv /\ [HNext]_<<vars, histVars>> =>
        [ \A t \in Asleep \ Asleep' :
            /\ ticks[t] >= asked[t] - debt[t]
            /\ ticks[t] <= asked[t] + (Outstanding - 1) ]_<<vars, histVars>>
  BY <1>1
<1> QED
  BY InitHInv, NextHInv, <1>2, PTL DEF HSpec, WakeAccuracy
=============================================================================
