------------------------------- MODULE Kernel -------------------------------
(***************************************************************************)
(* Mutexes (kernel/ipc/mutex.c) and counting semaphores (kernel/ipc/sem.c) *)
(* on top of the task manager.  Each call is atomic (it runs with          *)
(* interrupts disabled) up to the task_dispatch in which a caller that has *)
(* to wait is suspended; when it is resumed the call returns at once.      *)
(*                                                                         *)
(* Two variables are the callers' view and are not read by the code:       *)
(* depth[t][m] counts t's calls of mutex_lock(m) not yet paired by a call  *)
(* of mutex_unlock(m), and balance[s] is the initial count of s plus the   *)
(* calls of sem_notify(s) minus the calls of sem_wait(s).                  *)
(***************************************************************************)
EXTENDS Sched

CONSTANTS
    Mutex,          \* the mutex_t's
    Sem,            \* the sem_t's
    InitCount,      \* the values sem_init is called with
    MaxDepth,       \* bound: nested calls of mutex_lock by one task
    MaxCount        \* bound: the count a semaphore is raised to

ASSUME IpcAssumption ==
    /\ Mutex \intersect Sem = {}
    /\ InitCount \subseteq Nat
    /\ MaxDepth \in Nat
    /\ MaxCount \in Nat

VARIABLES
    locked_count,   \* mutex_t.locked_count
    owner,          \* mutex_t.owner
    count,          \* sem_t.count
    wait_list,      \* mutex_t.wait_list, sem_t.wait_list (through wait_node)
    depth,          \* the callers' view of the mutexes
    balance         \* the callers' view of the semaphores

ipcVars == <<locked_count, owner, count, wait_list, depth, balance>>
kvars == <<vars, ipcVars>>

Obj == Mutex \union Sem

(* Faulty variants of definitions below, used to see that the properties   *)
(* notice such mistakes.                                                   *)

\* The waiter goes to the front of the wait list.
bad_wait_on(x) ==
    /\ block_current
    /\ wait_list' = [wait_list EXCEPT ![x] = <<curr_task>> \o @]

\* The first waiter is looked up and not removed.
bad_wake_first(x) == make_ready(Head(wait_list[x])) /\ UNCHANGED wait_list

\* A locked mutex is entered again without a look at its owner.
bad_lock(m) ==
    /\ Running
    /\ depth[curr_task][m] < MaxDepth
    /\ depth' = [depth EXCEPT ![curr_task][m] = @ + 1]
    /\ locked_count' = [locked_count EXCEPT ![m] = @ + 1]
    /\ owner' = [owner EXCEPT ![m] = IF @ = NULL THEN curr_task ELSE @]
    /\ UNCHANGED <<vars, wait_list, count, balance>>
-----------------------------------------------------------------------------
(* mutex_init and sem_init of every object.                                *)
KInit ==
    /\ Init
    /\ locked_count = [m \in Mutex |-> 0]
    /\ owner = [m \in Mutex |-> NULL]
    /\ count \in [Sem -> InitCount]
    /\ wait_list = [x \in Obj |-> << >>]
    /\ depth = [t \in Task |-> [m \in Mutex |-> 0]]
    /\ balance = count

(* The caller leaves the ready list for the wait list of x.                *)
wait_on(x) ==
    /\ block_current
    /\ wait_list' = [wait_list EXCEPT ![x] = Append(@, curr_task)]

(* list_remove_first on the wait list of x; the task taken off is made     *)
(* ready.                                                                  *)
wake_first(x) ==
    /\ make_ready(Head(wait_list[x]))
    /\ wait_list' = [wait_list EXCEPT ![x] = Tail(@)]

mutex_lock(m) ==
    /\ Running
    /\ depth[curr_task][m] < MaxDepth
    /\ depth' = [depth EXCEPT ![curr_task][m] = @ + 1]
    /\ \/ /\ locked_count[m] = 0
          /\ locked_count' = [locked_count EXCEPT ![m] = 1]
          /\ owner' = [owner EXCEPT ![m] = curr_task]
          /\ UNCHANGED <<vars, wait_list>>
       \/ /\ locked_count[m] # 0
          /\ owner[m] = curr_task
          /\ locked_count' = [locked_count EXCEPT ![m] = @ + 1]
          /\ UNCHANGED <<vars, wait_list, owner>>
       \/ /\ locked_count[m] # 0
          /\ owner[m] # curr_task
          /\ wait_on(m)
          /\ UNCHANGED <<locked_count, owner>>
    /\ UNCHANGED <<count, balance>>

mutex_unlock(m) ==
    /\ Running
    /\ depth' = [depth EXCEPT ![curr_task][m] = IF @ = 0 THEN 0 ELSE @ - 1]
    /\ \/ /\ owner[m] # curr_task
          /\ UNCHANGED <<vars, locked_count, owner, wait_list>>
       \/ /\ owner[m] = curr_task
          /\ locked_count[m] - 1 # 0
          /\ locked_count' = [locked_count EXCEPT ![m] = @ - 1]
          /\ UNCHANGED <<vars, owner, wait_list>>
       \/ /\ owner[m] = curr_task
          /\ locked_count[m] - 1 = 0
          /\ wait_list[m] = << >>
          /\ locked_count' = [locked_count EXCEPT ![m] = 0]
          /\ owner' = [owner EXCEPT ![m] = NULL]
          /\ UNCHANGED <<vars, wait_list>>
       \/ /\ owner[m] = curr_task
          /\ locked_count[m] - 1 = 0
          /\ wait_list[m] # << >>
          /\ locked_count' = [locked_count EXCEPT ![m] = 1]
          /\ owner' = [owner EXCEPT ![m] = Head(wait_list[m])]
          /\ wake_first(m)
    /\ UNCHANGED <<count, balance>>

sem_wait(s) ==
    /\ Running
    /\ balance' = [balance EXCEPT ![s] = @ - 1]
    /\ \/ /\ count[s] > 0
          /\ count' = [count EXCEPT ![s] = @ - 1]
          /\ UNCHANGED <<vars, wait_list>>
       \/ /\ ~(count[s] > 0)
          /\ wait_on(s)
          /\ UNCHANGED count
    /\ UNCHANGED <<locked_count, owner, depth>>

sem_notify(s) ==
    /\ Running
    /\ balance' = [balance EXCEPT ![s] = @ + 1]
    /\ \/ /\ wait_list[s] # << >>
          /\ wake_first(s)
          /\ UNCHANGED count
       \/ /\ wait_list[s] = << >>
          /\ count[s] < MaxCount
          /\ count' = [count EXCEPT ![s] = @ + 1]
          /\ UNCHANGED <<vars, wait_list>>
    /\ UNCHANGED <<locked_count, owner, depth>>

(* The steps of Sched that do not touch mutexes or semaphores.             *)
sched_step ==
    /\ \/ task_first_init
       \/ \E t \in Task : create(t)
       \/ sys_sched_yield
       \/ \E ms \in Ms : sys_msleep(ms)
       \/ timer_interrupt
       \/ Handler
    /\ UNCHANGED ipcVars

KNext ==
    \/ sched_step
    \/ \E m \in Mutex : mutex_lock(m) \/ mutex_unlock(m)
    \/ \E s \in Sem : sem_wait(s) \/ sem_notify(s)

KSpec == KInit /\ [][KNext]_kvars

(* The machine is fair as in Sched, and a task that holds a mutex and gets *)
(* the processor again and again does not keep it forever.                 *)
KFairSpec ==
    /\ KSpec
    /\ WF_kvars(sched_step /\ task_first_init)
    /\ WF_kvars(sched_step /\ timer_interrupt)
    /\ WF_kvars(sched_step /\ Handler)
    /\ \A t \in Task, m \in Mutex : SF_kvars(curr_task = t /\ mutex_unlock(m))
-----------------------------------------------------------------------------
(* The types of mutexes and semaphores: no counter runs below zero.        *)
KTypeOK ==
    /\ locked_count \in [Mutex -> Nat]
    /\ owner \in [Mutex -> Task \union {NULL}]
    /\ count \in [Sem -> Nat]
    /\ wait_list \in [Obj -> Seq(Task)]
    /\ depth \in [Task -> [Mutex -> 0..MaxDepth]]
    /\ balance \in [Sem -> Int]

(* Task t has returned from more calls of mutex_lock(m) than it has made   *)
(* of mutex_unlock(m): it believes that it holds m.                        *)
Inside(t, m) ==
    depth[t][m] > 0 /\ ~(t \in Blocked /\ t \in ToSet(wait_list[m]))

(* At most one task at a time is inside a mutex.                           *)
MutualExclusion ==
    \A m \in Mutex : \A t, u \in Task : Inside(t, m) /\ Inside(u, m) => t = u

(* The fields of a mutex tell the truth: it is owned by the one task that  *)
(* is inside, which has to unlock it locked_count times; nobody waits for  *)
(* a free mutex; and who waits has called mutex_lock exactly once.         *)
MutexFields ==
    \A m \in Mutex :
        /\ owner[m] = NULL <=> locked_count[m] = 0
        /\ owner[m] = NULL => wait_list[m] = << >>
        /\ \A t \in Task :
              depth[t][m] = IF t = owner[m] THEN locked_count[m]
                            ELSE IF t \in ToSet(wait_list[m]) THEN 1 ELSE 0

(* A blocked task waits in exactly one wait list, once, and a task that    *)
(* waits is blocked: no task is lost, and wait_node is on one list only.   *)
WaitersAreBlocked ==
    /\ Blocked = UNION {ToSet(wait_list[x]) : x \in Obj}
    /\ \A x \in Obj : IsInjective(wait_list[x])
    /\ \A x, y \in Obj : x # y => ToSet(wait_list[x]) \intersect ToSet(wait_list[y]) = {}

(* A semaphore neither loses nor invents a unit: with balance >= 0 it is   *)
(* the count and nobody waits, with balance < 0 the count is zero and      *)
(* exactly -balance tasks wait.                                            *)
SemExact ==
    \A s \in Sem :
        /\ count[s] = IF balance[s] > 0 THEN balance[s] ELSE 0
        /\ Len(wait_list[s]) = IF balance[s] < 0 THEN -balance[s] ELSE 0

(* The mutexes and semaphores use the task manager as it must be used:     *)
(* what they do to it is a behaviour of Sched, so that they make ready     *)
(* only tasks that are blocked.                                            *)
UsesSched == Spec

(* A task that waits for a mutex eventually owns it.                       *)
WaiterOwns == \A t \in Task, m \in Mutex : t \in ToSet(wait_list[m]) ~> owner[m] = t
=============================================================================
