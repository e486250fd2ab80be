------------------------------- MODULE Sched --------------------------------
(***************************************************************************)
(* The task manager of kernel/core/task.c together with the timer          *)
(* interrupt of kernel/dev/time.c, at the level of the lists' contents:    *)
(* each list_t is the sequence of the tasks whose node it links (module    *)
(* SchedPtr has the pointers).                                             *)
(*                                                                         *)
(* There is one processor.  Every kernel operation runs between            *)
(* irq_enter_protection and irq_leave_protection, so it is one action up   *)
(* to its task_dispatch, which may leave the caller suspended inside the   *)
(* operation.  What the caller still has to do when it is resumed is       *)
(* nothing, but for one place: task_time_tick dispatches in the middle     *)
(* (line 279) and the code after it, the walk of the sleep list, is run by *)
(* the preempted task only when it is switched back in.  pc[t] says where  *)
(* t is:                                                                   *)
(*   "run"       its own code, interrupts enabled;                         *)
(*   "timer"     accepted the timer interrupt, handler not yet entered;    *)
(*   "sleepers"  in task_time_tick before line 283;                        *)
(*   "walk"      in the loop of lines 284-294.                             *)
(* Interrupts are disabled unless pc is "run".                             *)
(*                                                                         *)
(* Blocking and waking by other modules (mutex.c, sem.c) are the actions   *)
(* block_current and wake; module Kernel says which task and when.         *)
(*                                                                         *)
(* task_first_init makes the first task ready twice: task_init does (line  *)
(* 104), and task_start does so again (line 148).  RestartFirst = TRUE is  *)
(* the code as it is at this commit.  Its run node is then on the ready    *)
(* list twice, its next pointer is itself, and the list no longer goes on  *)
(* as a sequence would: module SchedPtr follows the pointers from there.   *)
(* RestartFirst = FALSE is the code without line 148, and what this module *)
(* and Kernel say of later steps is said of that.                          *)
(***************************************************************************)
EXTENDS Integers, SequencesExt

CONSTANTS
    Task,                       \* the task_t's that may be given to task_init
    first_task,                 \* task_manager.first_task
    idle_task,                  \* task_manager.idle_task
    NULL,                       \* the null pointer
    TASK_TIME_SLICE_DEFAULT,    \* ticks in a time slice
    OS_TICK_MS,                 \* milliseconds in a tick
    Ms,                         \* the arguments sys_msleep is called with
    UINT,                       \* 2^32: uint32_t sums are taken modulo UINT
    RestartFirst                \* whether task_first_init has its line 148

ASSUME RestartAssumption == RestartFirst \in BOOLEAN

ASSUME TaskAssumption ==
    /\ first_task \in Task
    /\ idle_task \notin Task
    /\ NULL \notin Task
    /\ NULL # idle_task

ASSUME NumAssumption ==
    /\ TASK_TIME_SLICE_DEFAULT \in Nat \ {0}
    /\ OS_TICK_MS \in Nat \ {0}
    /\ UINT \in Nat \ {0}
    /\ Ms \subseteq 0..(UINT-1)

VARIABLES
    curr_task,          \* task_manager.curr_task
    ready_list,         \* task_manager.ready_list, linked through run_node
    sleep_list,         \* task_manager.sleep_list, linked through run_node
    task_list,          \* task_manager.task_list, linked through all_node
    state,              \* task_t.state
    sleep_ticks,        \* task_t.sleep_ticks
    slice_ticks,        \* task_t.slice_ticks
    pc,                 \* where each task is (see above)
    cursor,             \* the local variable curr of task_time_tick
    in_service          \* the timer's in-service bit in the 8259

vars == <<curr_task, ready_list, sleep_list, task_list, state, sleep_ticks,
          slice_ticks, pc, cursor, in_service>>

AllTask == Task \union {idle_task}
Created == ToSet(task_list)

\* The tasks that can be switched to only after someone calls task_set_ready.
Blocked == (Created \ {idle_task}) \ (ToSet(ready_list) \union ToSet(sleep_list))
-----------------------------------------------------------------------------
(* Faulty variants of definitions below, used to see that the properties   *)
(* notice such mistakes.                                                   *)

\* The test for the idle task is missing.
bad_set_ready(list, t) == Append(list, t)

\* The task goes to the front of the list.
bad_set_ready_front(list, t) == IF t = idle_task THEN list ELSE <<t>> \o list

\* The task is not taken off the list.
bad_set_block(list, t) == list

\* The order of the other tasks is lost: the last takes the free place.
bad_set_block_order(list, t) ==
    LET rest == RemoveFirst(list, t)
    IN  IF rest = << >> THEN rest ELSE <<Last(rest)>> \o Front(rest)

\* The state field is not written.
bad_set_state(st, t, s) == st

\* The last task of the list is taken instead of the first.
bad_next_run(list) == IF list = << >> THEN idle_task ELSE Last(list)

\* next is read after the node was removed and cleared.
bad_node_next_late(list, t) == NULL

\* No end-of-interrupt command.
bad_send_eoi(bit) == bit

\* A task preempted in task_time_tick does not walk the sleep list.
bad_walk_begin ==
    /\ curr_task # NULL
    /\ pc[curr_task] = "sleepers"
    /\ pc' = [pc EXCEPT ![curr_task] = "run"]
    /\ UNCHANGED <<curr_task, ready_list, sleep_list, task_list, state,
                   sleep_ticks, slice_ticks, cursor, in_service>>
-----------------------------------------------------------------------------
(* Helpers of task.c, on the value of the list they change.                *)

task_set_ready(list, t) == IF t = idle_task THEN list ELSE Append(list, t)

task_set_block(list, t) == IF t = idle_task THEN list ELSE RemoveFirst(list, t)

set_state(st, t, s) == IF t = idle_task THEN st ELSE [st EXCEPT ![t] = s]

task_next_run(list) == IF list = << >> THEN idle_task ELSE Head(list)

(* The whole of task_dispatch, called when the ready list has become list  *)
(* and the state fields st: the processor goes to task_next_run.           *)
task_dispatch(list, st) ==
    LET to == task_next_run(list)
    IN  /\ ready_list' = list
        /\ curr_task' = to
        /\ state' = IF to # curr_task THEN [st EXCEPT ![to] = "RUNNING"] ELSE st

(* The number of ticks sys_msleep asks for, in uint32_t arithmetic.        *)
msleep_ticks(ms) ==
    LET atleast == IF ms < OS_TICK_MS THEN OS_TICK_MS ELSE ms
    IN  ((atleast + (OS_TICK_MS - 1)) % UINT) \div OS_TICK_MS

\* No argument of sys_msleep is so large that the sum wraps to a zero count.
NoWrap == \A ms \in Ms : msleep_ticks(ms) > 0

list_node_next(list, t) ==
    LET later == {i \in 2..Len(list) : list[i-1] = t}
    IN  IF later = {} THEN NULL ELSE list[Min(later)]

(* The end-of-interrupt command takes the timer out of service.            *)
pic_send_eoi(bit) == FALSE

(* A task runs its own code: it may call the kernel, or be interrupted.    *)
Running == curr_task \in Task /\ pc[curr_task] = "run"
-----------------------------------------------------------------------------
(* task_manager_init: the lists are empty, the idle task is on task_list   *)
(* only, there is no current task.                                         *)
Init ==
    /\ curr_task = NULL
    /\ ready_list = << >>
    /\ sleep_list = << >>
    /\ task_list = <<idle_task>>
    /\ state = [t \in AllTask |-> "CREATED"]
    /\ sleep_ticks = [t \in AllTask |-> 0]
    /\ slice_ticks = [t \in AllTask |->
                        IF t = idle_task THEN TASK_TIME_SLICE_DEFAULT ELSE 0]
    /\ pc = [t \in AllTask |-> "run"]
    /\ cursor = NULL
    /\ in_service = FALSE

(* task_init, followed by task_start when restart holds.                   *)
task_init(t, restart) ==
    LET once == task_set_ready(ready_list, t)
    IN  /\ task_list' = Append(task_list, t)
        /\ ready_list' = IF restart THEN task_set_ready(once, t) ELSE once
        /\ state' = [state EXCEPT ![t] = "READY"]
        /\ sleep_ticks' = [sleep_ticks EXCEPT ![t] = 0]
        /\ slice_ticks' = [slice_ticks EXCEPT ![t] = TASK_TIME_SLICE_DEFAULT]

(* The boot code makes the first task, becomes it and starts it.           *)
task_first_init ==
    /\ curr_task = NULL
    /\ task_init(first_task, RestartFirst)
    /\ curr_task' = first_task
    /\ UNCHANGED <<sleep_list, pc, cursor, in_service>>

(* A running task creates another one; it goes on running.                 *)
create(t) ==
    /\ Running
    /\ t \notin Created
    /\ task_init(t, FALSE)
    /\ UNCHANGED <<curr_task, sleep_list, pc, cursor, in_service>>

sys_sched_yield ==
    /\ Running
    /\ Len(ready_list) > 1
    /\ task_dispatch(task_set_ready(task_set_block(ready_list, curr_task), curr_task),
                     set_state(state, curr_task, "READY"))
    /\ UNCHANGED <<sleep_list, task_list, sleep_ticks, slice_ticks, pc, cursor,
                   in_service>>

(* task_set_sleep inside sys_msleep: a count of zero returns early.        *)
sys_msleep(ms) ==
    LET ticks == msleep_ticks(ms)
        t     == curr_task
    IN  /\ Running
        /\ \/ /\ ticks > 0
              /\ sleep_ticks' = [sleep_ticks EXCEPT ![t] = ticks]
              /\ sleep_list' = Append(sleep_list, t)
              /\ task_dispatch(task_set_block(ready_list, t),
                               [state EXCEPT ![t] = "SLEEP"])
           \/ /\ ticks = 0
              /\ UNCHANGED <<sleep_ticks, sleep_list>>
              /\ task_dispatch(task_set_block(ready_list, t), state)
        /\ UNCHANGED <<task_list, slice_ticks, pc, cursor, in_service>>

(* task_set_block and task_dispatch, as mutex_lock and sem_wait call them. *)
block_current ==
    /\ Running
    /\ task_dispatch(task_set_block(ready_list, curr_task), state)
    /\ UNCHANGED <<sleep_list, task_list, sleep_ticks, slice_ticks, pc, cursor,
                   in_service>>

(* task_set_ready and task_dispatch, as mutex_unlock and sem_notify call   *)
(* them on the task they take off a wait list.                             *)
make_ready(t) ==
    /\ Running
    /\ task_dispatch(task_set_ready(ready_list, t), set_state(state, t, "READY"))
    /\ UNCHANGED <<sleep_list, task_list, sleep_ticks, slice_ticks, pc, cursor,
                   in_service>>

(* What the callers must respect: only a blocked task is made ready.       *)
wake(t) == t \in Blocked /\ make_ready(t)
-----------------------------------------------------------------------------
(* The processor accepts a timer interrupt in the current task, be it the  *)
(* idle task: interrupts are enabled and the 8259 has none in service.     *)
timer_interrupt ==
    /\ curr_task # NULL
    /\ pc[curr_task] = "run"
    /\ ~in_service
    /\ in_service' = TRUE
    /\ pc' = [pc EXCEPT ![curr_task] = "timer"]
    /\ UNCHANGED <<curr_task, ready_list, sleep_list, task_list, state,
                   sleep_ticks, slice_ticks, cursor>>

(* do_handler_timer up to the end of the time-slice part of task_time_tick.*)
do_handler_timer ==
    /\ curr_task # NULL
    /\ pc[curr_task] = "timer"
    /\ in_service' = pic_send_eoi(in_service)
    /\ pc' = [pc EXCEPT ![curr_task] = "sleepers"]
    /\ \/ /\ slice_ticks[curr_task] - 1 # 0
          /\ slice_ticks' = [slice_ticks EXCEPT ![curr_task] = @ - 1]
          /\ UNCHANGED <<curr_task, ready_list, state>>
       \/ /\ slice_ticks[curr_task] - 1 = 0
          /\ slice_ticks' = [slice_ticks EXCEPT ![curr_task] = TASK_TIME_SLICE_DEFAULT]
          /\ task_dispatch(
                task_set_ready(task_set_block(ready_list, curr_task), curr_task),
                set_state(state, curr_task, "READY"))
    /\ UNCHANGED <<sleep_list, task_list, sleep_ticks, cursor>>

(* Line 283.                                                               *)
walk_begin ==
    /\ curr_task # NULL
    /\ pc[curr_task] = "sleepers"
    /\ cursor' = IF sleep_list = << >> THEN NULL ELSE Head(sleep_list)
    /\ pc' = [pc EXCEPT ![curr_task] = "walk"]
    /\ UNCHANGED <<curr_task, ready_list, sleep_list, task_list, state,
                   sleep_ticks, slice_ticks, in_service>>

(* One turn of the loop: next is read before the node leaves the list.     *)
walk_step ==
    /\ curr_task # NULL
    /\ pc[curr_task] = "walk"
    /\ cursor # NULL
    /\ cursor' = list_node_next(sleep_list, cursor)
    /\ sleep_ticks' = [sleep_ticks EXCEPT ![cursor] = @ - 1]
    /\ \/ /\ sleep_ticks[cursor] - 1 = 0
          /\ sleep_list' = RemoveFirst(sleep_list, cursor)
          /\ ready_list' = task_set_ready(ready_list, cursor)
          /\ state' = set_state(state, cursor, "READY")
       \/ /\ sleep_ticks[cursor] - 1 # 0
          /\ UNCHANGED <<sleep_list, ready_list, state>>
    /\ UNCHANGED <<curr_task, task_list, slice_ticks, pc, in_service>>

(* Lines 296-297, and the return from the interrupt.                       *)
walk_end ==
    /\ curr_task # NULL
    /\ pc[curr_task] = "walk"
    /\ cursor = NULL
    /\ pc' = [pc EXCEPT ![curr_task] = "run"]
    /\ task_dispatch(ready_list, state)
    /\ UNCHANGED <<sleep_list, task_list, sleep_ticks, slice_ticks, cursor,
                   in_service>>

Handler == do_handler_timer \/ walk_begin \/ walk_step \/ walk_end

Next ==
    \/ task_first_init
    \/ \E t \in Task : create(t) \/ wake(t)
    \/ sys_sched_yield
    \/ \E ms \in Ms : sys_msleep(ms)
    \/ block_current
    \/ timer_interrupt
    \/ Handler

Spec == Init /\ [][Next]_vars

(* The timer keeps interrupting (the PIT is periodic and the 8259 holds    *)
(* the request while interrupts are disabled), the processor keeps         *)
(* executing the handler, and the boot code makes the first task.          *)
Fairness ==
    /\ WF_vars(task_first_init)
    /\ WF_vars(timer_interrupt)
    /\ WF_vars(Handler)

FairSpec == Spec /\ Fairness
-----------------------------------------------------------------------------
(* The types of the task manager: no counter runs below zero, and no idle  *)
(* task or null pointer gets into the ready or the sleep list.             *)
TypeOK ==
    /\ curr_task \in AllTask \union {NULL}
    /\ ready_list \in Seq(Task)
    /\ sleep_list \in Seq(Task)
    /\ task_list \in Seq(AllTask)
    /\ state \in [AllTask -> {"CREATED", "READY", "RUNNING", "SLEEP"}]
    /\ sleep_ticks \in [AllTask -> Nat]
    /\ slice_ticks \in [AllTask -> 0..TASK_TIME_SLICE_DEFAULT]
    /\ pc \in [AllTask -> {"run", "timer", "sleepers", "walk"}]
    /\ cursor \in Task \union {NULL}
    /\ in_service \in BOOLEAN

(* Once the first task is made ready once (RestartFirst = FALSE), no later *)
(* step puts a run_node on a list while it is on one: a task is on at most *)
(* one of the ready and the sleep list, at most once, and only after       *)
(* task_init.  list_insert_last does not check that, and list_remove does  *)
(* not check which list a node is on.  With line 148 of the shipped boot   *)
(* it is false from the first step.                                        *)
RunNodeOnce ==
    /\ IsInjective(ready_list)
    /\ IsInjective(sleep_list)
    /\ ToSet(ready_list) \intersect ToSet(sleep_list) = {}
    /\ ToSet(ready_list) \union ToSet(sleep_list) \subseteq Created

(* The processor always belongs to the head of the ready list, and to the  *)
(* idle task only when no task is ready, but for the moment in which the   *)
(* idle task's own tick has made sleepers ready and has not yet dispatched.*)
CurrIsHead ==
    curr_task # NULL =>
        IF curr_task = idle_task
        THEN ready_list = << >> \/ pc[idle_task] = "walk"
        ELSE ready_list # << >> /\ curr_task = Head(ready_list)

(* The three places that say that a task sleeps agree: its state, its      *)
(* count of remaining ticks and its place on the sleep list.               *)
SleepFieldsAgree ==
    \A t \in Task : /\ t \in ToSet(sleep_list) <=> state[t] = "SLEEP"
                    /\ t \in ToSet(sleep_list) <=> sleep_ticks[t] > 0

(* The walk of the sleep list never stands on a node that has left it, and *)
(* only the task that is inside the walk has a place in it.                *)
CursorSleeps ==
    cursor # NULL => /\ cursor \in ToSet(sleep_list)
                     /\ curr_task # NULL
                     /\ pc[curr_task] = "walk"

(* Only the current task is inside the loop of task_time_tick, and a task  *)
(* that was preempted inside task_time_tick is still ready, so that its    *)
(* walk of the sleep list will be made.                                    *)
HandlersPending ==
    \A t \in AllTask :
        /\ pc[t] \in {"timer", "walk"} => t = curr_task
        /\ pc[t] = "sleepers" => t = idle_task \/ t \in ToSet(ready_list)
        /\ pc[t] = "timer" <=> in_service /\ t = curr_task

(* Of two ready tasks the one behind never overtakes the other, unless the *)
(* one in front was running and went to the tail itself.                   *)
NoOvertaking ==
    [][ \A i, j \in 1..Len(ready_list) :
          (i < j /\ ready_list[i] # curr_task)
            => \A k, l \in 1..Len(ready_list') :
                 (ready_list'[k] = ready_list[i] /\ ready_list'[l] = ready_list[j])
                    => k < l ]_vars

(* The comment of task_set_sleep's lines 334-338: a task that sys_msleep   *)
(* takes off the ready list is put on the sleep list, where the timer will *)
(* find it.                                                                *)
SleeperNotLost ==
    [][ \A ms \in Ms : sys_msleep(ms) => curr_task \in ToSet(sleep_list') ]_vars

(* Every ready task eventually gets the processor.                         *)
ReadyRuns == \A t \in Task : t \in ToSet(ready_list) ~> curr_task = t

(* Every sleeping task eventually becomes ready again.                     *)
SleeperWakes == \A t \in Task : t \in ToSet(sleep_list) ~> t \in ToSet(ready_list)
=============================================================================
