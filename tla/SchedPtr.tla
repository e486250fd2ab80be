------------------------------ MODULE SchedPtr ------------------------------
(***************************************************************************)
(* The task manager with its real lists: module Sched's operations on the  *)
(* linked lists of list.c.  The ready and the sleep list both link the     *)
(* run_node of a task, so that a node put on a list it is already on, or   *)
(* on two lists, makes them share pointers.                                *)
(*                                                                         *)
(* That happens: task_first_init calls task_init, which makes the first    *)
(* task ready (line 104), and then task_start, which does so again (line   *)
(* 148).  RestartFirst = TRUE is the code as it is; FALSE leaves out line  *)
(* 148.                                                                    *)
(*                                                                         *)
(* PNext has the calls of mutex.c and sem.c too, block_current and wake;   *)
(* BootNext is the program as it boots at this commit: init_main starts    *)
(* the first task and nothing else, so no task ever waits for another.     *)
(***************************************************************************)
EXTENDS Integers, SequencesExt

CONSTANTS Task, first_task, idle_task, NULL, TASK_TIME_SLICE_DEFAULT,
          OS_TICK_MS, Ms, UINT,
          RestartFirst      \* whether task_first_init has its line 148

ASSUME PtrAssumption ==
    /\ first_task \in Task
    /\ idle_task \notin Task
    /\ NULL \notin Task /\ NULL # idle_task
    /\ TASK_TIME_SLICE_DEFAULT \in Nat \ {0} /\ OS_TICK_MS \in Nat \ {0}
    /\ UINT \in Nat \ {0} /\ Ms \subseteq 0..(UINT-1)
    /\ RestartFirst \in BOOLEAN

VARIABLES
    curr_task, task_list, state, sleep_ticks, slice_ticks, pc, in_service,
    ready,          \* task_manager.ready_list, a list_t
    sleep,          \* task_manager.sleep_list, a list_t
    run_node,       \* the run_node of every task
    cursor          \* the local variable curr of task_time_tick

lists == <<ready, sleep, run_node>>
pvars == <<curr_task, task_list, state, sleep_ticks, slice_ticks, pc, in_service,
           ready, sleep, run_node, cursor>>

AllTask == Task \union {idle_task}

L == INSTANCE List WITH Node <- AllTask

(* The sequence of nodes met on following next from first, count times.    *)
Contents(l) ==
    LET at[i \in 1..l.count] == IF i = 1 THEN l.first ELSE run_node[at[i-1]].next
    IN  at

\* What stands for the two lists of Sched.
ready_list == Contents(ready)
sleep_list == Contents(sleep)

\* The tasks that can be switched to only after someone calls task_set_ready.
Blocked ==
    (ToSet(task_list) \ {idle_task}) \ (ToSet(ready_list) \union ToSet(sleep_list))
-----------------------------------------------------------------------------
(* Faulty variants of definitions below, as in Sched.                      *)

\* The task goes to the front of the ready list.
bad_set_ready(r, t) ==
    IF t = idle_task THEN r ELSE L!list_insert_first(r.list, r.node, t)

\* The ticks of a sleeper are not counted down.
bad_decrement(n) == n
-----------------------------------------------------------------------------
(* A ready list and the run nodes, packed as the operations of List do.    *)
Ready == [list |-> ready, node |-> run_node]

task_set_ready(r, t) ==
    IF t = idle_task THEN r ELSE L!list_insert_last(r.list, r.node, t)

task_set_block(r, t) ==
    IF t = idle_task THEN r ELSE L!list_remove(r.list, r.node, t)

set_state(st, t, s) == IF t = idle_task THEN st ELSE [st EXCEPT ![t] = s]

task_next_run(l) == IF l.count = 0 THEN idle_task ELSE l.first

\* task_dispatch when the ready list has become l and the state fields st.
task_dispatch(l, st) ==
    LET to == task_next_run(l)
    IN  /\ ready' = l
        /\ curr_task' = to
        /\ state' = IF to # curr_task /\ to # NULL
                    THEN [st EXCEPT ![to] = "RUNNING"] ELSE st

msleep_ticks(ms) ==
    LET atleast == IF ms < OS_TICK_MS THEN OS_TICK_MS ELSE ms
    IN  ((atleast + (OS_TICK_MS - 1)) % UINT) \div OS_TICK_MS

pic_send_eoi(bit) == FALSE

Running == curr_task \in Task /\ pc[curr_task] = "run"
InTick(at) == curr_task # NULL /\ pc[curr_task] = at
-----------------------------------------------------------------------------
PInit ==
    /\ curr_task = NULL
    /\ ready = L!list_init
    /\ sleep = L!list_init
    /\ run_node = [t \in AllTask |-> L!list_node_init]
    /\ task_list = <<idle_task>>
    /\ state = [t \in AllTask |-> "CREATED"]
    /\ sleep_ticks = [t \in AllTask |-> 0]
    /\ slice_ticks = [t \in AllTask |->
                        IF t = idle_task THEN TASK_TIME_SLICE_DEFAULT ELSE 0]
    /\ pc = [t \in AllTask |-> "run"]
    /\ cursor = NULL
    /\ in_service = FALSE

(* task_init, followed by task_start when restart holds.                   *)
task_init(t, restart) ==
    LET r0 == [list |-> ready, node |-> [run_node EXCEPT ![t] = L!list_node_init]]
        r1 == task_set_ready(r0, t)
        r2 == IF restart THEN task_set_ready(r1, t) ELSE r1
    IN  /\ ready' = r2.list
        /\ run_node' = r2.node
        /\ task_list' = Append(task_list, t)
        /\ state' = [state EXCEPT ![t] = "READY"]
        /\ sleep_ticks' = [sleep_ticks EXCEPT ![t] = 0]
        /\ slice_ticks' = [slice_ticks EXCEPT ![t] = TASK_TIME_SLICE_DEFAULT]

task_first_init ==
    /\ curr_task = NULL
    /\ task_list = <<idle_task>>
    /\ task_init(first_task, RestartFirst)
    /\ curr_task' = first_task
    /\ UNCHANGED <<sleep, pc, cursor, in_service>>

create(t) ==
    /\ Running
    /\ t \notin ToSet(task_list)
    /\ task_init(t, FALSE)
    /\ UNCHANGED <<curr_task, sleep, pc, cursor, in_service>>

sys_sched_yield ==
    LET r == task_set_ready(task_set_block(Ready, curr_task), curr_task)
    IN  /\ Running
        /\ ready.count > 1
        /\ task_dispatch(r.list, set_state(state, curr_task, "READY"))
        /\ run_node' = r.node
        /\ UNCHANGED <<sleep, task_list, sleep_ticks, slice_ticks, pc, cursor,
                       in_service>>

sys_msleep(ms) ==
    LET ticks == msleep_ticks(ms)
        r     == task_set_block(Ready, curr_task)
        s     == L!list_insert_last(sleep, r.node, curr_task)
    IN  /\ Running
        /\ \/ /\ ticks > 0
              /\ sleep_ticks' = [sleep_ticks EXCEPT ![curr_task] = ticks]
              /\ sleep' = s.list
              /\ run_node' = s.node
              /\ task_dispatch(r.list, [state EXCEPT ![curr_task] = "SLEEP"])
           \/ /\ ticks = 0
              /\ run_node' = r.node
              /\ UNCHANGED <<sleep_ticks, sleep>>
              /\ task_dispatch(r.list, state)
        /\ UNCHANGED <<task_list, slice_ticks, pc, cursor, in_service>>

(* task_set_block and task_dispatch, as mutex_lock and sem_wait call them. *)
block_current ==
    LET r == task_set_block(Ready, curr_task)
    IN  /\ Running
        /\ task_dispatch(r.list, state)
        /\ run_node' = r.node
        /\ UNCHANGED <<sleep, task_list, sleep_ticks, slice_ticks, pc, cursor,
                       in_service>>

(* task_set_ready and task_dispatch, as mutex_unlock and sem_notify call   *)
(* them on the task they take off a wait list.                             *)
make_ready(t) ==
    LET r == task_set_ready(Ready, t)
    IN  /\ Running
        /\ task_dispatch(r.list, set_state(state, t, "READY"))
        /\ run_node' = r.node
        /\ UNCHANGED <<sleep, task_list, sleep_ticks, slice_ticks, pc, cursor,
                       in_service>>

(* What the callers must respect: only a blocked task is made ready.       *)
wake(t) == t \in Blocked /\ make_ready(t)
-----------------------------------------------------------------------------
timer_interrupt ==
    /\ InTick("run")
    /\ ~in_service
    /\ in_service' = TRUE
    /\ pc' = [pc EXCEPT ![curr_task] = "timer"]
    /\ UNCHANGED <<curr_task, lists, task_list, state, sleep_ticks, slice_ticks,
                   cursor>>

do_handler_timer ==
    LET r == task_set_ready(task_set_block(Ready, curr_task), curr_task)
    IN  /\ InTick("timer")
        /\ in_service' = pic_send_eoi(in_service)
        /\ pc' = [pc EXCEPT ![curr_task] = "sleepers"]
        /\ \/ /\ slice_ticks[curr_task] - 1 # 0
              /\ slice_ticks' = [slice_ticks EXCEPT ![curr_task] = @ - 1]
              /\ UNCHANGED <<curr_task, ready, run_node, state>>
           \/ /\ slice_ticks[curr_task] - 1 = 0
              /\ slice_ticks' = [slice_ticks EXCEPT
                                   ![curr_task] = TASK_TIME_SLICE_DEFAULT]
              /\ task_dispatch(r.list, set_state(state, curr_task, "READY"))
              /\ run_node' = r.node
        /\ UNCHANGED <<sleep, task_list, sleep_ticks, cursor>>

walk_begin ==
    /\ InTick("sleepers")
    /\ cursor' = sleep.first
    /\ pc' = [pc EXCEPT ![curr_task] = "walk"]
    /\ UNCHANGED <<curr_task, lists, task_list, state, sleep_ticks, slice_ticks,
                   in_service>>

(* sleep_ticks stays at -1 once it is negative: it would take 2^32 more    *)
(* decrements to reach zero again.                                         *)
decrement(n) == IF n < 0 THEN n ELSE n - 1

walk_step ==
    LET w == L!list_remove(sleep, run_node, cursor)
        r == task_set_ready([list |-> ready, node |-> w.node], cursor)
    IN  /\ InTick("walk")
        /\ cursor # NULL
        /\ cursor' = run_node[cursor].next
        /\ sleep_ticks' = [sleep_ticks EXCEPT ![cursor] = decrement(@)]
        /\ \/ /\ sleep_ticks[cursor] - 1 = 0
              /\ sleep' = w.list
              /\ ready' = r.list
              /\ run_node' = r.node
              /\ state' = set_state(state, cursor, "READY")
           \/ /\ sleep_ticks[cursor] - 1 # 0
              /\ UNCHANGED <<lists, state>>
        /\ UNCHANGED <<curr_task, task_list, slice_ticks, pc, in_service>>

walk_end ==
    /\ InTick("walk")
    /\ cursor = NULL
    /\ pc' = [pc EXCEPT ![curr_task] = "run"]
    /\ task_dispatch(ready, state)
    /\ UNCHANGED <<sleep, run_node, task_list, sleep_ticks, slice_ticks, cursor,
                   in_service>>

Handler == do_handler_timer \/ walk_begin \/ walk_step \/ walk_end

BootNext ==
    \/ task_first_init
    \/ \E t \in Task : create(t)
    \/ sys_sched_yield
    \/ \E ms \in Ms : sys_msleep(ms)
    \/ timer_interrupt
    \/ Handler

PNext ==
    \/ BootNext
    \/ block_current
    \/ \E t \in Task : wake(t)

PSpec == PInit /\ [][PNext]_pvars

BootSpec == PInit /\ [][BootNext]_pvars

\* The fairness of Sched.
BootFairSpec ==
    /\ BootSpec
    /\ WF_pvars(task_first_init)
    /\ WF_pvars(timer_interrupt)
    /\ WF_pvars(Handler)
-----------------------------------------------------------------------------
S == INSTANCE Sched

(* The lists are what Sched takes them for, and every step of the linked   *)
(* lists is a step of Sched on the sequences they hold.                    *)
ImplementsSched == S!Spec

(* The ready and the sleep list are well formed in both directions and     *)
(* share no node.                                                          *)
ListsWellFormed ==
    /\ L!Represents(ready, run_node, Contents(ready))
    /\ L!Represents(sleep, run_node, Contents(sleep))
    /\ ToSet(Contents(ready)) \intersect ToSet(Contents(sleep)) = {}

(* The tick handler's walk always ends, also on a sleep list whose only    *)
(* node is its own successor.                                              *)
WalkEnds == \A t \in AllTask : pc[t] = "walk" ~> pc[t] = "run"

(* The first task gets the processor again and again.                      *)
FirstTaskRuns == []<>(curr_task = first_task)

(* sys_msleep's comment: the caller is removed from the ready list and     *)
(* added to the sleep list.                                                *)
MsleepLeavesReady ==
    [][ \A ms \in Ms : sys_msleep(ms) => ready'.first # curr_task ]_pvars
=============================================================================
