----------------------------- MODULE SchedHist ------------------------------
(***************************************************************************)
(* How long a sleep lasts.  Sched with history variables, which no action  *)
(* of the code reads: for each sleeping task, what it asked for, how many  *)
(* timer interrupts have been accepted since, how many walks of the sleep  *)
(* list have been completed since, and how many walks were already         *)
(* outstanding (tasks preempted at line 279 of task_time_tick) when it     *)
(* fell asleep.                                                            *)
(***************************************************************************)
EXTENDS Sched, FiniteSets

VARIABLES
    asked,      \* ticks the sleep was given by task_set_sleep
    ticks,      \* timer interrupts accepted since the task fell asleep
    walks,      \* walks of the sleep list completed since
    debt        \* walks outstanding when it fell asleep

histVars == <<asked, ticks, walks, debt>>

Asleep == ToSet(sleep_list)

\* Timer interrupts accepted whose walk of the sleep list is not complete.
Outstanding == Cardinality({u \in AllTask : pc[u] # "run"})

One(b) == IF b THEN 1 ELSE 0

HInit ==
    /\ Init
    /\ asked = [t \in Task |-> 0]
    /\ ticks = [t \in Task |-> 0]
    /\ walks = [t \in Task |-> 0]
    /\ debt = [t \in Task |-> 0]

(* What the history variables record of a step of Sched.                   *)
Record ==
    LET falls(t)  == t \in Asleep' \ Asleep
        sleeps(t) == t \in Asleep' \intersect Asleep
        accepted  == in_service' /\ ~in_service
        walked    == \E u \in AllTask : pc[u] = "walk" /\ pc'[u] = "run"
    IN  /\ asked' = [t \in Task |-> IF falls(t) THEN sleep_ticks'[t]
                                    ELSE IF sleeps(t) THEN asked[t] ELSE 0]
        /\ ticks' = [t \in Task |-> IF sleeps(t) THEN ticks[t] + One(accepted) ELSE 0]
        /\ walks' = [t \in Task |-> IF sleeps(t) THEN walks[t] + One(walked) ELSE 0]
        /\ debt'  = [t \in Task |-> IF falls(t) THEN Outstanding
                                    ELSE IF sleeps(t) THEN debt[t] ELSE 0]

HNext == Next /\ Record

HSpec == HInit /\ [][HNext]_<<vars, histVars>>
-----------------------------------------------------------------------------
(* The walk of the sleep list that is under way has gone past task t.      *)
Passed(t) ==
    /\ \E u \in AllTask : pc[u] = "walk"
    /\ \/ cursor = NULL
       \/ \E i, j \in 1..Len(sleep_list) :
             i < j /\ sleep_list[i] = t /\ sleep_list[j] = cursor

(* Every completed walk has taken exactly one tick from every sleeper, and *)
(* the walk under way one from each sleeper it has passed: no sleeper is   *)
(* skipped or counted twice although nodes leave the list during the walk. *)
WalkAccounting ==
    \A t \in Asleep : asked[t] = sleep_ticks[t] + walks[t] + One(Passed(t))

(* Every timer interrupt brings exactly one walk, however long the task    *)
(* that took it stays preempted: the interrupts since a task fell asleep,  *)
(* and the walks outstanding then, are the walks made since and the walks  *)
(* outstanding now.                                                        *)
TickAccounting ==
    \A t \in Asleep : ticks[t] + debt[t] = walks[t] + Outstanding

(* A task is woken early by no more ticks than walks were outstanding when *)
(* it fell asleep, and late by no more than the other walks outstanding    *)
(* when it is woken.                                                       *)
WakeAccuracy ==
    [][ \A t \in Asleep \ Asleep' :
            /\ ticks[t] >= asked[t] - debt[t]
            /\ ticks[t] <= asked[t] + (Outstanding - 1) ]_<<vars, histVars>>

(* sys_msleep's comment: the delay is at least one tick, so a task is not  *)
(* woken before a timer interrupt has been accepted.                       *)
AtLeastOneTick ==
    [][ \A t \in Asleep \ Asleep' : ticks[t] >= 1 ]_<<vars, histVars>>
=============================================================================
