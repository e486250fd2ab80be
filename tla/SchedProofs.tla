---------------------------- MODULE SchedProofs -----------------------------
(***************************************************************************)
(* The invariants of Sched hold in every reachable state, for every set of *)
(* tasks and every value of the other constants, provided that the first   *)
(* task is made ready once: RestartFirst = FALSE is the code without line  *)
(* 148 of task.c, and every theorem has that hypothesis.  With the line    *)
(* RunNodeOnce, on which the others rest, is false (see SchedPtr).         *)
(***************************************************************************)
EXTENDS Sched, TLAPS
-----------------------------------------------------------------------------
(* Facts about the sequences that stand for the kernel's linked lists:     *)
(* what appending a node (list_insert_last), taking the head               *)
(* (list_remove_first) and removing one node (list_remove) do to the set   *)
(* of nodes on a list and to the absence of duplicates.                    *)

(* RemoveAt drops position k and moves the later elements one to the left. *)
LEMMA RemoveAtFacts ==
  ASSUME NEW S, NEW s \in Seq(S), NEW k \in 1..Len(s)
  PROVE  /\ RemoveAt(s, k) \in Seq(S)
         /\ Len(RemoveAt(s, k)) = Len(s) - 1
         /\ \A j \in 1..(Len(s)-1) :
               RemoveAt(s, k)[j] = IF j < k THEN s[j] ELSE s[j+1]
<1> DEFINE a == SubSeq(s, 1, k-1)
           b == SubSeq(s, k+1, Len(s))
<1>1. a \in Seq(S) /\ Len(a) = k-1 /\ \A j \in 1..(k-1) : a[j] = s[j]
  OBVIOUS
<1>2. b \in Seq(S) /\ Len(b) = Len(s)-k
  OBVIOUS
<1>3. \A j \in 1..(Len(s)-k) : b[j] = s[k+j]
  OBVIOUS
<1> HIDE DEF a, b
<1>4. a \o b \in Seq(S) /\ Len(a \o b) = Len(s) - 1
  BY <1>1, <1>2
<1>5. \A j \in 1..(Len(s)-1) : (a \o b)[j] = IF j < k THEN s[j] ELSE s[j+1]
  BY <1>1, <1>2, <1>3
<1>6. RemoveAt(s, k) = a \o b
  BY DEF RemoveAt, a, b
<1> QED
  BY <1>4, <1>5, <1>6

(* In a sequence without duplicates RemoveFirst(s, e) drops the one        *)
(* position that holds e.                                                  *)
LEMMA RemoveFirstIndex ==
  ASSUME NEW S, NEW s \in Seq(S), IsInjective(s), NEW e \in ToSet(s)
  PROVE  \E k \in 1..Len(s) : s[k] = e /\ RemoveFirst(s, e) = RemoveAt(s, k)
<1>1. PICK k \in 1..Len(s) : s[k] = e
  BY DEF ToSet
<1>2. {i \in 1..Len(s) : s[i] = e} = {k}
  BY <1>1 DEF IsInjective
<1>3. Min({k}) = k
  BY DEF Min
<1>4. SelectInSeq(s, LAMBDA v : v = e) = k
  BY <1>2, <1>3 DEF SelectInSeq
<1> QED
  BY <1>1, <1>4 DEF RemoveFirst

(* Removing a node of a list without duplicates takes exactly that node    *)
(* off it.                                                                 *)
LEMMA RemoveFirstFacts ==
  ASSUME NEW S, NEW s \in Seq(S), IsInjective(s), NEW e \in ToSet(s)
  PROVE  /\ RemoveFirst(s, e) \in Seq(S)
         /\ IsInjective(RemoveFirst(s, e))
         /\ ToSet(RemoveFirst(s, e)) = ToSet(s) \ {e}
         /\ Len(RemoveFirst(s, e)) = Len(s) - 1
<1>1. PICK k \in 1..Len(s) : s[k] = e /\ RemoveFirst(s, e) = RemoveAt(s, k)
  BY RemoveFirstIndex
<1>2. PICK w : w = RemoveFirst(s, e)
  OBVIOUS
<1>3. /\ w \in Seq(S)
      /\ Len(w) = Len(s) - 1
      /\ \A j \in 1..(Len(s)-1) : w[j] = IF j < k THEN s[j] ELSE s[j+1]
  BY <1>1, <1>2, RemoveAtFacts
<1>4. DOMAIN w = 1..(Len(s)-1) /\ DOMAIN s = 1..Len(s) /\ Len(s) \in Nat
  BY <1>3
<1>5. ASSUME NEW i \in DOMAIN w
      PROVE  \E p \in DOMAIN s : /\ p = (IF i < k THEN i ELSE i+1)
                                 /\ s[p] = w[i]
  BY <1>1, <1>3, <1>4
<1>6. ASSUME NEW i \in DOMAIN w, NEW j \in DOMAIN w, w[i] = w[j] PROVE i = j
  <2>1. PICK p \in DOMAIN s : p = (IF i < k THEN i ELSE i+1) /\ s[p] = w[i]
    BY <1>5
  <2>2. PICK q \in DOMAIN s : q = (IF j < k THEN j ELSE j+1) /\ s[q] = w[j]
    BY <1>5
  <2>3. p = q
    BY <2>1, <2>2, <1>6 DEF IsInjective
  <2> QED
    BY <2>1, <2>2, <2>3, <1>1, <1>4
<1>7. ASSUME NEW i \in DOMAIN w PROVE w[i] \in ToSet(s) \ {e}
  <2>1. PICK p \in DOMAIN s : p = (IF i < k THEN i ELSE i+1) /\ s[p] = w[i]
    BY <1>5
  <2>2. p # k
    BY <2>1, <1>1, <1>4
  <2> QED
    BY <2>1, <2>2, <1>1, <1>4 DEF IsInjective, ToSet
<1>8. ASSUME NEW x \in ToSet(s) \ {e} PROVE x \in ToSet(w)
  <2>1. PICK i \in 1..Len(s) : s[i] = x /\ i # k
    BY <1>1 DEF ToSet
  <2>2. CASE i < k
    <3>1. w[i] = s[i] /\ i \in DOMAIN w
      BY <2>1, <2>2, <1>1, <1>3, <1>4
    <3> QED
      BY <3>1, <2>1 DEF ToSet
  <2>3. CASE i > k
    <3>1. w[i-1] = s[i] /\ i-1 \in DOMAIN w
      BY <2>1, <2>3, <1>1, <1>3, <1>4
    <3> QED
      BY <3>1, <2>1 DEF ToSet
  <2> QED
    BY <2>1, <2>2, <2>3, <1>1
<1>9. IsInjective(w)
  BY <1>6 DEF IsInjective
<1>10. ToSet(w) = ToSet(s) \ {e}
  BY <1>7, <1>8 DEF ToSet
<1> QED
  BY <1>2, <1>3, <1>9, <1>10

(* Appending a node that is not on a list without duplicates.              *)
LEMMA AppendFacts ==
  ASSUME NEW S, NEW s \in Seq(S), NEW e \in S
  PROVE  /\ Append(s, e) \in Seq(S)
         /\ ToSet(Append(s, e)) = ToSet(s) \union {e}
         /\ Len(Append(s, e)) = Len(s) + 1
         /\ s # << >> => Head(Append(s, e)) = Head(s)
         /\ s = << >> => Head(Append(s, e)) = e
         /\ (IsInjective(s) /\ e \notin ToSet(s)) => IsInjective(Append(s, e))
<1> DEFINE w == Append(s, e)
<1>1. /\ w \in Seq(S) /\ Len(w) = Len(s) + 1 /\ Len(s) \in Nat
      /\ DOMAIN w = 1..(Len(s)+1) /\ DOMAIN s = 1..Len(s)
      /\ \A i \in 1..Len(s) : w[i] = s[i]
      /\ w[Len(s)+1] = e
  OBVIOUS
<1>2. (s # << >> => Head(w) = Head(s)) /\ (s = << >> => Head(w) = e)
  OBVIOUS
<1> HIDE DEF w
<1>3. ToSet(w) = ToSet(s) \union {e}
  <2>1. ASSUME NEW i \in DOMAIN w PROVE w[i] \in ToSet(s) \union {e}
    BY <1>1 DEF ToSet
  <2>2. ASSUME NEW x \in ToSet(s) PROVE x \in ToSet(w)
    <3>1. PICK i \in 1..Len(s) : s[i] = x
      BY <1>1 DEF ToSet
    <3>2. i \in DOMAIN w /\ w[i] = x
      BY <3>1, <1>1
    <3> QED
      BY <3>2 DEF ToSet
  <2>3. e \in ToSet(w)
    <3>1. Len(s)+1 \in DOMAIN w
      BY <1>1
    <3> QED
      BY <3>1, <1>1 DEF ToSet
  <2> QED
    BY <2>1, <2>2, <2>3 DEF ToSet
<1>4. ASSUME IsInjective(s), e \notin ToSet(s) PROVE IsInjective(w)
  <2>1. \A i \in 1..Len(s) : s[i] # e
    BY <1>1, <1>4 DEF ToSet
  <2> QED
    BY <1>1, <1>4, <2>1 DEF IsInjective
<1> QED
  BY <1>1, <1>2, <1>3, <1>4 DEF w

(* The list that list_init makes.                                          *)
LEMMA EmptyFacts ==
  /\ ToSet(<< >>) = {} /\ IsInjective(<< >>) /\ Len(<< >>) = 0
  /\ \A S : << >> \in Seq(S)
BY DEF ToSet, IsInjective

(* The head of a non-empty list is on it; a list is empty exactly when no  *)
(* node is on it.                                                          *)
LEMMA HeadFacts ==
  ASSUME NEW S, NEW s \in Seq(S)
  PROVE  /\ s # << >> => Head(s) \in ToSet(s) /\ Head(s) = s[1]
         /\ s = << >> <=> ToSet(s) = {}
         /\ s = << >> <=> Len(s) = 0
         /\ ToSet(s) \subseteq S
         /\ IsInjective(<< >>) /\ ToSet(<< >>) = {}
<1>1. s # << >> => 1 \in DOMAIN s /\ Head(s) = s[1]
  OBVIOUS
<1>2. s # << >> => Head(s) \in ToSet(s)
  BY <1>1 DEF ToSet
<1>3. ToSet(<< >>) = {} /\ IsInjective(<< >>)
  BY DEF ToSet, IsInjective
<1>4. ToSet(s) \subseteq S
  BY DEF ToSet
<1> QED
  BY <1>1, <1>2, <1>3, <1>4

(* The nodes of a list are those at its positions.                         *)
LEMMA ElementFacts ==
  ASSUME NEW S, NEW s \in Seq(S)
  PROVE  /\ \A i \in 1..Len(s) : s[i] \in ToSet(s) /\ s[i] \in S
         /\ \A e \in ToSet(s) : \E i \in 1..Len(s) : s[i] = e
         /\ DOMAIN s = 1..Len(s) /\ Len(s) \in Nat
BY DEF ToSet

(* Taking the head off a list without duplicates (list_remove_first).      *)
LEMMA TailFacts ==
  ASSUME NEW S, NEW s \in Seq(S), s # << >>, IsInjective(s)
  PROVE  /\ Tail(s) \in Seq(S)
         /\ IsInjective(Tail(s))
         /\ ToSet(Tail(s)) = ToSet(s) \ {Head(s)}
         /\ Len(Tail(s)) = Len(s) - 1
<1>1. PICK w : w = Tail(s)
  OBVIOUS
<1>2. /\ w \in Seq(S) /\ Len(w) = Len(s) - 1 /\ Len(s) \in Nat \ {0}
      /\ DOMAIN w = 1..(Len(s)-1) /\ DOMAIN s = 1..Len(s)
      /\ \A i \in 1..(Len(s)-1) : w[i] = s[i+1]
      /\ Head(s) = s[1]
  BY <1>1
<1>3. ASSUME NEW i \in DOMAIN w, NEW j \in DOMAIN w, w[i] = w[j] PROVE i = j
  <2>1. i+1 \in DOMAIN s /\ j+1 \in DOMAIN s /\ s[i+1] = s[j+1]
    BY <1>2, <1>3
  <2> QED
    BY <2>1, <1>2 DEF IsInjective
<1>4. ASSUME NEW i \in DOMAIN w PROVE w[i] \in ToSet(s) \ {Head(s)}
  <2>1. i+1 \in DOMAIN s /\ 1 \in DOMAIN s /\ i+1 # 1 /\ w[i] = s[i+1]
    BY <1>2
  <2>2. s[i+1] # s[1]
    BY <2>1 DEF IsInjective
  <2> QED
    BY <2>1, <2>2, <1>2 DEF ToSet
<1>5. ASSUME NEW x \in ToSet(s) \ {Head(s)} PROVE x \in ToSet(w)
  <2>1. PICK i \in 1..Len(s) : s[i] = x /\ i # 1
    BY <1>2 DEF ToSet
  <2>2. i-1 \in DOMAIN w /\ w[i-1] = x
    BY <2>1, <1>2
  <2> QED
    BY <2>2 DEF ToSet
<1>6. IsInjective(w)
  BY <1>3 DEF IsInjective
<1>7. ToSet(w) = ToSet(s) \ {Head(s)}
  BY <1>4, <1>5 DEF ToSet
<1> QED
  BY <1>1, <1>2, <1>6, <1>7
-----------------------------------------------------------------------------

States == {"CREATED", "READY", "RUNNING", "SLEEP"}

(* What the proof needs beside the invariants that the runs check: before  *)
(* the first task there is nothing to schedule, and a task that was given  *)
(* to task_init has a tick of its time slice left.  The first task is made *)
(* ready once.                                                             *)
Basics ==
    /\ RestartFirst = FALSE
    /\ idle_task \in Created
    /\ \A t \in Created : slice_ticks[t] >= 1
    /\ curr_task = NULL => /\ ready_list = << >>
                           /\ Created = {idle_task}
                           /\ ~in_service

(* The inductive invariant.                                                *)
IInv ==
    /\ TypeOK
    /\ Basics
    /\ RunNodeOnce
    /\ CurrIsHead
    /\ SleepFieldsAgree
    /\ CursorSleeps
    /\ HandlersPending

(* The initial state satisfies the inductive invariant.                    *)
LEMMA InitIInv ==
  ASSUME RestartFirst = FALSE
  PROVE  Init => IInv
<1> SUFFICES ASSUME Init PROVE IInv
  OBVIOUS
<1> USE TaskAssumption, NumAssumption
<1>1. Created = {idle_task}
  BY DEF Init, Created, ToSet
<1>2. ToSet(ready_list) = {} /\ ToSet(sleep_list) = {}
  BY DEF Init, ToSet
<1>3. TypeOK
  <2>1. /\ ready_list \in Seq(Task) /\ sleep_list \in Seq(Task)
        /\ task_list \in Seq(AllTask)
    BY DEF Init, AllTask
  <2>2. slice_ticks \in [AllTask -> 0..TASK_TIME_SLICE_DEFAULT]
    BY DEF Init
  <2>3. in_service \in BOOLEAN
    BY DEF Init
  <2> QED
    BY <2>1, <2>2, <2>3 DEF Init, TypeOK
<1>4. Basics
  BY <1>1 DEF Init, Basics, AllTask
<1>5. RunNodeOnce
  BY <1>2 DEF Init, RunNodeOnce, IsInjective
<1>6. CurrIsHead
  BY DEF Init, CurrIsHead
<1>7. SleepFieldsAgree
  BY <1>2 DEF Init, SleepFieldsAgree, AllTask
<1>8. HandlersPending
  BY DEF Init, HandlersPending
<1>9. CursorSleeps
  BY DEF Init, CursorSleeps
<1> QED
  BY <1>3, <1>4, <1>5, <1>6, <1>7, <1>8, <1>9 DEF IInv

(* A running task is the head of the ready list.                           *)
LEMMA RunningFacts ==
  ASSUME IInv, curr_task # NULL
  PROVE  /\ curr_task \in AllTask
         /\ curr_task # idle_task => /\ curr_task \in Task
                                     /\ curr_task \in ToSet(ready_list)
                                     /\ ready_list # << >>
                                     /\ curr_task = Head(ready_list)
         /\ curr_task \in Created
         /\ ToSet(ready_list) \subseteq Task
         /\ ToSet(sleep_list) \subseteq Task
<1> USE TaskAssumption DEF IInv, TypeOK
<1>1. curr_task \in AllTask
  OBVIOUS
<1>2. ToSet(ready_list) \subseteq Task /\ ToSet(sleep_list) \subseteq Task
  BY HeadFacts
<1>3. ASSUME curr_task # idle_task
      PROVE  /\ curr_task \in Task /\ curr_task \in ToSet(ready_list)
             /\ ready_list # << >> /\ curr_task = Head(ready_list)
  <2>1. ready_list # << >> /\ curr_task = Head(ready_list)
    BY <1>3 DEF CurrIsHead
  <2>2. Head(ready_list) \in ToSet(ready_list)
    BY <2>1, HeadFacts
  <2> QED
    BY <2>1, <2>2, <1>2
<1>4. curr_task \in Created
  BY <1>1, <1>3 DEF RunNodeOnce, Basics
<1> QED
  BY <1>1, <1>2, <1>3, <1>4

(* task_dispatch gives the processor to the head of the list, or to the    *)
(* idle task; the only state field it changes is set to RUNNING.           *)
LEMMA DispatchFacts ==
  ASSUME NEW list \in Seq(Task), NEW st \in [AllTask -> States],
         task_dispatch(list, st)
  PROVE  /\ ready_list' = list
         /\ curr_task' \in AllTask /\ curr_task' # NULL
         /\ CurrIsHead'
         /\ state' \in [AllTask -> States]
         /\ \A t \in Task : state'[t] = "SLEEP" => st[t] = "SLEEP"
         /\ \A t \in Task \ ToSet(list) : state'[t] = st[t]
<1> USE TaskAssumption DEF AllTask
<1>1. ready_list' = list /\ curr_task' = task_next_run(list)
  BY DEF task_dispatch
<1>2. list # << >> => Head(list) \in ToSet(list) /\ Head(list) \in Task
  BY HeadFacts
<1>3. curr_task' \in AllTask /\ curr_task' # NULL
  BY <1>1, <1>2 DEF task_next_run
<1>4. CurrIsHead'
  BY <1>1, <1>2 DEF CurrIsHead, task_next_run
<1>5. \/ state' = st
      \/ state' = [st EXCEPT ![curr_task'] = "RUNNING"]
  BY DEF task_dispatch
<1>6. state' \in [AllTask -> States]
  BY <1>3, <1>5 DEF States
<1>7. \A t \in Task : state'[t] = "SLEEP" => st[t] = "SLEEP"
  BY <1>3, <1>5
<1>8. \A t \in Task \ ToSet(list) : state'[t] = st[t]
  <2>1. curr_task' \in ToSet(list) \union {idle_task}
    BY <1>1, <1>2 DEF task_next_run
  <2> QED
    BY <2>1, <1>3, <1>5
<1> QED
  BY <1>1, <1>3, <1>4, <1>6, <1>7, <1>8

(* Moving the current task to the tail (task_set_block, task_set_ready)    *)
(* keeps the tasks of the ready list.                                      *)
LEMMA RequeueFacts ==
  ASSUME NEW list \in Seq(Task), IsInjective(list), NEW t,
         t = idle_task \/ t \in ToSet(list)
  PROVE  LET w == task_set_ready(task_set_block(list, t), t)
         IN  w \in Seq(Task) /\ IsInjective(w) /\ ToSet(w) = ToSet(list)
<1>1. CASE t = idle_task
  BY <1>1 DEF task_set_ready, task_set_block
<1>2. CASE t # idle_task
  <2>1. t \in ToSet(list) /\ t \in Task
    BY <1>2, HeadFacts
  <2>2. PICK b : b = RemoveFirst(list, t)
    OBVIOUS
  <2>3. b \in Seq(Task) /\ IsInjective(b) /\ ToSet(b) = ToSet(list) \ {t}
    BY <2>1, <2>2, RemoveFirstFacts
  <2>4. /\ Append(b, t) \in Seq(Task) /\ IsInjective(Append(b, t))
        /\ ToSet(Append(b, t)) = ToSet(b) \union {t}
    BY <2>1, <2>3, AppendFacts
  <2> QED
    BY <1>2, <2>1, <2>2, <2>3, <2>4 DEF task_set_ready, task_set_block
<1> QED
  BY <1>1, <1>2

(* A step that ends in task_dispatch preserves the invariant when the list *)
(* and the fields it dispatches with are consistent and no handler is left *)
(* between the acceptance of its interrupt and its end.                    *)
LEMMA DispatchStep ==
  ASSUME IInv, curr_task # NULL,
         NEW list \in Seq(Task), NEW st \in [AllTask -> States],
         task_dispatch(list, st),
         IsInjective(list),
         sleep_list' \in Seq(Task), IsInjective(sleep_list'),
         ToSet(list) \intersect ToSet(sleep_list') = {},
         ToSet(list) \union ToSet(sleep_list') \subseteq Created,
         task_list' = task_list,
         sleep_ticks' \in [AllTask -> Nat],
         \A t \in Task : /\ t \in ToSet(sleep_list') <=> st[t] = "SLEEP"
                         /\ t \in ToSet(sleep_list') <=> sleep_ticks'[t] > 0,
         slice_ticks' \in [AllTask -> 0..TASK_TIME_SLICE_DEFAULT],
         \A t \in Created : slice_ticks'[t] >= 1,
         pc' \in [AllTask -> {"run", "sleepers"}],
         \A t \in Task : pc'[t] = "sleepers" => t \in ToSet(list),
         cursor' = NULL,
         in_service' = FALSE
  PROVE  IInv'
<1>1. /\ ready_list' = list
      /\ curr_task' \in AllTask /\ curr_task' # NULL
      /\ CurrIsHead'
      /\ state' \in [AllTask -> States]
      /\ \A t \in Task : state'[t] = "SLEEP" => st[t] = "SLEEP"
      /\ \A t \in Task \ ToSet(list) : state'[t] = st[t]
  BY DispatchFacts
<1> USE TaskAssumption DEF AllTask
<1>2. TypeOK'
  <2>1. task_list' \in Seq(AllTask)
    BY DEF IInv, TypeOK
  <2>2. in_service' \in BOOLEAN
    OBVIOUS
  <2>3. pc' \in [AllTask -> {"run", "timer", "sleepers", "walk"}]
    OBVIOUS
  <2>4. state' \in [AllTask -> {"CREATED", "READY", "RUNNING", "SLEEP"}]
    BY <1>1 DEF States
  <2> QED
    BY <1>1, <2>1, <2>2, <2>3, <2>4 DEF TypeOK
<1>3. Created' = Created
  BY DEF Created
<1>4. Basics'
  BY <1>1, <1>3 DEF Basics, IInv
<1>5. RunNodeOnce'
  BY <1>1, <1>3 DEF RunNodeOnce
<1>6. SleepFieldsAgree'
  <2>1. \A t \in Task : t \in ToSet(sleep_list') => state'[t] = "SLEEP"
    BY <1>1
  <2>2. \A t \in Task : state'[t] = "SLEEP" => t \in ToSet(sleep_list')
    BY <1>1
  <2> QED
    BY <2>1, <2>2 DEF SleepFieldsAgree
<1>7. HandlersPending'
  BY <1>1 DEF HandlersPending
<1>8. CursorSleeps'
  BY DEF CursorSleeps
<1> QED
  BY <1>1, <1>2, <1>4, <1>5, <1>6, <1>7, <1>8 DEF IInv

(* While a task runs its own code no handler is under way.                 *)
LEMMA QuietFacts ==
  ASSUME IInv, curr_task # NULL, pc[curr_task] = "run"
  PROVE  /\ cursor = NULL
         /\ in_service = FALSE
         /\ pc \in [AllTask -> {"run", "sleepers"}]
         /\ \A t \in Task : pc[t] = "sleepers" => t \in ToSet(ready_list)
<1> USE TaskAssumption DEF IInv, TypeOK, AllTask
<1>1. cursor = NULL
  BY DEF CursorSleeps
<1>2. in_service = FALSE
  BY DEF HandlersPending
<1>3. \A t \in AllTask : pc[t] \in {"run", "sleepers"}
  BY DEF HandlersPending
<1>4. \A t \in Task : pc[t] = "sleepers" => t \in ToSet(ready_list)
  BY DEF HandlersPending
<1> QED
  BY <1>1, <1>2, <1>3, <1>4

LEMMA YieldIInv == IInv /\ sys_sched_yield => IInv'
<1> SUFFICES ASSUME IInv, sys_sched_yield PROVE IInv'
  OBVIOUS
<1> USE TaskAssumption
<1>1. curr_task \in Task /\ curr_task # NULL /\ curr_task # idle_task
      /\ pc[curr_task] = "run"
  BY DEF sys_sched_yield, Running
<1>2. curr_task \in ToSet(ready_list)
  BY <1>1, RunningFacts
<1>3. PICK w : w = task_set_ready(task_set_block(ready_list, curr_task), curr_task)
  OBVIOUS
<1>4. w \in Seq(Task) /\ IsInjective(w) /\ ToSet(w) = ToSet(ready_list)
  BY <1>2, <1>3, RequeueFacts DEF IInv, TypeOK, RunNodeOnce
<1>5. PICK st : st = set_state(state, curr_task, "READY")
  OBVIOUS
<1>6. /\ st \in [AllTask -> States]
      /\ \A t \in Task : st[t] = "SLEEP" <=> state[t] = "SLEEP"
  <2>1. state[curr_task] # "SLEEP"
    BY <1>1, <1>2 DEF IInv, RunNodeOnce, SleepFieldsAgree
  <2> QED
    BY <1>1, <1>5, <2>1 DEF set_state, IInv, TypeOK, States, AllTask
<1>7. task_dispatch(w, st)
  BY <1>3, <1>5 DEF sys_sched_yield
<1>8. UNCHANGED <<sleep_list, task_list, sleep_ticks, slice_ticks, pc, cursor,
                  in_service>>
  BY DEF sys_sched_yield
<1>9. /\ cursor = NULL /\ in_service = FALSE
      /\ pc \in [AllTask -> {"run", "sleepers"}]
      /\ \A t \in Task : pc[t] = "sleepers" => t \in ToSet(ready_list)
  BY <1>1, QuietFacts
<1>10. /\ sleep_list \in Seq(Task) /\ IsInjective(sleep_list)
       /\ ToSet(w) \intersect ToSet(sleep_list) = {}
       /\ ToSet(w) \union ToSet(sleep_list) \subseteq Created
       /\ sleep_ticks \in [AllTask -> Nat]
       /\ slice_ticks \in [AllTask -> 0..TASK_TIME_SLICE_DEFAULT]
       /\ \A t \in Created : slice_ticks[t] >= 1
  BY <1>4 DEF IInv, TypeOK, RunNodeOnce, Basics
<1>11. \A t \in Task : /\ t \in ToSet(sleep_list) <=> st[t] = "SLEEP"
                       /\ t \in ToSet(sleep_list) <=> sleep_ticks[t] > 0
  BY <1>6 DEF IInv, SleepFieldsAgree
<1> QED
  BY <1>1, <1>4, <1>6, <1>7, <1>8, <1>9, <1>10, <1>11, DispatchStep

LEMMA MsleepIInv == ASSUME NEW ms \in Ms PROVE IInv /\ sys_msleep(ms) => IInv'
<1> SUFFICES ASSUME IInv, sys_msleep(ms) PROVE IInv'
  OBVIOUS
<1> USE TaskAssumption
<1>1. curr_task \in Task /\ curr_task # NULL /\ curr_task # idle_task
      /\ pc[curr_task] = "run"
  BY DEF sys_msleep, Running
<1>2. curr_task \in ToSet(ready_list) /\ curr_task \notin ToSet(sleep_list)
      /\ curr_task \in Created
  BY <1>1, RunningFacts DEF IInv, RunNodeOnce
<1>3. PICK w : w = task_set_block(ready_list, curr_task)
  OBVIOUS
<1>4. w \in Seq(Task) /\ IsInjective(w) /\ ToSet(w) = ToSet(ready_list) \ {curr_task}
  BY <1>1, <1>2, <1>3, RemoveFirstFacts DEF IInv, TypeOK, RunNodeOnce, task_set_block
<1>5. UNCHANGED <<task_list, slice_ticks, pc, cursor, in_service>>
  BY DEF sys_msleep
<1>6. /\ cursor = NULL /\ in_service = FALSE
      /\ pc \in [AllTask -> {"run", "sleepers"}]
      /\ \A t \in Task : pc[t] = "sleepers" => t \in ToSet(w)
  BY <1>1, <1>4, QuietFacts
<1>7. /\ slice_ticks \in [AllTask -> 0..TASK_TIME_SLICE_DEFAULT]
      /\ \A t \in Created : slice_ticks[t] >= 1
  BY DEF IInv, TypeOK, Basics
<1>8. PICK n : n = msleep_ticks(ms)
  OBVIOUS
<1>9. n \in Nat
  BY <1>8, NumAssumption DEF msleep_ticks
<1>10. CASE n > 0
  <2>1. PICK st : st = [state EXCEPT ![curr_task] = "SLEEP"]
    OBVIOUS
  <2>2. /\ sleep_ticks' = [sleep_ticks EXCEPT ![curr_task] = n]
        /\ sleep_list' = Append(sleep_list, curr_task)
        /\ task_dispatch(w, st)
    BY <1>3, <1>8, <1>10, <2>1 DEF sys_msleep
  <2>3. /\ sleep_list' \in Seq(Task) /\ IsInjective(sleep_list')
        /\ ToSet(sleep_list') = ToSet(sleep_list) \union {curr_task}
    BY <1>1, <1>2, <2>2, AppendFacts DEF IInv, TypeOK, RunNodeOnce
  <2>4. st \in [AllTask -> States] /\ sleep_ticks' \in [AllTask -> Nat]
    BY <1>1, <1>9, <2>1, <2>2 DEF IInv, TypeOK, States, AllTask
  <2>5. \A t \in Task : /\ t \in ToSet(sleep_list') <=> st[t] = "SLEEP"
                        /\ t \in ToSet(sleep_list') <=> sleep_ticks'[t] > 0
    BY <1>1, <1>10, <2>1, <2>2, <2>3 DEF IInv, TypeOK, SleepFieldsAgree, AllTask
  <2>6. /\ ToSet(w) \intersect ToSet(sleep_list') = {}
        /\ ToSet(w) \union ToSet(sleep_list') \subseteq Created
    BY <1>2, <1>4, <2>3 DEF IInv, RunNodeOnce
  <2> QED
    BY <1>1, <1>4, <1>5, <1>6, <1>7, <2>2, <2>3, <2>4, <2>5, <2>6, DispatchStep
<1>11. CASE n = 0
  <2>1. UNCHANGED <<sleep_ticks, sleep_list>> /\ task_dispatch(w, state)
    BY <1>3, <1>8, <1>11 DEF sys_msleep
  <2>2. /\ sleep_list \in Seq(Task) /\ IsInjective(sleep_list)
        /\ ToSet(w) \intersect ToSet(sleep_list) = {}
        /\ ToSet(w) \union ToSet(sleep_list) \subseteq Created
        /\ sleep_ticks \in [AllTask -> Nat] /\ state \in [AllTask -> States]
    BY <1>4 DEF IInv, TypeOK, RunNodeOnce, States
  <2>3. \A t \in Task : /\ t \in ToSet(sleep_list) <=> state[t] = "SLEEP"
                        /\ t \in ToSet(sleep_list) <=> sleep_ticks[t] > 0
    BY DEF IInv, SleepFieldsAgree
  <2> QED
    BY <1>1, <1>4, <1>5, <1>6, <1>7, <2>1, <2>2, <2>3, DispatchStep
<1> QED
  BY <1>9, <1>10, <1>11

LEMMA BlockIInv == IInv /\ block_current => IInv'
<1> SUFFICES ASSUME IInv, block_current PROVE IInv'
  OBVIOUS
<1> USE TaskAssumption
<1>1. curr_task \in Task /\ curr_task # NULL /\ curr_task # idle_task
      /\ pc[curr_task] = "run"
  BY DEF block_current, Running
<1>2. curr_task \in ToSet(ready_list)
  BY <1>1, RunningFacts
<1>3. PICK w : w = task_set_block(ready_list, curr_task)
  OBVIOUS
<1>4. w \in Seq(Task) /\ IsInjective(w) /\ ToSet(w) = ToSet(ready_list) \ {curr_task}
  BY <1>1, <1>2, <1>3, RemoveFirstFacts DEF IInv, TypeOK, RunNodeOnce, task_set_block
<1>5. /\ task_dispatch(w, state)
      /\ UNCHANGED <<sleep_list, task_list, sleep_ticks, slice_ticks, pc, cursor,
                     in_service>>
  BY <1>3 DEF block_current
<1>6. /\ cursor = NULL /\ in_service = FALSE
      /\ pc \in [AllTask -> {"run", "sleepers"}]
      /\ \A t \in Task : pc[t] = "sleepers" => t \in ToSet(w)
  BY <1>1, <1>4, QuietFacts
<1>7. /\ sleep_list \in Seq(Task) /\ IsInjective(sleep_list)
      /\ ToSet(w) \intersect ToSet(sleep_list) = {}
      /\ ToSet(w) \union ToSet(sleep_list) \subseteq Created
      /\ sleep_ticks \in [AllTask -> Nat] /\ state \in [AllTask -> States]
      /\ slice_ticks \in [AllTask -> 0..TASK_TIME_SLICE_DEFAULT]
      /\ \A t \in Created : slice_ticks[t] >= 1
  BY <1>4 DEF IInv, TypeOK, RunNodeOnce, States, Basics
<1>8. \A t \in Task : /\ t \in ToSet(sleep_list) <=> state[t] = "SLEEP"
                      /\ t \in ToSet(sleep_list) <=> sleep_ticks[t] > 0
  BY DEF IInv, SleepFieldsAgree
<1> QED
  BY <1>1, <1>4, <1>5, <1>6, <1>7, <1>8, DispatchStep

LEMMA WakeIInv == ASSUME NEW t \in Task PROVE IInv /\ wake(t) => IInv'
<1> SUFFICES ASSUME IInv, wake(t) PROVE IInv'
  OBVIOUS
<1> USE TaskAssumption
<1>1. curr_task \in Task /\ curr_task # NULL /\ pc[curr_task] = "run"
  BY DEF wake, make_ready, Running
<1>2. t # idle_task /\ t \in Created
      /\ t \notin ToSet(ready_list) /\ t \notin ToSet(sleep_list)
  BY DEF wake, Blocked
<1>3. PICK w : w = Append(ready_list, t)
  OBVIOUS
<1>4. w \in Seq(Task) /\ IsInjective(w) /\ ToSet(w) = ToSet(ready_list) \union {t}
  BY <1>2, <1>3, AppendFacts DEF IInv, TypeOK, RunNodeOnce
<1>5. PICK st : st = [state EXCEPT ![t] = "READY"]
  OBVIOUS
<1>6. /\ task_dispatch(w, st)
      /\ UNCHANGED <<sleep_list, task_list, sleep_ticks, slice_ticks, pc, cursor,
                     in_service>>
  BY <1>2, <1>3, <1>5 DEF wake, make_ready, task_set_ready, set_state
<1>7. /\ cursor = NULL /\ in_service = FALSE
      /\ pc \in [AllTask -> {"run", "sleepers"}]
      /\ \A u \in Task : pc[u] = "sleepers" => u \in ToSet(w)
  BY <1>1, <1>4, QuietFacts
<1>8. /\ sleep_list \in Seq(Task) /\ IsInjective(sleep_list)
      /\ ToSet(w) \intersect ToSet(sleep_list) = {}
      /\ ToSet(w) \union ToSet(sleep_list) \subseteq Created
      /\ sleep_ticks \in [AllTask -> Nat]
      /\ slice_ticks \in [AllTask -> 0..TASK_TIME_SLICE_DEFAULT]
      /\ \A u \in Created : slice_ticks[u] >= 1
  BY <1>2, <1>4 DEF IInv, TypeOK, RunNodeOnce, Basics
<1>9. st \in [AllTask -> States]
  BY <1>5 DEF IInv, TypeOK, States
<1>10. \A u \in Task : /\ u \in ToSet(sleep_list) <=> st[u] = "SLEEP"
                       /\ u \in ToSet(sleep_list) <=> sleep_ticks[u] > 0
  BY <1>2, <1>5 DEF IInv, TypeOK, SleepFieldsAgree, AllTask
<1> QED
  BY <1>1, <1>4, <1>6, <1>7, <1>8, <1>9, <1>10, DispatchStep

(* What task_init does to the invariant's parts, whoever calls it.         *)
LEMMA TaskInitFacts ==
  ASSUME IInv, NEW t \in Task, t \notin Created, task_init(t, FALSE),
         UNCHANGED <<sleep_list, pc, cursor, in_service>>
  PROVE  /\ ready_list' = Append(ready_list, t)
         /\ ready_list' \in Seq(Task)
         /\ ToSet(ready_list') = ToSet(ready_list) \union {t}
         /\ Created' = Created \union {t}
         /\ task_list' \in Seq(AllTask)
         /\ state' \in [AllTask -> States]
         /\ sleep_ticks' \in [AllTask -> Nat]
         /\ slice_ticks' \in [AllTask -> 0..TASK_TIME_SLICE_DEFAULT]
         /\ \A u \in Created' : slice_ticks'[u] >= 1
         /\ RunNodeOnce'
         /\ SleepFieldsAgree'
<1> USE TaskAssumption, NumAssumption DEF AllTask
<1>1. t \notin ToSet(ready_list) /\ t \notin ToSet(sleep_list) /\ t # idle_task
  BY DEF IInv, RunNodeOnce
<1>2. /\ ready_list' = Append(ready_list, t)
      /\ task_list' = Append(task_list, t)
      /\ state' = [state EXCEPT ![t] = "READY"]
      /\ sleep_ticks' = [sleep_ticks EXCEPT ![t] = 0]
      /\ slice_ticks' = [slice_ticks EXCEPT ![t] = TASK_TIME_SLICE_DEFAULT]
  BY <1>1 DEF task_init, task_set_ready
<1>3. /\ ready_list' \in Seq(Task) /\ IsInjective(ready_list')
      /\ ToSet(ready_list') = ToSet(ready_list) \union {t}
  BY <1>1, <1>2, AppendFacts DEF IInv, TypeOK, RunNodeOnce
<1>4. task_list' \in Seq(AllTask) /\ Created' = Created \union {t}
  BY <1>2, AppendFacts DEF IInv, TypeOK, Created
<1>5. state' \in [AllTask -> States] /\ sleep_ticks' \in [AllTask -> Nat]
      /\ slice_ticks' \in [AllTask -> 0..TASK_TIME_SLICE_DEFAULT]
  BY <1>2 DEF IInv, TypeOK, States
<1>6. \A u \in Created' : slice_ticks'[u] >= 1
  <2>1. Created \subseteq AllTask
    BY HeadFacts DEF IInv, TypeOK, Created
  <2> QED
    BY <1>2, <1>4, <2>1 DEF IInv, TypeOK, Basics
<1>7. RunNodeOnce'
  BY <1>1, <1>3, <1>4 DEF IInv, RunNodeOnce
<1>8. SleepFieldsAgree'
  BY <1>1, <1>2 DEF IInv, TypeOK, SleepFieldsAgree
<1> QED
  BY <1>2, <1>3, <1>4, <1>5, <1>6, <1>7, <1>8

LEMMA FirstInitIInv == IInv /\ task_first_init => IInv'
<1> SUFFICES ASSUME IInv, task_first_init PROVE IInv'
  OBVIOUS
<1> USE TaskAssumption
<1>1. /\ curr_task = NULL /\ task_init(first_task, FALSE) /\ curr_task' = first_task
      /\ UNCHANGED <<sleep_list, pc, cursor, in_service>>
  BY DEF task_first_init, IInv, Basics
<1>2. first_task \notin Created /\ ready_list = << >> /\ ~in_service
  BY <1>1 DEF IInv, Basics
<1>3. /\ ready_list' = Append(ready_list, first_task)
      /\ ready_list' \in Seq(Task)
      /\ ToSet(ready_list') = ToSet(ready_list) \union {first_task}
      /\ Created' = Created \union {first_task}
      /\ task_list' \in Seq(AllTask)
      /\ state' \in [AllTask -> States]
      /\ sleep_ticks' \in [AllTask -> Nat]
      /\ slice_ticks' \in [AllTask -> 0..TASK_TIME_SLICE_DEFAULT]
      /\ \A u \in Created' : slice_ticks'[u] >= 1
      /\ RunNodeOnce'
      /\ SleepFieldsAgree'
  BY <1>1, <1>2, TaskInitFacts
<1>4. TypeOK'
  BY <1>1, <1>3 DEF IInv, TypeOK, States, AllTask
<1>5. Basics'
  BY <1>1, <1>3 DEF IInv, Basics
<1>6. CurrIsHead'
  BY <1>1, <1>2, <1>3 DEF CurrIsHead
<1>8. CursorSleeps'
  BY <1>1 DEF IInv, CursorSleeps
<1>9. HandlersPending'
  BY <1>1, <1>2, <1>3 DEF IInv, HandlersPending, AllTask
<1> QED
  BY <1>3, <1>4, <1>5, <1>6, <1>8, <1>9 DEF IInv

LEMMA CreateIInv == ASSUME NEW t \in Task PROVE IInv /\ create(t) => IInv'
<1> SUFFICES ASSUME IInv, create(t) PROVE IInv'
  OBVIOUS
<1> USE TaskAssumption
<1>1. /\ curr_task \in Task /\ pc[curr_task] = "run" /\ curr_task # NULL
      /\ t \notin Created /\ task_init(t, FALSE)
      /\ UNCHANGED <<curr_task, sleep_list, pc, cursor, in_service>>
  BY DEF create, Running
<1>2. /\ ready_list' = Append(ready_list, t)
      /\ ready_list' \in Seq(Task)
      /\ ToSet(ready_list') = ToSet(ready_list) \union {t}
      /\ Created' = Created \union {t}
      /\ task_list' \in Seq(AllTask)
      /\ state' \in [AllTask -> States]
      /\ sleep_ticks' \in [AllTask -> Nat]
      /\ slice_ticks' \in [AllTask -> 0..TASK_TIME_SLICE_DEFAULT]
      /\ \A u \in Created' : slice_ticks'[u] >= 1
      /\ RunNodeOnce'
      /\ SleepFieldsAgree'
  BY <1>1, TaskInitFacts
<1>3. TypeOK'
  BY <1>1, <1>2 DEF IInv, TypeOK, States, AllTask
<1>4. Basics'
  BY <1>1, <1>2 DEF IInv, Basics
<1>5. CurrIsHead'
  <2>1. curr_task # idle_task /\ ready_list # << >> /\ curr_task = Head(ready_list)
    BY <1>1, RunningFacts
  <2>2. ready_list' # << >>
    BY <1>2, HeadFacts
  <2>3. Head(ready_list') = Head(ready_list)
    BY <1>2, <2>1, AppendFacts DEF IInv, TypeOK
  <2> QED
    BY <1>1, <2>1, <2>2, <2>3 DEF CurrIsHead
<1>6. CursorSleeps'
  BY <1>1, QuietFacts DEF CursorSleeps
<1>7. HandlersPending'
  BY <1>1, <1>2 DEF IInv, HandlersPending
<1> QED
  BY <1>2, <1>3, <1>4, <1>5, <1>6, <1>7 DEF IInv

LEMMA InterruptIInv == IInv /\ timer_interrupt => IInv'
<1> SUFFICES ASSUME IInv, timer_interrupt PROVE IInv'
  OBVIOUS
<1> USE TaskAssumption
<1>1. /\ curr_task # NULL /\ pc[curr_task] = "run"
      /\ in_service' = TRUE /\ pc' = [pc EXCEPT ![curr_task] = "timer"]
      /\ UNCHANGED <<curr_task, ready_list, sleep_list, task_list, state,
                     sleep_ticks, slice_ticks, cursor>>
  BY DEF timer_interrupt
<1>2. curr_task \in AllTask
  BY <1>1, RunningFacts
<1>3. /\ cursor = NULL /\ pc \in [AllTask -> {"run", "sleepers"}]
      /\ \A t \in Task : pc[t] = "sleepers" => t \in ToSet(ready_list)
  BY <1>1, QuietFacts
<1>4. TypeOK'
  <2>1. pc' \in [AllTask -> {"run", "timer", "sleepers", "walk"}]
    BY <1>1, <1>2, <1>3
  <2>2. in_service' \in BOOLEAN
    BY <1>1
  <2> QED
    BY <1>1, <2>1, <2>2 DEF IInv, TypeOK
<1>5. Created' = Created
  BY <1>1 DEF Created
<1>6. Basics'
  BY <1>1, <1>5 DEF IInv, Basics
<1>7. RunNodeOnce'
  BY <1>1, <1>5 DEF IInv, RunNodeOnce
<1>8. CurrIsHead'
  BY <1>1, <1>2 DEF IInv, CurrIsHead
<1>9. SleepFieldsAgree' /\ CursorSleeps'
  BY <1>1, <1>3 DEF IInv, SleepFieldsAgree, CursorSleeps
<1>10. HandlersPending'
  BY <1>1, <1>2, <1>3 DEF HandlersPending, AllTask
<1> QED
  BY <1>4, <1>6, <1>7, <1>8, <1>9, <1>10 DEF IInv

(* Inside a handler the pending walks are those of ready tasks.            *)
LEMMA HandlerFacts ==
  ASSUME IInv, curr_task # NULL
  PROVE  /\ \A t \in AllTask : t # curr_task => pc[t] \in {"run", "sleepers"}
         /\ \A t \in Task : pc[t] = "sleepers" => t \in ToSet(ready_list)
         /\ pc[curr_task] # "timer" => in_service = FALSE
         /\ pc[curr_task] # "walk" => cursor = NULL
<1> USE TaskAssumption DEF IInv, TypeOK, AllTask
<1>1. \A t \in AllTask : t # curr_task => pc[t] \in {"run", "sleepers"}
  BY DEF HandlersPending
<1>2. \A t \in Task : pc[t] = "sleepers" => t \in ToSet(ready_list)
  BY DEF HandlersPending
<1>3. pc[curr_task] # "timer" => in_service = FALSE
  BY DEF HandlersPending
<1>4. pc[curr_task] # "walk" => cursor = NULL
  BY DEF CursorSleeps
<1> QED
  BY <1>1, <1>2, <1>3, <1>4

LEMMA HandlerTimerIInv == IInv /\ do_handler_timer => IInv'
<1> SUFFICES ASSUME IInv, do_handler_timer PROVE IInv'
  OBVIOUS
<1> USE TaskAssumption, NumAssumption
<1>1. /\ curr_task # NULL /\ pc[curr_task] = "timer"
      /\ in_service' = FALSE /\ pc' = [pc EXCEPT ![curr_task] = "sleepers"]
      /\ UNCHANGED <<sleep_list, task_list, sleep_ticks, cursor>>
  BY DEF do_handler_timer, pic_send_eoi
<1>2. /\ curr_task \in AllTask /\ curr_task \in Created
      /\ curr_task # idle_task => curr_task \in ToSet(ready_list)
  BY <1>1, RunningFacts
<1>3. /\ \A t \in AllTask : t # curr_task => pc[t] \in {"run", "sleepers"}
      /\ \A t \in Task : pc[t] = "sleepers" => t \in ToSet(ready_list)
      /\ cursor = NULL
  BY <1>1, HandlerFacts
<1>4. /\ pc' \in [AllTask -> {"run", "sleepers"}]
      /\ \A t \in Task : pc'[t] = "sleepers" => t \in ToSet(ready_list)
  BY <1>1, <1>2, <1>3 DEF IInv, TypeOK, AllTask
<1>5. Created \subseteq AllTask /\ Created' = Created
  BY <1>1, HeadFacts DEF IInv, TypeOK, Created
<1>6. slice_ticks[curr_task] \in 1..TASK_TIME_SLICE_DEFAULT
  BY <1>2 DEF IInv, TypeOK, Basics
<1>7. CASE slice_ticks[curr_task] - 1 # 0
  <2>1. /\ slice_ticks' = [slice_ticks EXCEPT ![curr_task] = @ - 1]
        /\ UNCHANGED <<curr_task, ready_list, state>>
    BY <1>7 DEF do_handler_timer
  <2>2. /\ slice_ticks' \in [AllTask -> 0..TASK_TIME_SLICE_DEFAULT]
        /\ \A t \in Created : slice_ticks'[t] >= 1
    BY <1>2, <1>5, <1>6, <1>7, <2>1 DEF IInv, TypeOK, Basics
  <2>3. TypeOK'
    <3>1. in_service' \in BOOLEAN
      BY <1>1
    <3>2. pc' \in [AllTask -> {"run", "timer", "sleepers", "walk"}]
      BY <1>4
    <3> QED
      BY <1>1, <2>1, <2>2, <3>1, <3>2 DEF IInv, TypeOK
  <2>4. Basics'
    BY <1>1, <1>5, <2>1, <2>2 DEF IInv, Basics
  <2>5. RunNodeOnce'
    BY <1>1, <1>5, <2>1 DEF IInv, RunNodeOnce
  <2>6. CurrIsHead'
    BY <1>1, <2>1 DEF IInv, CurrIsHead
  <2>7. SleepFieldsAgree' /\ CursorSleeps'
    BY <1>1, <1>3, <2>1 DEF IInv, SleepFieldsAgree, CursorSleeps
  <2>8. HandlersPending'
    BY <1>1, <1>4, <2>1 DEF HandlersPending, AllTask
  <2> QED
    BY <2>3, <2>4, <2>5, <2>6, <2>7, <2>8 DEF IInv
<1>8. CASE slice_ticks[curr_task] - 1 = 0
  <2>1. PICK w : w = task_set_ready(task_set_block(ready_list, curr_task), curr_task)
    OBVIOUS
  <2>2. PICK st : st = set_state(state, curr_task, "READY")
    OBVIOUS
  <2>3. /\ slice_ticks' = [slice_ticks EXCEPT ![curr_task] = TASK_TIME_SLICE_DEFAULT]
        /\ task_dispatch(w, st)
    BY <1>8, <2>1, <2>2 DEF do_handler_timer
  <2>4. w \in Seq(Task) /\ IsInjective(w) /\ ToSet(w) = ToSet(ready_list)
    BY <1>2, <2>1, RequeueFacts DEF IInv, TypeOK, RunNodeOnce
  <2>5. /\ slice_ticks' \in [AllTask -> 0..TASK_TIME_SLICE_DEFAULT]
        /\ \A t \in Created : slice_ticks'[t] >= 1
    BY <1>2, <1>5, <2>3 DEF IInv, TypeOK, Basics
  <2>6. /\ st \in [AllTask -> States]
        /\ \A t \in Task : st[t] = "SLEEP" <=> state[t] = "SLEEP"
    <3>1. curr_task \in Task => state[curr_task] # "SLEEP"
      BY <1>2 DEF IInv, RunNodeOnce, SleepFieldsAgree
    <3> QED
      BY <1>2, <2>2, <3>1 DEF set_state, IInv, TypeOK, States, AllTask
  <2>7. /\ sleep_list \in Seq(Task) /\ IsInjective(sleep_list)
        /\ ToSet(w) \intersect ToSet(sleep_list) = {}
        /\ ToSet(w) \union ToSet(sleep_list) \subseteq Created
        /\ sleep_ticks \in [AllTask -> Nat]
    BY <2>4 DEF IInv, TypeOK, RunNodeOnce
  <2>8. \A t \in Task : /\ t \in ToSet(sleep_list) <=> st[t] = "SLEEP"
                        /\ t \in ToSet(sleep_list) <=> sleep_ticks[t] > 0
    BY <2>6 DEF IInv, SleepFieldsAgree
  <2> QED
    BY <1>1, <1>3, <1>4, <2>3, <2>4, <2>5, <2>6, <2>7, <2>8, DispatchStep
<1> QED
  BY <1>7, <1>8

LEMMA WalkBeginIInv == IInv /\ walk_begin => IInv'
<1> SUFFICES ASSUME IInv, walk_begin PROVE IInv'
  OBVIOUS
<1> USE TaskAssumption
<1>1. /\ curr_task # NULL /\ pc[curr_task] = "sleepers"
      /\ cursor' = IF sleep_list = << >> THEN NULL ELSE Head(sleep_list)
      /\ pc' = [pc EXCEPT ![curr_task] = "walk"]
      /\ UNCHANGED <<curr_task, ready_list, sleep_list, task_list, state,
                     sleep_ticks, slice_ticks, in_service>>
  BY DEF walk_begin
<1>2. curr_task \in AllTask /\ ToSet(sleep_list) \subseteq Task
  BY <1>1, RunningFacts
<1>3. /\ \A t \in AllTask : t # curr_task => pc[t] \in {"run", "sleepers"}
      /\ \A t \in Task : pc[t] = "sleepers" => t \in ToSet(ready_list)
      /\ in_service = FALSE
  BY <1>1, HandlerFacts
<1>4. cursor' # NULL => cursor' \in ToSet(sleep_list)
  BY <1>1, HeadFacts DEF IInv, TypeOK
<1>5. TypeOK'
  <2>1. cursor' \in Task \union {NULL}
    BY <1>2, <1>4
  <2>2. pc' \in [AllTask -> {"run", "timer", "sleepers", "walk"}]
    BY <1>1, <1>2 DEF IInv, TypeOK
  <2> QED
    BY <1>1, <2>1, <2>2 DEF IInv, TypeOK
<1>6. Created' = Created
  BY <1>1 DEF Created
<1>7. Basics'
  BY <1>1, <1>6 DEF IInv, Basics
<1>8. RunNodeOnce'
  BY <1>1, <1>6 DEF IInv, RunNodeOnce
<1>9. CurrIsHead'
  BY <1>1, <1>2 DEF IInv, TypeOK, CurrIsHead
<1>10. SleepFieldsAgree'
  BY <1>1 DEF IInv, SleepFieldsAgree
<1>11. CursorSleeps'
  BY <1>1, <1>2, <1>4 DEF IInv, TypeOK, CursorSleeps
<1>12. HandlersPending'
  BY <1>1, <1>2, <1>3 DEF IInv, TypeOK, HandlersPending, AllTask
<1> QED
  BY <1>5, <1>7, <1>8, <1>9, <1>10, <1>11, <1>12 DEF IInv

(* The successor of a node on a list without duplicates is another node of *)
(* the list.                                                               *)
LEMMA NodeNextFacts ==
  ASSUME NEW list \in Seq(Task), IsInjective(list), NEW t \in ToSet(list)
  PROVE  LET next == list_node_next(list, t)
         IN  next # NULL => next \in ToSet(list) \ {t}
<1> DEFINE later == {i \in 2..Len(list) : list[i-1] = t}
<1> SUFFICES ASSUME later # {} PROVE list[Min(later)] \in ToSet(list) \ {t}
  BY DEF list_node_next
<1>1. PICK k \in 2..Len(list) : list[k-1] = t
  OBVIOUS
<1>2. \A i \in 2..Len(list) : list[i-1] = t => i = k
  <2> SUFFICES ASSUME NEW i \in 2..Len(list), list[i-1] = t PROVE i = k
    OBVIOUS
  <2>1. i-1 \in DOMAIN list /\ k-1 \in DOMAIN list /\ list[i-1] = list[k-1]
    BY <1>1
  <2>2. i-1 = k-1
    BY <2>1 DEF IsInjective
  <2> QED
    BY <2>2
<1>3. later = {k}
  BY <1>1, <1>2
<1>4. Min({k}) = k
  BY DEF Min
<1>5. k \in DOMAIN list /\ k-1 \in DOMAIN list /\ k # k-1
  BY <1>1
<1>6. list[k] # t
  BY <1>1, <1>5 DEF IsInjective
<1> HIDE DEF later
<1> QED
  BY <1>3, <1>4, <1>5, <1>6 DEF ToSet

LEMMA WalkStepIInv == IInv /\ walk_step => IInv'
<1> SUFFICES ASSUME IInv, walk_step PROVE IInv'
  OBVIOUS
<1> USE TaskAssumption
<1>1. /\ curr_task # NULL /\ pc[curr_task] = "walk" /\ cursor # NULL
      /\ cursor' = list_node_next(sleep_list, cursor)
      /\ sleep_ticks' = [sleep_ticks EXCEPT ![cursor] = @ - 1]
      /\ UNCHANGED <<curr_task, task_list, slice_ticks, pc, in_service>>
  BY DEF walk_step
<1>2. /\ cursor \in ToSet(sleep_list) /\ cursor \in Task /\ cursor # idle_task
      /\ cursor \notin ToSet(ready_list)
      /\ sleep_ticks[cursor] \in Nat /\ sleep_ticks[cursor] > 0
  BY <1>1 DEF IInv, TypeOK, CursorSleeps, SleepFieldsAgree, RunNodeOnce, AllTask
<1>3. cursor' # NULL => cursor' \in ToSet(sleep_list) \ {cursor}
  BY <1>1, <1>2, NodeNextFacts DEF IInv, TypeOK, RunNodeOnce
<1>4. ToSet(sleep_list) \subseteq Task
  BY HeadFacts DEF IInv, TypeOK
<1>5. cursor' \in Task \union {NULL}
  BY <1>3, <1>4
<1>6. sleep_ticks' \in [AllTask -> Nat]
  <2>1. sleep_ticks[cursor] - 1 \in Nat
    BY <1>2
  <2>2. sleep_ticks \in [AllTask -> Nat]
    BY DEF IInv, TypeOK
  <2> QED
    BY <1>1, <2>1, <2>2
<1>7. Created' = Created
  BY <1>1 DEF Created
<1>8. Basics'
  BY <1>1, <1>7 DEF IInv, Basics
<1>9. CASE sleep_ticks[cursor] - 1 = 0
  <2>1. /\ sleep_list' = RemoveFirst(sleep_list, cursor)
        /\ ready_list' = Append(ready_list, cursor)
        /\ state' = [state EXCEPT ![cursor] = "READY"]
    BY <1>2, <1>9 DEF walk_step, task_set_ready, set_state
  <2>2. /\ sleep_list' \in Seq(Task) /\ IsInjective(sleep_list')
        /\ ToSet(sleep_list') = ToSet(sleep_list) \ {cursor}
    BY <1>2, <2>1, RemoveFirstFacts DEF IInv, TypeOK, RunNodeOnce
  <2>3. /\ ready_list' \in Seq(Task) /\ IsInjective(ready_list')
        /\ ToSet(ready_list') = ToSet(ready_list) \union {cursor}
        /\ ready_list # << >> => Head(ready_list') = Head(ready_list)
    BY <1>2, <2>1, AppendFacts DEF IInv, TypeOK, RunNodeOnce
  <2>4. state' \in [AllTask -> {"CREATED", "READY", "RUNNING", "SLEEP"}]
    BY <1>2, <2>1 DEF IInv, TypeOK
  <2>5. TypeOK'
    BY <1>1, <1>5, <1>6, <2>2, <2>3, <2>4 DEF IInv, TypeOK
  <2>6. RunNodeOnce'
    BY <1>2, <1>7, <2>2, <2>3 DEF IInv, RunNodeOnce
  <2>7. CurrIsHead'
    <3>1. ready_list' # << >>
      BY <2>3, HeadFacts
    <3> QED
      BY <1>1, <2>3, <3>1 DEF IInv, CurrIsHead
  <2>8. SleepFieldsAgree'
    BY <1>1, <1>2, <1>9, <2>1, <2>2 DEF IInv, TypeOK, SleepFieldsAgree, AllTask
  <2>9. CursorSleeps'
    BY <1>1, <1>3, <2>2 DEF CursorSleeps
  <2>10. HandlersPending'
    BY <1>1, <2>3 DEF IInv, HandlersPending
  <2> QED
    BY <1>8, <2>5, <2>6, <2>7, <2>8, <2>9, <2>10 DEF IInv
<1>10. CASE sleep_ticks[cursor] - 1 # 0
  <2>1. UNCHANGED <<sleep_list, ready_list, state>>
    BY <1>10 DEF walk_step
  <2>2. TypeOK'
    BY <1>1, <1>5, <1>6, <2>1 DEF IInv, TypeOK
  <2>3. RunNodeOnce'
    BY <1>7, <2>1 DEF IInv, RunNodeOnce
  <2>4. CurrIsHead'
    BY <1>1, <2>1 DEF IInv, CurrIsHead
  <2>5. SleepFieldsAgree'
    BY <1>1, <1>2, <1>10, <2>1 DEF IInv, TypeOK, SleepFieldsAgree, AllTask
  <2>6. CursorSleeps'
    BY <1>1, <1>3, <2>1 DEF CursorSleeps
  <2>7. HandlersPending'
    BY <1>1, <2>1 DEF IInv, HandlersPending
  <2> QED
    BY <1>8, <2>2, <2>3, <2>4, <2>5, <2>6, <2>7 DEF IInv
<1> QED
  BY <1>9, <1>10

LEMMA WalkEndIInv == IInv /\ walk_end => IInv'
<1> SUFFICES ASSUME IInv, walk_end PROVE IInv'
  OBVIOUS
<1> USE TaskAssumption
<1>1. /\ curr_task # NULL /\ pc[curr_task] = "walk" /\ cursor = NULL
      /\ pc' = [pc EXCEPT ![curr_task] = "run"]
      /\ task_dispatch(ready_list, state)
      /\ UNCHANGED <<sleep_list, task_list, sleep_ticks, slice_ticks, cursor,
                     in_service>>
  BY DEF walk_end
<1>2. curr_task \in AllTask
  BY <1>1, RunningFacts
<1>3. /\ \A t \in AllTask : t # curr_task => pc[t] \in {"run", "sleepers"}
      /\ \A t \in Task : pc[t] = "sleepers" => t \in ToSet(ready_list)
      /\ in_service = FALSE
  BY <1>1, HandlerFacts
<1>4. /\ pc' \in [AllTask -> {"run", "sleepers"}]
      /\ \A t \in Task : pc'[t] = "sleepers" => t \in ToSet(ready_list)
  BY <1>1, <1>2, <1>3 DEF IInv, TypeOK, AllTask
<1>5. /\ ready_list \in Seq(Task) /\ IsInjective(ready_list)
      /\ sleep_list \in Seq(Task) /\ IsInjective(sleep_list)
      /\ ToSet(ready_list) \intersect ToSet(sleep_list) = {}
      /\ ToSet(ready_list) \union ToSet(sleep_list) \subseteq Created
      /\ sleep_ticks \in [AllTask -> Nat] /\ state \in [AllTask -> States]
      /\ slice_ticks \in [AllTask -> 0..TASK_TIME_SLICE_DEFAULT]
      /\ \A t \in Created : slice_ticks[t] >= 1
  BY DEF IInv, TypeOK, RunNodeOnce, States, Basics
<1>6. \A t \in Task : /\ t \in ToSet(sleep_list) <=> state[t] = "SLEEP"
                      /\ t \in ToSet(sleep_list) <=> sleep_ticks[t] > 0
  BY DEF IInv, SleepFieldsAgree
<1> QED
  BY <1>1, <1>3, <1>4, <1>5, <1>6, DispatchStep

(* Every step preserves the inductive invariant.                           *)
LEMMA NextIInv == IInv /\ [Next]_vars => IInv'
<1> SUFFICES ASSUME IInv, [Next]_vars PROVE IInv'
  OBVIOUS
<1>1. CASE task_first_init
  BY <1>1, FirstInitIInv
<1>2. ASSUME NEW t \in Task, create(t) PROVE IInv'
  BY <1>2, CreateIInv
<1>3. ASSUME NEW t \in Task, wake(t) PROVE IInv'
  BY <1>3, WakeIInv
<1>4. CASE sys_sched_yield
  BY <1>4, YieldIInv
<1>5. ASSUME NEW ms \in Ms, sys_msleep(ms) PROVE IInv'
  BY <1>5, MsleepIInv
<1>6. CASE block_current
  BY <1>6, BlockIInv
<1>7. CASE timer_interrupt
  BY <1>7, InterruptIInv
<1>8. CASE Handler
  BY <1>8, HandlerTimerIInv, WalkBeginIInv, WalkStepIInv, WalkEndIInv DEF Handler
<1>9. CASE UNCHANGED vars
  BY <1>9 DEF vars, IInv, TypeOK, Basics, RunNodeOnce, CurrIsHead,
              SleepFieldsAgree, CursorSleeps, HandlersPending, Created
<1> QED
  BY <1>1, <1>2, <1>3, <1>4, <1>5, <1>6, <1>7, <1>8, <1>9 DEF Next

(* The task manager's variables always have their types: in particular     *)
(* sleep_ticks and slice_ticks never become negative.                      *)
THEOREM TypeCorrect ==
  ASSUME RestartFirst = FALSE
  PROVE  Spec => []TypeOK
<1>1. Init => IInv
  BY InitIInv
<1>2. IInv /\ [Next]_vars => IInv'
  BY NextIInv
<1>3. IInv => TypeOK
  BY DEF IInv
<1> QED
  BY <1>1, <1>2, <1>3, PTL DEF Spec

(* Without line 148 of task.c, which inserts the first task a second time, *)
(* a task's run_node is never on two lists nor twice on one: the calls of  *)
(* list_insert_last and list_remove in task.c respect what list.c does not *)
(* check.                                                                  *)
THEOREM RunNodeSafe ==
  ASSUME RestartFirst = FALSE
  PROVE  Spec => []RunNodeOnce
<1>1. Init => IInv
  BY InitIInv
<1>2. IInv /\ [Next]_vars => IInv'
  BY NextIInv
<1>3. IInv => RunNodeOnce
  BY DEF IInv
<1> QED
  BY <1>1, <1>2, <1>3, PTL DEF Spec

(* The processor always belongs to the head of the ready list: no          *)
(* operation of task.c changes the ready list without dispatching.         *)
THEOREM HeadRuns ==
  ASSUME RestartFirst = FALSE
  PROVE  Spec => []CurrIsHead
<1>1. Init => IInv
  BY InitIInv
<1>2. IInv /\ [Next]_vars => IInv'
  BY NextIInv
<1>3. IInv => CurrIsHead
  BY DEF IInv
<1> QED
  BY <1>1, <1>2, <1>3, PTL DEF Spec

(* The state, the tick count and the list say the same of a sleeper, the   *)
(* walk of task_time_tick stays on the sleep list, and a walk that was put *)
(* off by a preemption belongs to a task that will run.                    *)
THEOREM SleepSafe ==
  ASSUME RestartFirst = FALSE
  PROVE  Spec => [](SleepFieldsAgree /\ CursorSleeps /\ HandlersPending)
<1>1. Init => IInv
  BY InitIInv
<1>2. IInv /\ [Next]_vars => IInv'
  BY NextIInv
<1>3. IInv => SleepFieldsAgree /\ CursorSleeps /\ HandlersPending
  BY DEF IInv
<1> QED
  BY <1>1, <1>2, <1>3, PTL DEF Spec

(* A task that was preempted inside of task_time_tick, in front of its     *)
(* walk of the sleep list, never loses its place in the ready list.        *)
THEOREM HandlersSafe ==
  ASSUME RestartFirst = FALSE
  PROVE  Spec => []HandlersPending
<1>1. Init => IInv
  BY InitIInv
<1>2. IInv /\ [Next]_vars => IInv'
  BY NextIInv
<1>3. IInv => HandlersPending
  BY DEF IInv
<1> QED
  BY <1>1, <1>2, <1>3, PTL DEF Spec
-----------------------------------------------------------------------------
(* The list w keeps the order of s, but for an element c that may move.    *)
KeepsOrder(s, w, c) ==
    \A i, j \in 1..Len(s) :
        (i < j /\ s[i] # c) =>
            \A k, l \in 1..Len(w) : (w[k] = s[i] /\ w[l] = s[j]) => k < l

(* A list without duplicates is in its own order.                          *)
LEMMA OrderSame ==
  ASSUME NEW s \in Seq(Task), IsInjective(s), NEW c
  PROVE  KeepsOrder(s, s, c)
BY DEF KeepsOrder, IsInjective

(* A new node at the end of the list is behind all others.                 *)
LEMMA OrderAppend ==
  ASSUME NEW s \in Seq(Task), IsInjective(s), NEW e \in Task, e \notin ToSet(s), NEW c
  PROVE  KeepsOrder(s, Append(s, e), c)
<1>1. PICK w : w = Append(s, e)
  OBVIOUS
<1>2. /\ Len(w) = Len(s) + 1 /\ Len(s) \in Nat
      /\ \A i \in 1..Len(s) : w[i] = s[i]
      /\ w[Len(s)+1] = e
  BY <1>1
<1>3. \A i \in 1..Len(s) : s[i] # e
  BY DEF ToSet
<1>4. ASSUME NEW i \in 1..Len(s), NEW k \in 1..Len(w), w[k] = s[i] PROVE k = i
  <2>1. k \in 1..Len(s)
    BY <1>2, <1>3, <1>4
  <2> QED
    BY <1>2, <1>4, <2>1 DEF IsInjective
<1> QED
  BY <1>1, <1>4 DEF KeepsOrder

(* Where the nodes of a list are when one of them has been removed.        *)
LEMMA RemovePositions ==
  ASSUME NEW s \in Seq(Task), IsInjective(s), NEW e \in ToSet(s)
  PROVE  \E p \in 1..Len(s) :
            /\ s[p] = e
            /\ Len(RemoveFirst(s, e)) = Len(s) - 1
            /\ \A i \in 1..Len(s), k \in 1..(Len(s)-1) :
                  RemoveFirst(s, e)[k] = s[i] => k = IF i < p THEN i ELSE i - 1
<1>1. PICK p \in 1..Len(s) : s[p] = e /\ RemoveFirst(s, e) = RemoveAt(s, p)
  BY RemoveFirstIndex
<1>2. PICK w : w = RemoveFirst(s, e)
  OBVIOUS
<1>3. /\ Len(w) = Len(s) - 1
      /\ \A j \in 1..(Len(s)-1) : w[j] = IF j < p THEN s[j] ELSE s[j+1]
  BY <1>1, <1>2, RemoveAtFacts
<1>4. ASSUME NEW i \in 1..Len(s), NEW k \in 1..(Len(s)-1), w[k] = s[i]
      PROVE  k = IF i < p THEN i ELSE i - 1
  <2>1. CASE k < p
    <3>1. s[k] = s[i] /\ k \in DOMAIN s /\ i \in DOMAIN s
      BY <1>3, <1>4, <2>1
    <3> QED
      BY <2>1, <3>1 DEF IsInjective
  <2>2. CASE k >= p
    <3>1. s[k+1] = s[i] /\ k+1 \in DOMAIN s /\ i \in DOMAIN s
      BY <1>3, <1>4, <2>2
    <3>2. k + 1 = i
      BY <3>1 DEF IsInjective
    <3> QED
      BY <2>2, <3>2
  <2> QED
    BY <2>1, <2>2
<1> QED
  BY <1>1, <1>2, <1>3, <1>4

(* Removing a node keeps the order of the others.                          *)
LEMMA OrderRemove ==
  ASSUME NEW s \in Seq(Task), IsInjective(s), NEW e \in ToSet(s), NEW c
  PROVE  KeepsOrder(s, RemoveFirst(s, e), c)
<1>1. PICK w : w = RemoveFirst(s, e)
  OBVIOUS
<1>2. PICK p \in 1..Len(s) :
        /\ s[p] = e /\ Len(w) = Len(s) - 1
        /\ \A i \in 1..Len(s), k \in 1..(Len(s)-1) :
              w[k] = s[i] => k = IF i < p THEN i ELSE i - 1
  BY <1>1, RemovePositions
<1>3. \A k \in 1..Len(w) : w[k] # e
  <2>1. ToSet(w) = ToSet(s) \ {e} /\ w \in Seq(Task)
    BY <1>1, RemoveFirstFacts
  <2> QED
    BY <2>1, ElementFacts
<1>4. ASSUME NEW i \in 1..Len(s), NEW j \in 1..Len(s), i < j,
             NEW k \in 1..Len(w), NEW l \in 1..Len(w), w[k] = s[i], w[l] = s[j]
      PROVE  k < l
  <2>1. i # p /\ j # p
    BY <1>2, <1>3, <1>4
  <2>2. /\ k = IF i < p THEN i ELSE i - 1
        /\ l = IF j < p THEN j ELSE j - 1
    BY <1>2, <1>4
  <2> QED
    BY <1>4, <2>1, <2>2
<1> QED
  BY <1>1, <1>4 DEF KeepsOrder

(* Moving one node to the tail keeps the order of the others, and nothing  *)
(* is behind that node afterwards.                                         *)
LEMMA OrderRequeue ==
  ASSUME NEW s \in Seq(Task), IsInjective(s), NEW c \in ToSet(s)
  PROVE  KeepsOrder(s, Append(RemoveFirst(s, c), c), c)
<1>1. PICK r : r = RemoveFirst(s, c)
  OBVIOUS
<1>2. r \in Seq(Task) /\ IsInjective(r) /\ ToSet(r) = ToSet(s) \ {c} /\ c \in Task
  BY <1>1, RemoveFirstFacts, HeadFacts
<1>3. KeepsOrder(s, r, c)
  BY <1>1, OrderRemove
<1>4. PICK w : w = Append(r, c)
  OBVIOUS
<1>5. /\ Len(w) = Len(r) + 1 /\ Len(r) \in Nat
      /\ \A k \in 1..Len(r) : w[k] = r[k]
      /\ w[Len(r)+1] = c
  BY <1>2, <1>4
<1>6. \A k \in 1..Len(r) : r[k] # c
  BY <1>2, ElementFacts
<1>7. ASSUME NEW i \in 1..Len(s), NEW j \in 1..Len(s), i < j, s[i] # c,
             NEW k \in 1..Len(w), NEW l \in 1..Len(w), w[k] = s[i], w[l] = s[j]
      PROVE  k < l
  <2>1. k \in 1..Len(r) /\ r[k] = s[i]
    BY <1>5, <1>7
  <2>2. CASE l = Len(r) + 1
    BY <2>1, <2>2, <1>5
  <2>3. CASE l # Len(r) + 1
    <3>1. l \in 1..Len(r) /\ r[l] = s[j]
      BY <1>5, <1>7, <2>3
    <3> QED
      BY <1>3, <1>7, <2>1, <3>1 DEF KeepsOrder
  <2> QED
    BY <2>2, <2>3
<1> QED
  BY <1>1, <1>4, <1>7 DEF KeepsOrder

(* No step reorders the ready list, except that the current task may go to *)
(* the tail.                                                               *)
LEMMA OrderStep ==
  ASSUME IInv, Next
  PROVE  KeepsOrder(ready_list, ready_list', curr_task)
<1> USE TaskAssumption
<1>1. /\ ready_list \in Seq(Task) /\ IsInjective(ready_list)
      /\ sleep_list \in Seq(Task)
      /\ ToSet(ready_list) \intersect ToSet(sleep_list) = {}
      /\ ToSet(ready_list) \subseteq Created
  BY DEF IInv, TypeOK, RunNodeOnce
<1>2. Running => /\ curr_task \in Task /\ curr_task # idle_task
                 /\ curr_task # NULL /\ curr_task \in ToSet(ready_list)
  BY RunningFacts DEF Running
<1>3. CASE UNCHANGED ready_list
  BY <1>1, <1>3, OrderSame
<1>4. CASE task_first_init
  <2>1. ready_list = << >>
    BY <1>4 DEF task_first_init, IInv, Basics
  <2> QED
    BY <2>1 DEF KeepsOrder
<1>5. ASSUME NEW t \in Task, create(t) PROVE KeepsOrder(ready_list, ready_list', curr_task)
  <2>1. t \notin ToSet(ready_list) /\ ready_list' = Append(ready_list, t)
    BY <1>1, <1>5 DEF create, task_init, task_set_ready
  <2> QED
    BY <1>1, <2>1, OrderAppend
<1>6. ASSUME NEW t \in Task, wake(t) PROVE KeepsOrder(ready_list, ready_list', curr_task)
  <2>1. t \notin ToSet(ready_list) /\ ready_list' = Append(ready_list, t)
    BY <1>6 DEF wake, Blocked, make_ready, task_dispatch, task_set_ready
  <2> QED
    BY <1>1, <2>1, OrderAppend
<1>7. CASE sys_sched_yield
  <2>1. /\ curr_task \in ToSet(ready_list)
        /\ ready_list' = Append(RemoveFirst(ready_list, curr_task), curr_task)
    BY <1>2, <1>7 DEF sys_sched_yield, task_dispatch, task_set_ready, task_set_block
  <2> QED
    BY <1>1, <2>1, OrderRequeue
<1>8. ASSUME NEW ms \in Ms, sys_msleep(ms) PROVE KeepsOrder(ready_list, ready_list', curr_task)
  <2>1. /\ curr_task \in ToSet(ready_list)
        /\ ready_list' = RemoveFirst(ready_list, curr_task)
    BY <1>2, <1>8 DEF sys_msleep, task_dispatch, task_set_block
  <2> QED
    BY <1>1, <2>1, OrderRemove
<1>9. CASE block_current
  <2>1. /\ curr_task \in ToSet(ready_list)
        /\ ready_list' = RemoveFirst(ready_list, curr_task)
    BY <1>2, <1>9 DEF block_current, task_dispatch, task_set_block
  <2> QED
    BY <1>1, <2>1, OrderRemove
<1>10. CASE timer_interrupt \/ walk_begin
  BY <1>3, <1>10 DEF timer_interrupt, walk_begin
<1>11. CASE do_handler_timer
  <2>1. curr_task # NULL
    BY <1>11 DEF do_handler_timer
  <2>2. \/ UNCHANGED ready_list
        \/ /\ curr_task # idle_task
           /\ ready_list' = Append(RemoveFirst(ready_list, curr_task), curr_task)
    BY <1>11 DEF do_handler_timer, task_dispatch, task_set_ready, task_set_block
  <2> QED
    BY <1>1, <1>3, <2>1, <2>2, RunningFacts, OrderRequeue
<1>12. CASE walk_step
  <2>1. cursor \in Task /\ cursor \notin ToSet(ready_list) /\ cursor # idle_task
    BY <1>1, <1>12 DEF walk_step, IInv, TypeOK, CursorSleeps
  <2>2. UNCHANGED ready_list \/ ready_list' = Append(ready_list, cursor)
    BY <1>12, <2>1 DEF walk_step, task_set_ready
  <2> QED
    BY <1>1, <1>3, <2>1, <2>2, OrderAppend
<1>13. CASE walk_end
  BY <1>3, <1>13 DEF walk_end, task_dispatch
<1> QED
  BY <1>4, <1>5, <1>6, <1>7, <1>8, <1>9, <1>10, <1>11, <1>12, <1>13 DEF Next, Handler

(* Round robin: of two ready tasks, the one behind never gets in front of  *)
(* the other unless the other has run and been put at the tail.            *)
THEOREM FairOrder ==
  ASSUME RestartFirst = FALSE
  PROVE  Spec => NoOvertaking
<1>1. Init => IInv
  BY InitIInv
<1>2. IInv /\ [Next]_vars => IInv'
  BY NextIInv
<1>3. IInv /\ [Next]_vars =>
        [ \A i, j \in 1..Len(ready_list) :
          (i < j /\ ready_list[i] # curr_task)
            => \A k, l \in 1..Len(ready_list') :
                 (ready_list'[k] = ready_list[i] /\ ready_list'[l] = ready_list[j])
                    => k < l ]_vars
  BY OrderStep DEF KeepsOrder
<1> QED
  BY <1>1, <1>2, <1>3, PTL DEF Spec, NoOvertaking

=============================================================================
