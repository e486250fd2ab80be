----------------------------- MODULE CpuProofs ------------------------------
(***************************************************************************)
(* The theorems about kernel/cpu: interrupt flags and the controller       *)
(* (module Irq), then GDT entries, task state segments and the pages of    *)
(* tasks (module Tss), for every set of tasks and every size.              *)
(***************************************************************************)
EXTENDS Irq, Tss, PageProofs
-----------------------------------------------------------------------------
(* Interrupts are enabled exactly while the running task is outside of     *)
(* every protected section and handler, for any number of tasks and lines  *)
(* and any depth of nesting (FlagExact); and a line is in service exactly  *)
(* until its handler says so (ServiceExact).                               *)

Thread == Task \union {boot}

\* The flags saved on a stack: the lowest frame has the flag of the code that
\* is outside of the kernel, set for a task and clear for boot (on).
Flags(s, on) == \A i \in 1..Len(s) : s[i].flag <=> (i = 1 /\ on)

\* What FlagExact needs to be inductive: the saved flags of boot, and of the
\* tasks before the first one runs.
FlagInv ==
    /\ (phase = "run") <=> (curr_task # boot)
    /\ IF_flag <=> (curr_task # boot /\ stack[curr_task] = << >>)
    /\ \A t \in Task : t # curr_task => (tss_eflags[t] <=> stack[t] = << >>)
    /\ \A t \in Thread : Flags(stack[t], t # boot)

CpuTypeOK ==
    /\ IF_flag \in BOOLEAN
    /\ curr_task \in Thread
    /\ stack \in [Thread -> Seq(Frame)]
    /\ tss_eflags \in [Task -> BOOLEAN]

IInv == CpuTypeOK /\ FlagInv
-----------------------------------------------------------------------------
(* Front drops the last element.                                           *)
LEMMA FrontFacts ==
  ASSUME NEW S, NEW s \in Seq(S), s # << >>
  PROVE  /\ Front(s) \in Seq(S)
         /\ Len(Front(s)) = Len(s) - 1
         /\ \A i \in 1..(Len(s) - 1) : Front(s)[i] = s[i]
<1>1. Len(s) \in 1..Len(s)
  OBVIOUS
<1>2. PICK k \in 1..Len(s) : k = Len(s)
  BY <1>1
<1>3. /\ SubSeq(s, 1, k-1) \in Seq(S)
      /\ Len(SubSeq(s, 1, k-1)) = k-1
      /\ \A i \in 1..(k-1) : SubSeq(s, 1, k-1)[i] = s[i]
  OBVIOUS
<1> QED
  BY <1>2, <1>3 DEF Front

(* A frame on top of a stack (irq_enter_protection, an interrupt).         *)
LEMMA PushFlags ==
  ASSUME NEW s \in Seq(Frame), NEW f \in Frame, NEW on \in BOOLEAN,
         Flags(s, on), f.flag <=> (s = << >> /\ on)
  PROVE  /\ Append(s, f) \in Seq(Frame)
         /\ Append(s, f) # << >>
         /\ Flags(Append(s, f), on)
<1>1. Append(s, f) \in Seq(Frame) /\ Len(Append(s, f)) = Len(s) + 1
  OBVIOUS
<1>2. \A i \in 1..Len(s) : Append(s, f)[i] = s[i]
  OBVIOUS
<1>3. Append(s, f)[Len(s) + 1] = f
  OBVIOUS
<1>4. (s = << >>) <=> (Len(s) + 1 = 1)
  OBVIOUS
<1>5. ASSUME NEW i \in 1..Len(Append(s, f))
      PROVE  Append(s, f)[i].flag <=> (i = 1 /\ on)
  <2>1. CASE i \in 1..Len(s)
    BY <2>1, <1>2 DEF Flags
  <2>2. CASE i = Len(s) + 1
    BY <2>2, <1>3, <1>4
  <2> QED
    BY <1>1, <2>1, <2>2
<1>6. Append(s, f) # << >>
  BY <1>1
<1>7. Flags(Append(s, f), on)
  BY <1>5 DEF Flags
<1> QED
  BY <1>1, <1>6, <1>7

(* The stack under its top frame (irq_leave_protection, iret): the flag    *)
(* that is restored says whether anything is left.                         *)
LEMMA PopFlags ==
  ASSUME NEW s \in Seq(Frame), NEW on \in BOOLEAN, s # << >>, Flags(s, on)
  PROVE  /\ Last(s) \in Frame
         /\ Front(s) \in Seq(Frame)
         /\ Flags(Front(s), on)
         /\ Last(s).flag <=> (Front(s) = << >> /\ on)
<1>1. Len(s) \in Nat /\ Len(s) >= 1
  OBVIOUS
<1>2. Last(s) = s[Len(s)] /\ Last(s) \in Frame
  BY <1>1 DEF Last
<1>3. /\ Front(s) \in Seq(Frame) /\ Len(Front(s)) = Len(s) - 1
      /\ \A i \in 1..(Len(s) - 1) : Front(s)[i] = s[i]
  BY <1>1, FrontFacts
<1>4. (Front(s) = << >>) <=> (Len(s) = 1)
  BY <1>1, <1>3
<1>5. Flags(Front(s), on)
  BY <1>1, <1>3 DEF Flags
<1> QED
  BY <1>1, <1>2, <1>3, <1>4, <1>5 DEF Flags

(* A top frame that is replaced by one with the same flag.                 *)
LEMMA TopFlags ==
  ASSUME NEW s \in Seq(Frame), NEW f \in Frame, NEW on \in BOOLEAN,
         s # << >>, Flags(s, on), f.flag <=> Last(s).flag
  PROVE  /\ Append(Front(s), f) \in Seq(Frame)
         /\ Append(Front(s), f) # << >>
         /\ Flags(Append(Front(s), f), on)
  BY PopFlags, PushFlags
-----------------------------------------------------------------------------
(* The invariant after a step that changes the stack of the running thread *)
(* to one that is not empty and clears the flag, or leaves it clear.       *)
LEMMA BusyStep ==
  ASSUME IInv, NEW s \in Seq(Frame), s # << >>, Flags(s, curr_task # boot),
         stack' = [stack EXCEPT ![curr_task] = s], IF_flag' = FALSE,
         UNCHANGED <<phase, curr_task, tss_eflags>>
  PROVE  IInv'
<1> USE DEF IInv, CpuTypeOK, FlagInv
<1>1. CpuTypeOK'
  OBVIOUS
<1>2. stack'[curr_task] = s /\ \A t \in Thread : t # curr_task => stack'[t] = stack[t]
  OBVIOUS
<1>3. ((phase = "run") <=> (curr_task # boot))'
  OBVIOUS
<1>4. (IF_flag <=> (curr_task # boot /\ stack[curr_task] = << >>))'
  BY <1>2
<1>5. (\A t \in Task : t # curr_task => (tss_eflags[t] <=> stack[t] = << >>))'
  BY <1>2 DEF Thread
<1>6. (\A t \in Thread : Flags(stack[t], t # boot))'
  BY <1>2
<1> QED
  BY <1>1, <1>3, <1>4, <1>5, <1>6

(* irq_leave_protection and iret.                                          *)
LEMMA PopStep ==
  ASSUME IInv, Busy, stack' = Popped, IF_flag' = Top.flag,
         UNCHANGED <<phase, curr_task, tss_eflags>>
  PROVE  IInv'
<1> DEFINE s == stack[curr_task]
<1> USE DEF IInv, CpuTypeOK, FlagInv
<1>1. /\ s \in Seq(Frame) /\ s # << >>
      /\ Flags(s, curr_task # boot)
      /\ (curr_task # boot) \in BOOLEAN
  BY DEF Busy, Running
<1>2. /\ Last(s) \in Frame /\ Front(s) \in Seq(Frame)
      /\ Flags(Front(s), curr_task # boot)
      /\ Last(s).flag <=> (Front(s) = << >> /\ curr_task # boot)
  BY <1>1, PopFlags
<1>3. stack' = [stack EXCEPT ![curr_task] = Front(s)] /\ IF_flag' = Last(s).flag
  BY DEF Popped, Top, Running
<1>4. Last(s).flag \in BOOLEAN
  BY <1>2 DEF Frame
<1>5. CpuTypeOK'
  BY <1>2, <1>3, <1>4
<1>6. stack'[curr_task] = Front(s) /\ \A t \in Thread : t # curr_task => stack'[t] = stack[t]
  BY <1>3
<1>7. ((phase = "run") <=> (curr_task # boot))'
  OBVIOUS
<1>8. (IF_flag <=> (curr_task # boot /\ stack[curr_task] = << >>))'
  BY <1>2, <1>3, <1>6
<1>9. (\A t \in Task : t # curr_task => (tss_eflags[t] <=> stack[t] = << >>))'
  BY <1>6 DEF Thread
<1>10. (\A t \in Thread : Flags(stack[t], t # boot))'
  BY <1>2, <1>6
<1> QED
  BY <1>5, <1>7, <1>8, <1>9, <1>10

(* A step inside of the top frame.                                         *)
LEMMA TopStep ==
  ASSUME IInv, Busy, NEW f \in Frame, f.flag = Top.flag, stack' = WithTop(f),
         UNCHANGED <<phase, IF_flag, curr_task, tss_eflags>>
  PROVE  IInv'
<1> DEFINE s == stack[curr_task]
<1>1. /\ s \in Seq(Frame) /\ s # << >>
      /\ Flags(s, curr_task # boot)
      /\ (curr_task # boot) \in BOOLEAN
  BY DEF Busy, Running, IInv, CpuTypeOK, FlagInv
<1>2. f.flag <=> Last(s).flag
  BY DEF Top, Running
<1>3. /\ Append(Front(s), f) \in Seq(Frame) /\ Append(Front(s), f) # << >>
      /\ Flags(Append(Front(s), f), curr_task # boot)
  BY <1>1, <1>2, TopFlags
<1>4. stack' = [stack EXCEPT ![curr_task] = Append(Front(s), f)]
  BY DEF WithTop
<1>5. IF_flag' = FALSE
  BY <1>1 DEF IInv, CpuTypeOK, FlagInv
<1> QED
  BY <1>3, <1>4, <1>5, BusyStep

(* An interrupt or an exception.                                           *)
LEMMA PushStep ==
  ASSUME IInv, NEW f \in Frame, f.flag = IF_flag, stack' = Pushed(f), IF_flag' = FALSE,
         UNCHANGED <<phase, curr_task, tss_eflags>>
  PROVE  IInv'
<1> DEFINE s == stack[curr_task]
<1>1. /\ s \in Seq(Frame)
      /\ Flags(s, curr_task # boot)
      /\ (curr_task # boot) \in BOOLEAN
  BY DEF IInv, CpuTypeOK, FlagInv
<1>2. f.flag <=> (s = << >> /\ curr_task # boot)
  BY DEF IInv, CpuTypeOK, FlagInv
<1>3. /\ Append(s, f) \in Seq(Frame) /\ Append(s, f) # << >>
      /\ Flags(Append(s, f), curr_task # boot)
  BY <1>1, <1>2, PushFlags
<1>4. stack' = [stack EXCEPT ![curr_task] = Append(s, f)]
  BY DEF Pushed
<1> QED
  BY <1>3, <1>4, BusyStep
-----------------------------------------------------------------------------
(* The top frame, and what the steps inside of it make of it, are frames.  *)
LEMMA TopFrame ==
  ASSUME IInv, Busy
  PROVE  /\ Top \in Frame
         /\ [Top EXCEPT !.calls = 0] \in Frame
         /\ Top.calls > 0 => [Top EXCEPT !.calls = @ - 1] \in Frame
         /\ Top.todo # << >> => [Top EXCEPT !.todo = Tail(@)] \in Frame
<1>1. Top \in Frame
  <2>1. stack[curr_task] \in Seq(Frame) /\ stack[curr_task] # << >>
    BY DEF IInv, CpuTypeOK, Busy, Running
  <2>2. Len(stack[curr_task]) \in 1..Len(stack[curr_task])
    BY <2>1
  <2> QED
    BY <2>1, <2>2 DEF Top, Running, Last
<1>2. [Top EXCEPT !.calls = 0] \in Frame
  BY <1>1, IrqAssumption DEF Frame
<1>3. Top.calls > 0 => [Top EXCEPT !.calls = @ - 1] \in Frame
  BY <1>1, IrqAssumption DEF Frame
<1>4. ASSUME Top.todo # << >>
      PROVE  [Top EXCEPT !.todo = Tail(@)] \in Frame
  <2>1. Top.todo \in Seq({"eoi", "body", "halt"})
    BY <1>1 DEF Frame
  <2>2. PICK rest : rest = Tail(Top.todo)
    OBVIOUS
  <2>3. rest \in Seq({"eoi", "body", "halt"})
    BY <1>4, <2>1, <2>2
  <2>4. [Top EXCEPT !.todo = rest] \in Frame
    BY <1>1, <2>3 DEF Frame
  <2> QED
    BY <2>2, <2>4
<1> QED
  BY <1>1, <1>2, <1>3, <1>4

(* irq_enter_protection: a frame with the flag as it was.                  *)
LEMMA EnterStep ==
  ASSUME IInv, irq_enter_protection
  PROVE  IInv'
<1> DEFINE s == stack[curr_task]
           f == [kind |-> "section", flag |-> IF_flag, line |-> -1,
                 todo |-> << >>, calls |-> MaxCalls]
<1>1. /\ s \in Seq(Frame)
      /\ Flags(s, curr_task # boot)
      /\ (curr_task # boot) \in BOOLEAN
      /\ IF_flag \in BOOLEAN
      /\ curr_task \in Thread /\ stack \in [Thread -> Seq(Frame)]
  BY DEF IInv, CpuTypeOK, FlagInv
<1>2. f \in Frame /\ f.flag = IF_flag
  BY <1>1, IrqAssumption DEF Frame
<1>3. /\ Spent \in Seq(Frame) /\ Flags(Spent, curr_task # boot)
      /\ (Spent = << >>) <=> (s = << >>)
  <2>1. CASE ~Busy
    BY <2>1, <1>1 DEF Spent, Busy, Running
  <2>2. CASE Busy
    <3> DEFINE g == [Top EXCEPT !.calls = @ - 1]
    <3>1. Top.calls > 0
      BY <2>2 DEF irq_enter_protection, AtWork
    <3>2. g \in Frame /\ g.flag = Top.flag
      BY <2>2, <3>1, TopFrame DEF Frame
    <3>3. s # << >> /\ (g.flag <=> Last(s).flag)
      BY <2>2, <3>2 DEF Busy, Running, Top
    <3> HIDE DEF g
    <3>4. /\ Append(Front(s), g) \in Seq(Frame) /\ Append(Front(s), g) # << >>
          /\ Flags(Append(Front(s), g), curr_task # boot)
      BY <1>1, <3>2, <3>3, TopFlags
    <3>5. Spent = Append(Front(s), g)
      BY <1>1, <2>2 DEF Spent, WithTop, g
    <3> QED
      BY <3>3, <3>4, <3>5
  <2> QED
    BY <2>1, <2>2
<1>4. f.flag <=> (Spent = << >> /\ curr_task # boot)
  BY <1>2, <1>3 DEF IInv, FlagInv
<1>5. stack' = [stack EXCEPT ![curr_task] = Append(Spent, f)]
  BY DEF irq_enter_protection
<1> HIDE DEF f
<1>6. /\ Append(Spent, f) \in Seq(Frame) /\ Append(Spent, f) # << >>
      /\ Flags(Append(Spent, f), curr_task # boot)
  BY <1>1, <1>2, <1>3, <1>4, PushFlags
<1> QED
  BY <1>5, <1>6, BusyStep DEF irq_enter_protection

(* A task switch: the flag goes with the task.                             *)
LEMMA SwitchStep ==
  ASSUME IInv, NEW to \in Task, task_switch_from_to(to)
  PROVE  IInv'
<1> DEFINE s == stack[curr_task]
           g == [Top EXCEPT !.calls = 0]
<1> USE DEF IInv, CpuTypeOK, FlagInv
<1>1. /\ s \in Seq(Frame) /\ s # << >>
      /\ Flags(s, curr_task # boot)
      /\ (curr_task # boot) \in BOOLEAN
      /\ curr_task # boot /\ curr_task \in Task /\ to # curr_task
  BY DEF task_switch_from_to, Busy, Running, Thread
<1>2. IF_flag = FALSE
  BY <1>1
<1>3. g \in Frame /\ g.flag = Top.flag
  BY TopFrame DEF task_switch_from_to, Frame
<1>4. g.flag <=> Last(s).flag
  BY <1>3 DEF Top, Running
<1> HIDE DEF g
<1>5. /\ Append(Front(s), g) \in Seq(Frame) /\ Append(Front(s), g) # << >>
      /\ Flags(Append(Front(s), g), curr_task # boot)
  BY <1>1, <1>3, <1>4, TopFlags
<1>6. stack' = [stack EXCEPT ![curr_task] = Append(Front(s), g)]
  BY DEF task_switch_from_to, WithTop, g
<1>7. /\ stack'[curr_task] = Append(Front(s), g)
      /\ \A t \in Thread : t # curr_task => stack'[t] = stack[t]
  BY <1>6
<1>8. /\ tss_eflags' = [tss_eflags EXCEPT ![curr_task] = FALSE]
      /\ IF_flag' = tss_eflags[to] /\ curr_task' = to /\ phase' = phase
  BY <1>2 DEF task_switch_from_to
<1>9. CpuTypeOK'
  BY <1>5, <1>6, <1>8 DEF Thread
<1>10. ((phase = "run") <=> (curr_task # boot))'
  BY <1>1, <1>8, IrqAssumption
<1>11. (IF_flag <=> (curr_task # boot /\ stack[curr_task] = << >>))'
  BY <1>1, <1>7, <1>8, IrqAssumption DEF Thread
<1>12. (\A t \in Task : t # curr_task => (tss_eflags[t] <=> stack[t] = << >>))'
  <2> SUFFICES ASSUME NEW t \in Task, t # to
               PROVE  tss_eflags'[t] <=> stack'[t] = << >>
    BY <1>8
  <2>1. CASE t = curr_task
    BY <2>1, <1>5, <1>7, <1>8
  <2>2. CASE t # curr_task
    BY <2>2, <1>7, <1>8 DEF Thread
  <2> QED
    BY <2>1, <2>2
<1>13. (\A t \in Thread : Flags(stack[t], t # boot))'
  BY <1>1, <1>5, <1>7
<1> QED
  BY <1>9, <1>10, <1>11, <1>12, <1>13
-----------------------------------------------------------------------------
(* Nothing is saved when the kernel starts, with interrupts off.           *)
LEMMA FlagInit == IInit => IInv
<1> SUFFICES ASSUME IInit PROVE IInv
  OBVIOUS
<1>1. << >> \in Seq(Frame)
  OBVIOUS
<1>2. CpuTypeOK
  BY <1>1 DEF IInit, CpuTypeOK, Thread
<1>3. \A t \in Thread : stack[t] = << >>
  BY DEF IInit, Thread
<1>4. \A t \in Thread : Flags(stack[t], t # boot)
  BY <1>3 DEF Flags
<1>5. \A t \in Task : tss_eflags[t] <=> stack[t] = << >>
  BY <1>3 DEF IInit, Thread
<1>6. (phase = "run") <=> (curr_task # boot)
  BY DEF IInit
<1>7. IF_flag <=> (curr_task # boot /\ stack[curr_task] = << >>)
  BY DEF IInit
<1> QED
  BY <1>2, <1>4, <1>5, <1>6, <1>7 DEF IInv, FlagInv

(* A step that leaves the processor and its stacks alone, and does not     *)
(* start the first task.                                                   *)
LEMMA IdleStep ==
  ASSUME IInv, UNCHANGED cpu, (phase' = "run") <=> (phase = "run")
  PROVE  IInv'
  BY DEF IInv, CpuTypeOK, FlagInv, Flags, cpu

(* The frames that interrupts and exceptions push.                         *)
LEMMA HandlerFrame ==
  ASSUME NEW kind \in {"irq", "exception"}, IF_flag \in BOOLEAN, NEW line \in Line \union {-1},
         NEW todo \in {handler_steps, <<"body">>, <<"body", "halt">>}
  PROVE  [kind |-> kind, flag |-> IF_flag, line |-> line, calls |-> MaxCalls,
          todo |-> todo] \in Frame
<1>1. todo \in Seq({"eoi", "body", "halt"})
  <2>1. <<"body">> \in Seq({"eoi", "body", "halt"})
    OBVIOUS
  <2>2. <<"body", "halt">> \in Seq({"eoi", "body", "halt"})
    OBVIOUS
  <2>3. handler_steps \in Seq({"eoi", "body", "halt"})
    BY DEF handler_steps
  <2> QED
    BY <2>1, <2>2, <2>3
<1> QED
  BY <1>1, IrqAssumption DEF Frame

(* The iret into the first task enables interrupts.                        *)
LEMMA FirstStep ==
  ASSUME IInv, move_to_first_task
  PROVE  IInv'
<1> USE DEF IInv, CpuTypeOK, FlagInv
<1>1. /\ curr_task = boot /\ first_task \in Task /\ first_task # boot
      /\ \A t \in Task : t # boot /\ t \in Thread
  BY IrqAssumption DEF move_to_first_task, Thread
<1>2. /\ phase' = "run" /\ curr_task' = first_task /\ IF_flag' = tss_eflags[first_task]
      /\ stack' = stack /\ tss_eflags' = tss_eflags
  BY DEF move_to_first_task
<1>3. CpuTypeOK'
  BY <1>1, <1>2
<1>4. (IF_flag <=> (curr_task # boot /\ stack[curr_task] = << >>))'
  BY <1>1, <1>2
<1>5. (\A t \in Task : t # curr_task => (tss_eflags[t] <=> stack[t] = << >>))'
  BY <1>1, <1>2
<1>6. (\A t \in Thread : Flags(stack[t], t # boot))'
  BY <1>2
<1> QED
  BY <1>1, <1>2, <1>3, <1>4, <1>5, <1>6

(* Every step of the program, of the devices and of the 8259s keeps it.    *)
LEMMA FlagStep == IInv /\ [INext]_ivars => IInv'
<1> SUFFICES ASSUME IInv, [INext]_ivars
             PROVE  IInv'
  OBVIOUS
<1>1. CASE irq_init
  BY <1>1, IdleStep DEF irq_init
<1>2. CASE time_init
  BY <1>2, IdleStep DEF time_init
<1>3. CASE move_to_first_task
  BY <1>3, FirstStep
<1>4. ASSUME NEW line \in DriverLine, driver_start(line) \/ driver_stop(line)
      PROVE  IInv'
  BY <1>4, IdleStep DEF driver_start, driver_stop
<1>5. CASE irq_enter_protection
  BY <1>5, EnterStep
<1>6. ASSUME NEW to \in Task, task_switch_from_to(to)
      PROVE  IInv'
  BY <1>6, SwitchStep
<1>7. ASSUME NEW line \in Line, request(line)
      PROVE  IInv'
  BY <1>7, IdleStep DEF request
<1>8. ASSUME NEW line \in Line, interrupt(line)
      PROVE  IInv'
  <2>1. PICK todo \in {handler_steps, <<"body", "halt">>} :
          stack' = Pushed([kind |-> "irq", flag |-> IF_flag, line |-> line,
                           calls |-> MaxCalls, todo |-> todo])
    BY <1>8 DEF interrupt
  <2> DEFINE f == [kind |-> "irq", flag |-> IF_flag, line |-> line,
                   calls |-> MaxCalls, todo |-> todo]
  <2>2. f \in Frame
    BY HandlerFrame DEF IInv, CpuTypeOK
  <2>3. f.flag = IF_flag
    OBVIOUS
  <2> HIDE DEF f
  <2>4. stack' = Pushed(f)
    BY <2>1 DEF f
  <2> QED
    BY <1>8, <2>2, <2>3, <2>4, PushStep DEF interrupt
<1>9. ASSUME NEW user \in BOOLEAN, exception(user)
      PROVE  IInv'
  <2>1. PICK todo \in {<<"body">>, <<"body", "halt">>} :
          stack' = Pushed([kind |-> "exception", flag |-> IF_flag, line |-> -1,
                           calls |-> MaxCalls, todo |-> todo])
    BY <1>9 DEF exception
  <2> DEFINE f == [kind |-> "exception", flag |-> IF_flag, line |-> -1,
                   calls |-> MaxCalls, todo |-> todo]
  <2>2. f \in Frame
    BY HandlerFrame DEF IInv, CpuTypeOK
  <2>3. f.flag = IF_flag
    OBVIOUS
  <2> HIDE DEF f
  <2>4. stack' = Pushed(f)
    BY <2>1 DEF f
  <2> QED
    BY <1>9, <2>2, <2>3, <2>4, PushStep DEF exception
<1>10. CASE leave
  BY <1>10, PopStep DEF leave, irq_leave_protection
<1>11. CASE handler_eoi \/ handler_body
  <2> DEFINE f == [Top EXCEPT !.todo = Tail(@)]
  <2>1. Busy /\ Top.todo # << >> /\ stack' = WithTop(f)
    BY <1>11 DEF handler_eoi, handler_body, InHandler, Done
  <2>2. f \in Frame /\ f.flag = Top.flag
    BY <2>1, TopFrame DEF Frame
  <2> HIDE DEF f
  <2> QED
    BY <1>11, <2>1, <2>2, TopStep DEF handler_eoi, handler_body
<1>12. CASE handler_halt
  BY <1>12, IdleStep DEF handler_halt
<1>13. CASE iret
  BY <1>13, PopStep DEF iret
<1>14. CASE UNCHANGED ivars
  BY <1>14, IdleStep DEF ivars
<1> QED
  BY <1>1, <1>2, <1>3, <1>4, <1>5, <1>6, <1>7, <1>8, <1>9, <1>10, <1>11, <1>12, <1>13, <1>14
     DEF INext, StartUp, Proceed

(* The invariant says what FlagExact says.                                 *)
LEMMA FlagImplied == IInv => FlagExact
<1> SUFFICES ASSUME IInv PROVE FlagExact
  OBVIOUS
<1> USE DEF IInv, CpuTypeOK, FlagInv
<1>1. phase # "run" => curr_task = boot /\ ~IF_flag
  OBVIOUS
<1>2. ASSUME NEW t \in Task, NEW i \in DOMAIN stack[t]
      PROVE  stack[t][i].flag <=> i = 1
  <2>1. t # boot /\ t \in Thread /\ stack[t] \in Seq(Frame)
    BY IrqAssumption DEF Thread
  <2>2. i \in 1..Len(stack[t])
    BY <2>1
  <2> QED
    BY <2>1, <2>2 DEF Flags
<1>3. phase = "run" => /\ curr_task # boot
                       /\ IF_flag <=> stack[curr_task] = << >>
  OBVIOUS
<1> QED
  BY <1>1, <1>2, <1>3 DEF FlagExact

(* The interrupt flag follows the nesting of sections and handlers, for    *)
(* every set of tasks and lines and every depth: enter and leave pair up   *)
(* across task switches, interrupts and exceptions.                        *)
THEOREM FlagSafe == ISpec => []FlagExact
<1>1. ISpec => []IInv
  BY FlagInit, FlagStep, PTL DEF ISpec
<1> QED
  BY <1>1, FlagImplied, PTL
-----------------------------------------------------------------------------
(* The lines in service (ServiceExact of Irq).                             *)

\* What a handler has yet to do, at any time; and the cases in which it
\* stops the machine.
HaltTodo == {<<"halt">>, <<"body", "halt">>}
Todo == HaltTodo \union {<< >>, <<"body">>, handler_steps}

FrameOK(f) ==
    /\ f.todo \in Todo
    /\ f.kind = "section" => f.todo = << >>
    /\ f.todo = handler_steps => f.line \in Line

\* Of a stack s: frames as the code makes them; a handler will stop the
\* machine; the topmost handler has not signalled its end of interrupt; no
\* other handler has.
Clean(s) == \A i \in 1..Len(s) : FrameOK(s[i])
Halts(s) == \E i \in 1..Len(s) : s[i].todo \in HaltTodo
Serves(s) == s # << >> /\ s[Len(s)].todo = handler_steps
EndedBelow(s) == \A i \in 1..(Len(s) - 1) : s[i].todo # handler_steps

Doom == \E t \in Thread : Halts(stack[t])

\* The controllers' registers that go with a stack: its line is in service.
NoService == [c \in 0..1 |-> {}]
ServiceOf(line) == [c \in 0..1 |-> IF c = 0 THEN {first_pin(line)}
                                   ELSE IF chip(line) = 1 THEN {pin(line)} ELSE {}]
PicFor(s) == IF Serves(s) THEN ServiceOf(s[Len(s)].line) ELSE NoService

\* A line that can interrupt has a handler.
Handled == \A line \in Line : Unmasked(line) => idt_table[line + IRQ_PIC_START] = "handler"

PicTypeOK ==
    /\ imr \in [0..1 -> SUBSET (0..7)]
    /\ idt_table \in [{l + IRQ_PIC_START : l \in Line} -> {"none", "unknown", "handler"}]

\* The inductive invariant of ServiceExact: unless the kernel has raised an
\* exception, at most one handler has an end of interrupt to signal, at the
\* top of the running stack, and the registers are those of its line.
SInv ==
    /\ PicTypeOK
    /\ \A t \in Thread : Clean(stack[t])
    /\ ~Doom => \A t \in Thread : /\ EndedBelow(stack[t])
                                  /\ t # curr_task => ~Serves(stack[t])
    /\ ~Doom /\ phase # "reset" => isr = PicFor(stack[curr_task])
    /\ phase # "reset" => Handled

(* What is left of a handler after each of its steps.                      *)
LEMMA TodoFacts ==
  /\ \A td \in Todo : td # << >> /\ Head(td) = "body" =>
        /\ Tail(td) \in Todo /\ td # handler_steps /\ Tail(td) # handler_steps
        /\ td \in HaltTodo <=> Tail(td) \in HaltTodo
  /\ \A td \in Todo : td # << >> /\ Head(td) = "eoi" => td = handler_steps
  /\ Tail(handler_steps) = <<"body">> /\ Head(handler_steps) = "eoi"
  /\ << >> \notin HaltTodo /\ <<"body">> \notin HaltTodo /\ handler_steps \notin HaltTodo
  /\ << >> # handler_steps /\ <<"body">> # handler_steps
  /\ {<< >>, <<"body">>, <<"body", "halt">>, handler_steps} \subseteq Todo
  /\ <<"body", "halt">> \in HaltTodo
BY DEF Todo, HaltTodo, handler_steps

LEMMA TodoSets ==
  ASSUME NEW td \in Todo
  PROVE  /\ "halt" \in ToSet(td) <=> td \in HaltTodo
         /\ "eoi" \in ToSet(td) <=> td = handler_steps
BY DEF Todo, HaltTodo, handler_steps, ToSet

(* A line's place at the two controllers.                                  *)
LEMMA LineFacts ==
  \A l \in Line : /\ l \in 0..15 /\ l # 2 /\ l + IRQ_PIC_START \in Int
                  /\ chip(l) \in 0..1 /\ pin(l) \in 0..7 /\ l = 8 * chip(l) + pin(l)
                  /\ pin(l) = IF l < 8 THEN l ELSE l - 8
                  /\ first_pin(l) \in 0..7
                  /\ chip(l) = IF l < 8 THEN 0 ELSE 1
BY IrqAssumption DEF Line, Timer, chip, pin, first_pin, IRQ_PIC_START

(* A frame on top of a stack.                                              *)
LEMMA PushTodo ==
  ASSUME NEW s \in Seq(Frame), NEW f \in Frame, Clean(s), FrameOK(f)
  PROVE  /\ Clean(Append(s, f))
         /\ Halts(Append(s, f)) <=> Halts(s) \/ f.todo \in HaltTodo
         /\ Serves(Append(s, f)) <=> f.todo = handler_steps
         /\ EndedBelow(s) /\ ~Serves(s) => EndedBelow(Append(s, f))
         /\ Append(s, f)[Len(Append(s, f))] = f
<1>1. /\ Len(Append(s, f)) = Len(s) + 1 /\ Len(s) \in Nat
      /\ \A i \in 1..Len(s) : Append(s, f)[i] = s[i]
      /\ Append(s, f)[Len(s) + 1] = f
      /\ Append(s, f) # << >>
  OBVIOUS
<1>2. \A i \in 1..(Len(s) + 1) : i \in 1..Len(s) \/ i = Len(s) + 1
  BY <1>1
<1>3. PICK u : u = Append(s, f)
  OBVIOUS
<1>4. Clean(u)
  BY <1>1, <1>2, <1>3 DEF Clean
<1>5. Halts(u) <=> Halts(s) \/ f.todo \in HaltTodo
  BY <1>1, <1>2, <1>3 DEF Halts
<1>6. Serves(u) <=> f.todo = handler_steps
  BY <1>1, <1>3 DEF Serves
<1>7. EndedBelow(s) /\ ~Serves(s) => EndedBelow(u)
  <2>1. \A i \in 1..Len(s) : i \in 1..(Len(s) - 1) \/ (i = Len(s) /\ s # << >>)
    BY <1>1
  <2> QED
    BY <1>1, <1>3, <2>1 DEF EndedBelow, Serves
<1> QED
  BY <1>1, <1>3, <1>4, <1>5, <1>6, <1>7

(* The stack under its top frame.                                          *)
LEMMA PopTodo ==
  ASSUME NEW s \in Seq(Frame), s # << >>, Clean(s)
  PROVE  /\ Front(s) \in Seq(Frame) /\ Last(s) = s[Len(s)] /\ Last(s) \in Frame
         /\ Clean(Front(s)) /\ FrameOK(Last(s))
         /\ Halts(s) <=> Halts(Front(s)) \/ Last(s).todo \in HaltTodo
         /\ Serves(s) <=> Last(s).todo = handler_steps
         /\ EndedBelow(s) => EndedBelow(Front(s)) /\ ~Serves(Front(s))
<1>1. /\ Front(s) \in Seq(Frame) /\ Len(Front(s)) = Len(s) - 1
      /\ \A i \in 1..(Len(s) - 1) : Front(s)[i] = s[i]
  BY FrontFacts
<1>2. Len(s) \in Nat /\ Len(s) >= 1 /\ Len(s) \in 1..Len(s)
  OBVIOUS
<1>3. Last(s) = s[Len(s)] /\ Last(s) \in Frame
  BY <1>2 DEF Last
<1>4. PICK u : u = Front(s)
  OBVIOUS
<1>5. \A i \in 1..Len(s) : i \in 1..(Len(s) - 1) \/ i = Len(s)
  BY <1>2
<1>6. Clean(u) /\ FrameOK(Last(s))
  BY <1>1, <1>2, <1>3, <1>4 DEF Clean
<1>7. Halts(s) <=> Halts(u) \/ Last(s).todo \in HaltTodo
  <2>1. Halts(s) => Halts(u) \/ Last(s).todo \in HaltTodo
    BY <1>1, <1>2, <1>3, <1>4, <1>5 DEF Halts
  <2>2. Last(s).todo \in HaltTodo => Halts(s)
    BY <1>2, <1>3 DEF Halts
  <2>3. Halts(u) => Halts(s)
    BY <1>1, <1>2, <1>4 DEF Halts
  <2> QED
    BY <2>1, <2>2, <2>3
<1>8. Serves(s) <=> Last(s).todo = handler_steps
  BY <1>3 DEF Serves
<1>9. EndedBelow(s) => EndedBelow(u) /\ ~Serves(u)
  BY <1>1, <1>2, <1>4 DEF EndedBelow, Serves
<1> QED
  BY <1>1, <1>3, <1>4, <1>6, <1>7, <1>8, <1>9

(* The invariant after a step that gives the running thread the stack s.   *)
LEMMA StackStep ==
  ASSUME IInv, SInv, NEW s, Clean(s), stack' = [stack EXCEPT ![curr_task] = s],
         Halts(stack[curr_task]) => Halts(s),
         UNCHANGED <<phase, curr_task, imr, idt_table>>,
         /\ ~Halts(s) /\ EndedBelow(stack[curr_task])
         /\ phase # "reset" => isr = PicFor(stack[curr_task])
         => EndedBelow(s) /\ (phase # "reset" => isr' = PicFor(s))
  PROVE  SInv'
<1>1. /\ curr_task \in Thread /\ stack'[curr_task] = s
      /\ \A t \in Thread : t # curr_task => stack'[t] = stack[t]
  BY DEF IInv, CpuTypeOK
<1>2. PicTypeOK' /\ (phase' # "reset" => Handled')
  BY DEF SInv, PicTypeOK, Handled, Unmasked
<1>3. \A t \in Thread : Clean(stack'[t])
  BY <1>1 DEF SInv
<1>4. Doom => Doom'
  BY <1>1 DEF Doom
<1>5. ~Doom' => ~Halts(s)
  BY <1>1 DEF Doom
<1>6. ASSUME ~Doom'
      PROVE  /\ EndedBelow(s) /\ (phase # "reset" => isr' = PicFor(s))
             /\ \A t \in Thread : t # curr_task => EndedBelow(stack'[t]) /\ ~Serves(stack'[t])
  BY <1>1, <1>4, <1>5, <1>6 DEF SInv
<1>7. ~Doom' => \A t \in Thread : /\ EndedBelow(stack'[t])
                                  /\ t # curr_task' => ~Serves(stack'[t])
  BY <1>1, <1>6
<1>8. ~Doom' /\ phase' # "reset" => isr' = PicFor(stack'[curr_task'])
  BY <1>1, <1>6
<1> QED
  BY <1>2, <1>3, <1>7, <1>8 DEF SInv

(* The facts about the running stack that the steps start from.            *)
LEMMA RunningFacts ==
  ASSUME IInv, SInv
  PROVE  /\ curr_task \in Thread /\ stack \in [Thread -> Seq(Frame)]
         /\ stack[curr_task] \in Seq(Frame) /\ Clean(stack[curr_task])
         /\ Busy <=> stack[curr_task] # << >>
         /\ Top = Last(stack[curr_task])
BY DEF IInv, CpuTypeOK, SInv, Busy, Top, Running

(* The top frame is replaced by one with the same steps, or with one step  *)
(* less that is not the end of interrupt.                                  *)
LEMMA ReplaceTodo ==
  ASSUME IInv, SInv, Busy, NEW f \in Frame, FrameOK(f),
         Top.todo # handler_steps, f.todo # handler_steps,
         Top.todo \in HaltTodo <=> f.todo \in HaltTodo
  PROVE  LET s == stack[curr_task]
             u == Append(Front(s), f)
         IN  /\ u \in Seq(Frame) /\ Clean(u) /\ (Halts(u) <=> Halts(s)) /\ ~Serves(u)
             /\ EndedBelow(s) => EndedBelow(u)
             /\ PicFor(u) = PicFor(s)
<1>1. PICK s : s = stack[curr_task] /\ s \in Seq(Frame) /\ s # << >> /\ Clean(s) /\ Last(s) = Top
  BY RunningFacts
<1>2. /\ Front(s) \in Seq(Frame) /\ Clean(Front(s))
      /\ Halts(s) <=> Halts(Front(s)) \/ Top.todo \in HaltTodo
      /\ Serves(s) <=> Top.todo = handler_steps
      /\ EndedBelow(s) => EndedBelow(Front(s)) /\ ~Serves(Front(s))
  BY <1>1, PopTodo
<1>3. PICK w : w = Front(s)
  OBVIOUS
<1>4. PICK u : u = Append(w, f)
  OBVIOUS
<1>5. u \in Seq(Frame)
  BY <1>2, <1>3, <1>4
<1>6. /\ Clean(u) /\ (Halts(u) <=> Halts(w) \/ f.todo \in HaltTodo)
      /\ Serves(u) <=> f.todo = handler_steps
      /\ EndedBelow(w) /\ ~Serves(w) => EndedBelow(u)
  BY <1>2, <1>3, <1>4, PushTodo
<1>7. PicFor(u) = PicFor(s)
  BY <1>2, <1>6 DEF PicFor
<1> QED
  BY <1>1, <1>2, <1>3, <1>4, <1>5, <1>6, <1>7
-----------------------------------------------------------------------------
LEMMA ServiceInit == IInit => SInv
<1> SUFFICES ASSUME IInit PROVE SInv
  OBVIOUS
<1>1. phase = "reset" /\ \A t \in Thread : stack[t] = << >>
  BY DEF IInit, Thread
<1>2. PicTypeOK
  BY DEF IInit, PicTypeOK
<1>3. Clean(<< >>) /\ EndedBelow(<< >>) /\ ~Serves(<< >>)
  BY DEF Clean, EndedBelow, Serves
<1> QED
  BY <1>1, <1>2, <1>3 DEF SInv

(* A step that leaves the stacks and the lines in service alone.           *)
LEMMA QuietStep ==
  ASSUME SInv, UNCHANGED <<stack, curr_task, isr>>, phase # "reset" \/ phase' = phase,
         PicTypeOK', phase' # "reset" => Handled'
  PROVE  SInv'
BY DEF SInv, Doom

(* The bit of the mask that irq_enable and irq_disable change.             *)
LEMMA MaskFacts ==
  ASSUME NEW m \in [0..1 -> SUBSET (0..7)], NEW line \in Line
  PROVE  /\ irq_enable(m, line + IRQ_PIC_START) = [m EXCEPT ![chip(line)] = @ \ {pin(line)}]
         /\ irq_disable(m, line + IRQ_PIC_START) = [m EXCEPT ![chip(line)] = @ \union {pin(line)}]
<1>1. PICK k : k = (line + IRQ_PIC_START) - IRQ_PIC_START
  OBVIOUS
<1>2. k = line /\ line \in 0..15 /\ ~(k < 0)
  BY <1>1, LineFacts DEF IRQ_PIC_START
<1>3. /\ irq_enable(m, line + IRQ_PIC_START)
           = IF k < 8 THEN [m EXCEPT ![0] = @ \ {k}] ELSE [m EXCEPT ![1] = @ \ {k - 8}]
      /\ irq_disable(m, line + IRQ_PIC_START)
           = IF k < 8 THEN [m EXCEPT ![0] = @ \union {k}] ELSE [m EXCEPT ![1] = @ \union {k - 8}]
  BY <1>1, <1>2, Zenon DEF irq_enable, irq_disable
<1>4. CASE line < 8
  BY <1>2, <1>3, <1>4, LineFacts
<1>5. CASE ~(line < 8)
  BY <1>2, <1>3, <1>5, LineFacts
<1> QED
  BY <1>4, <1>5

(* Installing and enabling a line, or disabling it.                        *)
LEMMA SetUpFacts ==
  ASSUME SInv, NEW line \in Line, phase # "reset",
         set_up(line) \/ (imr' = irq_disable(imr, line + IRQ_PIC_START) /\ idt_table' = idt_table)
  PROVE  PicTypeOK' /\ Handled'
<1>1. PicTypeOK /\ Handled
  BY DEF SInv
<1>2. PICK v : v = line + IRQ_PIC_START
  OBVIOUS
<1>3. /\ line \in 0..15 /\ v = line + 32 /\ v - IRQ_PIC_START = line /\ v < IDE_TABLE_NR
      /\ ~(v >= IDE_TABLE_NR) /\ v \in DOMAIN idt_table
  BY <1>1, <1>2, LineFacts DEF IRQ_PIC_START, IDE_TABLE_NR, PicTypeOK
<1>4. PICK c, k : c = chip(line) /\ k = pin(line)
  OBVIOUS
<1>5. /\ c \in 0..1 /\ k \in 0..7 /\ (line < 8 => c = 0 /\ k = line)
      /\ (~(line < 8) => c = 1 /\ k = line - 8)
  BY <1>4, LineFacts
<1>6. \A l \in Line : chip(l) = c /\ pin(l) = k => l = line
  BY <1>4, LineFacts
<1>7. CASE set_up(line)
  <2>1. idt_table' = [idt_table EXCEPT ![v] = "handler"]
    BY <1>2, <1>3, <1>7 DEF set_up, irq_install
  <2>2. imr' = [imr EXCEPT ![c] = @ \ {k}]
    BY <1>1, <1>4, <1>7, MaskFacts DEF set_up, PicTypeOK
  <2>3. PicTypeOK'
    BY <1>1, <1>5, <2>1, <2>2 DEF PicTypeOK
  <2>4. ASSUME NEW l \in Line, Unmasked(l)'
        PROVE  idt_table'[l + IRQ_PIC_START] = "handler"
    <3>1. CASE l = line
      BY <1>2, <1>3, <2>1, <3>1
    <3>2. CASE l # line
      <4>1. Unmasked(l)
        BY <1>1, <1>5, <1>6, <2>2, <2>4, <3>2, LineFacts DEF Unmasked, PicTypeOK
      <4>2. l + IRQ_PIC_START # v
        BY <1>2, <3>2, LineFacts DEF IRQ_PIC_START
      <4>3. idt_table[l + IRQ_PIC_START] = "handler"
        BY <1>1, <4>1 DEF Handled
      <4>4. l + IRQ_PIC_START \in DOMAIN idt_table
        BY <1>1 DEF PicTypeOK
      <4> QED
        BY <1>1, <2>1, <4>2, <4>3, <4>4 DEF PicTypeOK
    <3> QED
      BY <3>1, <3>2
  <2> QED
    BY <2>3, <2>4 DEF Handled
<1>8. CASE imr' = irq_disable(imr, line + IRQ_PIC_START) /\ idt_table' = idt_table
  <2>1. imr' = [imr EXCEPT ![c] = @ \union {k}]
    BY <1>1, <1>4, <1>8, MaskFacts DEF PicTypeOK
  <2>2. PicTypeOK'
    BY <1>1, <1>5, <1>8, <2>1 DEF PicTypeOK
  <2>3. \A l \in Line : Unmasked(l)' => Unmasked(l)
    BY <1>1, <1>5, <2>1, LineFacts DEF Unmasked, PicTypeOK
  <2> QED
    BY <1>1, <1>8, <2>2, <2>3 DEF Handled
<1> QED
  BY <1>7, <1>8

(* irq_init: the controllers are reset and every line is masked.           *)
LEMMA ServiceReset ==
  ASSUME IInv, SInv, irq_init
  PROVE  SInv'
<1>1. /\ phase' = "irq" /\ UNCHANGED <<stack, curr_task>> /\ isr' = NoService
      /\ imr' = init_pic /\ idt_table' = [v \in DOMAIN idt_table |-> "unknown"]
      /\ stack[curr_task] = << >>
  BY DEF irq_init, cpu, Busy, Running, NoService
<1>2. PicTypeOK'
  BY <1>1 DEF SInv, PicTypeOK, init_pic
<1>3. Handled'
  BY <1>1, LineFacts DEF Handled, Unmasked, init_pic
<1>4. isr' = PicFor(stack'[curr_task'])
  BY <1>1 DEF PicFor, Serves
<1> QED
  BY <1>1, <1>2, <1>3, <1>4 DEF SInv, Doom

(* The first task runs: neither boot nor the task is inside of a handler.  *)
LEMMA ServiceFirst ==
  ASSUME IInv, SInv, move_to_first_task
  PROVE  SInv'
<1>1. /\ phase # "reset" /\ phase' # "reset" /\ curr_task' = first_task /\ curr_task # first_task
      /\ UNCHANGED <<stack, isr, imr, idt_table>> /\ stack[curr_task] = << >>
      /\ first_task \in Thread
  BY IrqAssumption DEF move_to_first_task, pic, Busy, Running, IInv, FlagInv, Thread
<1>2. PicTypeOK' /\ Handled'
  BY <1>1 DEF SInv, PicTypeOK, Handled, Unmasked
<1>3. ~Serves(stack[curr_task])
  BY <1>1 DEF Serves
<1>4. ~Doom => ~Serves(stack[first_task])
  BY <1>1 DEF SInv
<1>5. ~Doom' => isr' = PicFor(stack'[curr_task'])
  BY <1>1, <1>3, <1>4 DEF SInv, PicFor, Doom
<1> QED
  BY <1>1, <1>2, <1>3, <1>4, <1>5 DEF SInv, Doom

(* Code that enters a section is not in a handler before its end of        *)
(* interrupt.                                                              *)
LEMMA ServiceEnter ==
  ASSUME IInv, SInv, irq_enter_protection
  PROVE  SInv'
<1> DEFINE f == [kind |-> "section", flag |-> IF_flag, line |-> -1,
                 todo |-> << >>, calls |-> MaxCalls]
<1>1. PICK s : s = stack[curr_task]
  OBVIOUS
<1>2. /\ s \in Seq(Frame) /\ Clean(s) /\ (Busy <=> s # << >>) /\ IF_flag \in BOOLEAN
  BY <1>1, RunningFacts DEF IInv, CpuTypeOK
<1>3. f \in Frame /\ f.todo = << >>
  BY <1>2, IrqAssumption DEF Frame
<1>4. FrameOK(f)
  BY <1>3, TodoFacts DEF FrameOK
<1>5. PICK w : w = Spent
  OBVIOUS
<1>6. /\ w \in Seq(Frame) /\ Clean(w) /\ (Halts(w) <=> Halts(s)) /\ ~Serves(w) /\ ~Serves(s)
      /\ EndedBelow(s) => EndedBelow(w)
  <2>1. CASE ~Busy
    BY <1>1, <1>2, <1>5, <2>1 DEF Spent, Running, Serves
  <2>2. CASE Busy
    <3> DEFINE g == [Top EXCEPT !.calls = @ - 1]
    <3>1. Top.calls > 0 /\ (Top.kind # "section" => Top.todo # << >> /\ Head(Top.todo) = "body")
      BY <2>2 DEF irq_enter_protection, AtWork
    <3>2. Top \in Frame /\ g \in Frame
      BY <2>2, <3>1, TopFrame
    <3>3. g.todo = Top.todo /\ g.kind = Top.kind /\ g.line = Top.line
      BY <3>2 DEF Frame
    <3>4. FrameOK(Top) /\ (Serves(s) <=> Top.todo = handler_steps)
      BY <1>1, <1>2, <2>2, RunningFacts, PopTodo
    <3>5. Top.todo # handler_steps
      BY <3>1, <3>4, TodoFacts DEF FrameOK
    <3>6. FrameOK(g)
      BY <3>3, <3>4 DEF FrameOK
    <3>7. w = Append(Front(s), g)
      BY <1>1, <1>5, <2>2, RunningFacts DEF Spent, WithTop
    <3> HIDE DEF g
    <3> QED
      BY <1>1, <2>2, <3>2, <3>3, <3>4, <3>5, <3>6, <3>7, ReplaceTodo
  <2> QED
    BY <2>1, <2>2
<1>7. stack' = [stack EXCEPT ![curr_task] = Append(w, f)]
  BY <1>5 DEF irq_enter_protection
<1> HIDE DEF f
<1>8. PICK u : u = Append(w, f)
  OBVIOUS
<1>9. /\ Clean(u) /\ (Halts(u) <=> Halts(w)) /\ ~Serves(u)
      /\ EndedBelow(w) /\ ~Serves(w) => EndedBelow(u)
  BY <1>3, <1>4, <1>6, <1>8, PushTodo, TodoFacts
<1>10. PicFor(u) = PicFor(s)
  BY <1>6, <1>9 DEF PicFor
<1>11. UNCHANGED <<phase, curr_task, imr, idt_table, isr>>
  BY DEF irq_enter_protection, pic
<1> QED
  BY <1>1, <1>6, <1>7, <1>8, <1>9, <1>10, <1>11, StackStep

(* A frame that has nothing left to do is popped.                          *)
LEMMA ServicePop ==
  ASSUME IInv, SInv, leave \/ iret
  PROVE  SInv'
<1>1. PICK s : s = stack[curr_task]
  OBVIOUS
<1>2. s \in Seq(Frame) /\ Clean(s) /\ s # << >> /\ Top = Last(s)
  BY <1>1, RunningFacts DEF leave, iret
<1>3. /\ Clean(Front(s)) /\ FrameOK(Top)
      /\ Halts(s) <=> Halts(Front(s)) \/ Top.todo \in HaltTodo
      /\ Serves(s) <=> Top.todo = handler_steps
      /\ EndedBelow(s) => EndedBelow(Front(s)) /\ ~Serves(Front(s))
  BY <1>2, PopTodo
<1>4. Top.todo = << >>
  BY <1>3 DEF leave, iret, FrameOK
<1>5. PICK u : u = Front(s)
  OBVIOUS
<1>6. EndedBelow(s) => PicFor(u) = PicFor(s)
  BY <1>3, <1>4, <1>5, TodoFacts DEF PicFor
<1>7. /\ stack' = [stack EXCEPT ![curr_task] = u]
      /\ UNCHANGED <<phase, curr_task, imr, idt_table, isr>>
  BY <1>1, <1>5 DEF leave, iret, Popped, pic
<1> QED
  BY <1>1, <1>3, <1>4, <1>5, <1>6, <1>7, StackStep, TodoFacts

(* A task switch: no line is in service, neither before nor after it.      *)
LEMMA ServiceSwitch ==
  ASSUME IInv, SInv, NEW to \in Task, task_switch_from_to(to)
  PROVE  SInv'
<1> DEFINE g == [Top EXCEPT !.calls = 0]
<1>1. PICK s : s = stack[curr_task]
  OBVIOUS
<1>2. /\ s \in Seq(Frame) /\ Clean(s) /\ s # << >> /\ Top = Last(s) /\ Busy
      /\ curr_task \in Thread /\ stack \in [Thread -> Seq(Frame)]
  BY <1>1, RunningFacts DEF task_switch_from_to
<1>3. /\ Top.kind = "section" /\ to # curr_task /\ curr_task' = to /\ stack' = WithTop(g)
      /\ UNCHANGED <<phase, isr, imr, idt_table>> /\ phase = "run" /\ to \in Thread
  BY DEF task_switch_from_to, pic, Thread
<1>4. FrameOK(Top) /\ (Serves(s) <=> Top.todo = handler_steps)
  BY <1>2, PopTodo
<1>5. Top.todo = << >> /\ Top.todo # handler_steps /\ ~Serves(s)
  BY <1>3, <1>4, TodoFacts DEF FrameOK
<1>6. g \in Frame /\ g.todo = Top.todo /\ g.kind = Top.kind /\ g.line = Top.line
  BY <1>2, TopFrame DEF Frame
<1>7. FrameOK(g)
  BY <1>4, <1>6 DEF FrameOK
<1> HIDE DEF g
<1>8. PICK u : u = Append(Front(s), g)
  OBVIOUS
<1>9. Clean(u) /\ (Halts(u) <=> Halts(s)) /\ ~Serves(u) /\ (EndedBelow(s) => EndedBelow(u))
  BY <1>1, <1>2, <1>5, <1>6, <1>7, <1>8, ReplaceTodo
<1>10. /\ stack'[curr_task] = u /\ \A t \in Thread : t # curr_task => stack'[t] = stack[t]
  BY <1>1, <1>2, <1>3, <1>8 DEF WithTop
<1>11. Doom <=> Doom'
  BY <1>1, <1>2, <1>9, <1>10 DEF Doom
<1>12. PicTypeOK' /\ Handled'
  BY <1>3 DEF SInv, PicTypeOK, Handled, Unmasked
<1>13. \A t \in Thread : Clean(stack'[t])
  BY <1>9, <1>10 DEF SInv
<1>14. ~Doom' => \A t \in Thread : EndedBelow(stack'[t]) /\ ~Serves(stack'[t])
  BY <1>1, <1>2, <1>9, <1>10, <1>11 DEF SInv
<1>15. ~Doom' => isr' = PicFor(stack'[curr_task'])
  BY <1>1, <1>3, <1>5, <1>11, <1>14 DEF SInv, PicFor
<1> QED
  BY <1>12, <1>13, <1>14, <1>15 DEF SInv

(* An interrupt is taken only outside of the kernel, with no line in       *)
(* service; then exactly its line is.                                      *)
LEMMA ServiceInterrupt ==
  ASSUME IInv, SInv, NEW line \in Line, interrupt(line)
  PROVE  SInv'
<1>1. /\ IF_flag /\ IF_flag \in BOOLEAN /\ curr_task # boot /\ stack[curr_task] = << >>
      /\ phase # "reset"
  BY DEF interrupt, IInv, CpuTypeOK, FlagInv
<1>2. /\ isr' = [isr EXCEPT ![0] = @ \union {first_pin(line)},
                            ![1] = IF chip(line) = 1 THEN @ \union {pin(line)} ELSE @]
      /\ UNCHANGED <<phase, curr_task, imr, idt_table>>
  BY DEF interrupt
<1>3. idt_table[line + IRQ_PIC_START] = "handler"
  BY <1>1 DEF interrupt, Passed, SInv, Handled
<1> DEFINE f == [kind |-> "irq", flag |-> IF_flag, line |-> line,
                 calls |-> MaxCalls, todo |-> handler_steps]
<1>4. stack' = [stack EXCEPT ![curr_task] = Append(<< >>, f)]
  BY <1>1, <1>3, RunningFacts DEF interrupt, Pushed
<1>5. f \in Frame
  BY <1>1, HandlerFrame
<1>6. f.todo = handler_steps /\ f.line = line /\ f.kind = "irq"
  OBVIOUS
<1>7. FrameOK(f)
  BY <1>6, TodoFacts DEF FrameOK
<1> HIDE DEF f
<1>8. PICK u : u = Append(<< >>, f)
  OBVIOUS
<1>9. << >> \in Seq(Frame) /\ Clean(<< >>) /\ EndedBelow(<< >>) /\ ~Serves(<< >>) /\ ~Halts(<< >>)
  BY DEF Clean, EndedBelow, Serves, Halts
<1>10. Clean(u) /\ Serves(u) /\ EndedBelow(u) /\ u[Len(u)] = f
  BY <1>5, <1>6, <1>7, <1>8, <1>9, PushTodo
<1>11. PicFor(u) = ServiceOf(line)
  BY <1>6, <1>10 DEF PicFor
<1>12. isr = PicFor(stack[curr_task]) => isr' = PicFor(u)
  <2> SUFFICES ASSUME isr = NoService PROVE isr' = ServiceOf(line)
    BY <1>1, <1>9, <1>11 DEF PicFor
  <2>1. isr[0] = {} /\ isr[1] = {} /\ isr \in [0..1 -> SUBSET (0..7)]
    BY DEF NoService
  <2>2. isr'[0] = {first_pin(line)} /\ isr'[1] = (IF chip(line) = 1 THEN {pin(line)} ELSE {})
    BY <1>2, <2>1
  <2>3. DOMAIN isr' = 0..1 /\ isr' = [c \in 0..1 |-> isr'[c]]
    BY <1>2, <2>1
  <2>4. \A c \in 0..1 : c = 0 \/ c = 1
    OBVIOUS
  <2>5. \A c \in 0..1 : isr'[c] = ServiceOf(line)[c]
    BY <2>2, <2>4 DEF ServiceOf
  <2>6. ServiceOf(line) = [c \in 0..1 |-> ServiceOf(line)[c]]
    BY DEF ServiceOf
  <2> QED
    BY <2>3, <2>5, <2>6
<1> QED
  BY <1>1, <1>2, <1>4, <1>8, <1>9, <1>10, <1>12, StackStep

(* An exception of the kernel dooms the machine; one of an application     *)
(* comes outside of the kernel.                                            *)
LEMMA ServiceException ==
  ASSUME IInv, SInv, NEW user \in BOOLEAN, exception(user)
  PROVE  SInv'
<1>1. PICK s : s = stack[curr_task]
  OBVIOUS
<1>2. s \in Seq(Frame) /\ Clean(s) /\ IF_flag \in BOOLEAN
  BY <1>1, RunningFacts DEF IInv, CpuTypeOK
<1>3. PICK td \in {<<"body">>, <<"body", "halt">>} :
        /\ stack' = Pushed([kind |-> "exception", flag |-> IF_flag, line |-> -1,
                            calls |-> MaxCalls, todo |-> td])
        /\ td = <<"body">> => s = << >>
  BY <1>1 DEF exception, Busy, Running
<1> DEFINE f == [kind |-> "exception", flag |-> IF_flag, line |-> -1,
                 calls |-> MaxCalls, todo |-> td]
<1>4. f \in Frame
  BY <1>2, HandlerFrame
<1>5. f.todo = td /\ f.kind = "exception"
  OBVIOUS
<1>6. stack' = [stack EXCEPT ![curr_task] = Append(s, f)]
  BY <1>1, <1>3, RunningFacts DEF Pushed
<1> HIDE DEF f
<1>7. td \in Todo /\ td # handler_steps /\ (td # <<"body">> => td \in HaltTodo)
  BY TodoFacts
<1>8. FrameOK(f)
  BY <1>5, <1>7 DEF FrameOK
<1>9. PICK u : u = Append(s, f)
  OBVIOUS
<1>10. /\ Clean(u) /\ (Halts(u) <=> Halts(s) \/ td \in HaltTodo) /\ ~Serves(u)
       /\ EndedBelow(s) /\ ~Serves(s) => EndedBelow(u)
  BY <1>2, <1>4, <1>5, <1>7, <1>8, <1>9, PushTodo
<1>11. ~Halts(u) => ~Serves(s) /\ PicFor(u) = PicFor(s)
  BY <1>3, <1>7, <1>10 DEF Serves, PicFor
<1>12. UNCHANGED <<phase, curr_task, imr, idt_table, isr>>
  BY DEF exception, pic
<1> QED
  BY <1>1, <1>6, <1>9, <1>10, <1>11, <1>12, StackStep

(* The body of a handler ends.                                             *)
LEMMA ServiceBody ==
  ASSUME IInv, SInv, handler_body
  PROVE  SInv'
<1> DEFINE g == [Top EXCEPT !.todo = Tail(@)]
<1>1. PICK s : s = stack[curr_task]
  OBVIOUS
<1>2. /\ s \in Seq(Frame) /\ Clean(s) /\ s # << >> /\ Top = Last(s) /\ Busy
      /\ Top.todo # << >> /\ Head(Top.todo) = "body" /\ Top.kind # "section"
  BY <1>1, RunningFacts DEF handler_body, InHandler
<1>3. FrameOK(Top)
  BY <1>2, PopTodo
<1>4. Top \in Frame /\ g \in Frame
  BY <1>2, TopFrame
<1>5. g.todo = Tail(Top.todo) /\ g.kind = Top.kind
  BY <1>4 DEF Frame
<1>6. stack' = [stack EXCEPT ![curr_task] = Append(Front(s), g)]
  BY <1>1, RunningFacts DEF handler_body, Done, WithTop
<1> HIDE DEF g
<1>7. /\ g.todo \in Todo /\ Top.todo # handler_steps /\ g.todo # handler_steps
      /\ Top.todo \in HaltTodo <=> g.todo \in HaltTodo
  <2>1. PICK td \in Todo : td = Top.todo
    BY <1>3 DEF FrameOK
  <2>2. /\ Tail(td) \in Todo /\ td # handler_steps /\ Tail(td) # handler_steps
        /\ td \in HaltTodo <=> Tail(td) \in HaltTodo
    BY <1>2, <2>1, TodoFacts, Zenon
  <2> QED
    BY <1>5, <2>1, <2>2
<1>8. FrameOK(g)
  BY <1>2, <1>5, <1>7 DEF FrameOK
<1>9. PICK u : u = Append(Front(s), g)
  OBVIOUS
<1>10. /\ Clean(u) /\ (Halts(u) <=> Halts(s)) /\ (EndedBelow(s) => EndedBelow(u))
       /\ PicFor(u) = PicFor(s)
  BY <1>1, <1>2, <1>4, <1>7, <1>8, <1>9, ReplaceTodo
<1>11. UNCHANGED <<phase, curr_task, imr, idt_table, isr>>
  BY DEF handler_body, pic
<1> QED
  BY <1>1, <1>6, <1>9, <1>10, <1>11, StackStep

(* The end of interrupt ends the line of the handler that signals it, and  *)
(* leaves none in service.                                                 *)
LEMMA ServiceEoi ==
  ASSUME IInv, SInv, handler_eoi
  PROVE  SInv'
<1> DEFINE g == [Top EXCEPT !.todo = Tail(@)]
<1>1. PICK s : s = stack[curr_task]
  OBVIOUS
<1>2. /\ s \in Seq(Frame) /\ Clean(s) /\ s # << >> /\ Top = Last(s) /\ Busy
      /\ Top.todo # << >> /\ Head(Top.todo) = "eoi" /\ Top.kind # "section"
  BY <1>1, RunningFacts DEF handler_eoi, InHandler
<1>3. /\ FrameOK(Top) /\ Front(s) \in Seq(Frame) /\ Clean(Front(s)) /\ Last(s) = s[Len(s)]
      /\ Halts(s) <=> Halts(Front(s)) \/ Top.todo \in HaltTodo
      /\ Serves(s) <=> Top.todo = handler_steps
      /\ EndedBelow(s) => EndedBelow(Front(s)) /\ ~Serves(Front(s))
  BY <1>2, PopTodo
<1>4. Top \in Frame /\ g \in Frame
  BY <1>2, TopFrame
<1>5. g.todo = Tail(Top.todo) /\ g.kind = Top.kind
  BY <1>4 DEF Frame
<1>6. stack' = [stack EXCEPT ![curr_task] = Append(Front(s), g)]
  BY <1>1, RunningFacts DEF handler_eoi, Done, WithTop
<1> HIDE DEF g
<1>7. Top.todo = handler_steps /\ Top.line \in Line
  <2>1. PICK td \in Todo : td = Top.todo
    BY <1>3 DEF FrameOK
  <2>2. td = handler_steps
    BY <1>2, <2>1, TodoFacts, Zenon
  <2> QED
    BY <1>3, <2>1, <2>2 DEF FrameOK
<1>8. g.todo = <<"body">>
  BY <1>5, <1>7, TodoFacts
<1>9. FrameOK(g) /\ g.todo \notin HaltTodo /\ g.todo # handler_steps /\ Top.todo \notin HaltTodo
  BY <1>2, <1>5, <1>7, <1>8, TodoFacts DEF FrameOK
<1>10. PICK w : w = Front(s)
  OBVIOUS
<1>11. PICK u : u = Append(w, g)
  OBVIOUS
<1>12. /\ Clean(u) /\ (Halts(u) <=> Halts(w)) /\ ~Serves(u)
       /\ EndedBelow(w) /\ ~Serves(w) => EndedBelow(u)
  BY <1>3, <1>4, <1>9, <1>10, <1>11, PushTodo
<1>13. isr = PicFor(s) => isr' = PicFor(u)
  <2> SUFFICES ASSUME isr = ServiceOf(Top.line) PROVE isr' = NoService
    BY <1>2, <1>3, <1>7, <1>12 DEF PicFor
  <2>1. PICK line \in Line : line = Top.line
    BY <1>7
  <2>2. isr' = pic_send_eoi(isr, line + IRQ_PIC_START)
    BY <2>1 DEF handler_eoi
  <2>3. /\ isr[0] = {first_pin(line)} /\ isr[1] = (IF chip(line) = 1 THEN {pin(line)} ELSE {})
        /\ DOMAIN isr = 0..1 /\ isr = [c \in 0..1 |-> isr[c]]
    BY <2>1 DEF ServiceOf
  <2>4. /\ {i \in isr[0] : \E j \in isr[0] : j < i} = {}
        /\ {i \in isr[1] : \E j \in isr[1] : j < i} = {}
    BY <2>3, LineFacts
  <2>5. ((line + IRQ_PIC_START) - IRQ_PIC_START >= 8) <=> chip(line) = 1
    BY LineFacts DEF IRQ_PIC_START
  <2>6. PICK s1 : s1 = IF chip(line) = 1 THEN end_of_interrupt(isr, 1) ELSE isr
    OBVIOUS
  <2>7. isr' = end_of_interrupt(s1, 0)
    BY <2>2, <2>5, <2>6 DEF pic_send_eoi
  <2>8. s1[1] = {} /\ s1[0] = isr[0] /\ DOMAIN s1 = 0..1 /\ s1 = [c \in 0..1 |-> s1[c]]
    BY <2>3, <2>4, <2>6 DEF end_of_interrupt
  <2>9. isr' = [s1 EXCEPT ![0] = {}]
    BY <2>4, <2>7, <2>8 DEF end_of_interrupt
  <2>10. isr'[0] = {} /\ isr'[1] = {} /\ isr' = [c \in 0..1 |-> isr'[c]]
    <3>1. PICK r : r = [s1 EXCEPT ![0] = {}]
      OBVIOUS
    <3>2. 0 \in DOMAIN s1 /\ 1 \in DOMAIN s1 /\ DOMAIN r = 0..1
      BY <2>8, <3>1
    <3>3. r[0] = {} /\ r[1] = {}
      BY <2>8, <3>1, <3>2
    <3>4. r = [c \in DOMAIN r |-> r[c]]
      BY <3>1, Zenon
    <3> QED
      BY <2>9, <3>1, <3>2, <3>3, <3>4
  <2>11. \A c \in 0..1 : isr'[c] = {}
    <3>1. \A c \in 0..1 : c = 0 \/ c = 1
      OBVIOUS
    <3> QED
      BY <2>10, <3>1
  <2> QED
    BY <2>10, <2>11 DEF NoService
<1>14. UNCHANGED <<phase, curr_task, imr, idt_table>>
  BY DEF handler_eoi
<1> QED
  BY <1>1, <1>3, <1>6, <1>9, <1>10, <1>11, <1>12, <1>13, <1>14, StackStep

(* Every step of the program, of the devices and of the 8259s keeps it.    *)
LEMMA ServiceStep == IInv /\ SInv /\ [INext]_ivars => SInv'
<1> SUFFICES ASSUME IInv, SInv, [INext]_ivars
             PROVE  SInv'
  OBVIOUS
<1>1. CASE time_init
  <2>1. Timer \in Line
    BY DEF Line
  <2>2. PicTypeOK' /\ Handled'
    BY <1>1, <2>1, SetUpFacts DEF time_init
  <2> QED
    BY <1>1, <2>2, QuietStep DEF time_init, cpu
<1>2. ASSUME NEW line \in DriverLine, driver_start(line) \/ driver_stop(line)
      PROVE  SInv'
  <2>1. line \in Line
    BY DEF Line
  <2>2. phase # "reset" /\ UNCHANGED <<phase, stack, curr_task, isr>>
    BY <1>2 DEF driver_start, driver_stop, cpu
  <2>3. PicTypeOK' /\ Handled'
    BY <1>2, <2>1, <2>2, SetUpFacts DEF driver_start, driver_stop
  <2> QED
    BY <2>2, <2>3, QuietStep
<1>3. CASE handler_halt \/ UNCHANGED ivars \/ \E line \in Line : request(line)
  <2>1. UNCHANGED <<phase, stack, curr_task, isr, imr, idt_table>>
    BY <1>3 DEF handler_halt, ivars, request, cpu, pic
  <2>2. PicTypeOK' /\ (phase' # "reset" => Handled')
    BY <2>1 DEF SInv, PicTypeOK, Handled, Unmasked
  <2> QED
    BY <2>1, <2>2, QuietStep
<1> QED
  BY <1>1, <1>2, <1>3, ServiceReset, ServiceFirst, ServiceEnter, ServicePop, ServiceSwitch,
     ServiceInterrupt, ServiceException, ServiceBody, ServiceEoi
     DEF INext, StartUp, Proceed

(* The invariant says what ServiceExact says.                              *)
LEMMA ServiceImplied == IInv /\ SInv => ServiceExact
<1> SUFFICES ASSUME IInv, SInv, phase # "reset", ~Doomed
             PROVE  LET Serving(line) == \E i \in DOMAIN stack[curr_task] :
                                            /\ stack[curr_task][i].line = line
                                            /\ "eoi" \in ToSet(stack[curr_task][i].todo)
                    IN  /\ \A line \in Line : InService(line) <=> Serving(line)
                        /\ 2 \in isr[0] <=> isr[1] # {}
                        /\ \A line \in Line : Unmasked(line) =>
                              idt_table[line + IRQ_PIC_START] = "handler"
  BY DEF ServiceExact
<1>1. PICK s : s = stack[curr_task] /\ s \in Seq(Frame) /\ Clean(s) /\ curr_task \in Thread
  BY RunningFacts
<1>2. DOMAIN s = 1..Len(s) /\ Len(s) \in Nat
  BY <1>1
<1>3. ~Doom
  <2> SUFFICES ASSUME NEW t \in Thread, Halts(stack[t]) PROVE FALSE
    BY DEF Doom
  <2>1. stack[t] \in Seq(Frame) /\ Clean(stack[t])
    BY DEF IInv, CpuTypeOK, SInv
  <2>2. PICK i \in 1..Len(stack[t]) : stack[t][i].todo \in HaltTodo
    BY DEF Halts
  <2>3. i \in DOMAIN stack[t] /\ stack[t][i].todo \in Todo
    BY <2>1, <2>2 DEF Clean, FrameOK
  <2>4. "halt" \in ToSet(stack[t][i].todo)
    BY <2>2, <2>3, TodoSets
  <2> QED
    BY <2>3, <2>4 DEF Doomed, Thread
<1>4. isr = PicFor(s) /\ EndedBelow(s) /\ Handled
  BY <1>1, <1>3 DEF SInv
<1>5. \A i \in 1..Len(s) : ("eoi" \in ToSet(s[i].todo)) <=> (i = Len(s) /\ Serves(s))
  <2> SUFFICES ASSUME NEW i \in 1..Len(s)
               PROVE  ("eoi" \in ToSet(s[i].todo)) <=> (i = Len(s) /\ Serves(s))
    OBVIOUS
  <2>1. ("eoi" \in ToSet(s[i].todo)) <=> s[i].todo = handler_steps
    BY <1>1, TodoSets DEF Clean, FrameOK
  <2>2. CASE i = Len(s)
    BY <1>1, <1>2, <2>1, <2>2 DEF Serves
  <2>3. CASE i # Len(s)
    <3>1. i \in 1..(Len(s) - 1)
      BY <1>1, <2>3
    <3> QED
      BY <1>4, <2>1, <2>3, <3>1 DEF EndedBelow
  <2> QED
    BY <2>2, <2>3
<1>6. ASSUME Serves(s)
      PROVE  /\ Len(s) \in 1..Len(s) /\ s[Len(s)].line \in Line
             /\ isr[0] = {first_pin(s[Len(s)].line)}
             /\ isr[1] = (IF chip(s[Len(s)].line) = 1 THEN {pin(s[Len(s)].line)} ELSE {})
  <2>1. Len(s) \in 1..Len(s)
    BY <1>1, <1>2, <1>6 DEF Serves
  <2>2. s[Len(s)].line \in Line
    BY <1>1, <1>6, <2>1 DEF Clean, FrameOK, Serves
  <2> QED
    BY <1>4, <1>6, <2>1, <2>2 DEF PicFor, ServiceOf
<1>7. ASSUME ~Serves(s) PROVE isr[0] = {} /\ isr[1] = {}
  BY <1>4, <1>7 DEF PicFor, NoService
<1>8. \A line \in Line : InService(line) <=>
         \E i \in DOMAIN s : s[i].line = line /\ "eoi" \in ToSet(s[i].todo)
  <2> SUFFICES ASSUME NEW line \in Line
               PROVE  InService(line) <=>
                        \E i \in DOMAIN s : s[i].line = line /\ "eoi" \in ToSet(s[i].todo)
    OBVIOUS
  <2>1. CASE Serves(s)
    <3>1. PICK l \in Line : l = s[Len(s)].line
      BY <1>6, <2>1
    <3>2. InService(line) <=> line = l
      BY <1>6, <2>1, <3>1, LineFacts DEF InService, first_pin
    <3>3. (\E i \in DOMAIN s : s[i].line = line /\ "eoi" \in ToSet(s[i].todo)) <=> line = l
      BY <1>2, <1>5, <1>6, <2>1, <3>1
    <3> QED
      BY <3>2, <3>3
  <2>2. CASE ~Serves(s)
    <3>1. ~InService(line)
      BY <1>7, <2>2, LineFacts DEF InService
    <3> QED
      BY <1>2, <1>5, <2>2, <3>1
  <2> QED
    BY <2>1, <2>2
<1>9. 2 \in isr[0] <=> isr[1] # {}
  <2>1. CASE Serves(s)
    <3>1. PICK l \in Line : l = s[Len(s)].line
      BY <1>6, <2>1
    <3>2. chip(l) \in 0..1 /\ pin(l) \in 0..7 /\ l # 2 /\ (chip(l) = 0 => pin(l) = l)
      BY LineFacts
    <3>3. isr[0] = {first_pin(l)} /\ isr[1] = (IF chip(l) = 1 THEN {pin(l)} ELSE {})
      BY <1>6, <2>1, <3>1
    <3>4. CASE chip(l) = 0
      BY <3>2, <3>3, <3>4 DEF first_pin
    <3>5. CASE chip(l) = 1
      BY <3>3, <3>5 DEF first_pin
    <3> QED
      BY <3>2, <3>4, <3>5
  <2>2. CASE ~Serves(s)
    BY <1>7, <2>2
  <2> QED
    BY <2>1, <2>2
<1> QED
  BY <1>1, <1>4, <1>8, <1>9 DEF Handled

(* A line is in service exactly from the acceptance of its interrupt to    *)
(* its handler's end of interrupt, in both controllers, and a line that    *)
(* can interrupt has a handler: for every set of tasks and driver lines,   *)
(* every depth of nesting and every order of requests, exceptions and task *)
(* switches.                                                               *)
THEOREM ServiceSafe == ISpec => []ServiceExact
<1>1. ISpec => [](IInv /\ SInv)
  BY FlagInit, FlagStep, ServiceInit, ServiceStep, PTL DEF ISpec
<1> QED
  BY <1>1, ServiceImplied, PTL
-----------------------------------------------------------------------------
(* tss_init takes all or nothing, for every number of tasks, GDT entries   *)
(* and pages, and uses the page allocator as it is meant to be used.       *)

\* The places that name a GDT entry or a page: fields of a task, and the
\* local variables of its tss_init.
SelPlace == Proc \X {"tss", "local"}
PagePlace == Proc \X {"stack", "dir", "local"}

Desc == [x \in SelPlace |-> IF x[2] = "tss" THEN tss_sel[x[1]] ELSE sel[x[1]]]
Addr == [x \in PagePlace |-> CASE x[2] = "stack" -> stack_page[x[1]]
                                [] x[2] = "dir" -> cr3[x[1]]
                                [] OTHER -> page[x[1]]]

(* What a task has at each point of its life.                              *)
Shape(p) ==
    /\ at[p] \in {"start", "stack", "dir", "undo", "done"}
    /\ sel[p] # 0 <=> at[p] \in {"stack", "dir"}
    /\ page[p] # 0 <=> at[p] \in {"dir", "undo"}
    /\ tss_sel[p] # 0 <=> at[p] = "done"
    /\ stack_page[p] # 0 <=> at[p] = "done"
    /\ at[p] = "dir" => esp0[p] = page[p] + page_size
    /\ cr3[p] # 0 => at[p] = "done"

(* The inductive invariant.                                                *)
TInv ==
    /\ PAInv
    /\ TTypeOK
    /\ \A p \in Proc : Shape(p)
    /\ Reserved \subseteq gdt
    /\ OneEach(SelPlace, Desc, gdt \ Reserved)
    /\ OneEach(PagePlace, Addr, held)

(* The fields that the places stand for.                                   *)
LEMMA PlaceFacts ==
  /\ \A x \in SelPlace : \E p \in Proc : x = <<p, "tss">> \/ x = <<p, "local">>
  /\ \A x \in PagePlace : \E p \in Proc :
        x = <<p, "stack">> \/ x = <<p, "dir">> \/ x = <<p, "local">>
  /\ \A p \in Proc : /\ <<p, "tss">> \in SelPlace /\ <<p, "local">> \in SelPlace
                     /\ <<p, "stack">> \in PagePlace /\ <<p, "dir">> \in PagePlace
                     /\ <<p, "local">> \in PagePlace
BY DEF SelPlace, PagePlace

LEMMA DescFacts ==
  /\ \A p \in Proc : Desc[<<p, "tss">>] = tss_sel[p] /\ Desc[<<p, "local">>] = sel[p]
  /\ \A p \in Proc : Desc'[<<p, "tss">>] = tss_sel'[p] /\ Desc'[<<p, "local">>] = sel'[p]
BY PlaceFacts DEF Desc

LEMMA AddrFacts ==
  /\ \A p \in Proc : /\ Addr[<<p, "stack">>] = stack_page[p]
                     /\ Addr[<<p, "dir">>] = cr3[p]
                     /\ Addr[<<p, "local">>] = page[p]
  /\ \A p \in Proc : /\ Addr'[<<p, "stack">>] = stack_page'[p]
                     /\ Addr'[<<p, "dir">>] = cr3'[p]
                     /\ Addr'[<<p, "local">>] = page'[p]
BY PlaceFacts DEF Addr

(* A step of one task leaves the places of the others alone.               *)
LEMMA OtherDesc ==
  ASSUME NEW p \in Proc,
         \A q \in Proc : q # p => tss_sel'[q] = tss_sel[q] /\ sel'[q] = sel[q]
  PROVE  \A x \in SelPlace : x # <<p, "tss">> /\ x # <<p, "local">> => Desc'[x] = Desc[x]
<1> SUFFICES ASSUME NEW x \in SelPlace, x # <<p, "tss">>, x # <<p, "local">>
             PROVE  Desc'[x] = Desc[x]
  OBVIOUS
<1>1. PICK q \in Proc : x = <<q, "tss">> \/ x = <<q, "local">>
  BY PlaceFacts
<1>2. q # p
  BY <1>1
<1>3. tss_sel'[q] = tss_sel[q] /\ sel'[q] = sel[q]
  BY <1>2
<1>4. CASE x = <<q, "tss">>
  BY <1>3, <1>4, DescFacts
<1>5. CASE x = <<q, "local">>
  BY <1>3, <1>5, DescFacts
<1> QED
  BY <1>1, <1>4, <1>5

LEMMA OtherAddr ==
  ASSUME NEW p \in Proc,
         \A q \in Proc : q # p => /\ stack_page'[q] = stack_page[q]
                                 /\ cr3'[q] = cr3[q] /\ page'[q] = page[q]
  PROVE  \A x \in PagePlace : x # <<p, "stack">> /\ x # <<p, "dir">> /\ x # <<p, "local">>
                               => Addr'[x] = Addr[x]
<1> SUFFICES ASSUME NEW x \in PagePlace, x # <<p, "stack">>, x # <<p, "dir">>, x # <<p, "local">>
             PROVE  Addr'[x] = Addr[x]
  OBVIOUS
<1>1. PICK q \in Proc : x = <<q, "stack">> \/ x = <<q, "dir">> \/ x = <<q, "local">>
  BY PlaceFacts
<1>2. q # p
  BY <1>1
<1>3. stack_page'[q] = stack_page[q] /\ cr3'[q] = cr3[q] /\ page'[q] = page[q]
  BY <1>2
<1>4. CASE x = <<q, "stack">>
  BY <1>3, <1>4, AddrFacts
<1>5. CASE x = <<q, "dir">>
  BY <1>3, <1>5, AddrFacts
<1>6. CASE x = <<q, "local">>
  BY <1>3, <1>6, AddrFacts
<1> QED
  BY <1>1, <1>4, <1>5, <1>6

(* The types that the steps need.                                          *)
LEMMA TypeFacts ==
  ASSUME TTypeOK
  PROVE  /\ tss_sel \in [Proc -> Nat] /\ sel \in [Proc -> Nat]
         /\ stack_page \in [Proc -> Int] /\ esp0 \in [Proc -> Nat] /\ cr3 \in [Proc -> Nat] /\ page \in [Proc -> Nat]
         /\ at \in [Proc -> {"start", "stack", "dir", "undo", "done"}]
         /\ gdt \subseteq Nat \ {0}
BY TssAssumption, PageAllocAssumption DEF TTypeOK, stack_page

(* What a step of one task does to the stacks of finished tasks.           *)
LEMMA StackPageAt ==
  /\ stack_page = [q \in Proc |-> stack_page[q]]
  /\ stack_page' = [q \in Proc |-> stack_page'[q]]
  /\ \A q \in Proc :
        /\ stack_page[q] = IF at[q] = "done" THEN esp0[q] - page_size ELSE 0
        /\ stack_page'[q] = IF at'[q] = "done" THEN esp0'[q] - page_size ELSE 0
BY DEF stack_page

LEMMA StackPageSet ==
  ASSUME NEW p \in Proc, NEW v, v = IF at'[p] = "done" THEN esp0'[p] - page_size ELSE 0,
         \A q \in Proc : q # p => at'[q] = at[q] /\ esp0'[q] = esp0[q]
  PROVE  stack_page' = [stack_page EXCEPT ![p] = v]
<1>1. \A q \in Proc : stack_page'[q] = IF q = p THEN v ELSE stack_page[q]
  BY StackPageAt
<1> QED
  BY <1>1, StackPageAt

LEMMA StackPageSame ==
  ASSUME NEW p \in Proc, at[p] # "done", at'[p] # "done",
         \A q \in Proc : q # p => at'[q] = at[q] /\ esp0'[q] = esp0[q]
  PROVE  stack_page' = stack_page
<1>1. \A q \in Proc : stack_page'[q] = stack_page[q]
  BY StackPageAt
<1> QED
  BY <1>1, StackPageAt

(* Resetting a selector keeps its type.                                    *)
LEMMA SetType ==
  \A f \in [Proc -> 0..(GDT_TABLE_SIZE-1)], p \in Proc :
     [f EXCEPT ![p] = 0] \in [Proc -> 0..(GDT_TABLE_SIZE-1)]
<1>1. 0 \in 0..(GDT_TABLE_SIZE-1)
  BY TssAssumption
<1> QED
  BY <1>1
-----------------------------------------------------------------------------
LEMMA TInitInv == TInit => TInv
<1> SUFFICES ASSUME TInit PROVE TInv
  OBVIOUS
<1> USE TssAssumption
<1>1. PAInv
  BY PAInitInv DEF TInit
<1>2. TTypeOK
  BY DEF TInit, TTypeOK
<1>3. \A p \in Proc : Shape(p)
  BY DEF TInit, Shape, stack_page
<1>4. gdt = Reserved /\ held = {}
  BY DEF TInit, PAInit
<1>5. \A x \in SelPlace : Desc[x] = 0
  BY PlaceFacts, DescFacts DEF TInit, Desc
<1>6. \A x \in PagePlace : Addr[x] = 0
  BY PlaceFacts, AddrFacts DEF TInit, Addr, stack_page
<1>7. OneEach(SelPlace, Desc, gdt \ Reserved)
  BY <1>4, <1>5 DEF OneEach
<1>8. OneEach(PagePlace, Addr, held)
  BY <1>4, <1>6 DEF OneEach
<1> QED
  BY <1>1, <1>2, <1>3, <1>4, <1>7, <1>8 DEF TInv

LEMMA AllocDescInv ==
  ASSUME TInv, NEW p \in Proc, gdt_alloc_desc(p)
  PROVE  TInv'
<1> USE TssAssumption
<1>1. PICK v : v = Min(FreeDesc)
  OBVIOUS
<1>2. v \in 1..(GDT_TABLE_SIZE-1) /\ v \notin gdt
  <2>1. FreeDesc \in SUBSET Nat /\ FreeDesc # {}
    BY DEF gdt_alloc_desc, FreeDesc
  <2>2. v \in FreeDesc
    BY <1>1, <2>1, MinNat
  <2> QED
    BY <2>2 DEF FreeDesc
<1>3. /\ at[p] = "start" /\ gdt' = gdt \union {v}
      /\ sel' = [sel EXCEPT ![p] = v] /\ at' = [at EXCEPT ![p] = "stack"]
      /\ UNCHANGED <<bits, held, tss_sel, stack_page, cr3, page>>
      /\ esp0' = [esp0 EXCEPT ![p] = 0]
  <2>1. /\ at[p] = "start" /\ gdt' = gdt \union {v}
        /\ sel' = [sel EXCEPT ![p] = v] /\ at' = [at EXCEPT ![p] = "stack"]
        /\ UNCHANGED <<bits, held, tss_sel, page>>
        /\ esp0' = [esp0 EXCEPT ![p] = 0] /\ cr3' = [cr3 EXCEPT ![p] = 0]
    BY <1>1 DEF gdt_alloc_desc, pavars
  <2>2. cr3[p] = 0 /\ TTypeOK /\ cr3 \in [Proc -> Nat] /\ esp0 \in [Proc -> Nat]
    BY <2>1, TypeFacts DEF TInv, Shape
  <2>3. cr3' = cr3
    BY <2>1, <2>2
  <2>4. stack_page' = stack_page
    <3>1. /\ at[p] # "done" /\ at'[p] # "done"
          /\ \A q \in Proc : q # p => at'[q] = at[q] /\ esp0'[q] = esp0[q]
      BY <2>1, <2>2, TypeFacts
    <3> QED
      BY <3>1, StackPageSame, Zenon
  <2> QED
    BY <2>1, <2>3, <2>4
<1>4. TTypeOK'
  BY <1>2, <1>3 DEF TInv, TTypeOK
<1>5. PAInv'
  BY <1>3 DEF TInv, PAInv, PATypeOK, BitsAreHeld
<1>6. \A q \in Proc : Shape(q)'
  BY <1>2, <1>3 DEF TInv, TTypeOK, Shape
<1>7. OneEach(SelPlace, Desc', gdt' \ Reserved)
  <2>1. \A x \in SelPlace : x # <<p, "tss">> /\ x # <<p, "local">> => Desc'[x] = Desc[x]
    BY <1>3, OtherDesc, TypeFacts DEF TInv
  <2>0. Desc'[<<p, "local">>] = v /\ Desc'[<<p, "tss">>] = Desc[<<p, "tss">>]
    BY <1>3, DescFacts, TypeFacts DEF TInv
  <2>2. \A x \in SelPlace : Desc'[x] = IF x = <<p, "local">> THEN v ELSE Desc[x]
    BY <2>0, <2>1
  <2>3. Desc[<<p, "local">>] = 0 /\ <<p, "local">> \in SelPlace
    BY <1>3, PlaceFacts, DescFacts DEF TInv, Shape
  <2>4. v \notin Reserved /\ gdt' \ Reserved = (gdt \ Reserved) \union {v} /\ v # 0
    BY <1>2, <1>3 DEF TInv
  <2>5. OneEach(SelPlace, Desc, gdt \ Reserved) /\ v \notin gdt \ Reserved
    BY <1>2 DEF TInv
  <2>6. OneEach(SelPlace, Desc', (gdt \ Reserved) \union {v})
    BY <2>2, <2>3, <2>4, <2>5, TakeOne
  <2> QED
    BY <2>4, <2>6
<1>8. OneEach(PagePlace, Addr', held')
  BY <1>3 DEF TInv, Addr
<1>9. (Reserved \subseteq gdt)'
  BY <1>3 DEF TInv
<1> QED
  BY <1>4, <1>5, <1>6, <1>7, <1>8, <1>9 DEF TInv

(* A task gives a GDT entry back, from the place z.                        *)
LEMMA FreeSelFacts ==
  ASSUME TInv, NEW z \in SelPlace, Desc[z] # 0, gdt' = gdt \ {Desc[z]},
         NEW e, \A x \in SelPlace : e[x] = IF x = z THEN 0 ELSE Desc[x]
  PROVE  OneEach(SelPlace, e, gdt' \ Reserved) /\ Reserved \subseteq gdt'
<1>1. OneEach(SelPlace, e, (gdt \ Reserved) \ {Desc[z]}) /\ Desc[z] \in gdt \ Reserved
  BY DropOne DEF TInv
<1>2. gdt' \ Reserved = (gdt \ Reserved) \ {Desc[z]} /\ Reserved \subseteq gdt'
  BY <1>1 DEF TInv
<1> QED
  BY <1>1, <1>2

(* memory_alloc_page gives out a page that nobody has.                     *)
LEMMA NewPageFacts ==
  ASSUME PAInv, addr_alloc_page(1)
  PROVE  /\ PAInv' /\ held' = held \union {NewPage}
         /\ NewPage \notin held /\ NewPage \in Nat \ {0}
<1>1. PICK idx : idx = bitmap_alloc_nbits(bits, 0, 1).index
  OBVIOUS
<1>2. PAInv' /\ idx \in 0..(bit_count-1) /\ held' = held \union {page_addr(idx)}
        /\ page_addr(idx) \notin held
  BY <1>1, AllocInv
<1>3. idx \in Nat /\ NewPage = page_addr(idx)
  BY <1>1, <1>2, PageAllocAssumption DEF NewPage
<1> QED
  BY <1>2, <1>3, AddressFacts

(* Nothing of the page allocator changes.                                  *)
LEMMA SamePages ==
  ASSUME PAInv, UNCHANGED pavars
  PROVE  PAInv'
BY DEF pavars, PAInv, PATypeOK, BitsAreHeld

LEMMA StackInv ==
  ASSUME TInv, NEW p \in Proc, tss_init_stack(p)
  PROVE  TInv'
<1> USE TssAssumption
<1>0. /\ at[p] = "stack" /\ sel[p] # 0 /\ page[p] = 0
      /\ UNCHANGED <<tss_sel, cr3>> /\ TTypeOK /\ PAInv
  BY DEF tss_init_stack, TInv, Shape
<1>3. stack_page' = stack_page
  <2>1. /\ at[p] # "done" /\ at'[p] # "done"
        /\ \A q \in Proc : q # p => at'[q] = at[q] /\ esp0'[q] = esp0[q]
    BY <1>0, TypeFacts DEF tss_init_stack
  <2> QED
    BY <2>1, StackPageSame, Zenon
<1>1. CASE /\ addr_alloc_page(1) /\ page' = [page EXCEPT ![p] = NewPage]
           /\ esp0' = [esp0 EXCEPT ![p] = NewPage + page_size]
           /\ at' = [at EXCEPT ![p] = "dir"] /\ UNCHANGED <<gdt, sel>>
  <2>1. PICK a : a = NewPage
    OBVIOUS
  <2>2. PAInv' /\ held' = held \union {a} /\ a \notin held /\ a \in Nat \ {0}
    BY <1>0, <1>1, <2>1, NewPageFacts
  <2>3. page' = [page EXCEPT ![p] = a] /\ esp0' = [esp0 EXCEPT ![p] = a + page_size]
    BY <1>1, <2>1
  <2>4. TTypeOK'
    BY <1>0, <1>1, <2>2, <2>3, PageAllocAssumption DEF TTypeOK
  <2>5. \A q \in Proc : Shape(q)'
    BY <1>0, <1>1, <1>3, <2>2, <2>3, PageAllocAssumption DEF TInv, TTypeOK, Shape
  <2>6. Desc' = Desc
    BY <1>0, <1>1 DEF Desc
  <2>7. OneEach(PagePlace, Addr', held \union {a})
    <3>1. \A x \in PagePlace : x # <<p, "stack">> /\ x # <<p, "dir">> /\ x # <<p, "local">>
                               => Addr'[x] = Addr[x]
      BY <1>0, <1>3, <2>3, OtherAddr, TypeFacts
    <3>2. /\ Addr'[<<p, "local">>] = a /\ Addr[<<p, "local">>] = 0
          /\ Addr'[<<p, "stack">>] = Addr[<<p, "stack">>] /\ Addr'[<<p, "dir">>] = Addr[<<p, "dir">>]
      BY <1>0, <1>3, <2>3, AddrFacts, TypeFacts
    <3>3. \A x \in PagePlace : Addr'[x] = IF x = <<p, "local">> THEN a ELSE Addr[x]
      BY <3>1, <3>2
    <3>4. <<p, "local">> \in PagePlace /\ OneEach(PagePlace, Addr, held) /\ a # 0
      BY <2>2, PlaceFacts DEF TInv
    <3> QED
      BY <2>2, <3>2, <3>3, <3>4, TakeOne
  <2> QED
    BY <1>1, <2>2, <2>4, <2>5, <2>6, <2>7 DEF TInv
<1>2. CASE /\ gdt_free_sel(sel[p]) /\ at' = [at EXCEPT ![p] = "start"]
           /\ sel' = [sel EXCEPT ![p] = 0] /\ UNCHANGED <<pavars, page, esp0>>
  <2>1. PAInv'
    BY <1>0, <1>2, SamePages
  <2>2. TTypeOK'
    BY <1>0, <1>2, SetType DEF TTypeOK, gdt_free_sel
  <2>3. \A q \in Proc : Shape(q)'
    BY <1>0, <1>2, <1>3 DEF TInv, TTypeOK, Shape
  <2>4. Addr' = Addr /\ held' = held
    BY <1>0, <1>2, <1>3 DEF Addr, pavars
  <2>5. OneEach(SelPlace, Desc', gdt' \ Reserved) /\ Reserved \subseteq gdt'
    <3>1. \A x \in SelPlace : x # <<p, "tss">> /\ x # <<p, "local">> => Desc'[x] = Desc[x]
      BY <1>0, <1>2, OtherDesc, TypeFacts
    <3>2. /\ Desc'[<<p, "local">>] = 0 /\ Desc[<<p, "local">>] = sel[p]
          /\ Desc'[<<p, "tss">>] = Desc[<<p, "tss">>]
      BY <1>0, <1>2, DescFacts, TypeFacts
    <3>3. \A x \in SelPlace : Desc'[x] = IF x = <<p, "local">> THEN 0 ELSE Desc[x]
      BY <3>1, <3>2
    <3>4. <<p, "local">> \in SelPlace /\ gdt' = gdt \ {Desc[<<p, "local">>]}
      BY <1>2, <3>2, PlaceFacts DEF gdt_free_sel
    <3> QED
      BY <1>0, <3>2, <3>3, <3>4, FreeSelFacts
  <2> QED
    BY <2>1, <2>2, <2>3, <2>4, <2>5 DEF TInv
<1> QED
  BY <1>0, <1>1, <1>2 DEF tss_init_stack

LEMMA DirInv ==
  ASSUME TInv, NEW p \in Proc, tss_init_dir(p)
  PROVE  TInv'
<1> USE TssAssumption
<1>0. /\ at[p] = "dir" /\ sel[p] # 0 /\ page[p] # 0 /\ sel' = [sel EXCEPT ![p] = 0]
      /\ tss_sel[p] = 0 /\ stack_page[p] = 0 /\ cr3[p] = 0
      /\ TTypeOK /\ PAInv
  BY DEF tss_init_dir, TInv, Shape
<1>1. CASE /\ addr_alloc_page(1)
           /\ tss_sel' = [tss_sel EXCEPT ![p] = sel[p]]
           /\ cr3' = [cr3 EXCEPT ![p] = NewPage]
           /\ page' = [page EXCEPT ![p] = 0]
           /\ at' = [at EXCEPT ![p] = "done"]
           /\ UNCHANGED <<gdt, esp0>>
  <2>1. PICK a : a = NewPage
    OBVIOUS
  <2>8. stack_page' = [stack_page EXCEPT ![p] = page[p]]
    <3>1. esp0[p] = page[p] + page_size /\ page[p] \in Nat /\ esp0[p] \in Nat
      BY <1>0, TypeFacts DEF TInv, Shape
    <3>2. esp0[p] - page_size = page[p]
      BY <3>1, PageAllocAssumption
    <3>3. page[p] = IF at'[p] = "done" THEN esp0'[p] - page_size ELSE 0
      BY <1>0, <1>1, <3>2, TypeFacts
    <3>4. \A q \in Proc : q # p => at'[q] = at[q] /\ esp0'[q] = esp0[q]
      BY <1>0, <1>1, TypeFacts
    <3> QED
      BY <3>3, <3>4, StackPageSet
  <2>2. PAInv' /\ held' = held \union {a} /\ a \notin held /\ a \in Nat \ {0}
    BY <1>0, <1>1, <2>1, NewPageFacts
  <2>3. cr3' = [cr3 EXCEPT ![p] = a]
    BY <1>1, <2>1
  <2>4. TTypeOK'
    <3>1. sel' \in [Proc -> 0..(GDT_TABLE_SIZE-1)]
      BY <1>0, SetType DEF TTypeOK
    <3> QED
      BY <1>0, <1>1, <2>2, <2>3, <3>1 DEF TTypeOK
  <2>5. \A q \in Proc : Shape(q)'
    BY <1>0, <1>1, <2>2, <2>3, <2>8, TypeFacts DEF TInv, TTypeOK, Shape
  <2>6. OneEach(SelPlace, Desc', gdt \ Reserved)
    <3>1. \A x \in SelPlace : x # <<p, "tss">> /\ x # <<p, "local">> => Desc'[x] = Desc[x]
      BY <1>0, <1>1, OtherDesc, TypeFacts
    <3>2. /\ Desc'[<<p, "local">>] = 0 /\ Desc[<<p, "local">>] # 0
          /\ Desc'[<<p, "tss">>] = Desc[<<p, "local">>] /\ Desc[<<p, "tss">>] = 0
      BY <1>0, <1>1, DescFacts, TypeFacts
    <3>3. \A x \in SelPlace : Desc'[x] = IF x = <<p, "local">> THEN 0
                                         ELSE IF x = <<p, "tss">> THEN Desc[<<p, "local">>]
                                         ELSE Desc[x]
      BY <3>1, <3>2
    <3>4. /\ <<p, "local">> \in SelPlace /\ <<p, "tss">> \in SelPlace
          /\ <<p, "local">> # <<p, "tss">> /\ OneEach(SelPlace, Desc, gdt \ Reserved)
      BY PlaceFacts DEF TInv
    <3> QED
      BY <3>2, <3>3, <3>4, MoveOne
  <2>7. OneEach(PagePlace, Addr', held \union {a})
    <3>1. \A x \in PagePlace : x # <<p, "stack">> /\ x # <<p, "dir">> /\ x # <<p, "local">>
                               => Addr'[x] = Addr[x]
      BY <1>0, <1>1, <2>3, <2>8, OtherAddr, TypeFacts
    <3>2. /\ Addr'[<<p, "local">>] = 0 /\ Addr[<<p, "local">>] # 0
          /\ Addr'[<<p, "stack">>] = Addr[<<p, "local">>] /\ Addr[<<p, "stack">>] = 0
          /\ Addr'[<<p, "dir">>] = a /\ Addr[<<p, "dir">>] = 0
      BY <1>0, <1>1, <2>3, <2>8, AddrFacts, TypeFacts
    <3>3. PICK e : e = [x \in PagePlace |-> IF x = <<p, "local">> THEN 0
                                           ELSE IF x = <<p, "stack">> THEN Addr[<<p, "local">>]
                                           ELSE Addr[x]]
      OBVIOUS
    <3>4. /\ <<p, "local">> \in PagePlace /\ <<p, "stack">> \in PagePlace
          /\ <<p, "dir">> \in PagePlace
          /\ <<p, "local">> # <<p, "stack">> /\ <<p, "local">> # <<p, "dir">>
          /\ <<p, "stack">> # <<p, "dir">> /\ OneEach(PagePlace, Addr, held) /\ a # 0
      BY <2>2, PlaceFacts DEF TInv
    <3>5. \A x \in PagePlace : e[x] = IF x = <<p, "local">> THEN 0
                                      ELSE IF x = <<p, "stack">> THEN Addr[<<p, "local">>]
                                      ELSE Addr[x]
      BY <3>3
    <3>6. OneEach(PagePlace, e, held)
      BY <3>2, <3>4, <3>5, MoveOne
    <3>7. e[<<p, "dir">>] = 0
      BY <3>2, <3>4, <3>5
    <3>8. \A x \in PagePlace : Addr'[x] = IF x = <<p, "dir">> THEN a ELSE e[x]
      BY <3>1, <3>2, <3>4, <3>5
    <3> QED
      BY <2>2, <3>4, <3>6, <3>7, <3>8, TakeOne
  <2> QED
    BY <1>1, <2>2, <2>4, <2>5, <2>6, <2>7 DEF TInv
<1>2. CASE /\ gdt_free_sel(sel[p]) /\ at' = [at EXCEPT ![p] = "undo"]
           /\ UNCHANGED <<pavars, tss, page>>
  <2>6. stack_page' = stack_page
    <3>1. /\ at[p] # "done" /\ at'[p] # "done"
          /\ \A q \in Proc : q # p => at'[q] = at[q] /\ esp0'[q] = esp0[q]
      BY <1>0, <1>2, TypeFacts DEF tss
    <3> QED
      BY <3>1, StackPageSame, Zenon
  <2>1. PAInv'
    BY <1>0, <1>2, SamePages
  <2>2. TTypeOK'
    BY <1>0, <1>2, SetType DEF TTypeOK, gdt_free_sel, tss
  <2>3. \A q \in Proc : Shape(q)'
    BY <1>0, <1>2, <2>6 DEF TInv, TTypeOK, Shape, tss
  <2>4. Addr' = Addr /\ held' = held
    BY <1>0, <1>2, <2>6 DEF Addr, pavars, tss
  <2>5. OneEach(SelPlace, Desc', gdt' \ Reserved) /\ Reserved \subseteq gdt'
    <3>1. \A x \in SelPlace : x # <<p, "tss">> /\ x # <<p, "local">> => Desc'[x] = Desc[x]
      BY <1>0, <1>2, OtherDesc, TypeFacts DEF tss
    <3>2. /\ Desc'[<<p, "local">>] = 0 /\ Desc[<<p, "local">>] = sel[p]
          /\ Desc'[<<p, "tss">>] = Desc[<<p, "tss">>]
      BY <1>0, <1>2, DescFacts, TypeFacts DEF tss
    <3>3. \A x \in SelPlace : Desc'[x] = IF x = <<p, "local">> THEN 0 ELSE Desc[x]
      BY <3>1, <3>2
    <3>4. <<p, "local">> \in SelPlace /\ gdt' = gdt \ {Desc[<<p, "local">>]}
      BY <1>2, <3>2, PlaceFacts DEF gdt_free_sel
    <3> QED
      BY <1>0, <3>2, <3>3, <3>4, FreeSelFacts
  <2> QED
    BY <2>1, <2>2, <2>3, <2>4, <2>5 DEF TInv
<1> QED
  BY <1>0, <1>1, <1>2 DEF tss_init_dir

(* A task gives a page back, from the place z.                             *)
LEMMA FreePageFacts ==
  ASSUME TInv, NEW z \in PagePlace, Addr[z] # 0, addr_free_page(Addr[z]),
         \A x \in PagePlace : Addr'[x] = IF x = z THEN 0 ELSE Addr[x]
  PROVE  PAInv' /\ OneEach(PagePlace, Addr', held') /\ Addr[z] \in held
<1>1. OneEach(PagePlace, Addr', held \ {Addr[z]}) /\ Addr[z] \in held
  BY DropOne DEF TInv
<1>2. PAInv' /\ held' = held \ {Addr[z]}
  BY <1>1, FreeInv DEF TInv
<1> QED
  BY <1>1, <1>2

LEMMA UndoInv ==
  ASSUME TInv, NEW p \in Proc, tss_init_undo(p)
  PROVE  TInv' /\ page[p] \in held
<1> USE TssAssumption
<1>1. /\ at[p] = "undo" /\ page[p] # 0 /\ addr_free_page(page[p])
      /\ page' = [page EXCEPT ![p] = 0] /\ at' = [at EXCEPT ![p] = "start"]
      /\ UNCHANGED <<gdt, tss_sel, esp0, stack_page, cr3, sel>> /\ TTypeOK
  <2>1. /\ at[p] = "undo" /\ page[p] # 0 /\ addr_free_page(page[p])
        /\ page' = [page EXCEPT ![p] = 0] /\ at' = [at EXCEPT ![p] = "start"]
        /\ UNCHANGED <<gdt, tss_sel, esp0, cr3, sel>> /\ TTypeOK
    BY DEF tss_init_undo, TInv, Shape, tss
  <2>2. stack_page' = stack_page
    <3>1. /\ at[p] # "done" /\ at'[p] # "done"
          /\ \A q \in Proc : q # p => at'[q] = at[q] /\ esp0'[q] = esp0[q]
      BY <2>1, TypeFacts
    <3> QED
      BY <3>1, StackPageSame, Zenon
  <2> QED
    BY <2>1, <2>2
<1>2. TTypeOK'
  BY <1>1 DEF TTypeOK
<1>3. \A q \in Proc : Shape(q)'
  BY <1>1 DEF TInv, TTypeOK, Shape
<1>4. Desc' = Desc
  BY <1>1 DEF Desc
<1>5. PAInv' /\ OneEach(PagePlace, Addr', held') /\ page[p] \in held
  <2>1. \A x \in PagePlace : x # <<p, "stack">> /\ x # <<p, "dir">> /\ x # <<p, "local">>
                             => Addr'[x] = Addr[x]
    BY <1>1, OtherAddr, TypeFacts
  <2>2. /\ Addr'[<<p, "local">>] = 0 /\ Addr[<<p, "local">>] = page[p]
        /\ Addr'[<<p, "stack">>] = Addr[<<p, "stack">>] /\ Addr'[<<p, "dir">>] = Addr[<<p, "dir">>]
    BY <1>1, AddrFacts, TypeFacts
  <2>3. \A x \in PagePlace : Addr'[x] = IF x = <<p, "local">> THEN 0 ELSE Addr[x]
    BY <2>1, <2>2
  <2>4. <<p, "local">> \in PagePlace
    BY PlaceFacts
  <2> QED
    BY <1>1, <2>2, <2>3, <2>4, FreePageFacts
<1> QED
  BY <1>1, <1>2, <1>3, <1>4, <1>5 DEF TInv

LEMMA ReleaseDirInv ==
  ASSUME TInv, NEW p \in Proc, release_dir(p)
  PROVE  TInv' /\ cr3[p] \in held
<1> USE TssAssumption
<1>1. /\ at[p] = "done" /\ cr3[p] # 0 /\ addr_free_page(cr3[p])
      /\ cr3' = [cr3 EXCEPT ![p] = 0]
      /\ UNCHANGED <<gdt, tss_sel, esp0, stack_page, at, sel, page>> /\ TTypeOK
  BY DEF release_dir, TInv, Shape, locals, stack_page
<1>2. TTypeOK'
  BY <1>1 DEF TTypeOK
<1>3. \A q \in Proc : Shape(q)'
  BY <1>1 DEF TInv, TTypeOK, Shape
<1>4. Desc' = Desc
  BY <1>1 DEF Desc
<1>5. PAInv' /\ OneEach(PagePlace, Addr', held') /\ cr3[p] \in held
  <2>1. \A x \in PagePlace : x # <<p, "stack">> /\ x # <<p, "dir">> /\ x # <<p, "local">>
                             => Addr'[x] = Addr[x]
    BY <1>1, OtherAddr, TypeFacts
  <2>2. /\ Addr'[<<p, "dir">>] = 0 /\ Addr[<<p, "dir">>] = cr3[p]
        /\ Addr'[<<p, "stack">>] = Addr[<<p, "stack">>]
        /\ Addr'[<<p, "local">>] = Addr[<<p, "local">>]
    BY <1>1, AddrFacts, TypeFacts
  <2>3. \A x \in PagePlace : Addr'[x] = IF x = <<p, "dir">> THEN 0 ELSE Addr[x]
    BY <2>1, <2>2
  <2>4. <<p, "dir">> \in PagePlace
    BY PlaceFacts
  <2> QED
    BY <1>1, <2>2, <2>3, <2>4, FreePageFacts
<1> QED
  BY <1>1, <1>2, <1>3, <1>4, <1>5 DEF TInv

LEMMA ReleaseInv ==
  ASSUME TInv, NEW p \in Proc, release(p)
  PROVE  TInv' /\ stack_page[p] \in held
<1> USE TssAssumption
<1>1. /\ at[p] = "done" /\ cr3[p] = 0 /\ stack_page[p] # 0 /\ tss_sel[p] # 0
      /\ addr_free_page(stack_page[p]) /\ gdt' = gdt \ {tss_sel[p]}
      /\ stack_page' = [stack_page EXCEPT ![p] = 0]
      /\ tss_sel' = [tss_sel EXCEPT ![p] = 0] /\ at' = [at EXCEPT ![p] = "start"]
      /\ UNCHANGED <<esp0, cr3, sel, page>> /\ TTypeOK
  <2>1. /\ at[p] = "done" /\ cr3[p] = 0 /\ stack_page[p] # 0 /\ tss_sel[p] # 0
        /\ addr_free_page(stack_page[p]) /\ gdt' = gdt \ {tss_sel[p]}
        /\ tss_sel' = [tss_sel EXCEPT ![p] = 0] /\ at' = [at EXCEPT ![p] = "start"]
        /\ UNCHANGED <<esp0, cr3, sel, page>> /\ TTypeOK
    BY DEF release, TInv, Shape, gdt_free_sel
  <2>2. /\ 0 = IF at'[p] = "done" THEN esp0'[p] - page_size ELSE 0
        /\ \A q \in Proc : q # p => at'[q] = at[q] /\ esp0'[q] = esp0[q]
    BY <2>1, TypeFacts
  <2>3. stack_page' = [stack_page EXCEPT ![p] = 0]
    BY <2>2, StackPageSet
  <2> QED
    BY <2>1, <2>3
<1>2. TTypeOK'
  BY <1>1, SetType DEF TTypeOK
<1>3. \A q \in Proc : Shape(q)'
  BY <1>1, TypeFacts DEF TInv, TTypeOK, Shape
<1>4. OneEach(SelPlace, Desc', gdt' \ Reserved) /\ Reserved \subseteq gdt'
  <2>1. \A x \in SelPlace : x # <<p, "tss">> /\ x # <<p, "local">> => Desc'[x] = Desc[x]
    BY <1>1, OtherDesc, TypeFacts
  <2>2. /\ Desc'[<<p, "tss">>] = 0 /\ Desc[<<p, "tss">>] = tss_sel[p]
        /\ Desc'[<<p, "local">>] = Desc[<<p, "local">>]
    BY <1>1, DescFacts, TypeFacts
  <2>3. \A x \in SelPlace : Desc'[x] = IF x = <<p, "tss">> THEN 0 ELSE Desc[x]
    BY <2>1, <2>2
  <2>4. <<p, "tss">> \in SelPlace /\ gdt' = gdt \ {Desc[<<p, "tss">>]}
    BY <1>1, <2>2, PlaceFacts
  <2> QED
    BY <1>1, <2>2, <2>3, <2>4, FreeSelFacts
<1>5. PAInv' /\ OneEach(PagePlace, Addr', held') /\ stack_page[p] \in held
  <2>1. \A x \in PagePlace : x # <<p, "stack">> /\ x # <<p, "dir">> /\ x # <<p, "local">>
                             => Addr'[x] = Addr[x]
    BY <1>1, OtherAddr, TypeFacts
  <2>2. /\ Addr'[<<p, "stack">>] = 0 /\ Addr[<<p, "stack">>] = stack_page[p]
        /\ Addr'[<<p, "dir">>] = Addr[<<p, "dir">>] /\ Addr'[<<p, "local">>] = Addr[<<p, "local">>]
    BY <1>1, AddrFacts, TypeFacts
  <2>3. \A x \in PagePlace : Addr'[x] = IF x = <<p, "stack">> THEN 0 ELSE Addr[x]
    BY <2>1, <2>2
  <2>4. <<p, "stack">> \in PagePlace
    BY PlaceFacts
  <2> QED
    BY <1>1, <2>2, <2>3, <2>4, FreePageFacts
<1> QED
  BY <1>2, <1>3, <1>4, <1>5 DEF TInv
-----------------------------------------------------------------------------
LEMMA TNextInv == TInv /\ [TNext]_tvars => TInv'
<1> SUFFICES ASSUME TInv, [TNext]_tvars PROVE TInv'
  OBVIOUS
<1>1. ASSUME NEW p \in Proc,
             \/ gdt_alloc_desc(p) \/ tss_init_stack(p) \/ tss_init_dir(p) \/ tss_init_undo(p)
             \/ release_dir(p) \/ release(p)
      PROVE  TInv'
  BY <1>1, AllocDescInv, StackInv, DirInv, UndoInv, ReleaseDirInv, ReleaseInv
<1>2. CASE UNCHANGED tvars
  <2>1. PAInv'
    BY <1>2, SamePages DEF TInv, tvars
  <2>2. /\ UNCHANGED <<bits, held, gdt, tss_sel, esp0, stack_page, cr3, at, sel, page>>
    BY <1>2 DEF tvars, pavars, tss, locals, stack_page
  <2> QED
    BY <2>1, <2>2 DEF TInv, TTypeOK, Shape, Desc, Addr, OneEach
<1> QED
  BY <1>1, <1>2 DEF TNext

LEMMA TInvAlways == TSpec => []TInv
<1>1. TInit => TInv
  BY TInitInv
<1>2. TInv /\ [TNext]_tvars => TInv'
  BY TNextInv
<1> QED
  BY <1>1, <1>2, PTL DEF TSpec

LEMMA TInvMeans == TInv => AllOrNothing
<1> SUFFICES ASSUME TInv PROVE AllOrNothing
  OBVIOUS
<1> USE TssAssumption
<1> DEFINE desc(x) == IF x[2] = "tss" THEN tss_sel[x[1]] ELSE sel[x[1]]
           sels == {x \in Proc \X {"tss", "local"} : desc(x) # 0}
           addr(x) == CASE x[2] = "stack" -> stack_page[x[1]]
                        [] x[2] = "dir" -> cr3[x[1]]
                        [] OTHER -> page[x[1]]
           pages == {x \in Proc \X {"stack", "dir", "local"} : addr(x) # 0}
<1>1. \A x \in SelPlace : desc(x) = Desc[x]
  BY DEF Desc
<1>2. \A x \in PagePlace : addr(x) = Addr[x]
  BY DEF Addr
<1>3. sels = {x \in SelPlace : desc(x) # 0} /\ pages = {x \in PagePlace : addr(x) # 0}
  BY DEF SelPlace, PagePlace
<1> HIDE DEF desc, addr, sels, pages
<1>4. sels = {x \in SelPlace : Desc[x] # 0} /\ pages = {x \in PagePlace : Addr[x] # 0}
  BY <1>1, <1>2, <1>3
<1>5. OneEach(SelPlace, Desc, gdt \ Reserved) /\ Reserved \subseteq gdt
  BY DEF TInv
<1>6. OneEach(PagePlace, Addr, held)
  BY DEF TInv
<1>7. gdt = Reserved \union {desc(x) : x \in sels}
  <2>1. \A x \in sels : desc(x) \in gdt
    BY <1>1, <1>4, <1>5 DEF OneEach
  <2>2. \A v \in gdt \ Reserved : \E x \in sels : desc(x) = v
    BY <1>1, <1>4, <1>5 DEF OneEach
  <2> QED
    BY <1>5, <2>1, <2>2
<1>8. held = {addr(x) : x \in pages}
  BY <1>2, <1>4, <1>6 DEF OneEach
<1>9. /\ \A x, y \in sels : desc(x) = desc(y) => x = y
      /\ \A x \in sels : desc(x) \notin Reserved
  BY <1>1, <1>4, <1>5 DEF OneEach
<1>10. \A x, y \in pages : addr(x) = addr(y) => x = y
  BY <1>2, <1>4, <1>6 DEF OneEach
<1>11. \A p \in Proc : at[p] = "start" =>
          sel[p] = 0 /\ page[p] = 0 /\ tss_sel[p] = 0 /\ cr3[p] = 0
  BY DEF TInv, Shape
<1> QED
  BY <1>7, <1>8, <1>9, <1>10, <1>11 DEF AllOrNothing, desc, addr, sels, pages

(* The entries of the GDT and the pages in use are exactly those of        *)
(* finished tasks and of calls of tss_init under way, each one belongs to  *)
(* one task, and a tss_init that failed at any of its steps keeps no entry *)
(* and no page, whatever its esp0 still names: for any number of tasks,    *)
(* entries and pages, and however the calls interleave.                    *)
THEOREM TssAllOrNothing == TSpec => []AllOrNothing
BY TInvAlways, TInvMeans, PTL

(* The tasks use the page allocator as it is meant to be used: each step   *)
(* of tss_init and of a task's end allocates one page, gives back a page   *)
(* that is held, or leaves the allocator alone.                            *)
THEOREM TssUsesPages == TSpec => PASpec
<1>1. TInit => PAInit
  BY DEF TInit
<1>2. TInv /\ [TNext]_tvars => [PANext]_pavars
  <2> SUFFICES ASSUME TInv, [TNext]_tvars PROVE [PANext]_pavars
    OBVIOUS
  <2> USE TssAssumption
  <2>1. ASSUME NEW p \in Proc, gdt_alloc_desc(p) PROVE UNCHANGED pavars
    BY <2>1 DEF gdt_alloc_desc
  <2>2. ASSUME NEW p \in Proc, tss_init_stack(p) \/ tss_init_dir(p)
        PROVE  addr_alloc_page(1) \/ UNCHANGED pavars
    BY <2>2 DEF tss_init_stack, tss_init_dir
  <2>3. ASSUME NEW p \in Proc, tss_init_undo(p) \/ release_dir(p) \/ release(p)
        PROVE  \E a \in held : addr_free_page(a)
    <3>1. CASE tss_init_undo(p)
      BY <3>1, UndoInv DEF tss_init_undo
    <3>2. CASE release_dir(p)
      BY <3>2, ReleaseDirInv DEF release_dir
    <3>3. CASE release(p)
      BY <3>3, ReleaseInv DEF release
    <3> QED
      BY <2>3, <3>1, <3>2, <3>3
  <2>4. CASE UNCHANGED tvars
    BY <2>4 DEF tvars
  <2> QED
    BY <2>1, <2>2, <2>3, <2>4 DEF TNext, PANext
<1> QED
  BY <1>1, <1>2, TInvAlways, PTL DEF TSpec, PASpec
=============================================================================
