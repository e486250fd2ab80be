-------------------------------- MODULE Irq ---------------------------------
(***************************************************************************)
(* Interrupts: kernel/cpu/irq.c with the processor's interrupt flag, the   *)
(* two 8259 controllers it programs, the entry code of kernel/init/start.S *)
(* and the timer's handler of kernel/dev/time.c.  The other modules take   *)
(* it for granted that the kernel's protected sections and handlers are    *)
(* not interrupted; this module has the mechanism.                         *)
(*                                                                         *)
(* stack[t] holds what the calls that t is inside of have saved, the last  *)
(* one on top:                                                             *)
(*   "section"    between irq_enter_protection and irq_leave_protection;   *)
(*                flag is the variable state of the caller;                *)
(*   "irq"        in the handler of a line of the 8259;                    *)
(*   "exception"  in the handler of an exception; flag is the interrupt    *)
(*                flag in the eflags that the processor has pushed.        *)
(* todo is what a handler has yet to do, and calls how many sections the   *)
(* code of this level may still enter (a bound: all of them are finite).   *)
(*                                                                         *)
(* A line is a number 0..15, its vector is line + IRQ_PIC_START.  Drivers  *)
(* other than the timer's are not part of the repository: DriverLine are   *)
(* lines whose driver does as time.c does.                                 *)
(***************************************************************************)
EXTENDS Integers, SequencesExt, FiniteSets

CONSTANTS
    Task,               \* the tasks
    first_task,         \* task_manager.first_task
    boot,               \* kernel_init and init_main, before there is a task
    DriverLine,         \* lines of the 8259s with a driver
    MaxDepth,           \* bound: frames on a stack
    MaxCalls            \* bound: sections that a section or handler enters

IRQ_PIC_START == 32
IDE_TABLE_NR == 128
Timer == 0              \* IRQ0_TIMER - IRQ_PIC_START

ASSUME IrqAssumption ==
    /\ first_task \in Task /\ boot \notin Task
    /\ DriverLine \subseteq (0..15) \ {Timer, 2}
    /\ MaxDepth \in Nat /\ MaxCalls \in Nat

VARIABLES
    phase,              \* "reset", "irq" (irq_init done), "time", "run"
    IF_flag,            \* the processor's interrupt flag
    curr_task,          \* who runs: a task, or boot
    stack,              \* the calls that each is inside of
    tss_eflags,         \* the interrupt flag in task_t.tss.eflags
    idt_table,          \* the handlers in the vectors of the lines
    irr, isr, imr,      \* the registers of the two 8259s: sets of pins
    halted              \* a handler has stopped the processor for good

pic == <<irr, isr, imr>>
cpu == <<IF_flag, curr_task, stack, tss_eflags>>
ivars == <<phase, cpu, idt_table, pic, halted>>

Line == {Timer} \union DriverLine
chip(line) == IF line < 8 THEN 0 ELSE 1
pin(line) == line % 8
Unmasked(line) == pin(line) \notin imr[chip(line)]
InService(line) == pin(line) \in isr[chip(line)]
Requested(line) == pin(line) \in irr[chip(line)]

Running == stack[curr_task]
Busy == Running # << >>
Top == Last(Running)
Pushed(frame) == [stack EXCEPT ![curr_task] = Append(@, frame)]
Popped == [stack EXCEPT ![curr_task] = Front(@)]
WithTop(frame) == [stack EXCEPT ![curr_task] = Append(Front(@), frame)]
-----------------------------------------------------------------------------
(* Faulty variants of definitions below, used to see that the properties   *)
(* notice such mistakes.                                                   *)

\* Leaving a section enables interrupts, also inside of another section.
bad_leave(state) == TRUE

\* The second controller's lines are ended at the second controller only.
bad_send_eoi(s, irq_num) ==
    LET c == IF irq_num - IRQ_PIC_START >= 8 THEN 1 ELSE 0
    IN  [s EXCEPT ![c] = {i \in @ : \E j \in @ : j < i}]

\* The end of interrupt is signalled when the handler has done its work.
bad_handler_steps == <<"body", "eoi">>
-----------------------------------------------------------------------------
(* init_pic: all pins are masked but the one of the second controller.     *)
init_pic == [c \in 0..1 |-> IF c = 0 THEN (0..7) \ {2} ELSE 0..7]

(* irq_install, which refuses a number behind the table.                   *)
irq_install(idt, irq_num, handler) ==
    IF irq_num >= IDE_TABLE_NR THEN idt ELSE [idt EXCEPT ![irq_num] = handler]

(* irq_enable and irq_disable: the masks after the call.                   *)
irq_enable(m, irq_num) ==
    LET line == irq_num - IRQ_PIC_START
    IN  IF line < 0 THEN m
        ELSE IF line < 8 THEN [m EXCEPT ![0] = @ \ {line}]
        ELSE [m EXCEPT ![1] = @ \ {line - 8}]

irq_disable(m, irq_num) ==
    LET line == irq_num - IRQ_PIC_START
    IN  IF line < 0 THEN m
        ELSE IF line < 8 THEN [m EXCEPT ![0] = @ \union {line}]
        ELSE [m EXCEPT ![1] = @ \union {line - 8}]

(* A non-specific end of interrupt (the 8259s are not told which line):    *)
(* the pin of the highest priority that is in service no longer is.        *)
end_of_interrupt(s, c) == [s EXCEPT ![c] = {i \in @ : \E j \in @ : j < i}]

pic_send_eoi(s, irq_num) ==
    LET s1 == IF irq_num - IRQ_PIC_START >= 8 THEN end_of_interrupt(s, 1) ELSE s
    IN  end_of_interrupt(s1, 0)

(* What do_handler_timer does, in its order.  The body is task_time_tick;  *)
(* it may switch to another task and return much later.                    *)
handler_steps == <<"eoi", "body">>

(* The value the flag gets in irq_leave_protection.                        *)
irq_leave_protection(state) == state
-----------------------------------------------------------------------------
(* The loader has disabled interrupts; the 8259s are as the BIOS left      *)
(* them.  tss_init gives every task an eflags with the flag set.           *)
IInit ==
    /\ phase = "reset"
    /\ IF_flag = FALSE
    /\ curr_task = boot
    /\ stack = [t \in Task \union {boot} |-> << >>]
    /\ tss_eflags = [t \in Task |-> TRUE]
    /\ idt_table = [v \in {l + IRQ_PIC_START : l \in Line} |-> "none"]
    /\ irr = [c \in 0..1 |-> {}]
    /\ isr = [c \in 0..1 |-> {}]
    /\ imr = [c \in 0..1 |-> {}]
    /\ halted = FALSE

(* Programming the 8259s resets their requests and their service.          *)
irq_init ==
    /\ phase = "reset" /\ ~Busy
    /\ phase' = "irq"
    /\ idt_table' = [v \in DOMAIN idt_table |-> "unknown"]
    /\ irr' = [c \in 0..1 |-> {}]
    /\ isr' = [c \in 0..1 |-> {}]
    /\ imr' = init_pic
    /\ UNCHANGED <<cpu, halted>>

(* What a driver does to its line, as init_pit does.                       *)
set_up(line) ==
    /\ idt_table' = irq_install(idt_table, line + IRQ_PIC_START, "handler")
    /\ imr' = irq_enable(imr, line + IRQ_PIC_START)

time_init ==
    /\ phase = "irq" /\ ~halted /\ ~Busy
    /\ phase' = "time"
    /\ set_up(Timer)
    /\ UNCHANGED <<cpu, irr, isr, halted>>

(* The iret takes the flag from the first task's TSS.                      *)
move_to_first_task ==
    /\ phase = "time" /\ ~halted /\ ~Busy
    /\ phase' = "run"
    /\ curr_task' = first_task
    /\ IF_flag' = tss_eflags[first_task]
    /\ UNCHANGED <<stack, tss_eflags, idt_table, pic, halted>>

(* A driver starts or stops its line.  irq_enable and irq_disable read the *)
(* mask and write it back, so that their callers must have interrupts      *)
(* disabled, as kernel_init has.                                           *)
driver_start(line) ==
    /\ phase \in {"time", "run"} /\ ~IF_flag /\ ~halted
    /\ ~Unmasked(line)
    /\ set_up(line)
    /\ UNCHANGED <<phase, cpu, irr, isr, halted>>

driver_stop(line) ==
    /\ phase \in {"time", "run"} /\ ~IF_flag /\ ~halted
    /\ Unmasked(line)
    /\ imr' = irq_disable(imr, line + IRQ_PIC_START)
    /\ UNCHANGED <<phase, cpu, idt_table, irr, isr, halted>>
-----------------------------------------------------------------------------
(* The code that runs may enter a section: a task outside of every section *)
(* and handler (a call gate leaves the flag alone), a section, or the body *)
(* of a handler.                                                           *)
AtWork ==
    /\ ~halted
    /\ Busy => /\ Top.calls > 0
               /\ Top.kind # "section" => Top.todo # << >> /\ Head(Top.todo) = "body"

Spent == IF Busy THEN WithTop([Top EXCEPT !.calls = @ - 1])[curr_task] ELSE Running

irq_enter_protection ==
    /\ AtWork /\ Len(Running) < MaxDepth
    /\ stack' = [stack EXCEPT ![curr_task] =
                   Append(Spent, [kind |-> "section", flag |-> IF_flag, line |-> -1,
                                  todo |-> << >>, calls |-> MaxCalls])]
    /\ IF_flag' = FALSE
    /\ UNCHANGED <<phase, curr_task, tss_eflags, idt_table, pic, halted>>

leave ==
    /\ ~halted /\ Busy /\ Top.kind = "section"
    /\ IF_flag' = irq_leave_protection(Top.flag)
    /\ stack' = Popped
    /\ UNCHANGED <<phase, curr_task, tss_eflags, idt_table, pic, halted>>

(* task_switch_from_to, the last thing its section does before it ends:    *)
(* the far jump saves eflags in one TSS and loads them from the other.     *)
task_switch_from_to(to) ==
    /\ phase = "run" /\ AtWork /\ Busy /\ Top.kind = "section"
    /\ to # curr_task
    /\ stack' = WithTop([Top EXCEPT !.calls = 0])
    /\ tss_eflags' = [tss_eflags EXCEPT ![curr_task] = IF_flag]
    /\ IF_flag' = tss_eflags[to]
    /\ curr_task' = to
    /\ UNCHANGED <<phase, idt_table, pic, halted>>
-----------------------------------------------------------------------------
(* A device requests service.                                              *)
request(line) ==
    /\ irr' = [irr EXCEPT ![chip(line)] = @ \union {pin(line)}]
    /\ UNCHANGED <<phase, cpu, idt_table, isr, imr, halted>>

(* The 8259s pass a request on if nothing of the same or of a higher       *)
(* priority is in service; the second controller is pin 2 of the first.    *)
first_pin(line) == IF chip(line) = 0 THEN pin(line) ELSE 2

Passed(line) ==
    /\ Requested(line) /\ Unmasked(line)
    /\ \A i \in isr[0] : i > first_pin(line)
    /\ chip(line) = 1 => /\ 2 \notin imr[0]
                         /\ \A i \in isr[1] : i > pin(line)

Before(a, b) == first_pin(a) < first_pin(b) \/ (first_pin(a) = first_pin(b) /\ a < b)

(* The processor takes the interrupt of the highest priority through an    *)
(* interrupt gate, which clears the flag.                                  *)
interrupt(line) ==
    LET known == idt_table[line + IRQ_PIC_START] = "handler"
    IN  /\ IF_flag /\ ~halted
        /\ Passed(line) /\ \A l \in Line : Passed(l) => ~Before(l, line)
        /\ irr' = [irr EXCEPT ![chip(line)] = @ \ {pin(line)}]
        /\ isr' = [isr EXCEPT ![0] = @ \union {first_pin(line)},
                              ![1] = IF chip(line) = 1 THEN @ \union {pin(line)} ELSE @]
        /\ stack' = Pushed([kind |-> "irq", flag |-> IF_flag, line |-> line, calls |-> MaxCalls,
                            todo |-> IF known THEN handler_steps ELSE <<"body", "halt">>])
        /\ IF_flag' = FALSE
        /\ UNCHANGED <<phase, curr_task, tss_eflags, idt_table, imr, halted>>

(* An exception.  do_handler_general_protection and do_handler_page_fault  *)
(* return to code of an application (cs & 0x3), that is outside of the     *)
(* kernel; all others log what they know, which takes the log's mutex, and *)
(* halt for ever.                                                          *)
exception(user) ==
    /\ phase # "reset" /\ ~halted /\ Len(Running) < MaxDepth
    /\ user => phase = "run" /\ ~Busy
    /\ stack' = Pushed([kind |-> "exception", flag |-> IF_flag, line |-> -1, calls |-> MaxCalls,
                        todo |-> IF user THEN <<"body">> ELSE <<"body", "halt">>])
    /\ IF_flag' = FALSE
    /\ UNCHANGED <<phase, curr_task, tss_eflags, idt_table, pic, halted>>

InHandler(step) ==
    ~halted /\ Busy /\ Top.kind # "section" /\ Top.todo # << >> /\ Head(Top.todo) = step

Done == stack' = WithTop([Top EXCEPT !.todo = Tail(@)])

handler_eoi ==
    /\ InHandler("eoi")
    /\ isr' = pic_send_eoi(isr, Top.line + IRQ_PIC_START)
    /\ Done
    /\ UNCHANGED <<phase, IF_flag, curr_task, tss_eflags, idt_table, irr, imr, halted>>

(* task_time_tick, or the lines that an exception's handler logs: for the  *)
(* interrupt flag, only the sections count that they enter.                *)
handler_body ==
    /\ InHandler("body")
    /\ Done
    /\ UNCHANGED <<phase, IF_flag, curr_task, tss_eflags, idt_table, pic, halted>>

(* hlt in an endless loop, with interrupts disabled.                       *)
handler_halt ==
    /\ InHandler("halt")
    /\ halted' = TRUE
    /\ UNCHANGED <<phase, cpu, idt_table, pic>>

(* The end of the entry code of start.S.                                   *)
iret ==
    /\ ~halted /\ Busy /\ Top.kind # "section" /\ Top.todo = << >>
    /\ IF_flag' = Top.flag
    /\ stack' = Popped
    /\ UNCHANGED <<phase, curr_task, tss_eflags, idt_table, pic, halted>>

\* What the kernel's own code does next when it is inside of something.
Proceed == leave \/ handler_eoi \/ handler_body \/ handler_halt \/ iret

StartUp == irq_init \/ time_init \/ move_to_first_task

INext ==
    \/ StartUp
    \/ \E line \in DriverLine : driver_start(line) \/ driver_stop(line)
    \/ irq_enter_protection
    \/ \E to \in Task : task_switch_from_to(to)
    \/ \E line \in Line : request(line) \/ interrupt(line)
    \/ \E user \in BOOLEAN : exception(user)
    \/ Proceed

ISpec == IInit /\ [][INext]_ivars

\* Start-up enters only so many sections, and sections and handlers end; the
\* processor takes an interrupt as soon as the flag is set, even if only for
\* one instruction.
IFairSpec ==
    /\ ISpec
    /\ SF_ivars(StartUp)
    /\ WF_ivars(Proceed)
    /\ SF_ivars(\E line \in Line : interrupt(line))
-----------------------------------------------------------------------------
Frame == [kind : {"section", "irq", "exception"}, flag : BOOLEAN, line : Line \union {-1},
          todo : Seq({"eoi", "body", "halt"}), calls : 0..MaxCalls]

(* The types of the interrupt state.                                       *)
ITypeOK ==
    /\ phase \in {"reset", "irq", "time", "run"}
    /\ IF_flag \in BOOLEAN
    /\ curr_task \in Task \union {boot}
    /\ stack \in [Task \union {boot} -> Seq(Frame)]
    /\ tss_eflags \in [Task -> BOOLEAN]
    /\ irr \in [0..1 -> SUBSET (0..7)]
    /\ isr \in [0..1 -> SUBSET (0..7)]
    /\ imr \in [0..1 -> SUBSET (0..7)]
    /\ halted \in BOOLEAN

(* Interrupts are enabled exactly while the task that runs is outside of   *)
(* every section and handler, however these nest, and across task switches *)
(* inside of them; until the first task runs they are disabled.  So no     *)
(* section of the kernel is interrupted, and none leaves interrupts off.   *)
FlagExact ==
    /\ phase # "run" => curr_task = boot /\ ~IF_flag
    /\ phase = "run" =>
          /\ curr_task # boot
          /\ IF_flag <=> stack[curr_task] = << >>
          /\ \A t \in Task : t # curr_task => (tss_eflags[t] <=> stack[t] = << >>)
          /\ \A t \in Task : \A i \in DOMAIN stack[t] : stack[t][i].flag <=> i = 1

\* The kernel has raised an exception, whose handler stops the machine as
\* soon as it has written its message.
Doomed == \E t \in Task \union {boot} : \E i \in DOMAIN stack[t] :
             "halt" \in ToSet(stack[t][i].todo)

(* A line is in service exactly from the acceptance of its interrupt to    *)
(* its handler's end of interrupt, which ends that line and no other, in   *)
(* both controllers; no task is switched away from while its line is in    *)
(* service, unless the kernel itself has raised an exception.  And a line  *)
(* that can interrupt has a handler: the one for unknown interrupts, which *)
(* stops the machine, is never entered.                                    *)
ServiceExact ==
    phase # "reset" /\ ~Doomed =>
        LET Serving(line) == \E i \in DOMAIN stack[curr_task] :
                                /\ stack[curr_task][i].line = line
                                /\ "eoi" \in ToSet(stack[curr_task][i].todo)
        IN  /\ \A line \in Line : InService(line) <=> Serving(line)
            /\ 2 \in isr[0] <=> isr[1] # {}
            /\ \A line \in Line : Unmasked(line) =>
                  idt_table[line + IRQ_PIC_START] = "handler"

(* A tick that the timer requests after time_init is taken by the          *)
(* processor, unless the kernel raises an exception: no chain of sections, *)
(* handlers and task switches keeps interrupts off or the line in service. *)
TimerServed ==
    (phase \in {"time", "run"} /\ Requested(Timer)) ~> (~Requested(Timer) \/ Doomed)
=============================================================================
