# A TLA+ model of the kernel

This directory holds a specification of the x86 teaching kernel under
`source/`: TLA+ modules translated from its C code, TLC configurations that
model-check them on small instances, and TLAPS proofs of the main safety
properties for every value of the constants. `PROJECT.json` lists the runs, the
source lines behind each definition, the hazards the properties are aimed at
and the disagreements found between the code and its comments.

    tlc -config Sched.cfg SchedHist        # one model-checking run
    tlapm SchedProofs.tla                  # one module of proofs

## 1. The system

The machine boots through a boot sector and a loader into one kernel that runs
on one processor. All concurrency comes from the timer interrupt and from the
task switches it and the blocking calls make.

| Part | State | Operations | Interacts with |
|---|---|---|---|
| task manager (`core/task.c`) | current task, ready, sleep and task list, per task: state, tick counters, list nodes | `task_init`, `task_set_ready/block/sleep/wakeup`, `task_dispatch`, `sys_sched_yield`, `sys_msleep`, `task_time_tick` | called by everything that blocks; uses the lists |
| timer (`dev/time.c`) | the PIT's line | `time_init`, `do_handler_timer` | calls `pic_send_eoi`, `task_time_tick` |
| interrupts (`cpu/irq.c`, `init/start.S`) | interrupt flag, masks and service of two 8259s, IDT | `irq_init`, `irq_install`, `irq_enable/disable`, `irq_enter/leave_protection`, `pic_send_eoi`, exception handlers | every function that must not be interrupted |
| mutex, semaphore (`ipc/`) | owner, nesting, count, wait list | `mutex_lock/unlock`, `sem_wait/notify` | block and wake tasks |
| lists (`tools/list.c`) | first, last, count; pre and next in each node | insert first/last, remove first, remove | nodes are embedded in `task_t`: `run_node`, `wait_node`, `all_node` |
| page allocator (`core/memory.c`, `tools/bitmap.c`) | a bitmap under a mutex | `addr_alloc_page`, `addr_free_page` | used by page tables and by `tss_init` |
| address spaces (`core/memory.c`) | directories and page tables in allocated pages, `heap_end` | create, copy and destroy a space, map a page, `sys_sbrk` | several tasks at once; only the allocator is locked |
| GDT, TSS (`cpu/cpu.c`, `tss_init`) | descriptors in use | `gdt_alloc_desc`, `gdt_free_sel`, `tss_init` | called when a task is created |
| library, log (`tools/klib.c`, `tools/log.c`) | none | strings, numbers, formatting | everyone |
| loader (`loader/`) | `boot_info`, the image in memory | `detect_memory`, `enter_protect_mode`, `read_disk`, `reload_elf_file`, `enable_page_mode` | calls the kernel with `boot_info`, from which `memory_init` sizes the page allocator |
| boot sector, applib, device headers | | | not modelled, see section 7 |

What is hard in it:

* **The tick handler switches tasks in its middle.** When a time slice ends,
  `task_time_tick` dispatches at line 279; the code behind it, the walk of the
  sleep list, is executed by the preempted task when it is switched back in,
  perhaps many ticks later, and several tasks can be suspended there.
* **One `run_node` serves two lists**, and `list_remove` does not check which
  list a node is on; the walk of the sleep list removes nodes as it goes.
* **A mutex is handed over** to a task that is not running.
* **Protected sections nest** in each other and in handlers, and tasks are
  switched inside of them; each restores the flag that it found.
* **Memory functions interleave** at every call of the page allocator and fail
  half-way when pages run out.
* **The machine decides** what memory map the loader gets, in what order, and
  whether a BIOS call fails.
* **Boundaries**: sums of `uint32_t`, the ends of the bitmap, the least `int`,
  strings as long as their buffer.

What makes each part correct: a task is in exactly one place (processor, ready
list, sleep list, one wait list); sleepers wake neither lost nor (by more than
is inherent) early or late; mutual exclusion and exact semaphores; pointers
that represent the sequence the callers expect; a page with exactly one use;
failures that give back what they took; interrupts enabled exactly outside of
the kernel's sections and handlers, and a line in service until its handler
says so; an allocator that hands out memory that exists.

## 2. The modules

| Module | Models | Level |
|---|---|---|
| `Sched` | task manager and timer interrupt | lists as sequences; the abstract specification of `SchedPtr` |
| `SchedHist` | the same, with history variables for sleeps | |
| `SchedPtr` | task manager on the linked lists | implements `Sched` (`ImplementsSched`) |
| `Kernel` | mutexes and semaphores on `Sched` | extends `Sched`; implements it (`UsesSched`) |
| `Irq` | interrupt flag, sections, handlers, 8259s, IDT, start-up | the mechanism behind the atomic actions of the other modules |
| `List` | `list.c` as operators on pointers | used by `SchedPtr` and `Klib` |
| `PageAlloc` | bitmap and page allocator | also what `Memory` must implement (`UsesPageAlloc`) |
| `Memory` | page tables, address spaces, heap | extends `PageAlloc` |
| `Tss` | GDT entries and what `tss_init` takes | extends `PageAlloc` |
| `Boot`, `MCBoot` | loader and `memory_init`; the machines it is checked on | one sequential program, any machine |
| `Klib`, `MCKlib` | string, number and list functions, `log_printf` | pure operators, called with small arguments |
| `SchedProofs` | proofs about `Sched`, after lemmas on `Append`, `Tail`, `RemoveFirst`, `ToSet` | |
| `SchedPtrProofs`, `KernelProofs` | proofs about `SchedPtr`; about `Kernel` and `SchedHist` | use `SchedProofs` |
| `PageProofs` | proofs about `PageAlloc` | |
| `MemoryProofs`, `CpuProofs` | proofs about `Memory`; about `Irq` and `Tss` | use `PageProofs` |
| `BootProofs`, `KlibProofs` | proofs about `Boot`; about `List` and `Klib` | |

Variables have the names of the C fields, actions the names of the functions.
Definitions that begin with `bad_` are faulty variants of the definition they
are named after; no specification uses them. They serve to see that a property
notices the mistake.

**Sched.** An operation of the kernel runs with interrupts disabled, so it is
one action up to its `task_dispatch`. A task that is switched away inside an
operation has nothing left to do in it but in `task_time_tick`; `pc` says where
in the handler each task is, and `cursor` is the handler's local `curr`. The
walk is one action per turn of the loop. `block_current` and `wake` stand for
what other modules do to the task manager; `Kernel` replaces them by the real
callers. `task_first_init` is one action: interrupts are not enabled before it
ends. It makes the first task ready twice, in `task_init` (line 104) and in
`task_start` (line 148). `RestartFirst = TRUE` is that code; `RestartFirst =
FALSE` is the code without line 148. What the runs of `Sched`, `Kernel` and
`SchedHist` check, and all theorems about them, is said **of the code without
line 148**: with it `RunNodeOnce` is false from the first step, and a sequence
cannot say what a node that is on a list twice does to the steps after it. The
pointers can, and the runs `SchedPtrBoot` and `SchedPtrDouble` have the line.

**Irq.** `stack[t]` has a frame for every section and handler that `t` is
inside of, with the flag that it will restore: the C variable `state` of a
section, the pushed `eflags` of a handler. `tss_eflags` is what a task switch
saves and loads. `boot` is the code before the first task; it enters sections
too (the log's mutex). An interrupt or an exception goes through an interrupt
gate, which clears the flag. The steps of a handler are in `todo`, in the order
of the code: the timer's is `<<"eoi", "body">>`, where the body, like any
section, may switch tasks; that of an exception ends in `halt`, but for a
general protection or page fault of an application, which returns. The 8259s
are external: fixed priorities, a non-specific end of interrupt, the second one
on pin 2 of the first. The repository has no driver but the timer's;
`driver_start` and `driver_stop` use `irq_install`, `irq_enable` and
`irq_disable` as `init_pit` does, with interrupts disabled.

**Boot.** The loader and `memory_init` as one sequence of steps; loops are one
action per turn. The BIOS has a map of entries, gives them in its order, and may
fail at any call. Addresses above 4 GB lose their high half (`% UINT`), the sum
of sizes and the subtraction of 1 MB wrap as unsigned numbers do. A file's bytes
are numbered, so that a byte in the wrong place shows; the assumption
`BootAssumption` says that segments are linked below 1 MB and one behind the
other, as `kernel.lds` does, and the file is read to 1 MB. `RegionsExact`
compares `boot_info` with the entries by saying which entry each region comes
from; `AllocatorInRam` is about the maps that `memory_init` is written for
(`PlainMap`): given in full, no memory in two entries, one block above 1 MB.

**Kernel.** `depth` and `balance` are the callers' view (calls made and not yet
paired); the code does not read them. Calls of a mutex before the first task
exists, when `task_current()` is null, are not modelled.

**SchedPtr and List.** An operation on a list takes a `list_t` and the nodes and
gives both back, with the assignments in the order of the code, so that a node
inserted twice does to the pointers what it does in the kernel. All operations
of `Sched` are there, the calls that `mutex.c` and `sem.c` make (`block_current`,
`wake`) included; `BootNext` leaves these out, since at this commit the first
task shares the machine with nobody.

**PageAlloc.** The bitmap is a function from bit numbers to 0 and 1; `held` is
the callers' view. `complement` is C's `~`, which gives a nonzero value for 0 as
for 1. `search_from` follows the code's search, which looks at one bit too few.
It is the search for one bit fewer (`SearchOneShort`): the last bit of a run may
be in use, or be the one behind the bitmap. The kernel asks for single pages
only, and what the runs and theorems say of pages that are held is about those.

**Memory.** Each function is cut at its calls of `addr_alloc_page` and
`addr_free_page`; `op[p]` holds its place and its locals. An entry is the
address in it or 0. Freed pages are cleared in the model and not in the code,
which makes no difference for what is read, as a page is cleared when it becomes
a table. `leaked` collects the pages that the code can no longer name.
`memory_create_map` allocates a table and fills the entry in one step, as
nobody else uses that directory at that time. At this commit nothing calls
`memory_copy_uvm` and `memory_destroy_uvm`; the model calls them as the header
offers them, for the caller's own space and for a space no longer in use. The same
holds for `memory_free_page` of a user address: its assertion always fails, and
a task in `panic` stays there while the others go on. `memory_copy_uvm_data`
changes no table; it is an operator that gives its result and the bytes it
writes, and `CopyDataExact` applies it to every range in every state.

**Tss.** As `Memory`, for the three resources of `tss_init`. `esp0` is written
before `memory_create_uvm` is called, and the failure path does not take it back:
after a failed call it names a page that has been freed. `AllOrNothing` is about
descriptors, pages and the page directory, and counts a stack as a task's when
`tss_init` has succeeded (`stack_page`). The end of a task does not exist in the code yet; `release_dir` and `release` give back what
`tss_init` took and are marked external.

**Klib.** The functions are operators; an action is one call, or one operation on
one of two lists that share the nodes, and the
properties compare the result with a reference definition. Pointers become
offsets; the formatting buffer is kept, since its terminator is the point.
`StringsExact` says what the string functions compute at every size. At the limit
that is not what a caller would expect: `kernel_strncpy` cuts off the last
character of a string that just fits and puts the NUL of a longer one behind the
size, and `kernel_strncmp` looks at the character behind the size.

## 3. The runs

Passing runs:

| Run | Question | Bounds |
|---|---|---|
| `Sched` | do lists, fields, processor and handler agree under all interleavings; how are ticks counted, how early or late is a wake-up? | 3 tasks and idle, slice 2, sleeps of 1 and 2 ticks and one that wraps |
| `KernelSafety` | are mutexes and semaphores right when every tick preempts? | 3 tasks, 2 mutexes nested twice, 1 semaphore, slice 1 |
| `KernelLive` | (no sleep that wraps) does every ready task run, every sleeper wake, every waiter get the mutex? | 3 tasks, 1 mutex, slice 1, sleeps of 1 and 2 ticks |
| `SchedPtr` | does the pointer version implement `Sched`, blocking and waking included? | as `Sched` |
| `SchedPtrBoot` | do the walk and the dispatcher survive that the first task is inserted twice? | the program's own tasks: first and idle |
| `Memory` | one place for every page when memory runs out? | 2 tasks, 6 pages, requests of one and three pages, two entries a table |
| `MemoryCopy` | are copies of spaces, and of data into spaces, complete? | 2 tasks, 9 pages, two entries a table, every range of the heap |
| `Tss` | all or nothing, exact bitmap; what does the search of the bitmap find? | 4 tasks, 3 free descriptors, 4 pages; requests of 1 to 5 bits |
| `Klib` | are results what they should be? | every 8-bit int, strings to 3 with sizes on both sides of their length, formats to 4 characters; every pair of lists of 4 nodes |
| `Irq` | does the interrupt flag follow the nesting, the service the handlers; is a tick always taken? | 2 tasks, the timer and line 14 of the second 8259, 3 frames deep, one section inside of each |
| `Boot` | are regions, image and allocator right on every machine? | maps of up to 5 of 6 kinds of entries in both orders, 4 places in the table, a failure at any call, about 290 files |

Three tasks are the fewest with which one task is preempted inside the handler,
another is current and a third sleeps or waits; slices of 1 and 2 give both
outcomes of every tick (`Sched` has slice 2, `Kernel` slice 1), sleeps of 1 and 2 ticks give a sleeper that stays and
one that leaves during a walk. `UINT` is 16 in place of 2^32: only the wrap
matters. With 6 pages two tasks cannot both grow, so every allocation fails
somewhere; with 9 a copy of two pages can be completed. Three frames are a
section inside of a handler inside of another handler or section, one section
inside of each lets a task be switched away at every level, and a line of the second
8259 beside the timer has lower priority and needs both controllers. In `Boot`
1 MB is 6 units and 4 GB are 32; a map can have more entries than the table. The
bounds inside the models are `MaxDepth`, `MaxCount` (`Kernel`), `HeapLimit`
(`Memory`), `MaxDepth` and `MaxCalls` (`Irq`).
`Memory` is checked without deadlock, as `panic` never returns and calls stop
when the heaps are at their bound; tasks are symmetric there.

**Fairness.** The PIT is periodic and the 8259 keeps a request while interrupts
are disabled, so `timer_interrupt` is weakly fair; so are the processor's steps
through the handler and the start of the first task. No fairness is assumed of
the tasks' own calls, with one exception in `KernelLive`: a task that owns a
mutex and gets the processor again and again eventually unlocks it (strong
fairness of `mutex_unlock`), without which no waiter can hope. In `Irq` the
kernel's own code inside of sections and handlers goes on (weak fairness of
`Proceed`); start-up enters finitely many sections and so reaches its next step
(strong fairness of `StartUp`); and the processor takes an interrupt as soon as
the flag is set and one is pending, even if the flag is set for a moment only
(strong fairness of `interrupt`). Nothing is assumed of tasks, devices and
drivers.

**`SchedPtrBoot` and the program.** At this commit the first task's `msleep`
does not get into the kernel: the call gate that `init_gdt` sets up leads to
`exception_handler_syscall`, which has no body (`start.S` line 117), so the
program of this commit does not come as far as `sys_msleep`. The two runs with
line 148 show what the task manager does on the list the boot leaves behind, when
`sys_msleep`, the yield and the ticks are called on it.

**Disagreements.** Each of these formulas says what a comment of the code says,
and TLC refutes it. The first is a run of `PROJECT.json`, which quotes the
comment; the others have a configuration of their own, for instance
`tlc -config MsleepWrap.cfg Sched`.

| Module, configuration | Formula | Code | Comment |
|---|---|---|---|
| `SchedPtr`, `SchedPtrDouble.cfg` | `MsleepLeavesReady` | `task.c` 148: the first task, inserted twice, stays at the head of the ready list when it sleeps | 334, removed from the ready list and added to the sleep list |
| `Sched`, `MsleepWrap.cfg` | `SleeperNotLost` | `task.c` 336: `ms + (OS_TICK_MS - 1)` wraps, the count is 0 and the task is on no list | 334, the same |
| `SchedHist`, `MsleepEarly.cfg` | `AtLeastOneTick` | `task.c` 279: the walk of a preempted handler counts for tasks that fell asleep after the interrupt, so a task can wake before any tick | 327, a sleep lasts at least one tick |
| `PageAlloc`, `BitmapPairs.cfg` | `AllocIsFirstFit` | `bitmap.c` 79: the search for several bits looks at one too few and may return a used one, or one behind the end; the kernel asks for single pages only | 59, allocates consecutive bits |
| `Memory`, `HeapUnmapped.cfg` | `HeapMapped` | `memory.c` 348: without a free page the result is the one for success, and `sys_sbrk` moves `heap_end` over nothing | 366, 439 |
| `Memory`, `SbrkRemaps.cfg` | `NeverRemapped` | `memory.c` 355: a `sys_sbrk` that fails half-way leaves its pages mapped and `heap_end` where it was, so a repeated call meets present entries | 135, the entry does not exist yet |
| `Memory`, `PaddrUnmapped.cfg` | `PaddrZeroWhenUnmapped` | `memory.c` 303: an entry that is not present is translated to the offset in the page | 295, returns 0 if the translation fails |
| `Memory`, `FreePagePanics.cfg` | `FreePageFrees` | `memory.c` 392: the assertion is false for every mapped page of a task | 390, the page and its entry are freed |
| `MCKlib`, `KlibCompare.cfg` | `StrncmpAtMostSize` | `klib.c` 105: the result depends on one character behind `size` | 90, compares at most `size` characters |
| `MCBoot`, `BiosRestart.cfg` | `EnumerationEnds` | `loader_16.c` 60: an ignored entry is not asked whether it was the last, and the enumeration starts again | 45, it ends when EBX is 0 |
| `MCBoot`, `AllocatorHoles.cfg` | `AllocatorAlwaysInRam` | `memory.c` 419: less than 1 MB in all, a hole, or memory counted twice give the allocator pages that do not exist | 418, the free memory above 1 MB |

## 4. What is proved

The theorems about the task manager, mutexes and semaphores, those from
`TypeCorrect` to `NoTaskLost` and the two about pointers, assume that the first
task is made ready once (`RestartFirst = FALSE`: the code without line 148 of
`task.c`, see section 2). Beyond that, all theorems hold for every value of the
constants that the named assumptions of the modules allow: any set of tasks, mutexes and semaphores, any slice, tick
length and set of sleep arguments (`TaskAssumption`, `NumAssumption`,
`IpcAssumption`); any lines, depth and number of calls (`IrqAssumption`); a
memory of any size (`PageAllocAssumption`); any GDT (`TssAssumption`); page
tables of any size (`MemoryAssumption`, which says that the memory managed by
the allocator lies below the tasks' addresses); every map of the BIOS, table and
file (`BootAssumption`); all numbers of an `int` of any size, strings and sizes
(`KlibAssumption`: a string has no NUL among its characters), formats that print
no more than `str_buf` holds (`LogAssumption`: nothing in `log_printf` checks
it) and nodes (`NodeAssumption`, `PtrAssumption`).

| Theorem | Statement |
|---|---|
| `TypeCorrect` | `Spec => []TypeOK` |
| `RunNodeSafe` | `Spec => []RunNodeOnce` |
| `HeadRuns` | `Spec => []CurrIsHead` |
| `SleepSafe` | `Spec => [](SleepFieldsAgree /\ CursorSleeps /\ HandlersPending)` |
| `HandlersSafe` | `Spec => []HandlersPending` |
| `FairOrder` | `Spec => NoOvertaking` |
| `TicksBalance`, `WalksBalance` | `HSpec => []TickAccounting`, `HSpec => []WalkAccounting` |
| `WakesInTime` | `HSpec => WakeAccuracy` |
| `KTypeCorrect` | `KSpec => []KTypeOK` |
| `MutexSafe`, `MutexExact` | `KSpec => []MutualExclusion`, `KSpec => []MutexFields` |
| `SemSafe` | `KSpec => []SemExact` |
| `KernelUsesSched` | `KSpec => UsesSched`: the composition implements `Sched` |
| `NoTaskLost` | under `NoWrap`, `KSpec => []WaitersAreBlocked` |
| `FlagSafe` | `ISpec => []FlagExact` |
| `ServiceSafe` | `ISpec => []ServiceExact` |
| `SearchExact` | what the search of `bitmap_alloc_nbits` returns, for every bitmap, bit and count |
| `SearchAlways` | `PASpec => []SearchOneShort`, for every `PageCounts` |
| `BitmapExact`, `FirstFitAlways` | with `PageCounts = {1}`: `PASpec => []BitsAreHeld`, `PASpec => []AllocIsFirstFit` |
| `TssAllOrNothing` | `TSpec => []AllOrNothing` |
| `TssUsesPages` | `TSpec => PASpec`: `tss_init` uses the allocator as `PageAlloc` says |
| `PagesSafe` | `MSpec => []PagesOwnedOnce` |
| `MemoryUsesPages` | `MSpec => UsesPageAlloc`: so does `memory.c` |
| `HeapGrows` | `MSpec => HeapGrowth` |
| `CopiesComplete` | `MSpec => CopyComplete` |
| `CopyDataSafe` | `MSpec => []CopyDataExact` |
| `PointersImplementSched` | with `RestartFirst = FALSE`, `PSpec => ImplementsSched`: the pointers implement `Sched` |
| `ListsSafe` | with `RestartFirst = FALSE`, `PSpec => []ListsWellFormed` |
| `ListOperations` | `KLSpec => []ListsHold` |
| `StringsSafe` | `KLSpec => []StringsExact` |
| `ItoaSafe` | `KLSpec => []ItoaReadsBack` |
| `LogSafe` | `KLSpec => []LogLine` |
| `ImageSafe` | `BSpec => []ImageLoaded` |
| `RegionsSafe` | `BSpec => []RegionsExact` |
| `AllocatorSafe` | `BSpec => []AllocatorInRam` |

**Scheduler.** The inductive invariant `IInv` of `SchedProofs` is the
conjunction of the checked invariants and `Basics`, what else they lean on. They
need one another: that the head of the ready list runs needs the node to be on
the list once, that the walk's cursor stays on the sleep list needs that only
the current task is inside the walk, and that a tick count stays positive until
it is taken off the list needs the agreement of state, count and list.
`FairOrder` is an action property: every action removes the running task from
the ready list, moves it to the end, or appends a task (lemmas `OrderAppend`,
`OrderRemove` and their like). `NoTaskLost` holds only without the wrap in
`sys_msleep`, hence its assumption `NoWrap`; `MsleepWrap.cfg` shows what the wrap
does.

**Sleeps.** `HInv` of `KernelProofs` is `IInv` with the two accounts and the
finiteness of the set of suspended handlers, whose cardinality is `Outstanding`.
A turn of the walk moves one sleeper from "to be passed" to "passed", whether
it stays on the list or leaves it; the end of a walk turns every "passed" into a
walk made. `WakesInTime` is arithmetic on the two accounts at the step at which a
count reaches zero.

**Mutexes, semaphores.** `KInv` of `KernelProofs` adds the fields of mutexes and
semaphores and that a waiter is queued on one list only; `KernelUsesSched`
follows because a waiter is blocked, so that `make_ready` is `wake`.

**Interrupts.** `FlagInv` of `CpuProofs` adds to `FlagExact` what is saved before
the first task runs: in every stack but boot's the lowest frame has a set flag
and all others a clear one, in boot's all are clear, so that whoever pops a
frame knows whether anything is left under it. It is preserved by three shapes
of step, a frame pushed, popped or replaced on top (`PushStep`, `PopStep`,
`TopStep`), and by the task switch. `SInv`, for `ServiceSafe`, says that only
the topmost frame of the current task can still owe its end of interrupt
(`EndedBelow`: a handler keeps interrupts disabled until it has sent it, which is
where `FlagInv` is needed), so that the service registers of both controllers are
those of one line or empty; a non-specific end of interrupt can then only end
that line. An exception inside of the kernel ends in `halt` and may leave a line
in service; all of this is said for states without one (`Doom`).

**Pages.** `search_from` is a recursive function whose argument grows. That
its equation has one solution, the closed form `FirstPlace`, is proved by least
counterexample: of the places where two solutions differ take the last one.
`SearchExact` states the result for every count, and `SearchRoom` reads it as the
first room for one bit fewer, which is `SearchAlways`. `PAInv` is typing and `BitsAreHeld`. `Tss` and `Memory` share one
idea, `OneEach(X, d, S)`: the resources `S` are what the places `X` hold, each in one place.
It is kept by steps that take one resource, drop one, move one between places,
or exchange places (`TakeOne`, `DropOne`, `MoveOne`, `SwapAll`), and every
action is shown to be one of these. `TInv` has it for descriptors and for pages,
with the fields of a task at each step of `tss_init` (`Shape`). `MInv` has it for
`Own`, the pages in the kernel's directory, in the hands of functions, as
directories, tables and entries of every address space, and of the part of a
space that `memory_destroy_uvm` has not reached; `OpOK` says what the local
variables of the functions range over, `ChildOK` that a task being copied to is
not at work. Freeing a page clears it in the model, so the proofs show first
that no table in use is the page that is freed: that is `OneEach` again.
`PagesSafe` then is `OneEach` in other words.

**Heap and copies.** `HeapGrows` and `CopiesComplete` are about the last step of
a loop, so they need to know what the earlier turns have done. `CInv` adds
that to `MInv`: `GrowOK`, the pages between the old and the new end of the heap
are those that `sys_sbrk` asks for (`Covers`: the arithmetic of `up2` and of
the rest of a page, `SbrkCovers` and `SbrkFrom`) and the first `i` of them are
mapped; `CopyOK`, the copy has exactly the pages of the original below the
address that the loop has reached. The steps of other tasks leave these spaces
alone (`OthersLeft`) because a page is in one place, which is `MInv`; this is
also why an original does not change while it is copied.

**Data copied into a space.** `memory_copy_uvm_data` is a recursive function of
what is left to copy. `CopyDataSafe` is not an induction over steps but over that
loop: each turn copies at least one byte and stays inside of one page, so the
equation of the loop has exactly one solution, which is written down (the
bytes of the range from here on) and shown to satisfy it.

**Pointers.** `PInv` of `SchedPtrProofs` says that the pointers represent, in
both directions, the sequences of tasks that one reads along `next`, and that
Sched's `IInv` holds of these sequences. Each
operation of `list.c` is shown to make the pointers of the new sequence from
those of the old one and to touch no node of another list (`InsertLast`,
`RemoveNode`, `ListFrame`), which needs that the node is on no list, or on this
one: that is what `IInv` knows. `Contents`, the walk along the `next` pointers
that defines the refinement, gives the represented sequence (`WalkedIs`), so
each action of `SchedPtr` is the action of `Sched` with the same name. The
theorems are about the code without line 148 of `task.c`
(`RestartFirst = FALSE`); with it a node is inserted twice, `PInv` fails at
`task_first_init`, and the runs `SchedPtrBoot` and `SchedPtrDouble` show what is left.

**Lists and strings.** `ListOperations` says the same of every list that any
caller may build, for all four operations and a second list beside it; its
lemmas are those of `SchedPtrProofs`, for `Klib`'s nodes. `StringsSafe`
says what the functions compute, not that it is what a caller wants. The work is
in the limits: `Max` and `Min` of the sets that stand for the loops of
`kernel_strncmp` and `get_file_name` (`MaxIs`, `MinIs`, `CommonStart`), the
terminator of `kernel_strncpy` (`KeptOf`), the character behind the limit that
`kernel_strncmp` looks at (`StopOf`, `AgreeBehind`), and the loop of `kernel_memcpy`, whose solution
is the memory with the first `n` bytes moved (`Moved`): a turn reads a byte
that no earlier turn has written, because the destination does not begin inside
the source.

**Numbers and the log.** The loop of `kernel_itoa` is a recursive function over
all integers. That it has a value at all is shown first: a solution exists on
the numbers up to `n` in size for every `n`, by the least `n` for which there is
none, two solutions agree where both are defined, and together they make one on
all integers (`DigitsExist`). Again by a least counterexample, its digits are
those of the number (`Reads`, `AllRead`): they read back as the number and the
last one made is not a `0`; a digit more multiplies by the base (`MoreDigits`),
for a negative number as for a positive one, because `num2ch` takes a remainder
of either sign. For `log_printf`, `Consistent` ties the loop of
`kernel_vsprintf` to `Expansion`, which is defined from the other end: what is
printed so far, followed by what the rest of the format stands for, is the whole
line, and in the state `READ_FMT` the rest begins at the `%` just read. The line
then ends at the first `NUL` of the cleared buffer, since no character before
it is one (`ClearedBuffer`).

**Loader and `memory_init`.** `ImageInv` says how far the image has got: the
segments in front of the loop's `i` are in place, the rest of memory is as
`read_disk` left it; a segment does not disturb an earlier one because they do
not overlap. `DetectInv` says which entries the BIOS has given and that
`boot_info` has the usable ones among them in order (`From`, by an increasing
function from regions to entries, which a turn extends by one). `AllocInv` adds
the size computed by `memory_init`. Its sum over `boot_info`, reduced modulo
`UINT` at every turn, is the number of usable bytes of the machine
(`TotalIsRam`: the sum up to region `n` is the cardinality of what the first `n`
regions cover), from which rounding down to pages gives a range inside the block
above 1 MB (`CutSizes`).

Only model-checked:

* liveness (`ReadyRuns`, `SleeperWakes`, `WaiterOwns`, `TimerServed`, `WalkEnds`,
  `FirstTaskRuns`), which the prover cannot do.

## 5. What the checks rest on

* One processor. That a section is not interrupted and that a task finds the
  interrupt flag as it left it is what `FlagSafe` proves of `Irq`; that the
  actions of the other modules are the sections of the code is read off the code.
* In the modules other than `Irq` only the timer interrupts.
* At this commit only the first and the idle task are created, and the first
  task only calls `msleep`, which has no way into the kernel yet. The models let
  any number of tasks use the kernel's functions as they are offered;
  `SchedPtrBoot` has the program's own tasks and its boot.

## 6. Plan

1. Composition of `PageAlloc` with `Kernel`: the allocator's calls cut at the
   mutex, to show that an action per call is justified; the same for the GDT.
2. Should `bitmap_alloc_nbits` be repaired: `BitmapExact` and `FirstFitAlways`
   beyond `PageCounts = {1}`, where `BitmapPairs.cfg` refutes them today.

## 7. What is not modelled

The boot sector, the registers of the disk, of the serial port and of the PIT
are input and output. The application library is not built and the kernel's
side of its system calls does not exist at this commit; the console, tty and
disk are headers without an implementation. `strings_count`, `kernel_strcpy` and
`kernel_memcmp` are called by nothing. Contents of data pages, permissions, and
the contents of descriptors and of the TSS but for `eflags` are abstracted away:
what the processor makes of them is outside of the kernel's code. Mutexes taken
during start-up, before there is a current task, are not modelled.
