-------------------------------- MODULE Tss ---------------------------------
(***************************************************************************)
(* What tss_init of kernel/core/task.c allocates for a task: an entry of   *)
(* the GDT (kernel/cpu/cpu.c), a page for the kernel stack and a page for  *)
(* the page directory.  gdt_alloc_desc and addr_alloc_page are locked each *)
(* by a mutex of its own, so the calls of several creators interleave.     *)
(* at[p] is where the tss_init of task p has got to, sel[p] and page[p]    *)
(* are its local variables tss_sel and kernel_stack.  tss.esp0 is written  *)
(* before it is known whether the call succeeds, and the failure path does *)
(* not take it back: after a failed call it is the end of a freed page.    *)
(***************************************************************************)
EXTENDS PageAlloc

CONSTANTS
    Proc,               \* the tasks
    GDT_TABLE_SIZE,     \* entries of the GDT, entry 0 included
    Reserved            \* the entries of the kernel and application segments

ASSUME TssAssumption ==
    /\ PageCounts = {1}
    /\ GDT_TABLE_SIZE \in Nat \ {0}
    /\ Reserved \subseteq 1..(GDT_TABLE_SIZE-1)

VARIABLES
    gdt,                \* the entries whose attr is not zero
    tss_sel,            \* task_t.tss_sel as an index, 0 when there is none
    esp0,               \* task_t.tss.esp0, the end of the kernel stack's page
    cr3,                \* task_t.tss.cr3, 0 when there is none
    at, sel, page       \* the calls of tss_init

locals == <<at, sel, page>>
tss == <<tss_sel, esp0, cr3>>
tvars == <<pavars, gdt, tss, locals>>

FreeDesc == (1..(GDT_TABLE_SIZE-1)) \ gdt
NoRoom == bitmap_alloc_nbits(bits, 0, 1).index < 0
NewPage == page_addr(bitmap_alloc_nbits(bits, 0, 1).index)

\* The pages of the kernel stacks of the tasks that tss_init has finished.
stack_page == [p \in Proc |-> IF at[p] = "done" THEN esp0[p] - page_size ELSE 0]
-----------------------------------------------------------------------------
(* Faulty variant of gdt_free_sel: the entry stays in use.                 *)
bad_free_sel(i) == gdt' = gdt
-----------------------------------------------------------------------------
TInit ==
    /\ PAInit
    /\ gdt = Reserved
    /\ tss_sel = [p \in Proc |-> 0]
    /\ esp0 = [p \in Proc |-> 0]
    /\ cr3 = [p \in Proc |-> 0]
    /\ at = [p \in Proc |-> "start"]
    /\ sel = [p \in Proc |-> 0]
    /\ page = [p \in Proc |-> 0]

(* The first entry that is free; without one, tss_init returns -1.  Then   *)
(* tss_init clears the task's tss_t.                                       *)
gdt_alloc_desc(p) ==
    /\ at[p] = "start"
    /\ FreeDesc # {}
    /\ gdt' = gdt \union {Min(FreeDesc)}
    /\ sel' = [sel EXCEPT ![p] = Min(FreeDesc)]
    /\ at' = [at EXCEPT ![p] = "stack"]
    /\ esp0' = [esp0 EXCEPT ![p] = 0]
    /\ cr3' = [cr3 EXCEPT ![p] = 0]
    /\ UNCHANGED <<pavars, tss_sel, page>>

gdt_free_sel(i) == gdt' = gdt \ {i}

(* memory_alloc_page for the kernel stack, which esp0 is to point to.      *)
tss_init_stack(p) ==
    /\ at[p] = "stack"
    /\ \/ /\ addr_alloc_page(1)
          /\ page' = [page EXCEPT ![p] = NewPage]
          /\ esp0' = [esp0 EXCEPT ![p] = NewPage + page_size]
          /\ at' = [at EXCEPT ![p] = "dir"]
          /\ UNCHANGED <<gdt, sel>>
       \/ /\ NoRoom
          /\ gdt_free_sel(sel[p])
          /\ at' = [at EXCEPT ![p] = "start"]
          /\ sel' = [sel EXCEPT ![p] = 0]
          /\ UNCHANGED <<pavars, page, esp0>>
    /\ UNCHANGED <<tss_sel, cr3>>

(* memory_create_uvm, of which only the page matters here.                 *)
tss_init_dir(p) ==
    /\ at[p] = "dir"
    /\ sel' = [sel EXCEPT ![p] = 0]
    /\ \/ /\ addr_alloc_page(1)
          /\ tss_sel' = [tss_sel EXCEPT ![p] = sel[p]]
          /\ cr3' = [cr3 EXCEPT ![p] = NewPage]
          /\ page' = [page EXCEPT ![p] = 0]
          /\ at' = [at EXCEPT ![p] = "done"]
          /\ UNCHANGED <<gdt, esp0>>
       \/ /\ NoRoom
          /\ gdt_free_sel(sel[p])
          /\ at' = [at EXCEPT ![p] = "undo"]
          /\ UNCHANGED <<pavars, tss, page>>

(* memory_free_page of the kernel stack, below MEMORY_TASK_BASE; esp0 is   *)
(* left as it is.                                                          *)
tss_init_undo(p) ==
    /\ at[p] = "undo"
    /\ addr_free_page(page[p])
    /\ page' = [page EXCEPT ![p] = 0]
    /\ at' = [at EXCEPT ![p] = "start"]
    /\ UNCHANGED <<gdt, tss, sel>>

(* The end of a task, as a caller has to do it: the page directory first   *)
(* (memory_destroy_uvm), then the stack and the GDT entry.                 *)
release_dir(p) ==
    /\ at[p] = "done" /\ cr3[p] # 0
    /\ addr_free_page(cr3[p])
    /\ cr3' = [cr3 EXCEPT ![p] = 0]
    /\ UNCHANGED <<gdt, tss_sel, esp0, locals>>

release(p) ==
    /\ at[p] = "done" /\ cr3[p] = 0
    /\ addr_free_page(stack_page[p])
    /\ gdt_free_sel(tss_sel[p])
    /\ tss_sel' = [tss_sel EXCEPT ![p] = 0]
    /\ at' = [at EXCEPT ![p] = "start"]
    /\ UNCHANGED <<esp0, cr3, sel, page>>

TNext ==
    \E p \in Proc :
        \/ gdt_alloc_desc(p) \/ tss_init_stack(p) \/ tss_init_dir(p) \/ tss_init_undo(p)
        \/ release_dir(p) \/ release(p)

TSpec == TInit /\ [][TNext]_tvars
-----------------------------------------------------------------------------
(* The types of the GDT and of the task fields that tss_init sets.         *)
TTypeOK ==
    /\ gdt \subseteq 1..(GDT_TABLE_SIZE-1)
    /\ tss_sel \in [Proc -> 0..(GDT_TABLE_SIZE-1)]
    /\ esp0 \in [Proc -> Nat] /\ cr3 \in [Proc -> Nat]
    /\ at \in [Proc -> {"start", "stack", "dir", "undo", "done"}]
    /\ sel \in [Proc -> 0..(GDT_TABLE_SIZE-1)] /\ page \in [Proc -> Nat]

(* tss_init takes all or nothing: the GDT entries and the pages in use are *)
(* exactly those of finished tasks and of calls still under way, each one  *)
(* belongs to one task, and a call that failed keeps no entry, no page and *)
(* no page directory.  (Its esp0 may still name the page it gave back: a   *)
(* stack counts as a task's only when tss_init has succeeded.)             *)
AllOrNothing ==
    LET desc(x) == IF x[2] = "tss" THEN tss_sel[x[1]] ELSE sel[x[1]]
        sels == {x \in Proc \X {"tss", "local"} : desc(x) # 0}
        addr(x) == CASE x[2] = "stack" -> stack_page[x[1]]
                     [] x[2] = "dir" -> cr3[x[1]]
                     [] OTHER -> page[x[1]]
        pages == {x \in Proc \X {"stack", "dir", "local"} : addr(x) # 0}
    IN  /\ gdt = Reserved \union {desc(x) : x \in sels}
        /\ held = {addr(x) : x \in pages}
        /\ \A x, y \in sels : desc(x) = desc(y) => x = y
        /\ \A x, y \in pages : addr(x) = addr(y) => x = y
        /\ \A x \in sels : desc(x) \notin Reserved
        /\ \A p \in Proc : at[p] = "start" =>
              sel[p] = 0 /\ page[p] = 0 /\ tss_sel[p] = 0 /\ cr3[p] = 0
=============================================================================
