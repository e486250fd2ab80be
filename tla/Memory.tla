------------------------------- MODULE Memory -------------------------------
(***************************************************************************)
(* Address spaces: the two-level page tables of kernel/core/memory.c and   *)
(* the heap of sys_sbrk, on top of the page allocator.                     *)
(*                                                                         *)
(* These functions run with interrupts enabled; only the page allocator is *)
(* locked, call by call.  So a function is cut into one action per call of *)
(* addr_alloc_page or addr_free_page, and the functions of several tasks   *)
(* interleave.  op[p] is where the function that works for task p has got  *)
(* to, with its local variables:                                           *)
(*   "idle"                       no such function is active;              *)
(*   "alloc" "map"                memory_alloc_for_page_dir in sys_sbrk;   *)
(*   "copy" "copymap"             memory_copy_uvm;                         *)
(*   "destroy"                    memory_destroy_uvm;                      *)
(*   "panic"                      an ASSERT failed: panic never returns.   *)
(*                                                                         *)
(* Physical and virtual addresses are numbers; a page table or directory   *)
(* entry is the address in it, with 0 for an entry that is not present.    *)
(* The other bits of the entries and the bytes of data pages are left out. *)
(***************************************************************************)
EXTENDS PageAlloc, TLC

CONSTANTS
    Proc,               \* the tasks
    PDE_CNT,            \* entries of a page directory
    PTE_CNT,            \* entries of a page table
    user_pde_start,     \* pde_index(MEMORY_TASK_BASE)
    KERNEL_PDES,        \* page tables that create_kernel_table makes
    Incr                \* the arguments sys_sbrk is called with

ASSUME MemoryAssumption ==
    /\ PageCounts = {1}
    /\ PDE_CNT \in Nat /\ PTE_CNT \in 1..PDE_CNT
    /\ user_pde_start \in 1..(PDE_CNT-1)
    /\ KERNEL_PDES \in 0..user_pde_start
    /\ Incr \subseteq Nat
    /\ start % page_size = 0
    /\ start + bit_count * page_size <= user_pde_start * PTE_CNT * page_size

VARIABLES
    kernel_page_dir,    \* the kernel's page directory
    table,              \* what the pages hold as directories and tables
    cr3,                \* task_t.tss.cr3, 0 when there is none
    heap_end,           \* task_t.heap_end
    op,                 \* the function at work for each task
    leaked              \* pages no one will free (not read by the code)

mvars == <<pavars, kernel_page_dir, table, cr3, heap_end, op, leaked>>

MEMORY_TASK_BASE == user_pde_start * PTE_CNT * page_size
HeapLimit == PDE_CNT * PTE_CNT * page_size      \* bound: no heap beyond this
UserPage == {i * page_size : i \in (user_pde_start * PTE_CNT)..(PDE_CNT * PTE_CNT - 1)}
PageAddr == {page_addr(i) : i \in 0..(bit_count-1)}
Entries == 0..(PDE_CNT-1)
Zeroed == [i \in Entries |-> 0]
Idle == [at |-> "idle"]

Becomes(p, o) == op' = [op EXCEPT ![p] = o]

\* memory_destroy_uvm has freed what comes before the entry (pde, pte).
Destroying(dir, pde, pte) == [at |-> "destroy", to |-> dir, pde |-> pde, pte |-> pte]
-----------------------------------------------------------------------------
(* Faulty variants of definitions below, used to see that the properties   *)
(* notice such mistakes.                                                   *)

\* A size is rounded down.
bad_up2(size) == (size \div page_size) * page_size

\* The pages to free are named by their place in the task's own memory.
bad_undo_alloc(vaddr, count) ==
    bits' = bitmap_set_bit(bits, (vaddr - MEMORY_TASK_BASE) \div page_size, count, 0)

\* The loop begins with the page tables that are shared with the kernel.
bad_destroy_from(dir) == Destroying(dir, 0, 0)

\* A chunk is a page, wherever in its page it begins.
bad_chunk(paddr) == page_size

\* The loop takes one page of every page table.
bad_copy_next(vaddr) == vaddr + PTE_CNT * page_size
-----------------------------------------------------------------------------
up2(size) == ((size + page_size - 1) \div page_size) * page_size
pde_index(vaddr) == vaddr \div (PTE_CNT * page_size)
pte_index(vaddr) == (vaddr \div page_size) % PTE_CNT

\* The page the next addr_alloc_page(1) returns, if the allocator has one.
NoRoom == bitmap_alloc_nbits(bits, 0, 1).index < 0
NewPage == page_addr(bitmap_alloc_nbits(bits, 0, 1).index)

(* find_pte without allocation: the page table for vaddr, or 0.            *)
find_pte(dir, vaddr) == table[dir][pde_index(vaddr)]

pte_paddr(dir, vaddr) == table[find_pte(dir, vaddr)][pte_index(vaddr)]

Mapped(dir) == {v \in UserPage : find_pte(dir, v) # 0 /\ pte_paddr(dir, v) # 0}

memory_get_paddr(dir, vaddr) ==
    IF find_pte(dir, vaddr) = 0 THEN 0
    ELSE pte_paddr(dir, vaddr) + (vaddr % page_size)

(* What memory_copy_uvm_data may copy at once: the rest of the page.       *)
chunk(paddr) == page_size - (paddr % page_size)

(* memory_copy_uvm_data: what it returns and the bytes it copies, as pairs *)
(* of a physical address and the address in the caller's memory.  left is  *)
(* the loop's size.                                                        *)
memory_copy_uvm_data(to, dir, from, size) ==
    LET copy[left \in 0..size] ==
          LET done      == size - left
              to_paddr  == memory_get_paddr(dir, to + done)
              curr_size == Min({chunk(to_paddr), left})
          IN  IF left = 0 THEN [ret |-> 0, bytes |-> {}]
              ELSE IF to_paddr = 0 THEN [ret |-> -1, bytes |-> {}]
              ELSE [ret   |-> copy[left - curr_size].ret,
                    bytes |-> {<<to_paddr + i, from + done + i>> : i \in 0..(curr_size-1)}
                              \union copy[left - curr_size].bytes]
    IN  copy[size]

(* memory_create_map of one page, with its three outcomes: a page table    *)
(* that is missing is allocated and cleared, if there is room for it; and  *)
(* the entry must not be present.                                          *)
create_map(dir, vaddr, paddr) ==
    \/ /\ find_pte(dir, vaddr) # 0
       /\ pte_paddr(dir, vaddr) = 0
       /\ table' = [table EXCEPT ![find_pte(dir, vaddr)][pte_index(vaddr)] = paddr]
       /\ UNCHANGED pavars
    \/ /\ find_pte(dir, vaddr) = 0
       /\ addr_alloc_page(1)
       /\ table' = [table EXCEPT ![dir][pde_index(vaddr)] = NewPage,
                                 ![NewPage] = [Zeroed EXCEPT ![pte_index(vaddr)] = paddr]]

create_map_fails(dir, vaddr) == find_pte(dir, vaddr) = 0 /\ NoRoom

create_map_asserts(dir, vaddr) == find_pte(dir, vaddr) # 0 /\ pte_paddr(dir, vaddr) # 0

(* addr_free_page of one page.  A free page is cleared here and not in the *)
(* code, which clears a page when it becomes a table: what a free page     *)
(* holds is never read.                                                    *)
free_page(addr) ==
    /\ addr_free_page(addr)
    /\ table' = [table EXCEPT ![addr] = Zeroed]

(* memory_create_uvm when there is a page: a directory that shares the     *)
(* kernel's page tables.                                                   *)
memory_create_uvm ==
    /\ addr_alloc_page(1)
    /\ table' = [table EXCEPT ![NewPage] =
                   [i \in Entries |-> IF i < user_pde_start THEN kernel_page_dir[i] ELSE 0]]

(* addr_free_page of count pages that are named by a virtual address.      *)
undo_alloc(vaddr, count) == bits' = bitmap_set_bit(bits, pg_idx(vaddr), count, 0)

(* The last assignment of sys_sbrk.                                        *)
set_heap_end(p, end) == heap_end' = [heap_end EXCEPT ![p] = end]

(* The start of memory_destroy_uvm(dir): the user's part of the directory. *)
destroy_from(dir) == Destroying(dir, user_pde_start, 0)

(* The page after vaddr in the loops of memory_copy_uvm.                   *)
copy_next(vaddr) == vaddr + page_size
-----------------------------------------------------------------------------
MInit ==
    /\ PAInit
    /\ kernel_page_dir = Zeroed
    /\ table = [a \in PageAddr |-> Zeroed]
    /\ cr3 = [p \in Proc |-> 0]
    /\ heap_end = [p \in Proc |-> MEMORY_TASK_BASE]
    /\ op = [p \in Proc |-> Idle]
    /\ leaked = {}

Booted == \A i \in 0..(KERNEL_PDES-1) : kernel_page_dir[i] # 0

(* The page tables that create_kernel_table's calls of memory_create_map   *)
(* make, one after the other.                                              *)
create_kernel_table(i) ==
    /\ \A j \in 0..(i-1) : kernel_page_dir[j] # 0
    /\ kernel_page_dir[i] = 0
    /\ addr_alloc_page(1)
    /\ kernel_page_dir' = [kernel_page_dir EXCEPT ![i] = NewPage]
    /\ table' = [table EXCEPT ![NewPage] = Zeroed]
    /\ UNCHANGED <<cr3, heap_end, op, leaked>>

Unborn(q) ==
    /\ op[q].at = "idle" /\ cr3[q] = 0
    /\ \A p \in Proc : op[p].at \in {"copy", "copymap"} => op[p].child # q
-----------------------------------------------------------------------------
(* memory_create_uvm for a new task (module Tss has the rest of tss_init). *)
new_task(p) ==
    /\ Booted /\ Unborn(p)
    /\ memory_create_uvm
    /\ cr3' = [cr3 EXCEPT ![p] = NewPage]
    /\ UNCHANGED <<kernel_page_dir, heap_end, op, leaked>>

\* memory_alloc_for_page_dir at the start of its turn i.
Allocating(end, vaddr, page_count, i) ==
    [at |-> "alloc", end |-> end, vaddr |-> vaddr, page_count |-> page_count, i |-> i]

(* sys_sbrk up to its call of memory_alloc_page_for: the rest of the page  *)
(* the heap ends in is used first.                                         *)
sys_sbrk(p, incr) ==
    LET end    == heap_end[p] + incr
        offset == heap_end[p] % page_size
        from   == IF offset = 0 THEN heap_end[p] ELSE heap_end[p] + (page_size - offset)
    IN  /\ op[p].at = "idle" /\ cr3[p] # 0
        /\ incr # 0
        /\ end <= HeapLimit
        /\ \/ /\ offset # 0 /\ offset + incr <= page_size
              /\ set_heap_end(p, end)
              /\ UNCHANGED op
           \/ /\ ~(offset # 0 /\ offset + incr <= page_size)
              /\ Becomes(p, Allocating(end, from, up2(end - from) \div page_size, 0))
              /\ UNCHANGED heap_end
        /\ UNCHANGED <<pavars, kernel_page_dir, table, cr3, leaked>>

(* The loop of memory_alloc_for_page_dir.  Without a page it returns 0,    *)
(* which sys_sbrk takes for success.                                       *)
alloc_page(p) ==
    LET o == op[p]
    IN  /\ o.at = "alloc"
        /\ \/ /\ addr_alloc_page(1)
              /\ Becomes(p, [at |-> "map", end |-> o.end, vaddr |-> o.vaddr,
                             page_count |-> o.page_count, i |-> o.i, paddr |-> NewPage])
              /\ UNCHANGED heap_end
           \/ /\ NoRoom
              /\ set_heap_end(p, o.end)
              /\ Becomes(p, Idle)
              /\ UNCHANGED pavars
        /\ UNCHANGED <<kernel_page_dir, table, cr3, leaked>>

(* When the mapping fails, the pages to free are named by their virtual    *)
(* address, and sys_sbrk returns -1.                                       *)
map_page(p) ==
    LET o     == op[p]
        vaddr == o.vaddr + o.i * page_size
    IN  /\ o.at = "map"
        /\ \/ /\ create_map(cr3[p], vaddr, o.paddr)
              /\ IF o.i + 1 < o.page_count
                 THEN /\ Becomes(p, Allocating(o.end, o.vaddr, o.page_count, o.i + 1))
                      /\ UNCHANGED heap_end
                 ELSE /\ Becomes(p, Idle)
                      /\ set_heap_end(p, o.end)
              /\ UNCHANGED leaked
           \/ /\ create_map_fails(cr3[p], vaddr)
              /\ undo_alloc(o.vaddr, o.i + 1)
              /\ leaked' = leaked \union {o.paddr}
              /\ Becomes(p, Idle)
              /\ UNCHANGED <<held, table, heap_end>>
           \/ /\ create_map_asserts(cr3[p], vaddr)
              /\ leaked' = leaked \union {o.paddr}
              /\ Becomes(p, [at |-> "panic"])
              /\ UNCHANGED <<pavars, table, heap_end>>
        /\ UNCHANGED <<kernel_page_dir, cr3>>
-----------------------------------------------------------------------------
(* memory_copy_uvm of the address space of p, which calls it, for q.       *)
memory_copy_uvm(p, q) ==
    /\ p # q /\ op[p].at = "idle" /\ cr3[p] # 0 /\ Unborn(q)
    /\ memory_create_uvm
    /\ Becomes(p, [at |-> "copy", child |-> q, to |-> NewPage, vaddr |-> MEMORY_TASK_BASE])
    /\ UNCHANGED <<kernel_page_dir, cr3, heap_end, leaked>>

\* What memory_copy_uvm does after copy_uvm_failed.
Undo(p) == Becomes(p, destroy_from(op[p].to))

(* The loop over the entries that are present in the directory of p.       *)
copy_page(p) ==
    LET o    == op[p]
        rest == {v \in Mapped(cr3[p]) : v >= o.vaddr}
    IN  /\ o.at = "copy"
        /\ \/ /\ rest = {}
              /\ cr3' = [cr3 EXCEPT ![o.child] = o.to]
              /\ heap_end' = [heap_end EXCEPT ![o.child] = heap_end[p]]
              /\ Becomes(p, Idle)
              /\ UNCHANGED pavars
           \/ /\ rest # {}
              /\ addr_alloc_page(1)
              /\ Becomes(p, [at |-> "copymap", child |-> o.child, to |-> o.to,
                             vaddr |-> Min(rest), paddr |-> NewPage])
              /\ UNCHANGED <<cr3, heap_end>>
           \/ /\ rest # {} /\ NoRoom
              /\ Undo(p)
              /\ UNCHANGED <<pavars, cr3, heap_end>>
        /\ UNCHANGED <<kernel_page_dir, table, leaked>>

(* A page that cannot be mapped is in no table when the copy is destroyed. *)
copy_map(p) ==
    LET o == op[p]
    IN  /\ o.at = "copymap"
        /\ \/ /\ create_map(o.to, o.vaddr, o.paddr)
              /\ Becomes(p, [at |-> "copy", child |-> o.child, to |-> o.to,
                             vaddr |-> copy_next(o.vaddr)])
              /\ UNCHANGED leaked
           \/ /\ create_map_fails(o.to, o.vaddr)
              /\ leaked' = leaked \union {o.paddr}
              /\ Undo(p)
              /\ UNCHANGED <<pavars, table>>
        /\ UNCHANGED <<kernel_page_dir, cr3, heap_end>>

memory_destroy_uvm(p) ==
    /\ op[p].at = "idle" /\ cr3[p] # 0
    /\ Becomes(p, destroy_from(cr3[p]))
    /\ cr3' = [cr3 EXCEPT ![p] = 0]
    /\ heap_end' = [heap_end EXCEPT ![p] = MEMORY_TASK_BASE]
    /\ UNCHANGED <<pavars, kernel_page_dir, table, leaked>>

(* One call of addr_free_page: the pages of a table, the table, the next   *)
(* table, and the directory last.  No entry is cleared.                    *)
destroy_page(p) ==
    LET o    == op[p]
        pdes == {i \in o.pde..(PDE_CNT-1) : table[o.to][i] # 0}
        pde  == Min(pdes)
        pt   == table[table[o.to][pde]]
        ptes == {j \in (IF pde = o.pde THEN o.pte ELSE 0)..(PTE_CNT-1) : pt[j] # 0}
    IN  /\ o.at = "destroy"
        /\ \/ /\ pdes = {}
              /\ free_page(o.to)
              /\ Becomes(p, Idle)
           \/ /\ pdes # {} /\ ptes # {}
              /\ free_page(pt[Min(ptes)])
              /\ Becomes(p, Destroying(o.to, pde, Min(ptes) + 1))
           \/ /\ pdes # {} /\ ptes = {}
              /\ free_page(table[o.to][pde])
              /\ Becomes(p, Destroying(o.to, pde + 1, 0))
        /\ UNCHANGED <<kernel_page_dir, cr3, heap_end, leaked>>
-----------------------------------------------------------------------------
(* memory_free_page of a user address that is mapped.  The ASSERT demands  *)
(* that pte is null and its entry present, which is false for every mapped *)
(* page, so that the statements behind it are not reached.                 *)
memory_free_page(p, vaddr) ==
    /\ op[p].at = "idle" /\ cr3[p] # 0
    /\ vaddr \in Mapped(cr3[p])
    /\ Becomes(p, [at |-> "panic"])
    /\ UNCHANGED <<pavars, table, kernel_page_dir, cr3, heap_end, leaked>>

MNext ==
    \/ \E i \in 0..(KERNEL_PDES-1) : create_kernel_table(i)
    \/ \E p \in Proc :
          \/ new_task(p)
          \/ \E incr \in Incr : sys_sbrk(p, incr)
          \/ alloc_page(p) \/ map_page(p)
          \/ \E q \in Proc : memory_copy_uvm(p, q)
          \/ copy_page(p) \/ copy_map(p)
          \/ memory_destroy_uvm(p) \/ destroy_page(p)
          \/ \E v \in UserPage : memory_free_page(p, v)

MSpec == MInit /\ [][MNext]_mvars

\* The tasks are interchangeable.
TaskSymmetry == Permutations(Proc)
-----------------------------------------------------------------------------
(* The types of the page tables and of the tasks' memory fields.           *)
MTypeOK ==
    /\ kernel_page_dir \in [Entries -> PageAddr \union {0}]
    /\ table \in [PageAddr -> [Entries -> PageAddr \union {0}]]
    /\ cr3 \in [Proc -> PageAddr \union {0}]
    /\ heap_end \in [Proc -> MEMORY_TASK_BASE..HeapLimit]
    /\ leaked \subseteq PageAddr

\* The directories in use: that of a task ("cr3"), and the one that the
\* function at work for it makes or destroys ("to"), which is in use from the
\* entry (FromPde, FromPte) on.  0 stands for none.
Root == {"cr3", "to"} \X Proc
Dir(r) == IF r[1] = "cr3" THEN cr3[r[2]]
          ELSE IF op[r[2]].at \in {"copy", "copymap", "destroy"} THEN op[r[2]].to ELSE 0
Cut(r) == r[1] = "to" /\ op[r[2]].at = "destroy"
FromPde(r) == IF Cut(r) THEN op[r[2]].pde ELSE user_pde_start
FromPte(r) == IF Cut(r) THEN op[r[2]].pte ELSE 0

\* The page tables and the pages of a directory, and the page that the
\* function at work for p is about to map.
TableOf(r, i) == IF Dir(r) # 0 /\ i >= FromPde(r) THEN table[Dir(r)][i] ELSE 0
PageOf(r, i, j) == IF TableOf(r, i) # 0 /\ (i = FromPde(r) => j >= FromPte(r))
                   THEN table[TableOf(r, i)][j] ELSE 0
NewOf(p) == IF op[p].at \in {"map", "copymap"} THEN op[p].paddr ELSE 0

\* The places where the address of a page may be, and the address there.
UserPde == user_pde_start..(PDE_CNT-1)
Pte == 0..(PTE_CNT-1)
Place == ({"kernel"} \X Entries) \union ({"new"} \X Proc) \union ({"dir"} \X Root)
           \union ({"table"} \X Root \X UserPde) \union ({"page"} \X Root \X UserPde \X Pte)
Own == [x \in Place |-> CASE x[1] = "kernel" -> kernel_page_dir[x[2]]
                          [] x[1] = "new"    -> NewOf(x[2])
                          [] x[1] = "dir"    -> Dir(x[2])
                          [] x[1] = "table"  -> TableOf(x[2], x[3])
                          [] OTHER           -> PageOf(x[2], x[3], x[4])]

(* Every page that memory.c has allocated is in exactly one place: it is   *)
(* one entry of one address space, one page table, one directory, or in    *)
(* the hands of one function, however the tasks interleave; so no task     *)
(* reaches a page of another one, and no page in use is free.  The only    *)
(* others are those leaked by a failure of memory_create_map.              *)
PagesOwnedOnce ==
    LET used == {a \in {<<x, Own[x]>> : x \in Place} : a[2] # 0}
    IN  /\ \A a, b \in used : a[2] = b[2] => a = b
        /\ held = {a[2] : a \in used} \union leaked
        /\ \A a \in used : a[2] \notin leaked

(* Everything memory.c does to the bitmap is an allocation or the freeing  *)
(* of a page that someone holds, also where memory_alloc_for_page_dir      *)
(* frees pages by their virtual address: it is a behaviour of PageAlloc.   *)
UsesPageAlloc == PASpec

(* A copy of an address space maps the pages that the original maps, and   *)
(* shares none of them.                                                    *)
CopyComplete ==
    [][ \A p, q \in Proc :
          (op[p].at = "copy" /\ cr3[q] = 0 /\ cr3'[q] = op[p].to)
            => /\ Mapped(op[p].to) = Mapped(cr3[p])
               /\ \A v \in Mapped(cr3[p]) : pte_paddr(op[p].to, v) # pte_paddr(cr3[p], v)
      ]_mvars

(* Where the whole range is mapped, memory_copy_uvm_data copies every byte *)
(* of it to the page it is mapped to and no other byte, wherever in their  *)
(* pages the range begins and ends and however the pages lie in memory;    *)
(* where it begins in a part without a page table, it fails and copies     *)
(* nothing.                                                                *)
CopyDataExact ==
    \A p \in Proc : cr3[p] # 0 =>
        \A to \in MEMORY_TASK_BASE..(HeapLimit-1) :
        \A size \in 1..(HeapLimit - to) :
            LET r == memory_copy_uvm_data(to, cr3[p], 0, size)
                page(v) == (v \div page_size) * page_size
                range == to..(to + size - 1)
            IN  /\ {page(v) : v \in range} \subseteq Mapped(cr3[p]) =>
                      /\ r.ret = 0
                      /\ r.bytes = {<<pte_paddr(cr3[p], v) + v - page(v), v - to>> : v \in range}
                /\ find_pte(cr3[p], to) = 0 => r.ret = -1 /\ r.bytes = {}

(* sys_sbrk moves the end of the heap only over pages that it has mapped,  *)
(* unless addr_alloc_page has just failed: memory_alloc_for_page_dir then  *)
(* returns 0 (memory.c line 348), so that no more than this is promised    *)
(* (HeapMapped).                                                           *)
HeapGrowth ==
    [][ \A p \in Proc : (heap_end'[p] > heap_end[p] /\ cr3[p] # 0) =>
          \/ op[p].at = "alloc" /\ NoRoom
          \/ {v \in UserPage : v >= heap_end[p] /\ v < heap_end'[p]} \subseteq Mapped(cr3[p])'
      ]_mvars

(* memory.c line 139: a page is mapped only where no page is mapped.       *)
NeverRemapped == \A p \in Proc : op[p].at = "map" =>
                    ~create_map_asserts(cr3[p], op[p].vaddr + op[p].i * page_size)

(* sys_sbrk's comment: it adjusts the memory of the heap, so that what     *)
(* lies below the end of the heap of a task is mapped.                     *)
HeapMapped ==
    \A p \in Proc : cr3[p] # 0 /\ op[p].at = "idle" =>
        {v \in UserPage : v < heap_end[p]} \subseteq Mapped(cr3[p])

(* memory_get_paddr's comment: it returns 0 if the translation fails.      *)
PaddrZeroWhenUnmapped ==
    \A p \in Proc : cr3[p] # 0 =>
        \A v \in UserPage, offset \in 0..(page_size-1) :
            v \notin Mapped(cr3[p]) => memory_get_paddr(cr3[p], v + offset) = 0

(* memory_free_page's comment: in the space of a process it frees the page *)
(* and the entry.                                                          *)
FreePageFrees ==
    [][ \A p \in Proc, v \in UserPage :
          memory_free_page(p, v) => v \notin Mapped(cr3[p])' ]_mvars
=============================================================================
