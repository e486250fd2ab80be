---------------------------- MODULE MemoryProofs ----------------------------
(***************************************************************************)
(* Every page that memory.c allocates is in exactly one place, its use of  *)
(* the page allocator is correct, a heap grows over pages that are mapped  *)
(* and a copy of an address space is complete, for every number of tasks   *)
(* and pages and every size of the tables; and memory_copy_uvm_data copies *)
(* every byte of a mapped range to its place and no other (PagesOwnedOnce, *)
(* UsesPageAlloc, HeapGrowth, CopyComplete and CopyDataExact of Memory).   *)
(***************************************************************************)
EXTENDS Memory, PageProofs

\* Pages of a task, by their number.
FirstUser == user_pde_start * PTE_CNT
LastUser == PDE_CNT * PTE_CNT

\* The functions at work, with the ranges of their local variables.
AllocOp == [at : {"alloc"}, end : Nat, vaddr : Nat, page_count : Nat, i : Nat]
MapOp == [at : {"map"}, end : Nat, vaddr : Nat, page_count : Nat, i : Nat, paddr : Nat]
CopyOp == [at : {"copy"}, child : Proc, to : Nat, vaddr : Nat]
CopymapOp == [at : {"copymap"}, child : Proc, to : Nat, vaddr : Nat, paddr : Nat]
DestroyOp == [at : {"destroy"}, to : Nat, pde : Nat, pte : Nat]
Op == {Idle, [at |-> "panic"]} \union AllocOp \union MapOp \union CopyOp \union CopymapOp
        \union DestroyOp

\* sys_sbrk allocates pages number k up to k + page_count of its task.
HeapRange(o) == \E k \in Nat : /\ o.vaddr = k * page_size /\ k >= FirstUser
                               /\ k + o.page_count <= LastUser
                               /\ o.i < o.page_count

OpOK(p) ==
    /\ op[p].at \in {"alloc", "map"} => /\ cr3[p] # 0 /\ HeapRange(op[p])
                                        /\ op[p].end \in MEMORY_TASK_BASE..HeapLimit
    /\ op[p].at \in {"map", "copymap"} => op[p].paddr # 0
    /\ op[p].at \in {"copy", "copymap", "destroy"} => op[p].to # 0
    /\ op[p].at = "copymap" => op[p].vaddr \in UserPage
    /\ op[p].at = "destroy" => op[p].pde \in user_pde_start..PDE_CNT /\ op[p].pte \in 0..PTE_CNT

\* A task that is being made is not at work, has no directory yet and has
\* one parent.
ChildOK(p) ==
    op[p].at \in {"copy", "copymap"} =>
        LET q == op[p].child
        IN  /\ cr3[q] = 0 /\ op[q].at = "idle"
            /\ \A r \in Proc : r # p /\ op[r].at \in {"copy", "copymap"} => op[r].child # q

MemTypeOK ==
    /\ kernel_page_dir \in [Entries -> Nat]
    /\ table \in [PageAddr -> [Entries -> Nat]]
    /\ cr3 \in [Proc -> Nat]
    /\ heap_end \in [Proc -> MEMORY_TASK_BASE..HeapLimit]
    /\ op \in [Proc -> Op]
    /\ leaked \subseteq held

MInv ==
    /\ PAInv
    /\ MemTypeOK
    /\ \A p \in Proc : OpOK(p) /\ ChildOK(p)
    /\ OneEach(Place, Own, held \ leaked)
-----------------------------------------------------------------------------
AtKernel(i) == <<"kernel", i>>
AtNew(p) == <<"new", p>>
AtDir(r) == <<"dir", r>>
AtTable(r, i) == <<"table", r, i>>
AtPage(r, i, j) == <<"page", r, i, j>>

(* Every place is of one of five kinds.                                    *)
LEMMA PlaceKinds ==
  ASSUME NEW x \in Place
  PROVE  \/ \E i \in Entries : x = AtKernel(i)
         \/ \E p \in Proc : x = AtNew(p)
         \/ \E r \in Root : x = AtDir(r)
         \/ \E r \in Root, i \in UserPde : x = AtTable(r, i)
         \/ \E r \in Root, i \in UserPde, j \in Pte : x = AtPage(r, i, j)
BY DEF Place, AtKernel, AtNew, AtDir, AtTable, AtPage

LEMMA PlaceIn ==
  /\ \A i \in Entries : AtKernel(i) \in Place
  /\ \A p \in Proc : AtNew(p) \in Place
  /\ \A r \in Root : AtDir(r) \in Place
  /\ \A r \in Root, i \in UserPde : AtTable(r, i) \in Place
  /\ \A r \in Root, i \in UserPde, j \in Pte : AtPage(r, i, j) \in Place
BY DEF Place, AtKernel, AtNew, AtDir, AtTable, AtPage

(* Places of different kinds, or at different entries, differ.             *)
LEMMA PlaceApart ==
  ASSUME NEW i, NEW j, NEW k, NEW l, NEW p, NEW q, NEW r, NEW s
  PROVE  /\ AtKernel(i) = AtKernel(k) => i = k
         /\ AtNew(p) = AtNew(q) => p = q
         /\ AtDir(r) = AtDir(s) => r = s
         /\ AtTable(r, i) = AtTable(s, k) => r = s /\ i = k
         /\ AtPage(r, i, j) = AtPage(s, k, l) => r = s /\ i = k /\ j = l
         /\ AtKernel(i) # AtNew(p) /\ AtKernel(i) # AtDir(r)
         /\ AtKernel(i) # AtTable(s, k) /\ AtKernel(i) # AtPage(s, k, l)
         /\ AtNew(p) # AtDir(r) /\ AtNew(p) # AtTable(s, k) /\ AtNew(p) # AtPage(s, k, l)
         /\ AtDir(r) # AtTable(s, k) /\ AtDir(r) # AtPage(s, k, l)
         /\ AtTable(r, i) # AtPage(s, k, l)
BY DEF AtKernel, AtNew, AtDir, AtTable, AtPage

\* What the places name.
OwnIs ==
  /\ \A i \in Entries : Own[AtKernel(i)] = kernel_page_dir[i]
  /\ \A p \in Proc : Own[AtNew(p)] = NewOf(p)
  /\ \A r \in Root : Own[AtDir(r)] = Dir(r)
  /\ \A r \in Root, i \in UserPde : Own[AtTable(r, i)] = TableOf(r, i)
  /\ \A r \in Root, i \in UserPde, j \in Pte : Own[AtPage(r, i, j)] = PageOf(r, i, j)

LEMMA OwnFacts == OwnIs
<1>1. \A i \in Entries : Own[AtKernel(i)] = kernel_page_dir[i]
  BY PlaceIn DEF Own, AtKernel
<1>2. \A p \in Proc : Own[AtNew(p)] = NewOf(p)
  BY PlaceIn DEF Own, AtNew
<1>3. \A r \in Root : Own[AtDir(r)] = Dir(r)
  BY PlaceIn DEF Own, AtDir
<1>4. \A r \in Root, i \in UserPde : Own[AtTable(r, i)] = TableOf(r, i)
  BY PlaceIn DEF Own, AtTable
<1>5. \A r \in Root, i \in UserPde, j \in Pte : Own[AtPage(r, i, j)] = PageOf(r, i, j)
  BY PlaceIn DEF Own, AtPage
<1> QED
  BY <1>1, <1>2, <1>3, <1>4, <1>5 DEF OwnIs

LEMMA OwnNext == OwnIs'
BY OwnFacts, PTL

(* The places at which a step changes nothing.                             *)
LEMMA OwnBut ==
  ASSUME NEW Z,
         \A i \in Entries : AtKernel(i) \in Z \/ kernel_page_dir'[i] = kernel_page_dir[i],
         \A p \in Proc : AtNew(p) \in Z \/ NewOf(p)' = NewOf(p),
         \A r \in Root : AtDir(r) \in Z \/ Dir(r)' = Dir(r),
         \A r \in Root, i \in UserPde : AtTable(r, i) \in Z \/ TableOf(r, i)' = TableOf(r, i),
         \A r \in Root, i \in UserPde, j \in Pte :
            AtPage(r, i, j) \in Z \/ PageOf(r, i, j)' = PageOf(r, i, j)
  PROVE  \A x \in Place : x \in Z \/ Own'[x] = Own[x]
<1> SUFFICES ASSUME NEW x \in Place, x \notin Z PROVE Own'[x] = Own[x]
  OBVIOUS
<1>1. ASSUME NEW i \in Entries, x = AtKernel(i) PROVE Own'[x] = Own[x]
  BY <1>1, OwnFacts, OwnNext DEF OwnIs
<1>2. ASSUME NEW p \in Proc, x = AtNew(p) PROVE Own'[x] = Own[x]
  BY <1>2, OwnFacts, OwnNext DEF OwnIs
<1>3. ASSUME NEW r \in Root, x = AtDir(r) PROVE Own'[x] = Own[x]
  BY <1>3, OwnFacts, OwnNext DEF OwnIs
<1>4. ASSUME NEW r \in Root, NEW i \in UserPde, x = AtTable(r, i) PROVE Own'[x] = Own[x]
  BY <1>4, OwnFacts, OwnNext DEF OwnIs
<1>5. ASSUME NEW r \in Root, NEW i \in UserPde, NEW j \in Pte, x = AtPage(r, i, j)
      PROVE  Own'[x] = Own[x]
  BY <1>5, OwnFacts, OwnNext DEF OwnIs
<1> QED
  BY <1>1, <1>2, <1>3, <1>4, <1>5, PlaceKinds

\* A directory and its tables keep their addresses, and their contents.
SameRoot(r) == Dir(r)' = Dir(r) /\ FromPde(r)' = FromPde(r) /\ FromPte(r)' = FromPte(r)
SameTables(r) ==
    /\ Dir(r) # 0 => table'[Dir(r)] = table[Dir(r)]
    /\ \A i \in UserPde : TableOf(r, i) # 0 => table'[TableOf(r, i)] = table[TableOf(r, i)]

LEMMA SameTree ==
  ASSUME NEW r \in Root, SameRoot(r), SameTables(r)
  PROVE  /\ \A i \in UserPde : TableOf(r, i)' = TableOf(r, i)
         /\ \A i \in UserPde, j \in Pte : PageOf(r, i, j)' = PageOf(r, i, j)
<1>1. \A i \in UserPde : TableOf(r, i)' = TableOf(r, i)
  BY DEF SameRoot, SameTables, TableOf
<1>2. \A i \in UserPde, j \in Pte : PageOf(r, i, j)' = PageOf(r, i, j)
  BY <1>1 DEF SameRoot, SameTables, PageOf
<1> QED
  BY <1>1, <1>2

LEMMA RootFacts ==
  /\ \A r \in Root : r[2] \in Proc /\ (r = <<"cr3", r[2]>> \/ r = <<"to", r[2]>>)
  /\ \A p \in Proc : <<"cr3", p>> \in Root /\ <<"to", p>> \in Root
BY DEF Root

(* The roots and the new pages of the tasks that take no part in a step.   *)
LEMMA OtherRoots ==
  ASSUME NEW p \in Proc, \A q \in Proc : q # p => op'[q] = op[q]
  PROVE  /\ \A q \in Proc : q # p => NewOf(q)' = NewOf(q) /\ SameRoot(<<"to", q>>)
         /\ \A q \in Proc : cr3'[q] = cr3[q] => SameRoot(<<"cr3", q>>)
<1>1. \A q \in Proc : q # p => NewOf(q)' = NewOf(q)
  BY DEF NewOf
<1>2. ASSUME NEW q \in Proc, q # p PROVE SameRoot(<<"to", q>>)
  BY <1>2 DEF SameRoot, Dir, FromPde, FromPte, Cut
<1>3. ASSUME NEW q \in Proc, cr3'[q] = cr3[q] PROVE SameRoot(<<"cr3", q>>)
  BY <1>3 DEF SameRoot, Dir, FromPde, FromPte, Cut
<1> QED
  BY <1>1, <1>2, <1>3

(* A page that is in no place, or in one that is not a table.              *)
LEMMA NotTable ==
  ASSUME MInv, NEW a, NEW z \in Place, Own[z] = a,
         \A s \in Root : z # AtDir(s), \A s \in Root, i \in UserPde : z # AtTable(s, i)
  PROVE  \A r \in Root : /\ Dir(r) # 0 => Dir(r) # a
                         /\ \A i \in UserPde : TableOf(r, i) # 0 => TableOf(r, i) # a
<1>1. \A x \in Place : Own[x] # 0 /\ Own[x] = a => x = z
  BY DEF MInv, OneEach
<1> QED
  BY <1>1, PlaceIn, OwnFacts DEF OwnIs

LEMMA NotHeld ==
  ASSUME MInv, NEW a, a \notin held
  PROVE  \A r \in Root : /\ Dir(r) # 0 => Dir(r) # a
                         /\ \A i \in UserPde : TableOf(r, i) # 0 => TableOf(r, i) # a
<1>1. \A x \in Place : Own[x] # 0 => Own[x] # a
  BY DEF MInv, OneEach
<1> QED
  BY <1>1, PlaceIn, OwnFacts DEF OwnIs
-----------------------------------------------------------------------------
(* addr_alloc_page gives out a page that is in no place.                   *)
LEMMA PageFacts ==
  ASSUME PAInv, addr_alloc_page(1)
  PROVE  /\ PAInv' /\ held' = held \union {NewPage}
         /\ NewPage \notin held /\ NewPage \in PageAddr /\ NewPage \in Nat \ {0}
<1>1. PICK idx : idx = bitmap_alloc_nbits(bits, 0, 1).index
  OBVIOUS
<1>2. PAInv' /\ idx \in 0..(bit_count-1) /\ held' = held \union {page_addr(idx)}
        /\ page_addr(idx) \notin held
  BY <1>1, AllocInv
<1>3. idx \in Nat /\ NewPage = page_addr(idx)
  BY <1>1, <1>2, PageAllocAssumption DEF NewPage
<1>4. NewPage \in PageAddr
  BY <1>2, <1>3 DEF PageAddr
<1> QED
  BY <1>2, <1>3, <1>4, AddressFacts

LEMMA HeldAddr ==
  ASSUME PAInv
  PROVE  held \subseteq PageAddr /\ 0 \notin PageAddr /\ PageAddr \subseteq Nat
<1>1. DOMAIN bits = 0..(bit_count-1)
  BY DEF PAInv, PATypeOK
<1>2. held \subseteq PageAddr
  BY <1>1 DEF PAInv, BitsAreHeld, PageAddr
<1>3. 0..(bit_count-1) \subseteq Nat
  BY PageAllocAssumption
<1> QED
  BY <1>2, <1>3, AddressFacts DEF PageAddr

(* A new page comes to the place z.                                        *)
LEMMA TakePage ==
  ASSUME MInv, addr_alloc_page(1), leaked' = leaked, NEW z \in Place, Own[z] = 0,
         Own'[z] = NewPage, \A x \in Place : x \in {z} \/ Own'[x] = Own[x]
  PROVE  PAInv' /\ OneEach(Place, Own', held' \ leaked') /\ leaked' \subseteq held'
<1>1. PICK a : a = NewPage
  OBVIOUS
<1>2. PAInv' /\ held' = held \union {a} /\ a \notin held /\ a # 0
  BY <1>1, PageFacts DEF MInv
<1>3. leaked \subseteq held /\ OneEach(Place, Own, held \ leaked)
  BY DEF MInv, MemTypeOK
<1>4. \A x \in Place : Own'[x] = IF x = z THEN a ELSE Own[x]
  BY <1>1
<1>5. OneEach(Place, Own', (held \ leaked) \union {a})
  BY <1>2, <1>3, <1>4, TakeOne
<1>6. held' \ leaked' = (held \ leaked) \union {a}
  BY <1>2, <1>3
<1> QED
  BY <1>2, <1>3, <1>5, <1>6

(* A page is freed that was in the place z.                                *)
LEMMA DropPage ==
  ASSUME MInv, leaked' = leaked, NEW z \in Place, Own[z] # 0, addr_free_page(Own[z]),
         Own'[z] = 0, \A x \in Place : x \in {z} \/ Own'[x] = Own[x]
  PROVE  /\ PAInv' /\ OneEach(Place, Own', held' \ leaked') /\ leaked' \subseteq held'
         /\ Own[z] \in held
<1>1. leaked \subseteq held /\ OneEach(Place, Own, held \ leaked)
  BY DEF MInv, MemTypeOK
<1>2. \A x \in Place : Own'[x] = IF x = z THEN 0 ELSE Own[x]
  OBVIOUS
<1>3. OneEach(Place, Own', (held \ leaked) \ {Own[z]}) /\ Own[z] \in held \ leaked
  BY <1>1, <1>2, DropOne
<1>4. PAInv' /\ held' = held \ {Own[z]}
  BY <1>3, FreeInv DEF MInv
<1>5. held' \ leaked' = (held \ leaked) \ {Own[z]} /\ leaked' \subseteq held'
  BY <1>1, <1>3, <1>4
<1> QED
  BY <1>3, <1>4, <1>5

(* A page is leaked that was in the place z.                               *)
LEMMA LeakPage ==
  ASSUME MInv, UNCHANGED pavars, NEW z \in Place, Own[z] # 0, leaked' = leaked \union {Own[z]},
         Own'[z] = 0, \A x \in Place : x \in {z} \/ Own'[x] = Own[x]
  PROVE  PAInv' /\ OneEach(Place, Own', held' \ leaked') /\ leaked' \subseteq held'
<1>1. leaked \subseteq held /\ OneEach(Place, Own, held \ leaked)
  BY DEF MInv, MemTypeOK
<1>2. \A x \in Place : Own'[x] = IF x = z THEN 0 ELSE Own[x]
  OBVIOUS
<1>3. OneEach(Place, Own', (held \ leaked) \ {Own[z]}) /\ Own[z] \in held \ leaked
  BY <1>1, <1>2, DropOne
<1>4. PAInv' /\ held' = held
  BY DEF MInv, PAInv, PATypeOK, BitsAreHeld, pavars
<1>5. held' \ leaked' = (held \ leaked) \ {Own[z]} /\ leaked' \subseteq held'
  BY <1>1, <1>3, <1>4
<1> QED
  BY <1>3, <1>4, <1>5

(* Nothing changes hands.                                                  *)
LEMMA KeepPages ==
  ASSUME MInv, UNCHANGED pavars, leaked' = leaked, \A x \in Place : x \in {} \/ Own'[x] = Own[x]
  PROVE  PAInv' /\ OneEach(Place, Own', held' \ leaked') /\ leaked' \subseteq held'
<1>1. \A x \in Place : Own'[x] = Own[x]
  OBVIOUS
<1>2. PAInv' /\ held' = held
  BY DEF MInv, PAInv, PATypeOK, BitsAreHeld, pavars
<1> QED
  BY <1>1, <1>2 DEF MInv, MemTypeOK, OneEach
-----------------------------------------------------------------------------
(* A step of the function at work for p, which p goes on to be busy with   *)
(* or ends.                                                                *)
LEMMA OwnOps ==
  ASSUME MInv, NEW p \in Proc, NEW o \in Op, op' = [op EXCEPT ![p] = o], cr3' = cr3,
         op[p].at # "idle" \/ cr3[p] # 0,
         o.at \in {"copy", "copymap"} =>
            op[p].at \in {"copy", "copymap"} /\ o.child = op[p].child,
         OpOK(p)'
  PROVE  \A q \in Proc : OpOK(q)' /\ ChildOK(q)'
<1>1. /\ op \in [Proc -> Op] /\ op'[p] = o /\ \A q \in Proc : q # p => op'[q] = op[q]
  BY DEF MInv, MemTypeOK
<1>2. ASSUME NEW q \in Proc PROVE OpOK(q)'
  <2>1. CASE q # p
    BY <1>1, <2>1 DEF MInv, OpOK
  <2> QED
    BY <2>1
<1>3. \A q \in Proc : op[q].at \in {"copy", "copymap"} => op[q].child \in Proc /\ op[q].child # p
  <2> SUFFICES ASSUME NEW q \in Proc, op[q].at \in {"copy", "copymap"}
               PROVE  op[q].child \in Proc /\ op[q].child # p
    OBVIOUS
  <2>1. op[q] \in CopyOp \union CopymapOp
    BY <1>1 DEF Op, Idle, AllocOp, MapOp, DestroyOp
  <2>2. op[q].child \in Proc
    BY <2>1 DEF CopyOp, CopymapOp
  <2> QED
    BY <2>2 DEF MInv, ChildOK
<1>4. ASSUME NEW q \in Proc PROVE ChildOK(q)'
  BY <1>1, <1>3 DEF MInv, ChildOK
<1> QED
  BY <1>2, <1>4
-----------------------------------------------------------------------------
(* Division with a remainder.                                              *)
LEMMA DivFacts ==
  ASSUME NEW x \in Nat, NEW d \in Nat \ {0}
  PROVE  /\ x \div d \in Nat /\ x % d \in 0..(d-1)
         /\ x = (x \div d) * d + (x % d)
OBVIOUS

LEMMA MulMono ==
  ASSUME NEW a \in Nat, NEW b \in Nat, NEW d \in Nat \ {0}
  PROVE  a <= b <=> a * d <= b * d
OBVIOUS

LEMMA DivBounds ==
  ASSUME NEW x \in Nat, NEW d \in Nat \ {0}, NEW a \in Nat, NEW b \in Nat
  PROVE  /\ a * d <= x => a <= x \div d
         /\ x < b * d => x \div d < b
<1>1. PICK q \in Nat, m \in 0..(d-1) : q = x \div d /\ x = q * d + m
  BY DivFacts
<1>2. ASSUME a * d <= x, a > q PROVE FALSE
  <2>1. (q + 1) * d <= a * d
    BY <1>2, MulMono
  <2>2. (q + 1) * d = q * d + d /\ q * d \in Nat /\ a * d \in Nat
    OBVIOUS
  <2> QED
    BY <1>1, <1>2, <2>1, <2>2
<1>3. ASSUME x < b * d, b <= q PROVE FALSE
  <2>1. b * d <= q * d
    BY <1>3, MulMono
  <2>2. q * d \in Nat /\ b * d \in Nat
    OBVIOUS
  <2> QED
    BY <1>1, <1>3, <2>1, <2>2
<1> QED
  BY <1>1, <1>2, <1>3

LEMMA DivExact ==
  ASSUME NEW k \in Nat, NEW d \in Nat \ {0}
  PROVE  (k * d) \div d = k /\ (k * d) % d = 0 /\ k * d \in Nat
OBVIOUS

(* The products in the limits of a task's memory.                          *)
LEMMA LimitFacts ==
  /\ FirstUser \in Nat /\ LastUser \in Nat /\ FirstUser <= LastUser
  /\ MEMORY_TASK_BASE = FirstUser * page_size /\ HeapLimit = LastUser * page_size
  /\ MEMORY_TASK_BASE \in Nat /\ HeapLimit \in Nat
  /\ PTE_CNT * page_size \in Nat \ {0}
  /\ MEMORY_TASK_BASE = user_pde_start * (PTE_CNT * page_size)
  /\ HeapLimit = PDE_CNT * (PTE_CNT * page_size)
  /\ PDE_CNT \in Nat /\ PTE_CNT \in Nat \ {0} /\ user_pde_start \in Nat
  /\ page_size \in Nat \ {0}
<1>1. /\ PDE_CNT \in Nat /\ PTE_CNT \in Nat \ {0} /\ user_pde_start \in Nat
      /\ page_size \in Nat \ {0} /\ user_pde_start <= PDE_CNT
  BY MemoryAssumption, PageAllocAssumption
<1>2. FirstUser \in Nat /\ LastUser \in Nat /\ FirstUser <= LastUser
  BY <1>1, MulMono DEF FirstUser, LastUser
<1>3. MEMORY_TASK_BASE = FirstUser * page_size /\ HeapLimit = LastUser * page_size
  BY DEF MEMORY_TASK_BASE, HeapLimit, FirstUser, LastUser
<1>4. FirstUser * page_size \in Nat /\ LastUser * page_size \in Nat
  BY <1>1, <1>2
<1>5. PTE_CNT * page_size \in Nat \ {0}
  BY <1>1
<1>6. MEMORY_TASK_BASE = user_pde_start * (PTE_CNT * page_size)
  BY <1>1 DEF MEMORY_TASK_BASE
<1>7. HeapLimit = PDE_CNT * (PTE_CNT * page_size)
  BY <1>1 DEF HeapLimit
<1> QED
  BY <1>1, <1>2, <1>3, <1>4, <1>5, <1>6, <1>7

(* The entries for a page of a task are in the user's part.                *)
LEMMA IndexFacts ==
  ASSUME NEW k \in Nat, k >= FirstUser, k < LastUser
  PROVE  /\ k * page_size \in Nat /\ k * page_size >= MEMORY_TASK_BASE
         /\ k * page_size \in UserPage
         /\ pde_index(k * page_size) \in UserPde /\ pte_index(k * page_size) \in Pte
<1> USE LimitFacts
<1>1. PICK v : v = k * page_size
  OBVIOUS
<1>2. v \in Nat /\ MEMORY_TASK_BASE <= v
  BY <1>1, MulMono
<1>3. (k + 1) * page_size <= LastUser * page_size /\ (k + 1) * page_size = v + page_size
  BY <1>1, MulMono
<1>4. v < HeapLimit
  BY <1>2, <1>3
<1>5. PICK d \in Nat \ {0} : d = PTE_CNT * page_size
  OBVIOUS
<1>6. user_pde_start <= v \div d /\ v \div d < PDE_CNT /\ v \div d \in Nat
  <2>1. MEMORY_TASK_BASE = user_pde_start * d /\ HeapLimit = PDE_CNT * d
    BY <1>5
  <2>2. user_pde_start * d <= v /\ v < PDE_CNT * d
    BY <1>2, <1>4, <2>1
  <2> QED
    BY <1>2, <2>2, DivBounds, DivFacts
<1>7. v \div page_size \in Nat /\ (v \div page_size) % PTE_CNT \in 0..(PTE_CNT-1)
  BY <1>2, DivFacts
<1>8. v \in UserPage
  <2>1. k \in (user_pde_start * PTE_CNT)..(PDE_CNT * PTE_CNT - 1)
    BY DEF FirstUser, LastUser
  <2> QED
    BY <1>1, <2>1 DEF UserPage
<1> QED
  BY <1>1, <1>2, <1>5, <1>6, <1>7, <1>8 DEF pde_index, pte_index, UserPde, Pte

LEMMA UserPageFacts ==
  ASSUME NEW v \in UserPage
  PROVE  v \in Nat /\ pde_index(v) \in UserPde /\ pte_index(v) \in Pte
<1>1. PICK k \in (user_pde_start * PTE_CNT)..(PDE_CNT * PTE_CNT - 1) : v = k * page_size
  BY DEF UserPage
<1>2. k \in Nat /\ k >= FirstUser /\ k < LastUser
  BY <1>1, LimitFacts DEF FirstUser, LastUser
<1> QED
  BY <1>1, <1>2, IndexFacts

(* The next page boundary from h on, as sys_sbrk computes it.              *)
LEMMA HeapFrom ==
  ASSUME NEW h \in Nat
  PROVE  up2(h) = IF h % page_size = 0 THEN h ELSE h + (page_size - (h % page_size))
<1>1. PICK d \in Nat \ {0} : d = page_size
  BY LimitFacts
<1>2. PICK q \in Nat, m \in 0..(d-1) : q = h \div d /\ m = h % d /\ h = q * d + m
  BY <1>1, DivFacts
<1>3. /\ q * d \in Nat /\ (q + 1) * d = q * d + d /\ (q + 2) * d = q * d + d + d
      /\ h + d - 1 \in Nat
  BY <1>2
<1>4. PICK k : k = (h + d - 1) \div d
  OBVIOUS
<1>5. k \in Nat
  BY <1>3, <1>4, DivFacts
<1>6. CASE m = 0
  <2>1. q * d <= h + d - 1 /\ h + d - 1 < (q + 1) * d
    BY <1>2, <1>3, <1>6
  <2>2. k = q
    BY <1>3, <1>4, <1>5, <2>1, DivBounds
  <2> QED
    BY <1>1, <1>2, <1>4, <1>6, <2>2 DEF up2
<1>7. CASE m # 0
  <2>1. (q + 1) * d <= h + d - 1 /\ h + d - 1 < (q + 2) * d
    BY <1>2, <1>3, <1>7
  <2>2. k = q + 1
    BY <1>3, <1>4, <1>5, <2>1, DivBounds
  <2>3. up2(h) = q * d + d
    BY <1>1, <1>3, <1>4, <2>2 DEF up2
  <2> QED
    BY <1>1, <1>2, <1>3, <1>7, <2>3
<1> QED
  BY <1>6, <1>7

(* The pages that sys_sbrk has to allocate: at least one, from the end of  *)
(* the page that the heap ends in up to the page that it shall end in.     *)
LEMMA SbrkFacts ==
  ASSUME NEW h \in MEMORY_TASK_BASE..HeapLimit, NEW incr \in Nat, incr # 0,
         h + incr <= HeapLimit,
         ~(h % page_size # 0 /\ (h % page_size) + incr <= page_size)
  PROVE  LET from == up2(h)
             count == up2(h + incr - from) \div page_size
         IN  /\ from \in Nat /\ count \in Nat /\ count > 0
             /\ \E k \in Nat : from = k * page_size /\ k >= FirstUser /\ k + count <= LastUser
<1> USE LimitFacts
<1>1. PICK d \in Nat \ {0} : d = page_size
  OBVIOUS
<1>2. PICK q \in Nat, m \in 0..(d-1) : q = h \div d /\ m = h % d /\ h = q * d + m
  BY <1>1, DivFacts
<1>3. PICK k : k = (h + d - 1) \div d
  OBVIOUS
<1>4. k \in Nat /\ q * d \in Nat /\ (q + 1) * d = q * d + d /\ (q + 2) * d = q * d + d + d
  <2>1. h + d - 1 \in Nat
    BY <1>1
  <2>2. k \in Nat
    BY <1>3, <2>1, DivFacts
  <2> QED
    BY <2>2
<1>5. k = (IF m = 0 THEN q ELSE q + 1)
  <2>1. h + d - 1 \in Nat
    BY <1>1
  <2>2. CASE m = 0
    <3>1. q * d <= h + d - 1 /\ h + d - 1 < (q + 1) * d
      BY <1>2, <1>4, <2>2
    <3>2. q <= k /\ k < q + 1
      BY <1>3, <2>1, <3>1, DivBounds
    <3> QED
      BY <1>4, <2>2, <3>2
  <2>3. CASE m # 0
    <3>1. (q + 1) * d <= h + d - 1 /\ h + d - 1 < (q + 2) * d
      BY <1>2, <1>4, <2>3
    <3>2. q + 1 <= k /\ k < q + 2
      BY <1>3, <2>1, <3>1, DivBounds
    <3> QED
      BY <1>4, <2>3, <3>2
  <2> QED
    BY <2>2, <2>3
<1>6. PICK from : from = k * d /\ from \in Nat
  BY <1>4
<1>7. from >= h /\ from < h + incr
  <2>1. CASE m = 0
    BY <1>2, <1>5, <1>6, <2>1
  <2>2. CASE m # 0
    <3>1. from = q * d + d
      BY <1>4, <1>5, <1>6, <2>2
    <3>2. m + incr > d
      BY <1>1, <1>2, <2>2
    <3> QED
      BY <1>2, <1>4, <3>1, <3>2
  <2> QED
    BY <2>1, <2>2
<1>8. PICK n \in Nat : n = h + incr - from /\ n >= 1
  BY <1>6, <1>7
<1>9. PICK c : c = (n + d - 1) \div d
  OBVIOUS
<1>10. c \in Nat /\ c >= 1
  <2>1. n + d - 1 \in Nat /\ 1 * d <= n + d - 1
    BY <1>8
  <2> QED
    BY <1>9, <2>1, DivBounds, DivFacts
<1>11. FirstUser <= k /\ k <= LastUser
  <2>1. FirstUser * d <= k * d
    BY <1>1, <1>6, <1>7
  <2>2. k * d <= LastUser * d
    BY <1>1, <1>6, <1>7
  <2> QED
    BY <1>4, <2>1, <2>2, MulMono
<1>12. k + c <= LastUser
  <2>1. PICK l \in Nat : l = LastUser - k
    BY <1>4, <1>11
  <2>2. l * d = LastUser * d - k * d /\ l * d \in Nat /\ (l + 1) * d = l * d + d
    BY <1>4, <2>1
  <2>3. n <= l * d
    BY <1>1, <1>6, <1>8, <2>2
  <2>4. n + d - 1 < (l + 1) * d /\ n + d - 1 \in Nat
    BY <1>8, <2>2, <2>3
  <2>5. c < l + 1
    BY <1>9, <2>4, DivBounds
  <2> QED
    BY <1>4, <1>10, <2>1, <2>5
<1>13. up2(h) = from /\ up2(n) = c * d /\ (c * d) \div d = c
  BY <1>1, <1>3, <1>6, <1>9, <1>10, DivExact DEF up2
<1> QED
  BY <1>1, <1>4, <1>6, <1>8, <1>10, <1>11, <1>12, <1>13
-----------------------------------------------------------------------------
(* The directories and tables in use are pages.                            *)
LEMMA TablesIn ==
  ASSUME MInv, NEW r \in Root
  PROVE  /\ Dir(r) # 0 => Dir(r) \in held /\ Dir(r) \in PageAddr
         /\ \A i \in UserPde : TableOf(r, i) # 0 => TableOf(r, i) \in held /\ TableOf(r, i) \in PageAddr
<1>1. held \subseteq PageAddr
  BY HeldAddr DEF MInv
<1>2. \A x \in Place : Own[x] # 0 => Own[x] \in held
  BY DEF MInv, OneEach
<1> QED
  BY <1>1, <1>2, PlaceIn, OwnFacts DEF OwnIs

(* A page is written that is not a directory or a table in use.            *)
LEMMA OtherTables ==
  ASSUME MInv, NEW a, NEW c, table' = [table EXCEPT ![a] = c],
         \A r \in Root : /\ Dir(r) # 0 => Dir(r) # a
                         /\ \A i \in UserPde : TableOf(r, i) # 0 => TableOf(r, i) # a
  PROVE  \A r \in Root : SameTables(r)
<1> SUFFICES ASSUME NEW r \in Root PROVE SameTables(r)
  OBVIOUS
<1>1. \A b \in PageAddr : b # a => table'[b] = table[b]
  BY DEF MInv, MemTypeOK
<1> QED
  BY <1>1, TablesIn DEF SameTables

(* A directory without user tables comes into use.                         *)
LEMMA NewRoot ==
  ASSUME NEW r \in Root, NEW a, Dir(r) = 0, Dir(r)' = a,
         \A i \in UserPde : table'[a][i] = 0
  PROVE  /\ \A i \in UserPde : TableOf(r, i)' = TableOf(r, i)
         /\ \A i \in UserPde, j \in Pte : PageOf(r, i, j)' = PageOf(r, i, j)
<1>1. \A i \in UserPde : TableOf(r, i)' = 0 /\ TableOf(r, i) = 0
  BY DEF TableOf
<1> QED
  BY <1>1 DEF PageOf

LEMMA MInitInv == MInit => MInv
<1> SUFFICES ASSUME MInit PROVE MInv
  OBVIOUS
<1>1. PAInv /\ held = {} /\ leaked = {}
  BY PAInitInv DEF MInit, PAInit
<1>2. MemTypeOK
  <2>1. Zeroed \in [Entries -> Nat]
    BY DEF Zeroed
  <2>2. Idle \in Op
    BY DEF Op
  <2>3. MEMORY_TASK_BASE \in MEMORY_TASK_BASE..HeapLimit
    <3>1. MEMORY_TASK_BASE <= HeapLimit
      BY LimitFacts, MulMono
    <3> QED
      BY <3>1, LimitFacts
  <2> QED
    BY <1>1, <2>1, <2>2, <2>3 DEF MInit, MemTypeOK
<1>3. \A p \in Proc : OpOK(p) /\ ChildOK(p)
  BY DEF MInit, OpOK, ChildOK, Idle
<1>4. \A x \in Place : Own[x] = 0
  <2>1. \A i \in Entries : kernel_page_dir[i] = 0
    BY DEF MInit, Zeroed
  <2>2. \A p \in Proc : NewOf(p) = 0
    BY DEF MInit, NewOf, Idle
  <2>3. \A r \in Root : Dir(r) = 0
    BY RootFacts DEF MInit, Dir, Idle
  <2>4. \A r \in Root, i \in UserPde : TableOf(r, i) = 0
    BY <2>3 DEF TableOf
  <2>5. \A r \in Root, i \in UserPde, j \in Pte : PageOf(r, i, j) = 0
    BY <2>4 DEF PageOf
  <2> QED
    BY <2>1, <2>2, <2>3, <2>4, <2>5, PlaceKinds, OwnFacts DEF OwnIs
<1>5. OneEach(Place, Own, held \ leaked)
  BY <1>1, <1>4 DEF OneEach
<1> QED
  BY <1>1, <1>2, <1>3, <1>5 DEF MInv

LEMMA KernelInv ==
  ASSUME MInv, NEW i \in 0..(KERNEL_PDES-1), create_kernel_table(i)
  PROVE  MInv'
<1>1. PICK a : a = NewPage
  OBVIOUS
<1>2. /\ kernel_page_dir[i] = 0 /\ addr_alloc_page(1)
      /\ kernel_page_dir' = [kernel_page_dir EXCEPT ![i] = a]
      /\ table' = [table EXCEPT ![a] = Zeroed] /\ UNCHANGED <<cr3, heap_end, op, leaked>>
  BY <1>1 DEF create_kernel_table
<1>3. a \notin held /\ a \in PageAddr /\ a \in Nat \ {0} /\ held' = held \union {a}
  BY <1>1, <1>2, PageFacts DEF MInv
<1>4. i \in Entries
  BY MemoryAssumption DEF Entries
<1>5. \A r \in Root : SameRoot(r) /\ SameTables(r)
  <2>1. \A r \in Root : SameTables(r)
    BY <1>2, <1>3, NotHeld, OtherTables
  <2>2. \A r \in Root : SameRoot(r)
    BY <1>2 DEF SameRoot, Dir, FromPde, FromPte, Cut
  <2> QED
    BY <2>1, <2>2
<1>6. \A x \in Place : x \in {AtKernel(i)} \/ Own'[x] = Own[x]
  <2>1. \A k \in Entries : AtKernel(k) \in {AtKernel(i)} \/ kernel_page_dir'[k] = kernel_page_dir[k]
    BY <1>2 DEF MInv, MemTypeOK
  <2>2. \A p \in Proc : NewOf(p)' = NewOf(p)
    BY <1>2 DEF NewOf
  <2>3. \A r \in Root : Dir(r)' = Dir(r)
    BY <1>5 DEF SameRoot
  <2> QED
    BY <1>5, <2>1, <2>2, <2>3, SameTree, OwnBut
<1>7. AtKernel(i) \in Place /\ Own[AtKernel(i)] = 0 /\ Own'[AtKernel(i)] = NewPage
  BY <1>1, <1>2, <1>4, PlaceIn, OwnFacts, OwnNext DEF OwnIs, MInv, MemTypeOK
<1>8. PAInv' /\ OneEach(Place, Own', held' \ leaked') /\ leaked' \subseteq held'
  BY <1>2, <1>6, <1>7, TakePage
<1>9. MemTypeOK'
  <2>1. Zeroed \in [Entries -> Nat]
    BY DEF Zeroed
  <2> QED
    BY <1>2, <1>3, <1>4, <1>8, <2>1 DEF MInv, MemTypeOK
<1>10. \A p \in Proc : OpOK(p)' /\ ChildOK(p)'
  BY <1>2 DEF MInv, OpOK, ChildOK
<1> QED
  BY <1>8, <1>9, <1>10 DEF MInv

(* The directory that memory_create_uvm makes.                             *)
LEMMA CreateFacts ==
  ASSUME MInv, memory_create_uvm
  PROVE  /\ addr_alloc_page(1) /\ NewPage \notin held /\ NewPage \in Nat \ {0}
         /\ NewPage \in PageAddr
         /\ \A r \in Root : SameTables(r)
         /\ \A i \in UserPde : table'[NewPage][i] = 0
         /\ table' \in [PageAddr -> [Entries -> Nat]]
<1>1. PICK a, c : /\ a = NewPage
                  /\ c = [i \in Entries |-> IF i < user_pde_start THEN kernel_page_dir[i] ELSE 0]
  OBVIOUS
<1>2. addr_alloc_page(1) /\ table' = [table EXCEPT ![a] = c]
  BY <1>1 DEF memory_create_uvm
<1>3. a \notin held /\ a \in PageAddr /\ a \in Nat \ {0}
  BY <1>1, <1>2, PageFacts DEF MInv
<1>4. \A r \in Root : SameTables(r)
  BY <1>2, <1>3, NotHeld, OtherTables
<1>5. c \in [Entries -> Nat]
  BY <1>1 DEF MInv, MemTypeOK
<1>6. table \in [PageAddr -> [Entries -> Nat]]
  BY DEF MInv, MemTypeOK
<1>7. table' \in [PageAddr -> [Entries -> Nat]] /\ table'[a] = c
  BY <1>2, <1>3, <1>5, <1>6
<1>8. \A i \in UserPde : i \in Entries /\ ~(i < user_pde_start)
  BY LimitFacts DEF UserPde, Entries
<1>9. \A i \in UserPde : c[i] = 0
  BY <1>1, <1>8
<1> QED
  BY <1>1, <1>2, <1>3, <1>4, <1>7, <1>9

LEMMA NewTaskInv ==
  ASSUME MInv, NEW p \in Proc, new_task(p)
  PROVE  MInv'
<1>1. /\ Unborn(p) /\ memory_create_uvm /\ cr3' = [cr3 EXCEPT ![p] = NewPage]
      /\ UNCHANGED <<kernel_page_dir, heap_end, op, leaked>>
  BY DEF new_task
<1>2. PICK a : a = NewPage
  OBVIOUS
<1>3. /\ addr_alloc_page(1) /\ a \notin held /\ a \in Nat \ {0}
      /\ \A r \in Root : SameTables(r)
      /\ \A i \in UserPde : table'[a][i] = 0
      /\ table' \in [PageAddr -> [Entries -> Nat]]
  BY <1>1, <1>2, CreateFacts
<1>4. cr3 \in [Proc -> Nat] /\ cr3[p] = 0 /\ cr3'[p] = a /\ cr3' \in [Proc -> Nat]
        /\ \A q \in Proc : q # p => cr3'[q] = cr3[q]
  BY <1>1, <1>2, <1>3 DEF MInv, MemTypeOK, Unborn
<1>5. PICK r \in Root : r = <<"cr3", p>>
  BY RootFacts
<1>6. Dir(r) = 0 /\ Dir(r)' = a
  BY <1>4, <1>5 DEF Dir
<1>7. \A s \in Root : s # r => SameRoot(s)
  <2> SUFFICES ASSUME NEW s \in Root, s # r PROVE SameRoot(s)
    OBVIOUS
  <2>1. CASE s = <<"to", s[2]>>
    BY <1>1, <2>1 DEF SameRoot, Dir, FromPde, FromPte, Cut
  <2>2. CASE s = <<"cr3", s[2]>>
    <3>1. s[2] \in Proc /\ s[2] # p
      BY <1>5, <2>2, RootFacts
    <3>2. cr3'[s[2]] = cr3[s[2]]
      BY <1>4, <3>1
    <3> QED
      BY <1>1, <2>2, <3>2 DEF SameRoot, Dir, FromPde, FromPte, Cut
  <2> QED
    BY <2>1, <2>2, RootFacts
<1>8. \A x \in Place : x \in {AtDir(r)} \/ Own'[x] = Own[x]
  <2>1. \A s \in Root : AtDir(s) \in {AtDir(r)} \/ Dir(s)' = Dir(s)
    BY <1>7 DEF SameRoot
  <2>2. \A s \in Root : /\ \A i \in UserPde : TableOf(s, i)' = TableOf(s, i)
                        /\ \A i \in UserPde, j \in Pte : PageOf(s, i, j)' = PageOf(s, i, j)
    BY <1>3, <1>6, <1>7, SameTree, NewRoot
  <2>3. \A q \in Proc : NewOf(q)' = NewOf(q)
    BY <1>1 DEF NewOf
  <2> QED
    BY <1>1, <2>1, <2>2, <2>3, OwnBut
<1>9. AtDir(r) \in Place /\ Own[AtDir(r)] = 0 /\ Own'[AtDir(r)] = NewPage
  BY <1>2, <1>6, PlaceIn, OwnFacts, OwnNext DEF OwnIs
<1>10. PAInv' /\ OneEach(Place, Own', held' \ leaked') /\ leaked' \subseteq held'
  BY <1>1, <1>3, <1>8, <1>9, TakePage
<1>11. MemTypeOK'
  BY <1>1, <1>3, <1>4, <1>10 DEF MInv, MemTypeOK
<1>12. ASSUME NEW q \in Proc PROVE OpOK(q)' /\ ChildOK(q)'
  <2>1. OpOK(q)'
    BY <1>1, <1>3, <1>4 DEF MInv, OpOK
  <2>2. ChildOK(q)'
    <3>1. op[q].at \in {"copy", "copymap"} => op[q].child # p
      BY <1>1 DEF Unborn
    <3>2. op[q].at \in {"copy", "copymap"} => cr3'[op[q].child] = cr3[op[q].child]
      BY <1>1, <3>1 DEF MInv, MemTypeOK
    <3> QED
      BY <1>1, <3>2 DEF MInv, ChildOK
  <2> QED
    BY <2>1, <2>2
<1> QED
  BY <1>10, <1>11, <1>12 DEF MInv
-----------------------------------------------------------------------------
(* The step of a function that leaves all directories and tables as they   *)
(* are.                                                                    *)
LEMMA OnlyNew ==
  ASSUME MInv, NEW p \in Proc, NEW o, op' = [op EXCEPT ![p] = o], cr3' = cr3,
         kernel_page_dir' = kernel_page_dir, \A r \in Root : SameTables(r),
         SameRoot(<<"to", p>>)
  PROVE  /\ \A x \in Place : x \in {AtNew(p)} \/ Own'[x] = Own[x]
         /\ NewOf(p)' = NewOf(p) => \A x \in Place : x \in {} \/ Own'[x] = Own[x]
<1>1. \A q \in Proc : q # p => op'[q] = op[q]
  BY DEF MInv, MemTypeOK
<1>2. \A r \in Root : SameRoot(r)
  BY <1>1, RootFacts, OtherRoots
<1>3. \A r \in Root : Dir(r)' = Dir(r)
  BY <1>2 DEF SameRoot
<1>4. \A q \in Proc : q # p => NewOf(q)' = NewOf(q)
  BY <1>1, OtherRoots
<1>5. \A q \in Proc : AtNew(q) \in {AtNew(p)} \/ NewOf(q)' = NewOf(q)
  BY <1>4
<1>6. \A x \in Place : x \in {AtNew(p)} \/ Own'[x] = Own[x]
  BY <1>2, <1>3, <1>5, SameTree, OwnBut
<1>7. ASSUME NewOf(p)' = NewOf(p) PROVE Own'[AtNew(p)] = Own[AtNew(p)]
  BY <1>7, OwnFacts, OwnNext DEF OwnIs
<1> QED
  BY <1>6, <1>7

(* What a function's step leaves to be shown.                              *)
LEMMA StepInv ==
  ASSUME MInv, NEW p \in Proc, NEW o \in Op, op' = [op EXCEPT ![p] = o], cr3' = cr3,
         kernel_page_dir' = kernel_page_dir, table' \in [PageAddr -> [Entries -> Nat]],
         heap_end' \in [Proc -> MEMORY_TASK_BASE..HeapLimit],
         op[p].at # "idle" \/ cr3[p] # 0,
         o.at \in {"copy", "copymap"} =>
            op[p].at \in {"copy", "copymap"} /\ o.child = op[p].child,
         OpOK(p)',
         PAInv', OneEach(Place, Own', held' \ leaked'), leaked' \subseteq held'
  PROVE  MInv'
<1>1. \A q \in Proc : OpOK(q)' /\ ChildOK(q)'
  BY OwnOps
<1>2. MemTypeOK'
  BY DEF MInv, MemTypeOK
<1> QED
  BY <1>1, <1>2 DEF MInv

(* With no table written.                                                  *)
LEMMA QuietTables ==
  ASSUME table' = table
  PROVE  \A r \in Root : SameTables(r)
BY DEF SameTables

LEMMA SbrkInv ==
  ASSUME MInv, NEW p \in Proc, NEW incr \in Incr, sys_sbrk(p, incr)
  PROVE  MInv'
<1>1. PICK h, end, from, count : /\ h = heap_end[p] /\ end = h + incr /\ from = up2(h)
                                 /\ count = up2(end - from) \div page_size
  OBVIOUS
<1>2. /\ op[p].at = "idle" /\ cr3[p] # 0 /\ incr # 0 /\ end <= HeapLimit
      /\ UNCHANGED <<pavars, kernel_page_dir, table, cr3, leaked>>
  BY <1>1 DEF sys_sbrk
<1>3. /\ h \in MEMORY_TASK_BASE..HeapLimit /\ incr \in Nat /\ h \in Nat /\ end \in Nat
      /\ end \in MEMORY_TASK_BASE..HeapLimit /\ op \in [Proc -> Op]
      /\ heap_end \in [Proc -> MEMORY_TASK_BASE..HeapLimit]
      /\ table \in [PageAddr -> [Entries -> Nat]]
  <2>1. MEMORY_TASK_BASE \in Nat /\ HeapLimit \in Nat
    BY LimitFacts
  <2>2. incr \in Nat
    BY MemoryAssumption
  <2>3. op \in [Proc -> Op] /\ heap_end \in [Proc -> MEMORY_TASK_BASE..HeapLimit]
          /\ table \in [PageAddr -> [Entries -> Nat]]
    BY DEF MInv, MemTypeOK
  <2>4. h \in MEMORY_TASK_BASE..HeapLimit
    BY <1>1, <2>3
  <2> QED
    BY <1>1, <1>2, <2>1, <2>2, <2>3, <2>4
<1>7. from = IF h % page_size = 0 THEN h ELSE h + (page_size - (h % page_size))
  BY <1>1, <1>3, HeapFrom
<1>4. \A r \in Root : SameTables(r)
  BY <1>2, QuietTables
<1>5. ASSUME UNCHANGED op, heap_end' = [heap_end EXCEPT ![p] = end] PROVE MInv'
  <2>1. op' = [op EXCEPT ![p] = op[p]]
    BY <1>3, <1>5
  <2>2. SameRoot(<<"to", p>>) /\ NewOf(p)' = NewOf(p)
    BY <1>5 DEF SameRoot, Dir, FromPde, FromPte, Cut, NewOf
  <2>3. \A x \in Place : x \in {} \/ Own'[x] = Own[x]
    BY <1>2, <1>4, <2>1, <2>2, OnlyNew
  <2>4. PAInv' /\ OneEach(Place, Own', held' \ leaked') /\ leaked' \subseteq held'
    BY <1>2, <2>3, KeepPages
  <2>5. MemTypeOK'
    BY <1>2, <1>3, <1>5, <2>4 DEF MInv, MemTypeOK
  <2>6. \A q \in Proc : OpOK(q)' /\ ChildOK(q)'
    BY <1>2, <1>5 DEF MInv, OpOK, ChildOK
  <2> QED
    BY <2>4, <2>5, <2>6 DEF MInv
<1>6. ASSUME ~(h % page_size # 0 /\ (h % page_size) + incr <= page_size), UNCHANGED heap_end,
             op' = [op EXCEPT ![p] = Allocating(end, from, count, 0)]
      PROVE  MInv'
  <2>1. PICK o : o = Allocating(end, from, count, 0)
    OBVIOUS
  <2>2. /\ from \in Nat /\ count \in Nat /\ count > 0
        /\ \E k \in Nat : from = k * page_size /\ k >= FirstUser /\ k + count <= LastUser
    BY <1>1, <1>2, <1>3, <1>6, SbrkFacts
  <2>3. o \in AllocOp /\ o \in Op
    BY <1>3, <2>1, <2>2 DEF Op, AllocOp, Allocating
  <2>4. /\ o.at = "alloc" /\ o.end = end /\ o.vaddr = from /\ o.page_count = count /\ o.i = 0
        /\ op'[p] = o
    BY <1>3, <1>6, <2>1 DEF Allocating
  <2>5. SameRoot(<<"to", p>>) /\ NewOf(p)' = NewOf(p)
    BY <1>2, <2>4 DEF SameRoot, Dir, FromPde, FromPte, Cut, NewOf
  <2>6. \A x \in Place : x \in {} \/ Own'[x] = Own[x]
    BY <1>2, <1>4, <1>6, <2>5, OnlyNew
  <2>7. PAInv' /\ OneEach(Place, Own', held' \ leaked') /\ leaked' \subseteq held'
    BY <1>2, <2>6, KeepPages
  <2>8. HeapRange(o)
    BY <2>2, <2>4 DEF HeapRange
  <2>9. OpOK(p)'
    BY <1>2, <1>3, <2>4, <2>8 DEF OpOK
  <2> QED
    BY <1>2, <1>3, <1>6, <2>1, <2>3, <2>4, <2>7, <2>9, StepInv
<1> QED
  BY <1>1, <1>5, <1>6, <1>7 DEF sys_sbrk, set_heap_end, Becomes

LEMMA AllocPageInv ==
  ASSUME MInv, NEW p \in Proc, alloc_page(p)
  PROVE  MInv'
<1>1. PICK o : o = op[p]
  OBVIOUS
<1>2. o.at = "alloc" /\ UNCHANGED <<kernel_page_dir, table, cr3, leaked>>
  BY <1>1 DEF alloc_page
<1>3. /\ op \in [Proc -> Op] /\ heap_end \in [Proc -> MEMORY_TASK_BASE..HeapLimit]
      /\ table \in [PageAddr -> [Entries -> Nat]] /\ o \in AllocOp
  BY <1>1, <1>2 DEF MInv, MemTypeOK, Op, Idle, MapOp, CopyOp, CopymapOp, DestroyOp
<1>4. cr3[p] # 0 /\ HeapRange(o) /\ o.end \in MEMORY_TASK_BASE..HeapLimit
  BY <1>1, <1>2 DEF MInv, OpOK
<1>5. \A r \in Root : SameTables(r)
  BY <1>2, QuietTables
<1>6. ASSUME addr_alloc_page(1), UNCHANGED heap_end,
             op' = [op EXCEPT ![p] = [at |-> "map", end |-> o.end, vaddr |-> o.vaddr,
                                      page_count |-> o.page_count, i |-> o.i, paddr |-> NewPage]]
      PROVE  MInv'
  <2>1. PICK a : a = NewPage
    OBVIOUS
  <2>2. a \in Nat \ {0}
    BY <1>6, <2>1, PageFacts DEF MInv
  <2>3. PICK n : n = [at |-> "map", end |-> o.end, vaddr |-> o.vaddr,
                      page_count |-> o.page_count, i |-> o.i, paddr |-> a]
    OBVIOUS
  <2>4. /\ op' = [op EXCEPT ![p] = n] /\ op'[p] = n /\ n.at = "map" /\ n.paddr = a
        /\ n.end = o.end /\ n.vaddr = o.vaddr /\ n.page_count = o.page_count /\ n.i = o.i
    BY <1>3, <1>6, <2>1, <2>3
  <2>5. n \in MapOp /\ n \in Op
    BY <1>3, <2>2, <2>3 DEF Op, MapOp, AllocOp
  <2>6. SameRoot(<<"to", p>>)
    BY <1>1, <1>2, <2>4 DEF SameRoot, Dir, FromPde, FromPte, Cut
  <2>7. \A x \in Place : x \in {AtNew(p)} \/ Own'[x] = Own[x]
    BY <1>2, <1>5, <2>4, <2>6, OnlyNew
  <2>8. NewOf(p) = 0 /\ NewOf(p)' = a
    BY <1>1, <1>2, <2>4 DEF NewOf
  <2>9. AtNew(p) \in Place /\ Own[AtNew(p)] = 0 /\ Own'[AtNew(p)] = NewPage
    BY <2>1, <2>8, PlaceIn, OwnFacts, OwnNext DEF OwnIs
  <2>10. PAInv' /\ OneEach(Place, Own', held' \ leaked') /\ leaked' \subseteq held'
    BY <1>2, <1>6, <2>7, <2>9, TakePage
  <2>11. HeapRange(n)
    BY <1>4, <2>4 DEF HeapRange
  <2>12. OpOK(p)'
    BY <1>2, <1>4, <2>2, <2>4, <2>11 DEF OpOK
  <2> QED
    BY <1>1, <1>2, <1>3, <1>6, <2>4, <2>5, <2>10, <2>12, StepInv
<1>7. ASSUME heap_end' = [heap_end EXCEPT ![p] = o.end], op' = [op EXCEPT ![p] = Idle],
             UNCHANGED pavars
      PROVE  MInv'
  <2>1. op'[p] = Idle /\ Idle.at = "idle" /\ Idle \in Op
    BY <1>3, <1>7 DEF Idle, Op
  <2>2. SameRoot(<<"to", p>>) /\ NewOf(p)' = NewOf(p)
    BY <1>1, <1>2, <2>1 DEF SameRoot, Dir, FromPde, FromPte, Cut, NewOf
  <2>3. \A x \in Place : x \in {} \/ Own'[x] = Own[x]
    BY <1>2, <1>5, <1>7, <2>2, OnlyNew
  <2>4. PAInv' /\ OneEach(Place, Own', held' \ leaked') /\ leaked' \subseteq held'
    BY <1>2, <1>7, <2>3, KeepPages
  <2>5. OpOK(p)'
    BY <2>1 DEF OpOK
  <2>6. heap_end' \in [Proc -> MEMORY_TASK_BASE..HeapLimit]
    BY <1>3, <1>4, <1>7
  <2> QED
    BY <1>1, <1>2, <1>3, <1>7, <2>1, <2>4, <2>5, <2>6, StepInv
<1> QED
  BY <1>1, <1>6, <1>7 DEF alloc_page, set_heap_end, Becomes
-----------------------------------------------------------------------------
(* A table belongs to one directory, and a directory is not a table.       *)
LEMMA TreesApart ==
  ASSUME MInv
  PROVE  /\ \A r, s \in Root : Dir(r) # 0 /\ Dir(r) = Dir(s) => r = s
         /\ \A r, s \in Root, i \in UserPde : Dir(s) # 0 => TableOf(r, i) # Dir(s)
         /\ \A r, s \in Root, i, k \in UserPde :
               TableOf(r, i) # 0 /\ TableOf(r, i) = TableOf(s, k) => r = s /\ i = k
<1>1. \A x, y \in Place : Own[x] # 0 /\ Own[x] = Own[y] => x = y
  BY DEF MInv, OneEach
<1>2. ASSUME NEW r \in Root, NEW s \in Root, Dir(r) # 0 /\ Dir(r) = Dir(s) PROVE r = s
  <2>1. AtDir(r) = AtDir(s)
    BY <1>1, <1>2, PlaceIn, OwnFacts DEF OwnIs
  <2> QED
    BY <2>1, PlaceApart
<1>3. \A r, s \in Root, i \in UserPde : Dir(s) # 0 => TableOf(r, i) # Dir(s)
  BY <1>1, PlaceIn, PlaceApart, OwnFacts DEF OwnIs
<1>4. ASSUME NEW r \in Root, NEW s \in Root, NEW i \in UserPde, NEW k \in UserPde,
             TableOf(r, i) # 0 /\ TableOf(r, i) = TableOf(s, k)
      PROVE  r = s /\ i = k
  <2>1. AtTable(r, i) = AtTable(s, k)
    BY <1>1, <1>4, PlaceIn, OwnFacts DEF OwnIs
  <2> QED
    BY <2>1, PlaceApart
<1> QED
  BY <1>2, <1>3, <1>4

(* memory_create_map in a table that exists.                               *)
LEMMA MapOld ==
  ASSUME MInv, NEW r \in Root, ~Cut(r), Dir(r) # 0, \A s \in Root : SameRoot(s),
         NEW i \in UserPde, NEW j \in Pte, NEW a,
         NEW t, t = table[Dir(r)][i], t # 0, table[t][j] = 0,
         \A b \in PageAddr : b # t => table'[b] = table[b],
         table'[t][j] = a, \A l \in Entries : l # j => table'[t][l] = table[t][l]
  PROVE  /\ \A s \in Root, k \in UserPde : TableOf(s, k)' = TableOf(s, k)
         /\ \A s \in Root, k \in UserPde, l \in Pte :
               AtPage(s, k, l) # AtPage(r, i, j) => PageOf(s, k, l)' = PageOf(s, k, l)
         /\ PageOf(r, i, j) = 0 /\ PageOf(r, i, j)' = a
<1>1. FromPde(r) = user_pde_start /\ FromPte(r) = 0
  BY DEF FromPde, FromPte
<1>2. \A k \in UserPde : k >= user_pde_start /\ k \in Entries
  BY LimitFacts DEF UserPde, Entries
<1>3. \A l \in Pte : l >= 0 /\ l \in Entries
  BY MemoryAssumption DEF Pte, Entries
<1>4. TableOf(r, i) = t
  BY <1>1, <1>2 DEF TableOf
<1>5. \A s \in Root : Dir(s) # 0 => table'[Dir(s)] = table[Dir(s)]
  BY <1>4, TreesApart, TablesIn
<1>6. \A s \in Root, k \in UserPde : TableOf(s, k)' = TableOf(s, k)
  BY <1>5 DEF SameRoot, TableOf
<1>7. ASSUME NEW s \in Root, NEW k \in UserPde, NEW l \in Pte,
             AtPage(s, k, l) # AtPage(r, i, j)
      PROVE  PageOf(s, k, l)' = PageOf(s, k, l)
  <2>1. TableOf(s, k) # 0 => table'[TableOf(s, k)][l] = table[TableOf(s, k)][l]
    <3>1. CASE TableOf(s, k) = t
      BY <1>3, <1>4, <1>7, <3>1, TreesApart
    <3>2. CASE TableOf(s, k) # t
      BY <3>2, TablesIn
    <3> QED
      BY <3>1, <3>2
  <2> QED
    BY <1>6, <2>1 DEF SameRoot, PageOf
<1>8. PageOf(r, i, j) = 0 /\ PageOf(r, i, j)' = a
  BY <1>1, <1>3, <1>4, <1>6 DEF SameRoot, PageOf
<1> QED
  BY <1>6, <1>7, <1>8

(* memory_create_map with a new table.                                     *)
LEMMA MapNew ==
  ASSUME MInv, NEW r \in Root, ~Cut(r), Dir(r) # 0, \A s \in Root : SameRoot(s),
         NEW i \in UserPde, NEW j \in Pte, NEW a, a # 0,
         table[Dir(r)][i] = 0, NEW n, n \notin held, n # 0,
         \A b \in PageAddr : b # Dir(r) /\ b # n => table'[b] = table[b],
         table'[Dir(r)][i] = n, table'[n][j] = a,
         \A k \in Entries : k # i => table'[Dir(r)][k] = table[Dir(r)][k],
         \A l \in Entries : l # j => table'[n][l] = 0
  PROVE  /\ \A s \in Root, k \in UserPde :
               AtTable(s, k) # AtTable(r, i) => TableOf(s, k)' = TableOf(s, k)
         /\ TableOf(r, i) = 0 /\ TableOf(r, i)' = n
         /\ \A s \in Root, k \in UserPde, l \in Pte :
               AtPage(s, k, l) # AtPage(r, i, j) => PageOf(s, k, l)' = PageOf(s, k, l)
         /\ PageOf(r, i, j) = 0 /\ PageOf(r, i, j)' = a
<1>1. FromPde(r) = user_pde_start /\ FromPte(r) = 0
  BY DEF FromPde, FromPte
<1>2. \A k \in UserPde : k >= user_pde_start /\ k \in Entries
  BY LimitFacts DEF UserPde, Entries
<1>3. \A l \in Pte : l >= 0 /\ l \in Entries
  BY MemoryAssumption DEF Pte, Entries
<1>4. ASSUME NEW s \in Root, NEW k \in UserPde, TableOf(s, k) # 0
      PROVE  table'[TableOf(s, k)] = table[TableOf(s, k)]
  <2>1. TableOf(s, k) \in PageAddr /\ TableOf(s, k) \in held
    BY <1>4, TablesIn
  <2>2. TableOf(s, k) # Dir(r)
    BY TreesApart
  <2> QED
    BY <2>1, <2>2
<1>5. ASSUME NEW s \in Root, s # r, Dir(s) # 0 PROVE table'[Dir(s)] = table[Dir(s)]
  <2>1. Dir(s) \in PageAddr /\ Dir(s) \in held
    BY <1>5, TablesIn
  <2>2. Dir(s) # Dir(r)
    BY <1>5, TreesApart
  <2> QED
    BY <2>1, <2>2
<1>6. TableOf(r, i) = 0 /\ TableOf(r, i)' = n
  BY <1>1, <1>2 DEF SameRoot, TableOf
<1>7. ASSUME NEW s \in Root, NEW k \in UserPde, AtTable(s, k) # AtTable(r, i)
      PROVE  TableOf(s, k)' = TableOf(s, k)
  <2>1. CASE s # r
    <3>1. SameRoot(s) /\ (Dir(s) # 0 => table'[Dir(s)] = table[Dir(s)])
      BY <1>5, <2>1
    <3> QED
      BY <3>1 DEF SameRoot, TableOf
  <2>2. CASE s = r /\ k # i
    <3>1. SameRoot(s) /\ table'[Dir(s)][k] = table[Dir(s)][k]
      BY <1>2, <2>2
    <3> QED
      BY <3>1 DEF SameRoot, TableOf
  <2> QED
    BY <1>7, <2>1, <2>2
<1>8. ASSUME NEW s \in Root, NEW k \in UserPde, NEW l \in Pte,
             AtPage(s, k, l) # AtPage(r, i, j)
      PROVE  PageOf(s, k, l)' = PageOf(s, k, l)
  <2>1. CASE AtTable(s, k) # AtTable(r, i)
    <3>1. /\ SameRoot(s) /\ TableOf(s, k)' = TableOf(s, k)
          /\ TableOf(s, k) # 0 => table'[TableOf(s, k)] = table[TableOf(s, k)]
      BY <1>4, <1>7, <2>1
    <3> QED
      BY <3>1 DEF SameRoot, PageOf
  <2>2. CASE s = r /\ k = i /\ l # j
    <3>1. table'[n][l] = 0
      BY <1>3, <2>2
    <3> QED
      BY <1>6, <2>2, <3>1 DEF PageOf
  <2> QED
    BY <1>8, <2>1, <2>2, PlaceApart
<1>9. PageOf(r, i, j) = 0 /\ PageOf(r, i, j)' = a
  BY <1>1, <1>3, <1>6 DEF SameRoot, PageOf
<1> QED
  BY <1>6, <1>7, <1>8, <1>9

\* Of all entries of tables in use the step changes one, to the address a.
MapsOnly(r, i, j, a) ==
    /\ \A s \in Root, k \in UserPde, l \in Pte :
          AtPage(s, k, l) # AtPage(r, i, j) => PageOf(s, k, l)' = PageOf(s, k, l)
    /\ PageOf(r, i, j)' = a

(* memory_create_map of the page in the hands of p, in the directory r.    *)
LEMMA CreateMapInv ==
  ASSUME MInv, NEW p \in Proc, NEW r \in Root, ~Cut(r), Dir(r) # 0, NEW v, NEW a,
         pde_index(v) \in UserPde, pte_index(v) \in Pte, NewOf(p) = a, a # 0, a \in Nat,
         create_map(Dir(r), v, a), kernel_page_dir' = kernel_page_dir, leaked' = leaked,
         \A s \in Root : SameRoot(s), NewOf(p)' = 0,
         \A q \in Proc : q # p => NewOf(q)' = NewOf(q)
  PROVE  /\ PAInv' /\ OneEach(Place, Own', held' \ leaked') /\ leaked' \subseteq held'
         /\ table' \in [PageAddr -> [Entries -> Nat]]
         /\ MapsOnly(r, pde_index(v), pte_index(v), a)
<1>1. PICK i \in UserPde, j \in Pte : i = pde_index(v) /\ j = pte_index(v)
  OBVIOUS
<1>2. PICK d : d = Dir(r)
  OBVIOUS
<1>3. d \in held /\ d \in PageAddr
  BY <1>2, TablesIn
<1>4. i \in Entries /\ j \in Entries
  BY MemoryAssumption DEF UserPde, Pte, Entries
<1>5. table \in [PageAddr -> [Entries -> Nat]] /\ PageAddr \subseteq Nat
  BY HeldAddr DEF MInv, MemTypeOK
<1>6. \A s \in Root : Dir(s)' = Dir(s)
  BY DEF SameRoot
<1>7. PICK y, z, w : y = AtNew(p) /\ z = AtPage(r, i, j) /\ w = AtTable(r, i)
  OBVIOUS
<1>8. y \in Place /\ z \in Place /\ w \in Place /\ y # z /\ y # w /\ z # w
        /\ Own[y] = a /\ Own'[y] = 0
  BY <1>7, PlaceIn, PlaceApart, OwnFacts, OwnNext DEF OwnIs
<1>9. ASSUME NEW t, t = table[d][i], t # 0, table[t][j] = 0,
             table' = [table EXCEPT ![t][j] = a], UNCHANGED pavars
      PROVE  /\ PAInv' /\ OneEach(Place, Own', held' \ leaked') /\ leaked' \subseteq held'
             /\ table' \in [PageAddr -> [Entries -> Nat]]
             /\ MapsOnly(r, i, j, a)
  <2>1. /\ \A s \in Root, k \in UserPde : TableOf(s, k)' = TableOf(s, k)
        /\ \A s \in Root, k \in UserPde, l \in Pte :
              AtPage(s, k, l) # AtPage(r, i, j) => PageOf(s, k, l)' = PageOf(s, k, l)
        /\ PageOf(r, i, j) = 0 /\ PageOf(r, i, j)' = a
    <3>1. i \in Entries /\ FromPde(r) = user_pde_start /\ i >= FromPde(r)
      BY <1>4, LimitFacts DEF FromPde, UserPde
    <3>2. TableOf(r, i) = t
      BY <1>2, <1>9, <3>1 DEF TableOf
    <3>3. t \in PageAddr
      BY <1>9, <3>2, TablesIn
    <3>4. /\ \A b \in PageAddr : b # t => table'[b] = table[b]
          /\ table'[t][j] = a /\ \A l \in Entries : l # j => table'[t][l] = table[t][l]
      BY <1>4, <1>5, <1>9, <3>3
    <3>5. t = table[Dir(r)][i]
      BY <1>2, <1>9
    <3>6. t # 0 /\ table[t][j] = 0
      BY <1>9
    <3> QED
      BY <3>4, <3>5, <3>6, MapOld
  <2>2. Own[z] = 0 /\ Own'[z] = a
    BY <1>7, <2>1, OwnFacts, OwnNext DEF OwnIs
  <2>3. \A x \in Place : x \in {y, z} \/ Own'[x] = Own[x]
    <3>1. \A q \in Proc : AtNew(q) \in {y, z} \/ NewOf(q)' = NewOf(q)
      BY <1>7
    <3>2. \A s \in Root, k \in UserPde, l \in Pte :
             AtPage(s, k, l) \in {y, z} \/ PageOf(s, k, l)' = PageOf(s, k, l)
      BY <1>7, <2>1
    <3> QED
      BY <1>6, <2>1, <3>1, <3>2, OwnBut
  <2>4. \A x \in Place : Own'[x] = IF x = y THEN 0 ELSE IF x = z THEN Own[y] ELSE Own[x]
    BY <1>8, <2>2, <2>3
  <2>5. OneEach(Place, Own, held \ leaked) /\ leaked \subseteq held
    BY DEF MInv, MemTypeOK
  <2>6. OneEach(Place, Own', held \ leaked)
    BY <1>8, <2>2, <2>4, <2>5, MoveOne
  <2>7. PAInv' /\ held' = held
    BY <1>9 DEF MInv, PAInv, PATypeOK, BitsAreHeld, pavars
  <2>8. table' \in [PageAddr -> [Entries -> Nat]]
    BY <1>4, <1>5, <1>9
  <2>9. MapsOnly(r, i, j, a)
    BY <2>1 DEF MapsOnly
  <2> QED
    BY <2>5, <2>6, <2>7, <2>8, <2>9
<1>10. ASSUME NEW n, n = NewPage, table[d][i] = 0, addr_alloc_page(1),
              table' = [table EXCEPT ![d][i] = n, ![n] = [Zeroed EXCEPT ![j] = a]]
       PROVE  /\ PAInv' /\ OneEach(Place, Own', held' \ leaked') /\ leaked' \subseteq held'
              /\ table' \in [PageAddr -> [Entries -> Nat]]
              /\ MapsOnly(r, i, j, a)
  <2>1. PAInv' /\ n \in PageAddr /\ n \notin held /\ n # 0 /\ held' = held \union {n}
    BY <1>10, PageFacts DEF MInv
  <2>2. /\ \A b \in PageAddr : b # Dir(r) /\ b # n => table'[b] = table[b]
        /\ table'[Dir(r)][i] = n /\ table'[n][j] = a
        /\ \A k \in Entries : k # i => table'[Dir(r)][k] = table[Dir(r)][k]
        /\ \A l \in Entries : l # j => table'[n][l] = 0
    <3>1. d # n
      BY <1>3, <2>1
    <3>2. /\ \A b \in PageAddr : b # d /\ b # n => table'[b] = table[b]
          /\ table'[d] = [table[d] EXCEPT ![i] = n] /\ table'[n] = [Zeroed EXCEPT ![j] = a]
      BY <1>3, <1>5, <1>10, <2>1, <3>1
    <3>3. table[d] \in [Entries -> Nat] /\ Zeroed \in [Entries -> Nat]
            /\ \A l \in Entries : Zeroed[l] = 0
      BY <1>3, <1>5 DEF Zeroed
    <3> QED
      BY <1>2, <1>4, <3>2, <3>3
  <2>3. /\ \A s \in Root, k \in UserPde :
              AtTable(s, k) # AtTable(r, i) => TableOf(s, k)' = TableOf(s, k)
        /\ TableOf(r, i) = 0 /\ TableOf(r, i)' = n
        /\ \A s \in Root, k \in UserPde, l \in Pte :
              AtPage(s, k, l) # AtPage(r, i, j) => PageOf(s, k, l)' = PageOf(s, k, l)
        /\ PageOf(r, i, j) = 0 /\ PageOf(r, i, j)' = a
    <3>1. table[Dir(r)][i] = 0 /\ n \notin held /\ n # 0
      BY <1>2, <1>10, <2>1
    <3> QED
      BY <2>2, <3>1, MapNew
  <2>4. Own[z] = 0 /\ Own'[z] = a /\ Own[w] = 0 /\ Own'[w] = n
    BY <1>7, <2>3, OwnFacts, OwnNext DEF OwnIs
  <2>5. \A x \in Place : x \in {y, z, w} \/ Own'[x] = Own[x]
    <3>1. \A q \in Proc : AtNew(q) \in {y, z, w} \/ NewOf(q)' = NewOf(q)
      BY <1>7
    <3>2. \A s \in Root, k \in UserPde, l \in Pte :
             AtPage(s, k, l) \in {y, z, w} \/ PageOf(s, k, l)' = PageOf(s, k, l)
      BY <1>7, <2>3
    <3>3. \A s \in Root, k \in UserPde :
             AtTable(s, k) \in {y, z, w} \/ TableOf(s, k)' = TableOf(s, k)
      BY <1>7, <2>3
    <3> QED
      BY <1>6, <3>1, <3>2, <3>3, OwnBut
  <2>6. PICK e : e = [x \in Place |-> IF x = y THEN 0 ELSE IF x = z THEN Own[y] ELSE Own[x]]
    OBVIOUS
  <2>7. \A x \in Place : e[x] = IF x = y THEN 0 ELSE IF x = z THEN Own[y] ELSE Own[x]
    BY <2>6
  <2>8. OneEach(Place, Own, held \ leaked) /\ leaked \subseteq held
    BY DEF MInv, MemTypeOK
  <2>9. OneEach(Place, e, held \ leaked)
    BY <1>8, <2>4, <2>7, <2>8, MoveOne
  <2>10. e[w] = 0 /\ \A x \in Place : Own'[x] = IF x = w THEN n ELSE e[x]
    BY <1>8, <2>4, <2>5, <2>7
  <2>11. OneEach(Place, Own', (held \ leaked) \union {n})
    BY <1>8, <2>1, <2>9, <2>10, TakeOne
  <2>12. held' \ leaked' = (held \ leaked) \union {n} /\ leaked' \subseteq held'
    BY <2>1, <2>8
  <2>13. table' \in [PageAddr -> [Entries -> Nat]]
    <3>1. [Zeroed EXCEPT ![j] = a] \in [Entries -> Nat]
      BY <1>4 DEF Zeroed
    <3>2. [table[d] EXCEPT ![i] = n] \in [Entries -> Nat]
      BY <1>3, <1>4, <1>5, <2>1
    <3> QED
      BY <1>3, <1>5, <1>10, <2>1, <3>1, <3>2
  <2>14. MapsOnly(r, i, j, a)
    BY <2>3 DEF MapsOnly
  <2> QED
    BY <2>1, <2>11, <2>12, <2>13, <2>14
<1> QED
  BY <1>1, <1>2, <1>9, <1>10 DEF create_map, find_pte, pte_paddr

(* No virtual address of a task is the address of a page, so that freeing  *)
(* pages by their virtual addresses changes nothing.                       *)
LEMMA UndoNothing ==
  ASSUME PAInv, NEW v \in Nat, v >= MEMORY_TASK_BASE, NEW c, undo_alloc(v, c)
  PROVE  bits' = bits
<1> USE PageAllocAssumption
<1>1. PICK b : b = bit_count * page_size /\ b \in Nat
  OBVIOUS
<1>2. start + b <= v
  <2>1. start + b <= MEMORY_TASK_BASE
    BY <1>1, MemoryAssumption DEF MEMORY_TASK_BASE
  <2>2. MEMORY_TASK_BASE \in Nat
    BY LimitFacts
  <2> QED
    BY <1>1, <2>1, <2>2
<1>3. PICK x \in Nat : x = v - start
  BY <1>1, <1>2
<1>4. bit_count * page_size <= x
  BY <1>1, <1>2, <1>3
<1>5. bit_count <= x \div page_size /\ x \div page_size \in Nat
  BY <1>4, DivBounds, DivFacts
<1>6. pg_idx(v) >= bit_count /\ pg_idx(v) \in Nat
  BY <1>3, <1>5 DEF pg_idx
<1>7. bits \in [0..(bit_count-1) -> {0, 1}]
  BY DEF PAInv, PATypeOK
<1>8. \A i \in 0..(bit_count-1) : ~(i \in pg_idx(v)..(pg_idx(v) + c - 1))
  BY <1>6
<1>9. bits' = [i \in 0..(bit_count-1) |-> bits[i]]
  BY <1>7, <1>8 DEF undo_alloc, bitmap_set_bit
<1> QED
  BY <1>7, <1>9

(* A function that maps a page goes on, or ends, without the page.         *)
LEMMA MapRoots ==
  ASSUME MInv, NEW p \in Proc, NEW o, op' = [op EXCEPT ![p] = o], cr3' = cr3,
         o.at \notin {"map", "copymap", "destroy"}, op[p].at \in {"map", "copymap"},
         IF op[p].at = "map" THEN o.at # "copy" ELSE o.at = "copy" /\ o.to = op[p].to
  PROVE  /\ \A s \in Root : SameRoot(s)
         /\ NewOf(p)' = 0
         /\ \A q \in Proc : q # p => NewOf(q)' = NewOf(q)
<1>1. op'[p] = o /\ \A q \in Proc : q # p => op'[q] = op[q]
  BY DEF MInv, MemTypeOK
<1>2. SameRoot(<<"to", p>>)
  <2>1. ~Cut(<<"to", p>>) /\ ~Cut(<<"to", p>>)'
    BY <1>1 DEF Cut
  <2>2. Dir(<<"to", p>>)' = Dir(<<"to", p>>)
    BY <1>1 DEF Dir
  <2> QED
    BY <2>1, <2>2 DEF SameRoot, FromPde, FromPte
<1>3. \A s \in Root : SameRoot(s)
  BY <1>1, <1>2, RootFacts, OtherRoots
<1>4. NewOf(p)' = 0
  BY <1>1 DEF NewOf
<1> QED
  BY <1>1, <1>3, <1>4, OtherRoots

LEMMA MapPageInv ==
  ASSUME MInv, NEW p \in Proc, map_page(p)
  PROVE  MInv'
<1>1. PICK o, v : o = op[p] /\ v = o.vaddr + o.i * page_size
  OBVIOUS
<1>2. o.at = "map" /\ UNCHANGED <<kernel_page_dir, cr3>>
  BY <1>1 DEF map_page
<1>3. /\ op \in [Proc -> Op] /\ heap_end \in [Proc -> MEMORY_TASK_BASE..HeapLimit]
      /\ table \in [PageAddr -> [Entries -> Nat]] /\ o \in MapOp
  BY <1>1, <1>2 DEF MInv, MemTypeOK, Op, Idle, AllocOp, CopyOp, CopymapOp, DestroyOp
<1>4. /\ cr3[p] # 0 /\ HeapRange(o) /\ o.end \in MEMORY_TASK_BASE..HeapLimit
      /\ o.paddr # 0
  BY <1>1, <1>2 DEF MInv, OpOK
<1>5. /\ o.vaddr \in Nat /\ o.i \in Nat /\ o.page_count \in Nat /\ o.end \in Nat
      /\ o.paddr \in Nat
  BY <1>3 DEF MapOp
<1>6. PICK k \in Nat : /\ o.vaddr = k * page_size /\ k >= FirstUser
                       /\ k + o.page_count <= LastUser /\ o.i < o.page_count
  BY <1>4 DEF HeapRange
<1>7. pde_index(v) \in UserPde /\ pte_index(v) \in Pte
  <2>1. k + o.i \in Nat /\ k + o.i >= FirstUser /\ k + o.i < LastUser
    BY <1>5, <1>6, LimitFacts
  <2>2. v = (k + o.i) * page_size
    BY <1>1, <1>5, <1>6, LimitFacts
  <2> QED
    BY <2>1, <2>2, IndexFacts
<1>8. PICK r \in Root : r = <<"cr3", p>>
  BY RootFacts
<1>9. Dir(r) = cr3[p] /\ ~Cut(r) /\ NewOf(p) = o.paddr
  BY <1>1, <1>2, <1>8 DEF Dir, Cut, NewOf
<1>10. AtNew(p) \in Place /\ Own[AtNew(p)] = o.paddr
  BY <1>9, PlaceIn, OwnFacts DEF OwnIs
<1>11. ASSUME NEW n \in Op, Becomes(p, n), n.at \in {"alloc", "idle"}, OpOK(p)',
              create_map(cr3[p], v, o.paddr), UNCHANGED leaked,
              heap_end' \in [Proc -> MEMORY_TASK_BASE..HeapLimit]
       PROVE  MInv'
  <2>1. op' = [op EXCEPT ![p] = n]
    BY <1>11 DEF Becomes
  <2>2. /\ \A s \in Root : SameRoot(s)
        /\ NewOf(p)' = 0 /\ \A q \in Proc : q # p => NewOf(q)' = NewOf(q)
    BY <1>1, <1>2, <1>11, <2>1, MapRoots
  <2>3. create_map(Dir(r), v, o.paddr) /\ Dir(r) # 0
    BY <1>4, <1>9, <1>11
  <2>4. /\ PAInv' /\ OneEach(Place, Own', held' \ leaked') /\ leaked' \subseteq held'
        /\ table' \in [PageAddr -> [Entries -> Nat]]
    BY <1>2, <1>4, <1>5, <1>7, <1>9, <1>11, <2>2, <2>3, CreateMapInv
  <2> QED
    BY <1>1, <1>2, <1>11, <2>1, <2>4, StepInv
<1>12. ASSUME NEW n \in Op, Becomes(p, n), n.at \in {"idle", "panic"}, UNCHANGED <<bits, held>>,
              leaked' = leaked \union {o.paddr}, UNCHANGED <<table, heap_end>>
       PROVE  MInv'
  <2>1. op' = [op EXCEPT ![p] = n] /\ op'[p] = n
    BY <1>3, <1>12 DEF Becomes
  <2>2. SameRoot(<<"to", p>>) /\ NewOf(p)' = 0
    BY <1>1, <1>2, <1>12, <2>1, MapRoots, RootFacts
  <2>3. \A x \in Place : x \in {AtNew(p)} \/ Own'[x] = Own[x]
    BY <1>2, <1>12, <2>1, <2>2, QuietTables, OnlyNew
  <2>4. Own'[AtNew(p)] = 0
    BY <2>2, OwnNext DEF OwnIs
  <2>5. UNCHANGED pavars
    BY <1>12 DEF pavars
  <2>6. PAInv' /\ OneEach(Place, Own', held' \ leaked') /\ leaked' \subseteq held'
    BY <1>4, <1>10, <1>12, <2>3, <2>4, <2>5, LeakPage
  <2>7. OpOK(p)'
    BY <1>12, <2>1 DEF OpOK
  <2>8. table' \in [PageAddr -> [Entries -> Nat]] /\ heap_end' \in [Proc -> MEMORY_TASK_BASE..HeapLimit]
    BY <1>3, <1>12
  <2> QED
    BY <1>1, <1>2, <1>12, <2>1, <2>6, <2>7, <2>8, StepInv
<1>13. Idle \in Op /\ Idle.at = "idle" /\ [at |-> "panic"] \in Op
  BY DEF Idle, Op
<1>14. CASE create_map(cr3[p], v, o.paddr) /\ UNCHANGED leaked /\ o.i + 1 < o.page_count
              /\ Becomes(p, Allocating(o.end, o.vaddr, o.page_count, o.i + 1)) /\ UNCHANGED heap_end
  <2>1. PICK n : n = Allocating(o.end, o.vaddr, o.page_count, o.i + 1)
    OBVIOUS
  <2>2. /\ n.at = "alloc" /\ n.end = o.end /\ n.vaddr = o.vaddr
        /\ n.page_count = o.page_count /\ n.i = o.i + 1 /\ n \in AllocOp
    BY <1>5, <2>1 DEF Allocating, AllocOp
  <2>3. n \in Op /\ op'[p] = n
    BY <1>3, <1>14, <2>1, <2>2 DEF Op, Becomes
  <2>4. HeapRange(n)
    BY <1>5, <1>6, <1>14, <2>2 DEF HeapRange
  <2>5. OpOK(p)'
    BY <1>2, <1>4, <2>2, <2>3, <2>4 DEF OpOK
  <2> QED
    BY <1>3, <1>11, <1>14, <2>1, <2>2, <2>3, <2>5
<1>15. CASE create_map(cr3[p], v, o.paddr) /\ UNCHANGED leaked
              /\ Becomes(p, Idle) /\ set_heap_end(p, o.end)
  <2>1. op'[p] = Idle
    BY <1>3, <1>15 DEF Becomes
  <2>2. OpOK(p)'
    BY <1>13, <2>1 DEF OpOK
  <2>3. heap_end' \in [Proc -> MEMORY_TASK_BASE..HeapLimit]
    BY <1>3, <1>4, <1>15 DEF set_heap_end
  <2> QED
    BY <1>11, <1>13, <1>15, <2>2, <2>3
<1>16. CASE undo_alloc(o.vaddr, o.i + 1) /\ leaked' = leaked \union {o.paddr} /\ Becomes(p, Idle)
              /\ UNCHANGED <<held, table, heap_end>>
  <2>1. MEMORY_TASK_BASE <= o.vaddr
    BY <1>6, LimitFacts, MulMono
  <2>2. MEMORY_TASK_BASE \in Nat
    BY LimitFacts
  <2>3. bits' = bits
    BY <1>5, <1>16, <2>1, <2>2, UndoNothing DEF MInv
  <2> QED
    BY <1>12, <1>13, <1>16, <2>3
<1>17. CASE leaked' = leaked \union {o.paddr} /\ Becomes(p, [at |-> "panic"])
              /\ UNCHANGED <<pavars, table, heap_end>>
  BY <1>12, <1>13, <1>17 DEF pavars
<1> QED
  BY <1>1, <1>14, <1>15, <1>16, <1>17 DEF map_page

LEMMA CopyMapInv ==
  ASSUME MInv, NEW p \in Proc, copy_map(p)
  PROVE  MInv'
<1>1. PICK o : o = op[p]
  OBVIOUS
<1>2. o.at = "copymap" /\ UNCHANGED <<kernel_page_dir, cr3, heap_end>>
  BY <1>1 DEF copy_map
<1>3. /\ op \in [Proc -> Op] /\ heap_end \in [Proc -> MEMORY_TASK_BASE..HeapLimit]
      /\ table \in [PageAddr -> [Entries -> Nat]] /\ o \in CopymapOp
  BY <1>1, <1>2 DEF MInv, MemTypeOK, Op, Idle, AllocOp, CopyOp, MapOp, DestroyOp
<1>4. o.paddr # 0 /\ o.to # 0 /\ o.vaddr \in UserPage
  BY <1>1, <1>2 DEF MInv, OpOK
<1>5. o.vaddr \in Nat /\ o.to \in Nat /\ o.child \in Proc /\ o.paddr \in Nat
  BY <1>3 DEF CopymapOp
<1>6. pde_index(o.vaddr) \in UserPde /\ pte_index(o.vaddr) \in Pte
  BY <1>4, UserPageFacts
<1>7. PICK r \in Root : r = <<"to", p>>
  BY RootFacts
<1>8. Dir(r) = o.to /\ ~Cut(r) /\ NewOf(p) = o.paddr
  BY <1>1, <1>2, <1>7 DEF Dir, Cut, NewOf
<1>9. AtNew(p) \in Place /\ Own[AtNew(p)] = o.paddr
  BY <1>8, PlaceIn, OwnFacts DEF OwnIs
<1>10. CASE create_map(o.to, o.vaddr, o.paddr) /\ UNCHANGED leaked
              /\ Becomes(p, [at |-> "copy", child |-> o.child, to |-> o.to,
                             vaddr |-> copy_next(o.vaddr)])
  <2>1. PICK n : n = [at |-> "copy", child |-> o.child, to |-> o.to, vaddr |-> copy_next(o.vaddr)]
    OBVIOUS
  <2>2. /\ op' = [op EXCEPT ![p] = n] /\ op'[p] = n
        /\ n.at = "copy" /\ n.child = o.child /\ n.to = o.to
    BY <1>3, <1>10, <2>1 DEF Becomes
  <2>3. n \in CopyOp /\ n \in Op
    BY <1>5, <2>1, PageAllocAssumption DEF copy_next, CopyOp, Op
  <2>4. /\ \A s \in Root : SameRoot(s)
        /\ NewOf(p)' = 0 /\ \A q \in Proc : q # p => NewOf(q)' = NewOf(q)
    BY <1>1, <1>2, <2>2, MapRoots
  <2>5. create_map(Dir(r), o.vaddr, o.paddr) /\ Dir(r) # 0
    BY <1>4, <1>8, <1>10
  <2>6. /\ PAInv' /\ OneEach(Place, Own', held' \ leaked') /\ leaked' \subseteq held'
        /\ table' \in [PageAddr -> [Entries -> Nat]]
    BY <1>2, <1>4, <1>5, <1>6, <1>8, <1>10, <2>4, <2>5, CreateMapInv
  <2>7. OpOK(p)'
    BY <1>4, <2>2 DEF OpOK
  <2>8. heap_end' \in [Proc -> MEMORY_TASK_BASE..HeapLimit]
    BY <1>2, <1>3
  <2> QED
    BY <1>1, <1>2, <2>2, <2>3, <2>6, <2>7, <2>8, StepInv
<1>11. CASE leaked' = leaked \union {o.paddr} /\ Undo(p) /\ UNCHANGED <<pavars, table>>
  <2>1. PICK n : n = Destroying(o.to, user_pde_start, 0)
    OBVIOUS
  <2>2. /\ op' = [op EXCEPT ![p] = n] /\ op'[p] = n
        /\ n.at = "destroy" /\ n.to = o.to /\ n.pde = user_pde_start /\ n.pte = 0
    BY <1>1, <1>3, <1>11, <2>1 DEF Undo, Becomes, destroy_from, Destroying
  <2>3. n \in DestroyOp /\ n \in Op
    BY <1>5, <2>1, LimitFacts DEF Destroying, DestroyOp, Op
  <2>4. SameRoot(<<"to", p>>)
    BY <1>1, <1>2, <2>2 DEF SameRoot, Dir, FromPde, FromPte, Cut
  <2>5. NewOf(p)' = 0
    BY <2>2 DEF NewOf
  <2>6. \A x \in Place : x \in {AtNew(p)} \/ Own'[x] = Own[x]
    BY <1>2, <1>11, <2>2, <2>4, QuietTables, OnlyNew
  <2>7. Own'[AtNew(p)] = 0
    BY <2>5, OwnNext DEF OwnIs
  <2>8. PAInv' /\ OneEach(Place, Own', held' \ leaked') /\ leaked' \subseteq held'
    BY <1>4, <1>9, <1>11, <2>6, <2>7, LeakPage
  <2>9. OpOK(p)'
    <3>1. user_pde_start \in user_pde_start..PDE_CNT /\ 0 \in 0..PTE_CNT
      BY MemoryAssumption
    <3> QED
      BY <1>4, <2>2, <3>1 DEF OpOK
  <2>10. table' \in [PageAddr -> [Entries -> Nat]] /\ heap_end' \in [Proc -> MEMORY_TASK_BASE..HeapLimit]
    BY <1>2, <1>3, <1>11
  <2> QED
    BY <1>1, <1>2, <2>2, <2>3, <2>8, <2>9, <2>10, StepInv
<1> QED
  BY <1>1, <1>10, <1>11 DEF copy_map

LEMMA CopyUvmInv ==
  ASSUME MInv, NEW p \in Proc, NEW q \in Proc, memory_copy_uvm(p, q)
  PROVE  MInv'
<1>1. /\ p # q /\ op[p].at = "idle" /\ cr3[p] # 0 /\ Unborn(q) /\ memory_create_uvm
      /\ UNCHANGED <<kernel_page_dir, cr3, heap_end, leaked>>
  BY DEF memory_copy_uvm
<1>2. PICK a, n : /\ a = NewPage
                  /\ n = [at |-> "copy", child |-> q, to |-> a, vaddr |-> MEMORY_TASK_BASE]
  OBVIOUS
<1>3. op \in [Proc -> Op]
  BY DEF MInv, MemTypeOK
<1>4. /\ op' = [op EXCEPT ![p] = n] /\ op'[p] = n /\ \A s \in Proc : s # p => op'[s] = op[s]
      /\ n.at = "copy" /\ n.child = q /\ n.to = a
  BY <1>2, <1>3 DEF memory_copy_uvm, Becomes
<1>5. /\ addr_alloc_page(1) /\ a \notin held /\ a \in Nat \ {0}
      /\ \A r \in Root : SameTables(r)
      /\ \A i \in UserPde : table'[a][i] = 0
      /\ table' \in [PageAddr -> [Entries -> Nat]]
  BY <1>1, <1>2, CreateFacts
<1>6. n \in CopyOp /\ n \in Op
  BY <1>2, <1>5, LimitFacts DEF CopyOp, Op
<1>7. PICK r \in Root : r = <<"to", p>>
  BY RootFacts
<1>8. Dir(r) = 0 /\ Dir(r)' = a
  BY <1>1, <1>4, <1>7 DEF Dir
<1>9. \A s \in Root : s # r => SameRoot(s)
  BY <1>1, <1>4, <1>7, RootFacts, OtherRoots
<1>10. \A x \in Place : x \in {AtDir(r)} \/ Own'[x] = Own[x]
  <2>1. \A s \in Root : AtDir(s) \in {AtDir(r)} \/ Dir(s)' = Dir(s)
    BY <1>9 DEF SameRoot
  <2>2. \A s \in Root : /\ \A i \in UserPde : TableOf(s, i)' = TableOf(s, i)
                        /\ \A i \in UserPde, j \in Pte : PageOf(s, i, j)' = PageOf(s, i, j)
    BY <1>5, <1>8, <1>9, SameTree, NewRoot
  <2>3. \A s \in Proc : NewOf(s)' = NewOf(s)
    <3>1. NewOf(p)' = NewOf(p)
      BY <1>1, <1>4 DEF NewOf
    <3> QED
      BY <1>4, <3>1, OtherRoots
  <2> QED
    BY <1>1, <2>1, <2>2, <2>3, OwnBut
<1>11. AtDir(r) \in Place /\ Own[AtDir(r)] = 0 /\ Own'[AtDir(r)] = NewPage
  BY <1>2, <1>8, PlaceIn, OwnFacts, OwnNext DEF OwnIs
<1>12. PAInv' /\ OneEach(Place, Own', held' \ leaked') /\ leaked' \subseteq held'
  BY <1>1, <1>5, <1>10, <1>11, TakePage
<1>13. MemTypeOK'
  BY <1>1, <1>3, <1>4, <1>5, <1>6, <1>12 DEF MInv, MemTypeOK
<1>14. ASSUME NEW s \in Proc PROVE OpOK(s)' /\ ChildOK(s)'
  <2>1. CASE s = p
    <3>1. OpOK(p)'
      BY <1>4, <1>5 DEF OpOK
    <3>2. /\ cr3'[q] = 0 /\ op'[q].at = "idle"
          /\ \A t \in Proc : t # p /\ op'[t].at \in {"copy", "copymap"} => op'[t].child # q
      BY <1>1, <1>4 DEF Unborn
    <3>3. ChildOK(p)'
      BY <1>4, <3>2 DEF ChildOK
    <3> QED
      BY <2>1, <3>1, <3>3
  <2>2. CASE s # p
    <3>1. OpOK(s)'
      BY <1>1, <1>4, <2>2 DEF MInv, OpOK
    <3>2. ASSUME op[s].at \in {"copy", "copymap"}
          PROVE  /\ cr3[op[s].child] = 0 /\ op[s].child # q /\ op[s].child # p
                 /\ op[s].child \in Proc
      <4>1. op[s] \in CopyOp \union CopymapOp
        BY <1>3, <3>2 DEF Op, Idle, AllocOp, MapOp, DestroyOp
      <4>2. op[s].child \in Proc
        BY <4>1 DEF CopyOp, CopymapOp
      <4> QED
        BY <1>1, <3>2, <4>2 DEF MInv, ChildOK, Unborn
    <3>3. ChildOK(s)'
      BY <1>1, <1>4, <2>2, <3>2 DEF MInv, ChildOK
    <3> QED
      BY <3>1, <3>3
  <2> QED
    BY <2>1, <2>2
<1> QED
  BY <1>12, <1>13, <1>14 DEF MInv
-----------------------------------------------------------------------------
\* The places when two directories trade their roots.
Swap(r, s) == [t \in Root |-> IF t = r THEN s ELSE IF t = s THEN r ELSE t]
SwapPlace(r, s) ==
    [x \in Place |-> CASE x[1] \in {"kernel", "new"} -> x
                       [] x[1] = "dir"   -> AtDir(Swap(r, s)[x[2]])
                       [] x[1] = "table" -> AtTable(Swap(r, s)[x[2]], x[3])
                       [] OTHER          -> AtPage(Swap(r, s)[x[2]], x[3], x[4])]

LEMMA SwapFacts ==
  ASSUME NEW r \in Root, NEW s \in Root
  PROVE  /\ \A t \in Root : Swap(r, s)[t] \in Root /\ Swap(r, s)[Swap(r, s)[t]] = t
         /\ \A i \in Entries : SwapPlace(r, s)[AtKernel(i)] = AtKernel(i)
         /\ \A p \in Proc : SwapPlace(r, s)[AtNew(p)] = AtNew(p)
         /\ \A t \in Root : SwapPlace(r, s)[AtDir(t)] = AtDir(Swap(r, s)[t])
         /\ \A t \in Root, i \in UserPde :
               SwapPlace(r, s)[AtTable(t, i)] = AtTable(Swap(r, s)[t], i)
         /\ \A t \in Root, i \in UserPde, j \in Pte :
               SwapPlace(r, s)[AtPage(t, i, j)] = AtPage(Swap(r, s)[t], i, j)
<1>1. \A t \in Root : Swap(r, s)[t] \in Root /\ Swap(r, s)[Swap(r, s)[t]] = t
  BY DEF Swap
<1>2. \A i \in Entries : SwapPlace(r, s)[AtKernel(i)] = AtKernel(i)
  BY PlaceIn DEF SwapPlace, AtKernel
<1>3. \A p \in Proc : SwapPlace(r, s)[AtNew(p)] = AtNew(p)
  BY PlaceIn DEF SwapPlace, AtNew
<1>4. \A t \in Root : SwapPlace(r, s)[AtDir(t)] = AtDir(Swap(r, s)[t])
  <2> SUFFICES ASSUME NEW t \in Root PROVE SwapPlace(r, s)[AtDir(t)] = AtDir(Swap(r, s)[t])
    OBVIOUS
  <2>1. AtDir(t) \in Place /\ AtDir(t)[1] = "dir" /\ AtDir(t)[2] = t
    BY PlaceIn DEF AtDir
  <2> QED
    BY <2>1 DEF SwapPlace
<1>5. \A t \in Root, i \in UserPde : SwapPlace(r, s)[AtTable(t, i)] = AtTable(Swap(r, s)[t], i)
  <2> SUFFICES ASSUME NEW t \in Root, NEW i \in UserPde
               PROVE  SwapPlace(r, s)[AtTable(t, i)] = AtTable(Swap(r, s)[t], i)
    OBVIOUS
  <2>1. /\ AtTable(t, i) \in Place /\ AtTable(t, i)[1] = "table" /\ AtTable(t, i)[2] = t
        /\ AtTable(t, i)[3] = i
    BY PlaceIn DEF AtTable
  <2> QED
    BY <2>1 DEF SwapPlace
<1>6. \A t \in Root, i \in UserPde, j \in Pte :
         SwapPlace(r, s)[AtPage(t, i, j)] = AtPage(Swap(r, s)[t], i, j)
  <2> SUFFICES ASSUME NEW t \in Root, NEW i \in UserPde, NEW j \in Pte
               PROVE  SwapPlace(r, s)[AtPage(t, i, j)] = AtPage(Swap(r, s)[t], i, j)
    OBVIOUS
  <2>1. /\ AtPage(t, i, j) \in Place /\ AtPage(t, i, j)[1] = "page" /\ AtPage(t, i, j)[2] = t
        /\ AtPage(t, i, j)[3] = i /\ AtPage(t, i, j)[4] = j
    BY PlaceIn DEF AtPage
  <2> QED
    BY <2>1 DEF SwapPlace
<1> QED
  BY <1>1, <1>2, <1>3, <1>4, <1>5, <1>6

(* A directory changes its root: what it owns stays owned once.            *)
LEMMA SwapRoots ==
  ASSUME MInv, NEW r \in Root, NEW s \in Root, UNCHANGED pavars,
         UNCHANGED <<leaked, table, kernel_page_dir>>,
         \A q \in Proc : NewOf(q)' = NewOf(q),
         \A t \in Root : /\ Dir(t)' = Dir(Swap(r, s)[t])
                         /\ FromPde(t)' = FromPde(Swap(r, s)[t])
                         /\ FromPte(t)' = FromPte(Swap(r, s)[t])
  PROVE  PAInv' /\ OneEach(Place, Own', held' \ leaked') /\ leaked' \subseteq held'
<1>1. PICK w : w = Swap(r, s)
  OBVIOUS
<1>2. PICK pi : pi = SwapPlace(r, s)
  OBVIOUS
<1>3. /\ \A t \in Root : w[t] \in Root /\ w[w[t]] = t
      /\ \A i \in Entries : pi[AtKernel(i)] = AtKernel(i)
      /\ \A p \in Proc : pi[AtNew(p)] = AtNew(p)
      /\ \A t \in Root : pi[AtDir(t)] = AtDir(w[t])
      /\ \A t \in Root, i \in UserPde : pi[AtTable(t, i)] = AtTable(w[t], i)
      /\ \A t \in Root, i \in UserPde, j \in Pte : pi[AtPage(t, i, j)] = AtPage(w[t], i, j)
  BY <1>1, <1>2, SwapFacts
<1>4. \A t \in Root : Dir(t)' = Dir(w[t])
  BY <1>1
<1>5. \A t \in Root, i \in UserPde : TableOf(t, i)' = TableOf(w[t], i)
  BY <1>1, <1>4 DEF TableOf
<1>6. \A t \in Root, i \in UserPde, j \in Pte : PageOf(t, i, j)' = PageOf(w[t], i, j)
  BY <1>1, <1>5 DEF PageOf
<1>7. ASSUME NEW x \in Place
      PROVE  pi[x] \in Place /\ pi[pi[x]] = x /\ Own'[x] = Own[pi[x]]
  <2> DEFINE G(y) == pi[y] \in Place /\ pi[pi[y]] = y /\ Own'[y] = Own[pi[y]]
  <2>1. ASSUME NEW i \in Entries, x = AtKernel(i) PROVE G(x)
    BY <1>3, <2>1, PlaceIn, OwnFacts, OwnNext DEF OwnIs
  <2>2. ASSUME NEW p \in Proc, x = AtNew(p) PROVE G(x)
    BY <1>3, <2>2, PlaceIn, OwnFacts, OwnNext DEF OwnIs
  <2>3. ASSUME NEW t \in Root, x = AtDir(t) PROVE G(x)
    BY <1>3, <1>4, <2>3, PlaceIn, OwnFacts, OwnNext DEF OwnIs
  <2>4. ASSUME NEW t \in Root, NEW i \in UserPde, x = AtTable(t, i) PROVE G(x)
    BY <1>3, <1>5, <2>4, PlaceIn, OwnFacts, OwnNext DEF OwnIs
  <2>5. ASSUME NEW t \in Root, NEW i \in UserPde, NEW j \in Pte, x = AtPage(t, i, j)
        PROVE  G(x)
    BY <1>3, <1>6, <2>5, PlaceIn, OwnFacts, OwnNext DEF OwnIs
  <2> HIDE DEF G
  <2>6. G(x)
    BY <2>1, <2>2, <2>3, <2>4, <2>5, PlaceKinds
  <2> QED
    BY <2>6 DEF G
<1>8. pi \in [Place -> Place]
  <2>1. pi = [x \in Place |-> pi[x]]
    BY <1>2 DEF SwapPlace
  <2> QED
    BY <1>7, <2>1
<1>9. OneEach(Place, Own, held \ leaked) /\ leaked \subseteq held
  BY DEF MInv, MemTypeOK
<1>10. OneEach(Place, Own', held \ leaked)
  BY <1>7, <1>8, <1>9, SwapAll
<1>11. PAInv' /\ held' = held
  BY DEF MInv, PAInv, PATypeOK, BitsAreHeld, pavars
<1> QED
  BY <1>9, <1>10, <1>11

LEMMA DestroyUvmInv ==
  ASSUME MInv, NEW p \in Proc, memory_destroy_uvm(p)
  PROVE  MInv'
<1>1. /\ op[p].at = "idle" /\ cr3[p] # 0 /\ Becomes(p, destroy_from(cr3[p]))
      /\ cr3' = [cr3 EXCEPT ![p] = 0]
      /\ heap_end' = [heap_end EXCEPT ![p] = MEMORY_TASK_BASE]
      /\ UNCHANGED <<pavars, kernel_page_dir, table, leaked>>
  BY DEF memory_destroy_uvm
<1>2. PICK n : n = Destroying(cr3[p], user_pde_start, 0)
  OBVIOUS
<1>3. /\ op \in [Proc -> Op] /\ heap_end \in [Proc -> MEMORY_TASK_BASE..HeapLimit]
      /\ cr3 \in [Proc -> Nat]
  BY DEF MInv, MemTypeOK
<1>4. /\ op' = [op EXCEPT ![p] = n] /\ op'[p] = n /\ \A q \in Proc : q # p => op'[q] = op[q]
      /\ n.at = "destroy" /\ n.to = cr3[p] /\ n.pde = user_pde_start /\ n.pte = 0
  BY <1>1, <1>2, <1>3 DEF Becomes, destroy_from, Destroying
<1>5. cr3'[p] = 0 /\ \A q \in Proc : q # p => cr3'[q] = cr3[q]
  BY <1>1, <1>3
<1>6. PICK r \in Root, s \in Root : r = <<"cr3", p>> /\ s = <<"to", p>>
  BY RootFacts
<1>7. r # s
  BY <1>6
<1>8. /\ Dir(r) = cr3[p] /\ Dir(r)' = 0 /\ Dir(s) = 0 /\ Dir(s)' = cr3[p]
      /\ FromPde(r) = user_pde_start /\ FromPde(r)' = user_pde_start
      /\ FromPde(s) = user_pde_start /\ FromPde(s)' = user_pde_start
      /\ FromPte(r) = 0 /\ FromPte(r)' = 0 /\ FromPte(s) = 0 /\ FromPte(s)' = 0
  BY <1>1, <1>4, <1>5, <1>6 DEF Dir, FromPde, FromPte, Cut
<1>9. \A q \in Proc : NewOf(q)' = NewOf(q)
  <2>1. NewOf(p)' = NewOf(p)
    BY <1>1, <1>4 DEF NewOf
  <2> QED
    BY <1>4, <2>1, OtherRoots
<1>10. ASSUME NEW t \in Root
       PROVE  /\ Dir(t)' = Dir(Swap(r, s)[t]) /\ FromPde(t)' = FromPde(Swap(r, s)[t])
              /\ FromPte(t)' = FromPte(Swap(r, s)[t])
  <2>1. CASE t = r
    BY <1>8, <2>1 DEF Swap
  <2>2. CASE t = s
    BY <1>7, <1>8, <2>2 DEF Swap
  <2>3. CASE t # r /\ t # s
    <3>1. Swap(r, s)[t] = t
      BY <2>3 DEF Swap
    <3>2. SameRoot(t)
      BY <1>4, <1>5, <1>6, <2>3, RootFacts, OtherRoots
    <3> QED
      BY <3>1, <3>2 DEF SameRoot
  <2> QED
    BY <2>1, <2>2, <2>3
<1>11. PAInv' /\ OneEach(Place, Own', held' \ leaked') /\ leaked' \subseteq held'
  BY <1>1, <1>9, <1>10, SwapRoots
<1>12. MemTypeOK'
  <2>1. n \in DestroyOp /\ n \in Op
    <3>1. cr3[p] \in Nat /\ user_pde_start \in Nat
      BY <1>3, LimitFacts
    <3> QED
      BY <1>2, <3>1 DEF Destroying, DestroyOp, Op
  <2>2. MEMORY_TASK_BASE \in MEMORY_TASK_BASE..HeapLimit
    <3>1. MEMORY_TASK_BASE <= HeapLimit
      BY LimitFacts, MulMono
    <3> QED
      BY <3>1, LimitFacts
  <2>3. heap_end' \in [Proc -> MEMORY_TASK_BASE..HeapLimit]
    BY <1>1, <1>3, <2>2
  <2> QED
    BY <1>1, <1>3, <1>4, <1>11, <2>1, <2>3 DEF MInv, MemTypeOK
<1>13. ASSUME NEW q \in Proc PROVE OpOK(q)' /\ ChildOK(q)'
  <2>1. CASE q = p
    <3>1. user_pde_start \in user_pde_start..PDE_CNT /\ 0 \in 0..PTE_CNT
      BY MemoryAssumption
    <3> QED
      BY <1>1, <1>4, <2>1, <3>1 DEF OpOK, ChildOK
  <2>2. CASE q # p
    <3>1. OpOK(q)'
      BY <1>4, <1>5, <2>2 DEF MInv, OpOK
    <3>2. ASSUME op[q].at \in {"copy", "copymap"}
          PROVE  op[q].child # p /\ op[q].child \in Proc
      <4>1. op[q] \in CopyOp \union CopymapOp
        BY <1>3, <3>2 DEF Op, Idle, AllocOp, MapOp, DestroyOp
      <4>2. op[q].child \in Proc
        BY <4>1 DEF CopyOp, CopymapOp
      <4> QED
        BY <1>1, <3>2, <4>2 DEF MInv, ChildOK
    <3>3. ChildOK(q)'
      BY <1>4, <1>5, <2>2, <3>2 DEF MInv, ChildOK
    <3> QED
      BY <3>1, <3>3
  <2> QED
    BY <2>1, <2>2
<1> QED
  BY <1>11, <1>12, <1>13 DEF MInv

LEMMA CopyPageInv ==
  ASSUME MInv, NEW p \in Proc, copy_page(p)
  PROVE  MInv'
<1>1. PICK o, rest : o = op[p] /\ rest = {v \in Mapped(cr3[p]) : v >= o.vaddr}
  OBVIOUS
<1>2. o.at = "copy" /\ UNCHANGED <<kernel_page_dir, table, leaked>>
  BY <1>1 DEF copy_page
<1>3. /\ op \in [Proc -> Op] /\ heap_end \in [Proc -> MEMORY_TASK_BASE..HeapLimit]
      /\ table \in [PageAddr -> [Entries -> Nat]] /\ cr3 \in [Proc -> Nat] /\ o \in CopyOp
  BY <1>1, <1>2 DEF MInv, MemTypeOK, Op, Idle, AllocOp, CopymapOp, MapOp, DestroyOp
<1>4. o.to \in Nat /\ o.to # 0 /\ o.child \in Proc /\ o.vaddr \in Nat
  BY <1>1, <1>2, <1>3 DEF MInv, OpOK, CopyOp
<1>5. /\ cr3[o.child] = 0 /\ op[o.child].at = "idle" /\ o.child # p
      /\ \A q \in Proc : q # p /\ op[q].at \in {"copy", "copymap"} => op[q].child # o.child
  BY <1>1, <1>2, <1>4 DEF MInv, ChildOK
<1>6. \A s \in Root : SameTables(s)
  BY <1>2, QuietTables
<1>7. CASE /\ cr3' = [cr3 EXCEPT ![o.child] = o.to]
           /\ heap_end' = [heap_end EXCEPT ![o.child] = heap_end[p]]
           /\ Becomes(p, Idle) /\ UNCHANGED pavars
  <2>1. /\ op'[p] = Idle /\ Idle.at = "idle" /\ Idle \in Op
        /\ op' \in [Proc -> Op] /\ \A q \in Proc : q # p => op'[q] = op[q]
    BY <1>3, <1>7 DEF Becomes, Idle, Op
  <2>2. /\ cr3'[o.child] = o.to /\ \A q \in Proc : q # o.child => cr3'[q] = cr3[q]
    BY <1>3, <1>4, <1>7
  <2>3. PICK r \in Root, s \in Root : r = <<"cr3", o.child>> /\ s = <<"to", p>>
    BY <1>4, RootFacts
  <2>4. r # s
    BY <2>3
  <2>5. /\ Dir(r) = 0 /\ Dir(r)' = o.to /\ Dir(s) = o.to /\ Dir(s)' = 0
        /\ FromPde(r) = user_pde_start /\ FromPde(r)' = user_pde_start
        /\ FromPde(s) = user_pde_start /\ FromPde(s)' = user_pde_start
        /\ FromPte(r) = 0 /\ FromPte(r)' = 0 /\ FromPte(s) = 0 /\ FromPte(s)' = 0
    BY <1>1, <1>2, <1>5, <2>1, <2>2, <2>3 DEF Dir, FromPde, FromPte, Cut
  <2>6. \A q \in Proc : NewOf(q)' = NewOf(q)
    <3>1. NewOf(p)' = NewOf(p)
      BY <1>1, <1>2, <2>1 DEF NewOf
    <3> QED
      BY <2>1, <3>1, OtherRoots
  <2>7. ASSUME NEW t \in Root
        PROVE  /\ Dir(t)' = Dir(Swap(r, s)[t]) /\ FromPde(t)' = FromPde(Swap(r, s)[t])
               /\ FromPte(t)' = FromPte(Swap(r, s)[t])
    <3>1. CASE t = r
      BY <2>5, <3>1 DEF Swap
    <3>2. CASE t = s
      BY <2>4, <2>5, <3>2 DEF Swap
    <3>3. CASE t # r /\ t # s
      <4>1. Swap(r, s)[t] = t
        BY <3>3 DEF Swap
      <4>2. SameRoot(t)
        BY <2>1, <2>2, <2>3, <3>3, RootFacts, OtherRoots
      <4> QED
        BY <4>1, <4>2 DEF SameRoot
    <3> QED
      BY <3>1, <3>2, <3>3
  <2>8. PAInv' /\ OneEach(Place, Own', held' \ leaked') /\ leaked' \subseteq held'
    BY <1>2, <1>7, <2>6, <2>7, SwapRoots
  <2>9. MemTypeOK'
    BY <1>2, <1>3, <1>4, <1>7, <2>1, <2>8 DEF MInv, MemTypeOK
  <2>10. ASSUME NEW q \in Proc PROVE OpOK(q)' /\ ChildOK(q)'
    <3>1. CASE q = p
      BY <2>1, <3>1 DEF OpOK, ChildOK
    <3>2. CASE q # p
      <4>1. OpOK(q)'
        BY <1>4, <1>5, <2>1, <2>2, <3>2 DEF MInv, OpOK
      <4>2. ASSUME op[q].at \in {"copy", "copymap"}
            PROVE  op[q].child # o.child /\ op[q].child # p /\ op[q].child \in Proc
        <5>1. op[q] \in CopyOp \union CopymapOp
          BY <1>3, <4>2 DEF Op, Idle, AllocOp, MapOp, DestroyOp
        <5>2. op[q].child \in Proc
          BY <5>1 DEF CopyOp, CopymapOp
        <5> QED
          BY <1>1, <1>2, <1>5, <3>2, <4>2, <5>2 DEF MInv, ChildOK
      <4>3. ChildOK(q)'
        BY <2>1, <2>2, <3>2, <4>2 DEF MInv, ChildOK
      <4> QED
        BY <4>1, <4>3
    <3> QED
      BY <3>1, <3>2
  <2> QED
    BY <2>8, <2>9, <2>10 DEF MInv
<1>8. CASE /\ rest # {} /\ addr_alloc_page(1)
           /\ Becomes(p, [at |-> "copymap", child |-> o.child, to |-> o.to,
                          vaddr |-> Min(rest), paddr |-> NewPage])
           /\ UNCHANGED <<cr3, heap_end>>
  <2>1. Min(rest) \in UserPage /\ Min(rest) \in Nat
    <3>1. rest \subseteq UserPage
      BY <1>1 DEF Mapped
    <3>2. rest \subseteq Nat
      BY <3>1, UserPageFacts
    <3>3. Min(rest) \in rest
      BY <1>8, <3>2, MinNat
    <3> QED
      BY <3>1, <3>2, <3>3
  <2>2. PICK a : a = NewPage /\ a \in Nat \ {0}
    BY <1>8, PageFacts DEF MInv
  <2>3. PICK n : n = [at |-> "copymap", child |-> o.child, to |-> o.to, vaddr |-> Min(rest),
                      paddr |-> a]
    OBVIOUS
  <2>4. /\ op' = [op EXCEPT ![p] = n] /\ op'[p] = n /\ n.at = "copymap" /\ n.child = o.child
        /\ n.to = o.to /\ n.vaddr = Min(rest) /\ n.paddr = a
    BY <1>3, <1>8, <2>2, <2>3 DEF Becomes
  <2>5. n \in CopymapOp /\ n \in Op
    BY <1>4, <2>1, <2>2, <2>3 DEF CopymapOp, Op
  <2>6. SameRoot(<<"to", p>>)
    BY <1>1, <1>2, <2>4 DEF SameRoot, Dir, FromPde, FromPte, Cut
  <2>7. \A x \in Place : x \in {AtNew(p)} \/ Own'[x] = Own[x]
    BY <1>2, <1>6, <1>8, <2>4, <2>6, OnlyNew
  <2>8. NewOf(p) = 0 /\ NewOf(p)' = a
    BY <1>1, <1>2, <2>4 DEF NewOf
  <2>9. AtNew(p) \in Place /\ Own[AtNew(p)] = 0 /\ Own'[AtNew(p)] = NewPage
    BY <2>2, <2>8, PlaceIn, OwnFacts, OwnNext DEF OwnIs
  <2>10. PAInv' /\ OneEach(Place, Own', held' \ leaked') /\ leaked' \subseteq held'
    BY <1>2, <1>8, <2>7, <2>9, TakePage
  <2>11. OpOK(p)'
    BY <1>4, <2>1, <2>2, <2>4 DEF OpOK
  <2>12. table' \in [PageAddr -> [Entries -> Nat]] /\ heap_end' \in [Proc -> MEMORY_TASK_BASE..HeapLimit]
    BY <1>2, <1>3, <1>8
  <2> QED
    BY <1>1, <1>2, <1>8, <2>4, <2>5, <2>10, <2>11, <2>12, StepInv
<1>9. CASE Undo(p) /\ UNCHANGED <<pavars, cr3, heap_end>>
  <2>1. PICK n : n = Destroying(o.to, user_pde_start, 0)
    OBVIOUS
  <2>2. /\ op' = [op EXCEPT ![p] = n] /\ op'[p] = n
        /\ n.at = "destroy" /\ n.to = o.to /\ n.pde = user_pde_start /\ n.pte = 0
    BY <1>1, <1>3, <1>9, <2>1 DEF Undo, Becomes, destroy_from, Destroying
  <2>3. n \in DestroyOp /\ n \in Op
    BY <1>4, <2>1, LimitFacts DEF Destroying, DestroyOp, Op
  <2>4. SameRoot(<<"to", p>>) /\ NewOf(p)' = NewOf(p)
    BY <1>1, <1>2, <2>2 DEF SameRoot, Dir, FromPde, FromPte, Cut, NewOf
  <2>5. \A x \in Place : x \in {} \/ Own'[x] = Own[x]
    BY <1>2, <1>6, <1>9, <2>2, <2>4, OnlyNew
  <2>6. PAInv' /\ OneEach(Place, Own', held' \ leaked') /\ leaked' \subseteq held'
    BY <1>2, <1>9, <2>5, KeepPages
  <2>7. OpOK(p)'
    <3>1. user_pde_start \in user_pde_start..PDE_CNT /\ 0 \in 0..PTE_CNT
      BY MemoryAssumption
    <3> QED
      BY <1>4, <2>2, <3>1 DEF OpOK
  <2>8. table' \in [PageAddr -> [Entries -> Nat]] /\ heap_end' \in [Proc -> MEMORY_TASK_BASE..HeapLimit]
    BY <1>2, <1>3, <1>9
  <2> QED
    BY <1>1, <1>2, <1>9, <2>2, <2>3, <2>6, <2>7, <2>8, StepInv
<1> QED
  BY <1>1, <1>7, <1>8, <1>9 DEF copy_page

LEMMA FreePageInv ==
  ASSUME MInv, NEW p \in Proc, NEW v, memory_free_page(p, v)
  PROVE  MInv'
<1>1. /\ op[p].at = "idle" /\ cr3[p] # 0 /\ op' = [op EXCEPT ![p] = [at |-> "panic"]]
      /\ UNCHANGED <<pavars, table, kernel_page_dir, cr3, heap_end, leaked>>
  BY DEF memory_free_page, Becomes
<1>2. PICK n : n = [at |-> "panic"]
  OBVIOUS
<1>3. op' = [op EXCEPT ![p] = n] /\ op'[p] = n /\ n.at = "panic" /\ n \in Op
  BY <1>1, <1>2 DEF Op, MInv, MemTypeOK
<1>4. SameRoot(<<"to", p>>) /\ NewOf(p)' = NewOf(p)
  BY <1>1, <1>3 DEF SameRoot, Dir, FromPde, FromPte, Cut, NewOf
<1>5. \A x \in Place : x \in {} \/ Own'[x] = Own[x]
  BY <1>1, <1>3, <1>4, QuietTables, OnlyNew
<1>6. PAInv' /\ OneEach(Place, Own', held' \ leaked') /\ leaked' \subseteq held'
  BY <1>1, <1>5, KeepPages
<1>7. OpOK(p)'
  BY <1>3 DEF OpOK
<1>8. table' \in [PageAddr -> [Entries -> Nat]] /\ heap_end' \in [Proc -> MEMORY_TASK_BASE..HeapLimit]
  BY <1>1 DEF MInv, MemTypeOK
<1> QED
  BY <1>1, <1>3, <1>6, <1>7, <1>8, StepInv
-----------------------------------------------------------------------------
(* The places when memory_destroy_uvm frees the page at z: the other       *)
(* address spaces stay as they are.                                        *)
LEMMA DestroyPlaces ==
  ASSUME MInv, NEW p \in Proc, NEW n, op' = [op EXCEPT ![p] = n], n.at \in {"destroy", "idle"},
         op[p].at = "destroy", UNCHANGED <<kernel_page_dir, cr3>>,
         NEW r \in Root, r = <<"to", p>>, \A s \in Root : s # r => SameTables(s),
         NEW z \in Place, AtDir(r) = z \/ Dir(r)' = Dir(r),
         \A i \in UserPde : AtTable(r, i) = z \/ TableOf(r, i)' = TableOf(r, i),
         \A i \in UserPde, j \in Pte : AtPage(r, i, j) = z \/ PageOf(r, i, j)' = PageOf(r, i, j)
  PROVE  \A x \in Place : x \in {z} \/ Own'[x] = Own[x]
<1>1. op'[p] = n /\ \A q \in Proc : q # p => op'[q] = op[q]
  BY DEF MInv, MemTypeOK
<1>2. \A q \in Proc : NewOf(q)' = NewOf(q)
  <2>1. NewOf(p)' = NewOf(p)
    BY <1>1 DEF NewOf
  <2> QED
    BY <1>1, <2>1, OtherRoots
<1>3. \A s \in Root : s # r => SameRoot(s)
  BY <1>1, RootFacts, OtherRoots
<1>4. \A s \in Root : AtDir(s) \in {z} \/ Dir(s)' = Dir(s)
  BY <1>3 DEF SameRoot
<1>5. \A s \in Root, i \in UserPde : AtTable(s, i) \in {z} \/ TableOf(s, i)' = TableOf(s, i)
  BY <1>3, SameTree
<1>6. \A s \in Root, i \in UserPde, j \in Pte :
         AtPage(s, i, j) \in {z} \/ PageOf(s, i, j)' = PageOf(s, i, j)
  BY <1>3, SameTree
<1> QED
  BY <1>2, <1>4, <1>5, <1>6, OwnBut

\* A step frees a page that is held.
FreesHeld == \E addr \in held : addr_free_page(addr)

\* It changes no directory or table in use but those that p destroys.
OthersKept(p) == \A s \in Root : s # <<"to", p>> => SameTables(s)

(* What is left to show of a call of addr_free_page.                       *)
LEMMA DestroyStep ==
  ASSUME MInv, NEW p \in Proc, NEW n \in Op, op' = [op EXCEPT ![p] = n],
         n.at \in {"destroy", "idle"}, op[p].at = "destroy",
         UNCHANGED <<kernel_page_dir, cr3, heap_end, leaked>>,
         NEW a, free_page(a), OpOK(p)',
         NEW z \in Place, Own[z] = a, a # 0, Own'[z] = 0,
         \A x \in Place : x \in {z} \/ Own'[x] = Own[x]
  PROVE  MInv' /\ FreesHeld
<1>1. addr_free_page(Own[z]) /\ table' = [table EXCEPT ![a] = Zeroed]
  BY DEF free_page
<1>2. /\ PAInv' /\ OneEach(Place, Own', held' \ leaked') /\ leaked' \subseteq held'
      /\ Own[z] \in held
  BY <1>1, DropPage
<1>3. table' \in [PageAddr -> [Entries -> Nat]]
  <2>1. Zeroed \in [Entries -> Nat]
    BY DEF Zeroed
  <2> QED
    BY <1>1, <2>1 DEF MInv, MemTypeOK
<1>4. heap_end' \in [Proc -> MEMORY_TASK_BASE..HeapLimit]
  BY DEF MInv, MemTypeOK
<1>5. MInv'
  BY <1>2, <1>3, <1>4, StepInv
<1> QED
  BY <1>1, <1>2, <1>5 DEF FreesHeld

(* The address space that is being destroyed.                              *)
LEMMA DestroyFacts ==
  ASSUME MInv, NEW p \in Proc, op[p].at = "destroy"
  PROVE  LET o == op[p]
             r == <<"to", p>>
         IN  /\ o \in DestroyOp /\ o.to \in Nat /\ o.to # 0
             /\ o.pde \in user_pde_start..PDE_CNT /\ o.pte \in 0..PTE_CNT
             /\ o.pde \in Nat /\ o.pte \in Nat
             /\ r \in Root /\ Dir(r) = o.to /\ FromPde(r) = o.pde /\ FromPte(r) = o.pte
<1>1. PICK o : o = op[p]
  OBVIOUS
<1>2. o \in DestroyOp
  BY <1>1 DEF MInv, MemTypeOK, Op, Idle, AllocOp, CopymapOp, MapOp, CopyOp
<1>3. o.to # 0 /\ o.pde \in user_pde_start..PDE_CNT /\ o.pte \in 0..PTE_CNT
  BY <1>1 DEF MInv, OpOK
<1>4. o.to \in Nat /\ o.pde \in Nat /\ o.pte \in Nat
  BY <1>2 DEF DestroyOp
<1>5. <<"to", p>> \in Root
  BY RootFacts
<1>6. /\ Dir(<<"to", p>>) = o.to /\ FromPde(<<"to", p>>) = o.pde /\ FromPte(<<"to", p>>) = o.pte
  BY <1>1 DEF Dir, FromPde, FromPte, Cut
<1> QED
  BY <1>1, <1>2, <1>3, <1>4, <1>5, <1>6

(* The directory is freed last.                                            *)
LEMMA DestroyDir ==
  ASSUME MInv, NEW p \in Proc, op[p].at = "destroy", NEW o, o = op[p],
         \A i \in o.pde..(PDE_CNT-1) : table[o.to][i] = 0, free_page(o.to), Becomes(p, Idle),
         UNCHANGED <<kernel_page_dir, cr3, heap_end, leaked>>
  PROVE  MInv' /\ FreesHeld /\ OthersKept(p)
<1>1. PICK r, d : r = <<"to", p>> /\ d = o.to
  OBVIOUS
<1>2. /\ d # 0 /\ o.pde \in user_pde_start..PDE_CNT
      /\ r \in Root /\ Dir(r) = d /\ FromPde(r) = o.pde
  BY <1>1, DestroyFacts
<1>3. op' = [op EXCEPT ![p] = Idle] /\ op'[p] = Idle /\ Idle.at = "idle" /\ Idle \in Op
  BY DEF Becomes, Idle, Op, MInv, MemTypeOK
<1>4. Dir(r)' = 0
  BY <1>1, <1>3 DEF Dir
<1>5. \A i \in UserPde : TableOf(r, i) = 0 /\ TableOf(r, i)' = 0
  <2>1. \A i \in UserPde : i >= o.pde => table[d][i] = 0
    BY <1>1, <1>2, LimitFacts DEF UserPde
  <2> QED
    BY <1>2, <1>4, <2>1 DEF TableOf
<1>6. \A i \in UserPde, j \in Pte : PageOf(r, i, j)' = PageOf(r, i, j)
  BY <1>5 DEF PageOf
<1>7. \A s \in Root : s # r => SameTables(s)
  <2> SUFFICES ASSUME NEW s \in Root, s # r PROVE SameTables(s)
    OBVIOUS
  <2>1. \A b \in PageAddr : b # d => table'[b] = table[b]
    BY <1>1 DEF free_page, MInv, MemTypeOK
  <2>2. /\ Dir(s) # 0 => Dir(s) # d
        /\ \A i \in UserPde : TableOf(s, i) # d
    BY <1>2, TreesApart
  <2> QED
    BY <2>1, <2>2, TablesIn DEF SameTables
<1>8. AtDir(r) \in Place /\ Own[AtDir(r)] = d /\ Own'[AtDir(r)] = 0
  BY <1>2, <1>4, PlaceIn, OwnFacts, OwnNext DEF OwnIs
<1>9. PICK z \in Place : z = AtDir(r)
  BY <1>8
<1>10. /\ AtDir(r) = z \/ Dir(r)' = Dir(r)
       /\ \A i \in UserPde : AtTable(r, i) = z \/ TableOf(r, i)' = TableOf(r, i)
       /\ \A i \in UserPde, j \in Pte : AtPage(r, i, j) = z \/ PageOf(r, i, j)' = PageOf(r, i, j)
  BY <1>5, <1>6, <1>9
<1>11. \A x \in Place : x \in {z} \/ Own'[x] = Own[x]
  BY <1>1, <1>2, <1>3, <1>7, <1>10, DestroyPlaces
<1>12. OpOK(p)'
  BY <1>3 DEF OpOK
<1>13. MInv' /\ FreesHeld
  BY <1>1, <1>2, <1>3, <1>8, <1>9, <1>11, <1>12, DestroyStep
<1>14. OthersKept(p)
  BY <1>1, <1>7 DEF OthersKept
<1> QED
  BY <1>13, <1>14

(* The first entry that is present.                                        *)
LEMMA MinEntry ==
  ASSUME NEW R \in SUBSET Nat, NEW S \in SUBSET R, S # {}, NEW m, m = Min(S)
  PROVE  m \in S /\ \A i \in R : i < m => i \notin S
<1>1. m \in S /\ \A i \in S : m <= i
  BY MinNat
<1> QED
  BY <1>1

LEMMA EntryFacts ==
  /\ \A i \in UserPde : i \in Nat /\ i >= user_pde_start /\ i < PDE_CNT
  /\ \A j \in Pte : j \in Nat /\ j < PTE_CNT
  /\ \A i \in Nat : i >= user_pde_start /\ i < PDE_CNT => i \in UserPde
  /\ \A j \in Nat : j < PTE_CNT => j \in Pte
BY LimitFacts DEF UserPde, Pte

\* The entry of the directory, and of its page table, at which
\* memory_destroy_uvm is: nothing is left to free before it.
AtPde(o, pde, t) ==
    /\ pde \in o.pde..(PDE_CNT-1) /\ t = table[o.to][pde] /\ t # 0
    /\ \A i \in o.pde..(PDE_CNT-1) : i < pde => table[o.to][i] = 0
LowPte(o, pde, low) == low \in Nat /\ (pde = o.pde => low = o.pte) /\ (pde # o.pde => low = 0)
AtPte(t, low, pte, a) ==
    /\ pte \in low..(PTE_CNT-1) /\ a = table[t][pte] /\ a # 0
    /\ \A j \in low..(PTE_CNT-1) : j < pte => table[t][j] = 0
TreeFrom(r, o, pde, t) ==
    /\ pde \in UserPde /\ pde \in Nat /\ pde >= o.pde
    /\ TableOf(r, pde) = t /\ t # 0
    /\ \A i \in UserPde : i < pde => TableOf(r, i) = 0
    /\ \A i \in UserPde : i >= pde => TableOf(r, i) = table[o.to][i]
NoPte(t, low) == \A j \in low..(PTE_CNT-1) : table[t][j] = 0

(* The entry of the directory at which memory_destroy_uvm is.              *)
LEMMA DestroyAt ==
  ASSUME MInv, NEW p \in Proc, op[p].at = "destroy",
         NEW pde, NEW t, AtPde(op[p], pde, t)
  PROVE  TreeFrom(<<"to", p>>, op[p], pde, t)
<1> PICK r, o : r = <<"to", p>> /\ o = op[p]
  OBVIOUS
<1> SUFFICES
      /\ pde \in UserPde /\ pde \in Nat /\ pde >= o.pde
      /\ TableOf(r, pde) = t /\ t # 0
      /\ \A i \in UserPde : i < pde => TableOf(r, i) = 0
      /\ \A i \in UserPde : i >= pde => TableOf(r, i) = table[o.to][i]
  BY DEF TreeFrom
<1>1. /\ o.to # 0 /\ o.pde \in user_pde_start..PDE_CNT /\ o.pde \in Nat
      /\ r \in Root /\ Dir(r) = o.to /\ FromPde(r) = o.pde
  BY DestroyFacts
<1>2. pde \in Nat /\ pde >= o.pde /\ pde \in UserPde
  BY <1>1, LimitFacts, EntryFacts DEF AtPde
<1>3. \A i \in UserPde : i \in Nat /\ (i >= o.pde => i \in o.pde..(PDE_CNT-1))
  BY <1>1, LimitFacts DEF UserPde
<1>4. \A i \in UserPde : i >= o.pde /\ i < pde => table[o.to][i] = 0
  BY <1>3 DEF AtPde
<1>5. \A i \in UserPde : i < pde => TableOf(r, i) = 0
  BY <1>1, <1>4 DEF TableOf
<1>6. \A i \in UserPde : i >= pde => i >= o.pde
  BY <1>1, <1>2, <1>3
<1>7. \A i \in UserPde : i >= pde => TableOf(r, i) = table[o.to][i]
  BY <1>1, <1>6 DEF TableOf
<1>8. TableOf(r, pde) = t /\ t # 0
  <2>1. t = table[o.to][pde] /\ t # 0
    BY DEF AtPde
  <2>2. pde >= pde
    BY <1>2
  <2> QED
    BY <1>2, <1>7, <2>1, <2>2
<1> QED
  BY <1>2, <1>5, <1>7, <1>8

(* What is in use before and after the page of the entry (pde, pte) is     *)
(* freed.                                                                  *)
LEMMA EntryFreed ==
  ASSUME MInv, NEW r \in Root, NEW d, Dir(r) = d, Dir(r)' = d, d # 0, SameTables(r),
         NEW pde \in UserPde, NEW pte \in Pte, NEW t, t # 0, TableOf(r, pde) = t,
         FromPde(r)' = pde, FromPte(r)' = pte + 1, FromPde(r) \in Nat, FromPte(r) \in Nat,
         pde >= FromPde(r), pde = FromPde(r) => pte >= FromPte(r),
         \A i \in UserPde : i < pde => TableOf(r, i) = 0,
         \A i \in UserPde : i >= pde => TableOf(r, i) = table[d][i],
         \A j \in Pte : j < pte /\ (pde = FromPde(r) => j >= FromPte(r)) => table[t][j] = 0
  PROVE  /\ \A i \in UserPde : TableOf(r, i)' = TableOf(r, i)
         /\ \A i \in UserPde, j \in Pte :
               AtPage(r, i, j) # AtPage(r, pde, pte) => PageOf(r, i, j)' = PageOf(r, i, j)
         /\ PageOf(r, pde, pte) = table[t][pte] /\ PageOf(r, pde, pte)' = 0
<1>1. \A i \in UserPde : TableOf(r, i)' = TableOf(r, i)
  <2>1. table'[d] = table[d]
    BY DEF SameTables
  <2>2. \A i \in UserPde : TableOf(r, i)' = IF i >= pde THEN table[d][i] ELSE 0
    BY <2>1 DEF TableOf
  <2>3. \A i \in UserPde : i >= pde \/ i < pde
    BY EntryFacts
  <2> QED
    BY <2>2, <2>3
<1>2. ASSUME NEW i \in UserPde, NEW j \in Pte, AtPage(r, i, j) # AtPage(r, pde, pte)
      PROVE  PageOf(r, i, j)' = PageOf(r, i, j)
  <2>1. TableOf(r, i) # 0 => table'[TableOf(r, i)] = table[TableOf(r, i)]
    BY DEF SameTables
  <2>2. i \in Nat /\ j \in Nat /\ pde \in Nat /\ pte \in Nat
    BY EntryFacts
  <2>3. CASE i < pde
    <3>1. TableOf(r, i) = 0
      BY <2>3
    <3> QED
      BY <1>1, <3>1 DEF PageOf
  <2>4. CASE i > pde
    <3>1. i # FromPde(r) /\ i # pde
      BY <2>2, <2>4
    <3> QED
      BY <1>1, <2>1, <3>1 DEF PageOf
  <2>5. CASE i = pde
    <3>1. j # pte
      BY <1>2, <2>5
    <3>2. PageOf(r, i, j)' = IF j >= pte + 1 THEN table[t][j] ELSE 0
      BY <1>1, <2>1, <2>5 DEF PageOf
    <3>3. PageOf(r, i, j) = IF pde = FromPde(r) => j >= FromPte(r) THEN table[t][j] ELSE 0
      BY <2>5 DEF PageOf
    <3>4. CASE j < pte
      <4>1. ~(j >= pte + 1)
        BY <2>2, <3>4
      <4> QED
        BY <3>2, <3>3, <3>4, <4>1
    <3>5. CASE j > pte
      <4>1. j >= pte + 1 /\ (pde = FromPde(r) => j >= FromPte(r))
        BY <2>2, <3>5
      <4> QED
        BY <3>2, <3>3, <4>1
    <3> QED
      BY <2>2, <3>1, <3>4, <3>5
  <2> QED
    BY <2>2, <2>3, <2>4, <2>5
<1>3. PageOf(r, pde, pte) = table[t][pte]
  BY DEF PageOf
<1>4. PageOf(r, pde, pte)' = 0
  <2>1. ~(pte >= pte + 1)
    BY EntryFacts
  <2> QED
    BY <2>1 DEF PageOf
<1> QED
  BY <1>1, <1>2, <1>3, <1>4

(* What is in use before and after a page table is freed, whose pages have *)
(* been freed.                                                             *)
LEMMA TableFreed ==
  ASSUME MInv, NEW r \in Root, NEW d, Dir(r) = d, Dir(r)' = d, d # 0,
         table'[d] = table[d],
         NEW pde \in UserPde, NEW t, t # 0, TableOf(r, pde) = t,
         \A b \in PageAddr : b # t => table'[b] = table[b],
         FromPde(r)' = pde + 1, FromPte(r)' = 0, FromPde(r) \in Nat, FromPte(r) \in Nat,
         pde >= FromPde(r),
         \A i \in UserPde : i < pde => TableOf(r, i) = 0,
         \A i \in UserPde : i >= pde => TableOf(r, i) = table[d][i],
         \A j \in Pte : (pde = FromPde(r) => j >= FromPte(r)) => table[t][j] = 0
  PROVE  /\ \A i \in UserPde :
               AtTable(r, i) # AtTable(r, pde) => TableOf(r, i)' = TableOf(r, i)
         /\ \A i \in UserPde, j \in Pte : PageOf(r, i, j)' = PageOf(r, i, j)
         /\ TableOf(r, pde)' = 0
<1>1. \A i \in UserPde : TableOf(r, i)' = IF i >= pde + 1 THEN table[d][i] ELSE 0
  BY DEF TableOf
<1>2. \A i \in UserPde : i # pde => TableOf(r, i)' = TableOf(r, i)
  <2>1. \A i \in UserPde : i # pde => (i < pde /\ ~(i >= pde + 1)) \/ (i >= pde + 1 /\ i >= pde)
    BY EntryFacts
  <2> QED
    BY <1>1, <2>1
<1>3. TableOf(r, pde)' = 0
  <2>1. ~(pde >= pde + 1)
    BY EntryFacts
  <2> QED
    BY <1>1, <2>1
<1>4. ASSUME NEW i \in UserPde, NEW j \in Pte PROVE PageOf(r, i, j)' = PageOf(r, i, j)
  <2>1. i \in Nat /\ j \in Nat /\ pde \in Nat
    BY EntryFacts
  <2>2. CASE i < pde
    <3>1. TableOf(r, i) = 0 /\ TableOf(r, i)' = 0
      BY <1>2, <2>1, <2>2
    <3> QED
      BY <3>1 DEF PageOf
  <2>3. CASE i = pde
    BY <1>3, <2>3 DEF PageOf
  <2>4. CASE i > pde
    <3>1. i # FromPde(r) /\ i # pde /\ j >= 0
      BY <2>1, <2>4
    <3>2. TableOf(r, i)' = TableOf(r, i)
      BY <1>2, <3>1
    <3>3. TableOf(r, i) # 0 => table'[TableOf(r, i)] = table[TableOf(r, i)]
      <4>1. TableOf(r, i) # 0 => TableOf(r, i) # t
        BY <3>1, TreesApart
      <4>2. TableOf(r, i) # 0 => TableOf(r, i) \in PageAddr
        BY TablesIn
      <4> QED
        BY <4>1, <4>2
    <3> QED
      BY <3>1, <3>2, <3>3 DEF PageOf
  <2> QED
    BY <2>1, <2>2, <2>3, <2>4
<1> QED
  BY <1>2, <1>3, <1>4

(* A page of a table is freed.                                             *)
LEMMA DestroyEntry ==
  ASSUME MInv, NEW p \in Proc, op[p].at = "destroy", NEW o, o = op[p],
         NEW pde, NEW t, AtPde(o, pde, t), NEW low, LowPte(o, pde, low),
         NEW pte, NEW a, AtPte(t, low, pte, a),
         free_page(a), Becomes(p, Destroying(o.to, pde, pte + 1)),
         UNCHANGED <<kernel_page_dir, cr3, heap_end, leaked>>
  PROVE  MInv' /\ FreesHeld /\ OthersKept(p)
<1>1. PICK r, d : r = <<"to", p>> /\ d = o.to
  OBVIOUS
<1>2. /\ d # 0 /\ d \in Nat /\ o.pde \in Nat /\ o.pte \in Nat
      /\ r \in Root /\ Dir(r) = d /\ FromPde(r) = o.pde /\ FromPte(r) = o.pte
  BY <1>1, DestroyFacts
<1>3. /\ pde \in UserPde /\ pde \in Nat /\ pde >= o.pde /\ TableOf(r, pde) = t /\ t # 0
      /\ \A i \in UserPde : i < pde => TableOf(r, i) = 0
      /\ \A i \in UserPde : i >= pde => TableOf(r, i) = table[d][i]
  <2>1. r = <<"to", p>> /\ d = o.to
    BY <1>1
  <2>2. TreeFrom(<<"to", p>>, op[p], pde, t)
    BY DestroyAt
  <2> QED
    BY <2>1, <2>2 DEF TreeFrom
<1>4. /\ pte \in Pte /\ pte \in Nat /\ pte >= low /\ pte + 1 \in 0..PTE_CNT /\ a # 0
      /\ \A j \in Pte : j >= low /\ j < pte => table[t][j] = 0
  <2>1. low \in Nat /\ pte \in Nat /\ pte >= low /\ pte < PTE_CNT /\ a # 0
    BY LimitFacts DEF LowPte, AtPte
  <2>2. \A j \in Pte : j >= low => j \in low..(PTE_CNT-1)
    BY <2>1, LimitFacts, EntryFacts
  <2>3. pte \in Pte /\ pte + 1 \in 0..PTE_CNT
    BY <2>1, LimitFacts DEF Pte
  <2> QED
    BY <2>1, <2>2, <2>3 DEF AtPte
<1>5. /\ pde >= FromPde(r) /\ (pde = FromPde(r) => pte >= FromPte(r))
      /\ \A j \in Pte : j < pte /\ (pde = FromPde(r) => j >= FromPte(r)) => table[t][j] = 0
  <2>1. pde >= FromPde(r) /\ (pde = FromPde(r) => pte >= FromPte(r))
    BY <1>2, <1>3, <1>4 DEF LowPte
  <2>2. \A j \in Pte : (pde = FromPde(r) => j >= FromPte(r)) => j >= low
    BY <1>2, EntryFacts DEF LowPte
  <2> QED
    BY <1>4, <2>1, <2>2
<1>6. PICK n : n = Destroying(d, pde, pte + 1)
  OBVIOUS
<1>7. /\ op' = [op EXCEPT ![p] = n] /\ op'[p] = n /\ n.at = "destroy" /\ n.to = d
      /\ n.pde = pde /\ n.pte = pte + 1
  BY <1>1, <1>6 DEF Becomes, Destroying, MInv, MemTypeOK
<1>8. n \in DestroyOp /\ n \in Op
  <2>1. pte + 1 \in Nat
    BY <1>4
  <2> QED
    BY <1>2, <1>3, <1>6, <2>1 DEF Destroying, DestroyOp, Op
<1>9. Dir(r)' = d /\ FromPde(r)' = pde /\ FromPte(r)' = pte + 1
  BY <1>1, <1>7 DEF Dir, FromPde, FromPte, Cut
<1>10. PageOf(r, pde, pte) = a
  <2>1. a = table[t][pte]
    BY DEF AtPte
  <2> QED
    BY <1>3, <1>5, <2>1 DEF PageOf
<1>11. PICK z \in Place : z = AtPage(r, pde, pte)
  BY <1>2, <1>3, <1>4, PlaceIn
<1>12. Own[z] = a
  BY <1>2, <1>3, <1>4, <1>10, <1>11, OwnFacts DEF OwnIs
<1>13. \A s \in Root : SameTables(s)
  <2>1. /\ \A s \in Root : z # AtDir(s)
        /\ \A s \in Root, i \in UserPde : z # AtTable(s, i)
    BY <1>11 DEF AtPage, AtDir, AtTable
  <2>2. \A s \in Root : /\ Dir(s) # 0 => Dir(s) # a
                        /\ \A i \in UserPde : TableOf(s, i) # 0 => TableOf(s, i) # a
    BY <1>12, <2>1, NotTable
  <2>3. table' = [table EXCEPT ![a] = Zeroed]
    BY DEF free_page
  <2> QED
    BY <2>2, <2>3, OtherTables
<1>14. /\ \A i \in UserPde : TableOf(r, i)' = TableOf(r, i)
       /\ \A i \in UserPde, j \in Pte :
             AtPage(r, i, j) # AtPage(r, pde, pte) => PageOf(r, i, j)' = PageOf(r, i, j)
       /\ PageOf(r, pde, pte)' = 0
  <2>1. SameTables(r) /\ FromPde(r) \in Nat /\ FromPte(r) \in Nat
    BY <1>2, <1>13
  <2> QED
    BY <1>2, <1>3, <1>4, <1>5, <1>9, <2>1, EntryFreed
<1>15. Own'[z] = 0
  BY <1>2, <1>3, <1>4, <1>11, <1>14, OwnNext DEF OwnIs
<1>16. /\ AtDir(r) = z \/ Dir(r)' = Dir(r)
       /\ \A i \in UserPde : AtTable(r, i) = z \/ TableOf(r, i)' = TableOf(r, i)
       /\ \A i \in UserPde, j \in Pte : AtPage(r, i, j) = z \/ PageOf(r, i, j)' = PageOf(r, i, j)
  BY <1>2, <1>9, <1>11, <1>14
<1>17. \A x \in Place : x \in {z} \/ Own'[x] = Own[x]
  BY <1>1, <1>2, <1>7, <1>13, <1>16, DestroyPlaces
<1>18. OpOK(p)'
  <2>1. pde \in user_pde_start..PDE_CNT
    BY <1>3, LimitFacts DEF UserPde
  <2> QED
    BY <1>2, <1>4, <1>7, <2>1 DEF OpOK
<1>19. MInv' /\ FreesHeld
  BY <1>4, <1>7, <1>8, <1>12, <1>15, <1>17, <1>18, DestroyStep
<1>20. OthersKept(p)
  BY <1>1, <1>13 DEF OthersKept
<1> QED
  BY <1>19, <1>20

(* A page table is freed after its pages.                                  *)
LEMMA DestroyTable ==
  ASSUME MInv, NEW p \in Proc, op[p].at = "destroy", NEW o, o = op[p],
         NEW pde, NEW t, AtPde(o, pde, t), NEW low, LowPte(o, pde, low),
         NoPte(t, low),
         free_page(t), Becomes(p, Destroying(o.to, pde + 1, 0)),
         UNCHANGED <<kernel_page_dir, cr3, heap_end, leaked>>
  PROVE  MInv' /\ FreesHeld /\ OthersKept(p)
<1>1. PICK r, d : r = <<"to", p>> /\ d = o.to
  OBVIOUS
<1>2. /\ d # 0 /\ d \in Nat /\ o.pde \in Nat /\ o.pte \in Nat
      /\ r \in Root /\ Dir(r) = d /\ FromPde(r) = o.pde /\ FromPte(r) = o.pte
  BY <1>1, DestroyFacts
<1>3. /\ pde \in UserPde /\ pde \in Nat /\ pde >= o.pde /\ TableOf(r, pde) = t /\ t # 0
      /\ \A i \in UserPde : i < pde => TableOf(r, i) = 0
      /\ \A i \in UserPde : i >= pde => TableOf(r, i) = table[d][i]
  <2>1. r = <<"to", p>> /\ d = o.to
    BY <1>1
  <2>2. TreeFrom(<<"to", p>>, op[p], pde, t)
    BY DestroyAt
  <2> QED
    BY <2>1, <2>2 DEF TreeFrom
<1>4. /\ pde >= FromPde(r)
      /\ \A j \in Pte : (pde = FromPde(r) => j >= FromPte(r)) => table[t][j] = 0
  <2>1. \A j \in Pte : j >= low => j \in low..(PTE_CNT-1)
    BY LimitFacts, EntryFacts DEF LowPte
  <2>2. \A j \in Pte : (pde = FromPde(r) => j >= FromPte(r)) => j >= low
    BY <1>2, EntryFacts DEF LowPte
  <2> QED
    BY <1>2, <1>3, <2>1, <2>2 DEF NoPte
<1>5. PICK n : n = Destroying(d, pde + 1, 0)
  OBVIOUS
<1>6. /\ op' = [op EXCEPT ![p] = n] /\ op'[p] = n /\ n.at = "destroy" /\ n.to = d
      /\ n.pde = pde + 1 /\ n.pte = 0
  BY <1>1, <1>5 DEF Becomes, Destroying, MInv, MemTypeOK
<1>7. n \in DestroyOp /\ n \in Op
  <2>1. pde + 1 \in Nat
    BY <1>3
  <2> QED
    BY <1>2, <1>5, <2>1 DEF Destroying, DestroyOp, Op
<1>8. Dir(r)' = d /\ FromPde(r)' = pde + 1 /\ FromPte(r)' = 0
  BY <1>1, <1>6 DEF Dir, FromPde, FromPte, Cut
<1>9. PICK z \in Place : z = AtTable(r, pde)
  BY <1>2, <1>3, PlaceIn
<1>10. Own[z] = t
  BY <1>2, <1>3, <1>9, OwnFacts DEF OwnIs
<1>11. \A b \in PageAddr : b # t => table'[b] = table[b]
  BY DEF free_page, MInv, MemTypeOK
<1>12. \A s \in Root : Dir(s) # 0 => table'[Dir(s)] = table[Dir(s)]
  BY <1>2, <1>3, <1>11, TreesApart, TablesIn
<1>13. \A s \in Root : s # r => SameTables(s)
  <2> SUFFICES ASSUME NEW s \in Root, s # r PROVE SameTables(s)
    OBVIOUS
  <2>1. \A i \in UserPde : TableOf(s, i) # 0 => TableOf(s, i) # t /\ TableOf(s, i) \in PageAddr
    BY <1>2, <1>3, TreesApart, TablesIn
  <2> QED
    BY <1>11, <1>12, <2>1 DEF SameTables
<1>14. /\ \A i \in UserPde :
             AtTable(r, i) # AtTable(r, pde) => TableOf(r, i)' = TableOf(r, i)
       /\ \A i \in UserPde, j \in Pte : PageOf(r, i, j)' = PageOf(r, i, j)
       /\ TableOf(r, pde)' = 0
  <2>1. table'[d] = table[d] /\ FromPde(r) \in Nat /\ FromPte(r) \in Nat
    BY <1>2, <1>12
  <2> QED
    BY <1>2, <1>3, <1>4, <1>8, <1>11, <2>1, TableFreed
<1>15. Own'[z] = 0
  BY <1>2, <1>3, <1>9, <1>14, OwnNext DEF OwnIs
<1>16. /\ AtDir(r) = z \/ Dir(r)' = Dir(r)
       /\ \A i \in UserPde : AtTable(r, i) = z \/ TableOf(r, i)' = TableOf(r, i)
       /\ \A i \in UserPde, j \in Pte : AtPage(r, i, j) = z \/ PageOf(r, i, j)' = PageOf(r, i, j)
  BY <1>2, <1>8, <1>9, <1>14
<1>17. \A x \in Place : x \in {z} \/ Own'[x] = Own[x]
  BY <1>1, <1>2, <1>6, <1>13, <1>16, DestroyPlaces
<1>18. OpOK(p)'
  <2>1. pde + 1 \in user_pde_start..PDE_CNT /\ 0 \in 0..PTE_CNT
    BY <1>3, LimitFacts DEF UserPde
  <2> QED
    BY <1>2, <1>6, <2>1 DEF OpOK
<1>19. MInv' /\ FreesHeld
  BY <1>3, <1>6, <1>7, <1>10, <1>15, <1>17, <1>18, DestroyStep
<1>20. OthersKept(p)
  BY <1>1, <1>13 DEF OthersKept
<1> QED
  BY <1>19, <1>20

LEMMA DestroyPageInv ==
  ASSUME MInv, NEW p \in Proc, destroy_page(p)
  PROVE  MInv' /\ FreesHeld /\ OthersKept(p)
<1>1. PICK o, pdes : o = op[p] /\ pdes = {i \in o.pde..(PDE_CNT-1) : table[o.to][i] # 0}
  OBVIOUS
<1>2. PICK pde : pde = Min(pdes)
  OBVIOUS
<1>3. PICK t, low : t = table[o.to][pde] /\ low = IF pde = o.pde THEN o.pte ELSE 0
  OBVIOUS
<1>4. PICK ptes : ptes = {j \in low..(PTE_CNT-1) : table[t][j] # 0}
  OBVIOUS
<1>5. PICK pte : pte = Min(ptes)
  OBVIOUS
<1>6. /\ o.at = "destroy" /\ UNCHANGED <<kernel_page_dir, cr3, heap_end, leaked>>
      /\ \/ pdes = {} /\ free_page(o.to) /\ Becomes(p, Idle)
         \/ /\ pdes # {} /\ ptes # {} /\ free_page(table[t][pte])
            /\ Becomes(p, Destroying(o.to, pde, pte + 1))
         \/ /\ pdes # {} /\ ptes = {} /\ free_page(t)
            /\ Becomes(p, Destroying(o.to, pde + 1, 0))
  BY <1>1, <1>2, <1>3, <1>4, <1>5 DEF destroy_page
<1>7. op[p].at = "destroy" /\ o.pde \in Nat /\ o.pte \in Nat
  BY <1>1, <1>6, DestroyFacts
<1>8. low \in Nat /\ LowPte(o, pde, low)
  BY <1>3, <1>7 DEF LowPte
<1>9. ASSUME pdes # {} PROVE AtPde(o, pde, t)
  <2>1. PICK R : R = o.pde..(PDE_CNT-1)
    OBVIOUS
  <2>2. R \in SUBSET Nat
    BY <1>7, <2>1, LimitFacts
  <2>3. pdes \in SUBSET R /\ \A i \in R : i \in pdes <=> table[o.to][i] # 0
    BY <1>1, <2>1
  <2>4. pde \in pdes /\ \A i \in R : i < pde => i \notin pdes
    BY <1>2, <1>9, <2>2, <2>3, MinEntry
  <2> QED
    BY <1>3, <2>1, <2>3, <2>4 DEF AtPde
<1>10. CASE pdes = {} /\ free_page(o.to) /\ Becomes(p, Idle)
  <2>1. \A i \in o.pde..(PDE_CNT-1) : table[o.to][i] = 0
    BY <1>1, <1>10
  <2> QED
    BY <1>1, <1>6, <1>7, <1>10, <2>1, DestroyDir
<1>11. CASE pdes # {} /\ ptes # {} /\ free_page(table[t][pte])
              /\ Becomes(p, Destroying(o.to, pde, pte + 1))
  <2>1. PICK a : a = table[t][pte]
    OBVIOUS
  <2>2. AtPte(t, low, pte, a)
    <3>1. PICK R : R = low..(PTE_CNT-1)
      OBVIOUS
    <3>2. R \in SUBSET Nat
      BY <1>8, <3>1, LimitFacts
    <3>3. ptes \in SUBSET R /\ \A j \in R : j \in ptes <=> table[t][j] # 0
      BY <1>4, <3>1
    <3>4. pte \in ptes /\ \A j \in R : j < pte => j \notin ptes
      BY <1>5, <1>11, <3>2, <3>3, MinEntry
    <3> QED
      BY <2>1, <3>1, <3>3, <3>4 DEF AtPte
  <2>3. free_page(a)
    BY <1>11, <2>1
  <2>4. o = op[p] /\ Becomes(p, Destroying(o.to, pde, pte + 1))
          /\ UNCHANGED <<kernel_page_dir, cr3, heap_end, leaked>> /\ AtPde(o, pde, t)
    BY <1>1, <1>3, <1>6, <1>9, <1>11
  <2> QED
    BY <1>7, <1>8, <2>2, <2>3, <2>4, DestroyEntry
<1>12. CASE pdes # {} /\ ptes = {} /\ free_page(t) /\ Becomes(p, Destroying(o.to, pde + 1, 0))
  <2>1. NoPte(t, low)
    BY <1>4, <1>12 DEF NoPte
  <2>2. o = op[p] /\ AtPde(o, pde, t)
          /\ UNCHANGED <<kernel_page_dir, cr3, heap_end, leaked>>
    BY <1>1, <1>3, <1>6, <1>9, <1>12
  <2> QED
    BY <1>7, <1>8, <1>12, <2>1, <2>2, DestroyTable
<1> QED
  BY <1>6, <1>10, <1>11, <1>12

LEMMA MNextInv ==
  ASSUME MInv, [MNext]_mvars
  PROVE  MInv'
<1>1. CASE UNCHANGED mvars
  <2>1. UNCHANGED <<kernel_page_dir, table, cr3, heap_end, op, leaked>> /\ UNCHANGED pavars
    BY <1>1 DEF mvars
  <2>2. \A q \in Proc : NewOf(q)' = NewOf(q)
    BY <2>1 DEF NewOf
  <2>3. \A r \in Root : SameRoot(r) /\ SameTables(r)
    BY <2>1 DEF SameRoot, SameTables, Dir, FromPde, FromPte, Cut
  <2>4. \A r \in Root : Dir(r)' = Dir(r)
    BY <2>3 DEF SameRoot
  <2>5. \A x \in Place : x \in {} \/ Own'[x] = Own[x]
    <3>1. PICK Z : Z = {}
      OBVIOUS
    <3>2. \A r \in Root : /\ \A i \in UserPde : TableOf(r, i)' = TableOf(r, i)
                          /\ \A i \in UserPde, j \in Pte : PageOf(r, i, j)' = PageOf(r, i, j)
      BY <2>3, SameTree
    <3>3. \A x \in Place : x \in Z \/ Own'[x] = Own[x]
      BY <2>1, <2>2, <2>4, <3>2, OwnBut
    <3> QED
      BY <3>1, <3>3
  <2>6. PAInv' /\ OneEach(Place, Own', held' \ leaked') /\ leaked' \subseteq held'
    BY <2>1, <2>5, KeepPages
  <2>7. MemTypeOK' /\ \A q \in Proc : OpOK(q)' /\ ChildOK(q)'
    BY <2>1, <2>6 DEF MInv, MemTypeOK, OpOK, ChildOK
  <2> QED
    BY <2>6, <2>7 DEF MInv
<1>2. CASE \E i \in 0..(KERNEL_PDES-1) : create_kernel_table(i)
  BY <1>2, KernelInv
<1>3. ASSUME NEW p \in Proc,
             \/ new_task(p)
             \/ \E incr \in Incr : sys_sbrk(p, incr)
             \/ alloc_page(p) \/ map_page(p)
             \/ \E q \in Proc : memory_copy_uvm(p, q)
             \/ copy_page(p) \/ copy_map(p)
             \/ memory_destroy_uvm(p) \/ destroy_page(p)
             \/ \E v \in UserPage : memory_free_page(p, v)
      PROVE  MInv'
  BY <1>3, NewTaskInv, SbrkInv, AllocPageInv, MapPageInv, CopyUvmInv, CopyPageInv, CopyMapInv,
     DestroyUvmInv, DestroyPageInv, FreePageInv
<1> QED
  BY <1>1, <1>2, <1>3 DEF MNext
-----------------------------------------------------------------------------
(* For any number of tasks, pages and entries of the tables, and however   *)
(* sys_sbrk, memory_copy_uvm and memory_destroy_uvm of several tasks       *)
(* interleave and fail: every page that memory.c has allocated is in one   *)
(* place, or leaked.                                                       *)
THEOREM PagesSafe == MSpec => []PagesOwnedOnce
<1>1. MInit => MInv
  BY MInitInv
<1>2. MInv /\ [MNext]_mvars => MInv'
  BY MNextInv
<1>3. MInv => PagesOwnedOnce
  <2> SUFFICES ASSUME MInv PROVE PagesOwnedOnce
    OBVIOUS
  <2>1. OneEach(Place, Own, held \ leaked) /\ leaked \subseteq held
    BY DEF MInv, MemTypeOK
  <2>2. PICK used : used = {a \in {<<x, Own[x]>> : x \in Place} : a[2] # 0}
    OBVIOUS
  <2>3. /\ \A a \in used : \E x \in Place : a = <<x, Own[x]>> /\ a[2] = Own[x] /\ Own[x] # 0
        /\ \A x \in Place : Own[x] # 0 => <<x, Own[x]>> \in used
    BY <2>2
  <2>4. \A a, b \in used : a[2] = b[2] => a = b
    BY <2>1, <2>3 DEF OneEach
  <2>5. \A a \in used : a[2] \in held \ leaked
    BY <2>1, <2>3 DEF OneEach
  <2>6. \A v \in held \ leaked : \E a \in used : a[2] = v
    <3> SUFFICES ASSUME NEW v \in held \ leaked PROVE \E a \in used : a[2] = v
      OBVIOUS
    <3>1. PICK x \in Place : Own[x] = v /\ Own[x] # 0
      BY <2>1 DEF OneEach
    <3>2. <<x, Own[x]>> \in used /\ <<x, Own[x]>>[2] = v
      BY <2>3, <3>1
    <3> QED
      BY <3>2
  <2>7. held = {a[2] : a \in used} \union leaked
    BY <2>1, <2>5, <2>6
  <2> QED
    BY <2>2, <2>4, <2>5, <2>7 DEF PagesOwnedOnce
<1> QED
  BY <1>1, <1>2, <1>3, PTL DEF MSpec

LEMMA StepAllocs ==
  ASSUME MInv, [MNext]_mvars
  PROVE  [PANext]_pavars
<1>1. ASSUME addr_alloc_page(1) PROVE PANext
  BY <1>1, MemoryAssumption DEF PANext
<1>2. CASE UNCHANGED mvars
  BY <1>2 DEF mvars
<1>3. ASSUME NEW i, create_kernel_table(i) PROVE PANext
  BY <1>1, <1>3 DEF create_kernel_table
<1>4. ASSUME NEW p \in Proc, new_task(p) \/ \E q \in Proc : memory_copy_uvm(p, q) PROVE PANext
  BY <1>1, <1>4 DEF new_task, memory_copy_uvm, memory_create_uvm
<1>5. ASSUME NEW p \in Proc, \/ \E incr \in Incr : sys_sbrk(p, incr)
                             \/ memory_destroy_uvm(p)
                             \/ \E v \in UserPage : memory_free_page(p, v)
      PROVE  UNCHANGED pavars
  BY <1>5 DEF sys_sbrk, memory_destroy_uvm, memory_free_page
<1>6. ASSUME NEW p \in Proc, alloc_page(p) \/ copy_page(p) PROVE [PANext]_pavars
  BY <1>1, <1>6 DEF alloc_page, copy_page
<1>7. ASSUME NEW d, NEW v, NEW a, create_map(d, v, a) PROVE [PANext]_pavars
  BY <1>1, <1>7 DEF create_map
<1>8. ASSUME NEW p \in Proc, copy_map(p) PROVE [PANext]_pavars
  BY <1>7, <1>8 DEF copy_map
<1>9. ASSUME NEW p \in Proc, map_page(p) PROVE [PANext]_pavars
  <2>1. PICK o, v : o = op[p] /\ v = o.vaddr + o.i * page_size
    OBVIOUS
  <2>2. CASE create_map(cr3[p], v, o.paddr)
    BY <1>7, <2>2
  <2>3. CASE undo_alloc(o.vaddr, o.i + 1) /\ UNCHANGED held
    <3>1. o.at = "map" /\ o \in Op
      BY <1>9, <2>1 DEF map_page, MInv, MemTypeOK
    <3>2. o \in MapOp /\ HeapRange(o)
      BY <2>1, <3>1 DEF MInv, OpOK, Op, Idle, AllocOp, CopyOp, CopymapOp, DestroyOp
    <3>3. PICK k \in Nat : o.vaddr = k * page_size /\ k >= FirstUser
      BY <3>2 DEF HeapRange
    <3>4. o.vaddr \in Nat
      BY <3>2 DEF MapOp
    <3>5. MEMORY_TASK_BASE <= o.vaddr
      BY <3>3, LimitFacts, MulMono
    <3>6. MEMORY_TASK_BASE \in Nat
      BY LimitFacts
    <3>7. bits' = bits
      BY <2>3, <3>4, <3>5, <3>6, UndoNothing DEF MInv
    <3> QED
      BY <2>3, <3>7 DEF pavars
  <2>4. CASE UNCHANGED pavars
    BY <2>4
  <2> QED
    BY <1>9, <2>1, <2>2, <2>3, <2>4 DEF map_page
<1>10. ASSUME NEW p \in Proc, destroy_page(p) PROVE PANext
  BY <1>10, DestroyPageInv DEF FreesHeld, PANext
<1> QED
  BY <1>2, <1>3, <1>4, <1>5, <1>6, <1>8, <1>9, <1>10 DEF MNext

(* Whatever memory.c does to the bitmap is a behaviour of the page         *)
(* allocator that frees only pages that are held: the release of pages by  *)
(* their virtual addresses in memory_alloc_for_page_dir frees none.        *)
THEOREM MemoryUsesPages == MSpec => UsesPageAlloc
<1>1. MInit => MInv /\ PAInit
  BY MInitInv DEF MInit
<1>2. MInv /\ [MNext]_mvars => MInv'
  BY MNextInv
<1>3. MInv /\ [MNext]_mvars => [PANext]_pavars
  BY StepAllocs
<1> QED
  BY <1>1, <1>2, <1>3, PTL DEF MSpec, UsesPageAlloc, PASpec
-----------------------------------------------------------------------------
(* What a copy and a heap have got to.                                     *)

\* The directory r maps the page v.
Has(r, v) == PageOf(r, pde_index(v), pte_index(v)) # 0

\* The copy that p makes has the pages below vaddr of p's own memory.
CopyOK(p) ==
    op[p].at \in {"copy", "copymap"} =>
        /\ cr3[p] # 0
        /\ op[p].at = "copymap" => Has(<<"cr3", p>>, op[p].vaddr)
        /\ \A v \in UserPage : Has(<<"to", p>>, v) <=> Has(<<"cr3", p>>, v) /\ v < op[p].vaddr

\* The pages between the end of the heap and the end that sys_sbrk shall give
\* it are those that it allocates, and the first i of them are mapped.
Covers(o, h) ==
    \A v \in UserPage : v >= h /\ v < o.end =>
        \E n \in Nat : n < o.page_count /\ v = o.vaddr + n * page_size
GrowOK(p) ==
    op[p].at \in {"alloc", "map"} =>
        /\ Covers(op[p], heap_end[p])
        /\ \A n \in Nat : n < op[p].i => Has(<<"cr3", p>>, op[p].vaddr + n * page_size)

CInv == MInv /\ \A p \in Proc : CopyOK(p) /\ GrowOK(p)

\* What q is working on stays as it is.
Steady(r) == \A i \in UserPde, j \in Pte : PageOf(r, i, j)' = PageOf(r, i, j)
Left(q) ==
    /\ op'[q] = op[q] /\ cr3'[q] = cr3[q] /\ heap_end'[q] = heap_end[q]
    /\ Steady(<<"cr3", q>>) /\ Steady(<<"to", q>>)
Works(q) == op[q].at \in {"alloc", "map", "copy", "copymap"}

(* The pages that sys_sbrk allocates are pages of its task.                *)
LEMMA HeapPages ==
  ASSUME NEW q \in Proc, op[q].at \in {"alloc", "map"}, OpOK(q), op[q] \in Op
  PROVE  /\ op[q].i \in Nat /\ op[q].page_count \in Nat /\ op[q].i < op[q].page_count
         /\ op[q].vaddr \in Nat /\ op[q].end \in Nat
         /\ \A n \in Nat : n < op[q].page_count => op[q].vaddr + n * page_size \in UserPage
<1>1. PICK o : o = op[q]
  OBVIOUS
<1>2. o \in AllocOp \union MapOp
  BY <1>1 DEF Op, Idle, CopyOp, CopymapOp, DestroyOp
<1>3. o.i \in Nat /\ o.page_count \in Nat /\ o.vaddr \in Nat /\ o.end \in Nat
  BY <1>2 DEF AllocOp, MapOp
<1>4. PICK k \in Nat : /\ o.vaddr = k * page_size /\ k >= FirstUser
                       /\ k + o.page_count <= LastUser /\ o.i < o.page_count
  BY <1>1 DEF OpOK, HeapRange
<1>5. ASSUME NEW n \in Nat, n < o.page_count PROVE o.vaddr + n * page_size \in UserPage
  <2>1. k + n \in Nat /\ k + n >= FirstUser /\ k + n < LastUser
    BY <1>3, <1>4, <1>5, LimitFacts
  <2>2. o.vaddr + n * page_size = (k + n) * page_size
    BY <1>4, LimitFacts
  <2> QED
    BY <2>1, <2>2, IndexFacts
<1> QED
  BY <1>1, <1>3, <1>4, <1>5

(* What q is working on stays as it is while another task takes a step.    *)
LEMMA LeftKeeps ==
  ASSUME NEW q \in Proc, CopyOK(q), GrowOK(q), OpOK(q), op[q] \in Op, Left(q)
  PROVE  CopyOK(q)' /\ GrowOK(q)'
<1>1. \A v \in UserPage : /\ Has(<<"cr3", q>>, v)' <=> Has(<<"cr3", q>>, v)
                          /\ Has(<<"to", q>>, v)' <=> Has(<<"to", q>>, v)
  BY UserPageFacts DEF Left, Steady, Has
<1>2. CopyOK(q)'
  <2>1. CASE op[q].at = "copymap"
    <3>1. op[q].vaddr \in UserPage
      BY <2>1 DEF OpOK
    <3> QED
      BY <1>1, <2>1, <3>1 DEF CopyOK, Left
  <2>2. CASE op[q].at # "copymap"
    BY <1>1, <2>2 DEF CopyOK, Left
  <2> QED
    BY <2>1, <2>2
<1>3. GrowOK(q)'
  <2> SUFFICES ASSUME op[q].at \in {"alloc", "map"} PROVE GrowOK(q)'
    BY DEF GrowOK, Left
  <2>1. Covers(op[q], heap_end[q])'
    <3>1. Covers(op[q], heap_end[q])
      BY DEF GrowOK
    <3> QED
      BY <3>1 DEF Covers, Left
  <2>2. \A n \in Nat : n < op[q].i => op[q].vaddr + n * page_size \in UserPage
    BY HeapPages
  <2> QED
    BY <1>1, <2>1, <2>2 DEF GrowOK, Left
<1> QED
  BY <1>2, <1>3

\* A step of p leaves alone what the other tasks are working on.
OthersLeft(p) == \A q \in Proc : q # p => op'[q] = op[q] /\ (Works(q) => Left(q))

LEMMA SameLeft ==
  ASSUME NEW q \in Proc, op'[q] = op[q], cr3'[q] = cr3[q], heap_end'[q] = heap_end[q],
         SameTables(<<"cr3", q>>), SameTables(<<"to", q>>)
  PROVE  Left(q)
<1>1. SameRoot(<<"cr3", q>>) /\ SameRoot(<<"to", q>>)
  BY DEF SameRoot, Dir, FromPde, FromPte, Cut
<1>2. Steady(<<"cr3", q>>) /\ Steady(<<"to", q>>)
  BY <1>1, RootFacts, SameTree DEF Steady
<1> QED
  BY <1>2 DEF Left

(* The invariant after a step of p, if p itself keeps it.                  *)
LEMMA CopyStep ==
  ASSUME CInv, MInv', NEW p \in Proc, OthersLeft(p), CopyOK(p)', GrowOK(p)'
  PROVE  CInv'
<1> SUFFICES ASSUME NEW q \in Proc, q # p PROVE CopyOK(q)' /\ GrowOK(q)'
  BY DEF CInv
<1>1. op'[q] = op[q]
  BY DEF OthersLeft
<1>2. CASE Works(q)
  <2>1. Left(q)
    BY <1>2 DEF OthersLeft
  <2>2. CopyOK(q) /\ GrowOK(q) /\ OpOK(q) /\ op[q] \in Op
    BY DEF CInv, MInv, MemTypeOK
  <2> QED
    BY <2>1, <2>2, LeftKeeps
<1>3. CASE ~Works(q)
  BY <1>1, <1>3 DEF Works, CopyOK, GrowOK
<1> QED
  BY <1>2, <1>3

(* Steps of p that change no table, and the directory of no other task at  *)
(* work.                                                                   *)
LEMMA QuietLeft ==
  ASSUME NEW p \in Proc, \A q \in Proc : q # p => op'[q] = op[q],
         \A q \in Proc : q # p /\ Works(q) => cr3'[q] = cr3[q] /\ heap_end'[q] = heap_end[q],
         \A s \in Root : s # <<"to", p>> => SameTables(s)
  PROVE  OthersLeft(p)
<1> SUFFICES ASSUME NEW q \in Proc, q # p, Works(q) PROVE Left(q)
  BY DEF OthersLeft
<1>1. SameTables(<<"cr3", q>>) /\ SameTables(<<"to", q>>)
  <2>1. <<"cr3", q>> # <<"to", p>> /\ <<"to", q>> # <<"to", p>>
    OBVIOUS
  <2> QED
    BY <2>1, RootFacts
<1> QED
  BY <1>1, SameLeft

(* After these steps p works on nothing, or on the release of a space.     *)
LEMMA Resting ==
  ASSUME NEW p \in Proc, op'[p].at \notin {"alloc", "map", "copy", "copymap"}
  PROVE  CopyOK(p)' /\ GrowOK(p)'
BY DEF CopyOK, GrowOK

LEMMA KernelCopy ==
  ASSUME CInv, NEW i \in 0..(KERNEL_PDES-1), create_kernel_table(i)
  PROVE  CInv'
<1>1. MInv /\ MInv'
  BY KernelInv DEF CInv
<1>2. PICK a : a = NewPage
  OBVIOUS
<1>3. /\ addr_alloc_page(1) /\ UNCHANGED <<cr3, heap_end, op>>
      /\ table' = [table EXCEPT ![a] = Zeroed]
  BY <1>2 DEF create_kernel_table
<1>4. a \notin held
  BY <1>1, <1>2, <1>3, PageFacts DEF MInv
<1>5. \A r \in Root : SameTables(r)
  BY <1>1, <1>3, <1>4, NotHeld, OtherTables
<1>6. \A q \in Proc : Left(q)
  BY <1>3, <1>5, RootFacts, SameLeft
<1>7. \A q \in Proc : CopyOK(q) /\ GrowOK(q) /\ OpOK(q) /\ op[q] \in Op
  BY DEF CInv, MInv, MemTypeOK
<1> QED
  BY <1>1, <1>6, <1>7, LeftKeeps DEF CInv

LEMMA NewTaskCopy ==
  ASSUME CInv, NEW p \in Proc, new_task(p)
  PROVE  CInv'
<1>1. MInv /\ MInv'
  BY NewTaskInv DEF CInv
<1>2. /\ op[p].at = "idle" /\ memory_create_uvm /\ cr3' = [cr3 EXCEPT ![p] = NewPage]
      /\ op' = op /\ heap_end' = heap_end
  BY DEF new_task, Unborn
<1>3. \A q \in Proc : q # p => cr3'[q] = cr3[q]
  BY <1>1, <1>2 DEF MInv, MemTypeOK
<1>4. OthersLeft(p)
  BY <1>1, <1>2, <1>3, CreateFacts, QuietLeft
<1>5. CopyOK(p)' /\ GrowOK(p)'
  BY <1>2, Resting
<1> QED
  BY <1>1, <1>4, <1>5, CopyStep

LEMMA DestroyUvmCopy ==
  ASSUME CInv, NEW p \in Proc, memory_destroy_uvm(p)
  PROVE  CInv'
<1>1. MInv /\ MInv'
  BY DestroyUvmInv DEF CInv
<1>2. PICK n : n = Destroying(cr3[p], user_pde_start, 0)
  OBVIOUS
<1>3. /\ op' = [op EXCEPT ![p] = n] /\ n.at = "destroy" /\ table' = table
      /\ cr3' = [cr3 EXCEPT ![p] = 0] /\ heap_end' = [heap_end EXCEPT ![p] = MEMORY_TASK_BASE]
  BY <1>2 DEF memory_destroy_uvm, Becomes, destroy_from, Destroying
<1>4. /\ op'[p].at = "destroy"
      /\ \A q \in Proc : q # p => op'[q] = op[q] /\ cr3'[q] = cr3[q] /\ heap_end'[q] = heap_end[q]
  BY <1>1, <1>3 DEF MInv, MemTypeOK
<1>5. OthersLeft(p)
  BY <1>3, <1>4, QuietTables, QuietLeft
<1> QED
  BY <1>1, <1>4, <1>5, Resting, CopyStep

LEMMA DestroyPageCopy ==
  ASSUME CInv, NEW p \in Proc, destroy_page(p)
  PROVE  CInv'
<1>1. MInv /\ MInv' /\ OthersKept(p)
  BY DestroyPageInv DEF CInv
<1>2. PICK n : op' = [op EXCEPT ![p] = n] /\ n.at \in {"idle", "destroy"}
  BY DEF destroy_page, Becomes, Idle, Destroying
<1>3. op'[p].at \in {"idle", "destroy"} /\ \A q \in Proc : q # p => op'[q] = op[q]
  BY <1>1, <1>2 DEF MInv, MemTypeOK
<1>4. cr3' = cr3 /\ heap_end' = heap_end
  BY DEF destroy_page
<1>5. OthersLeft(p)
  BY <1>1, <1>3, <1>4, QuietLeft DEF OthersKept
<1> QED
  BY <1>1, <1>3, <1>5, Resting, CopyStep

LEMMA FreePageCopy ==
  ASSUME CInv, NEW p \in Proc, NEW v, memory_free_page(p, v)
  PROVE  CInv'
<1>1. MInv /\ MInv'
  BY FreePageInv DEF CInv
<1>2. op' = [op EXCEPT ![p] = [at |-> "panic"]] /\ UNCHANGED <<table, cr3, heap_end>>
  BY DEF memory_free_page, Becomes
<1>3. op'[p].at = "panic" /\ \A q \in Proc : q # p => op'[q] = op[q]
  BY <1>1, <1>2 DEF MInv, MemTypeOK
<1>4. OthersLeft(p)
  BY <1>2, <1>3, QuietTables, QuietLeft
<1> QED
  BY <1>1, <1>3, <1>4, Resting, CopyStep

(* The pages of a task begin at MEMORY_TASK_BASE.                          *)
LEMMA PageAbove ==
  ASSUME NEW v \in UserPage
  PROVE  \E k \in Nat : v = k * page_size /\ k >= FirstUser /\ k < LastUser
                       /\ v \in Nat /\ v >= MEMORY_TASK_BASE
<1>1. PICK k \in (user_pde_start * PTE_CNT)..(PDE_CNT * PTE_CNT - 1) : v = k * page_size
  BY DEF UserPage
<1>2. k \in Nat /\ k >= FirstUser /\ k < LastUser
  BY <1>1, LimitFacts DEF FirstUser, LastUser
<1> QED
  BY <1>1, <1>2, IndexFacts

LEMMA CopyUvmCopy ==
  ASSUME CInv, NEW p \in Proc, NEW q \in Proc, memory_copy_uvm(p, q)
  PROVE  CInv'
<1>1. MInv /\ MInv'
  BY CopyUvmInv DEF CInv
<1>2. PICK n : n = [at |-> "copy", child |-> q, to |-> NewPage, vaddr |-> MEMORY_TASK_BASE]
  OBVIOUS
<1>3. /\ op[p].at = "idle" /\ cr3[p] # 0 /\ memory_create_uvm
      /\ op' = [op EXCEPT ![p] = n] /\ cr3' = cr3 /\ heap_end' = heap_end
      /\ n.at = "copy" /\ n.to = NewPage /\ n.vaddr = MEMORY_TASK_BASE
  BY <1>2 DEF memory_copy_uvm, Becomes
<1>4. op'[p] = n /\ \A s \in Proc : s # p => op'[s] = op[s]
  BY <1>1, <1>3 DEF MInv, MemTypeOK
<1>5. (\A r \in Root : SameTables(r)) /\ (\A i \in UserPde : table'[NewPage][i] = 0)
  BY <1>1, <1>3, CreateFacts
<1>6. OthersLeft(p)
  BY <1>3, <1>4, <1>5, QuietLeft
<1>7. \A v \in UserPage : ~Has(<<"to", p>>, v)'
  <2>1. Dir(<<"to", p>>) = 0 /\ Dir(<<"to", p>>)' = NewPage
    BY <1>3, <1>4 DEF Dir
  <2>2. Steady(<<"to", p>>)
    BY <1>5, <2>1, RootFacts, NewRoot DEF Steady
  <2>3. \A i, j : PageOf(<<"to", p>>, i, j) = 0
    BY <2>1 DEF PageOf, TableOf
  <2> QED
    BY <2>2, <2>3, UserPageFacts DEF Has, Steady
<1>8. \A v \in UserPage : ~(v < MEMORY_TASK_BASE)
  <2>1. \A v \in UserPage : v \in Nat /\ v >= MEMORY_TASK_BASE
    BY PageAbove
  <2>2. MEMORY_TASK_BASE \in Nat
    BY LimitFacts
  <2> QED
    BY <2>1, <2>2
<1>9. CopyOK(p)'
  BY <1>3, <1>4, <1>7, <1>8 DEF CopyOK
<1>10. GrowOK(p)'
  BY <1>3, <1>4 DEF GrowOK
<1> QED
  BY <1>1, <1>6, <1>9, <1>10, CopyStep

(* The places of the pages that a task has mapped.                         *)
LEMMA MappedHas ==
  ASSUME NEW r \in Root, ~Cut(r), Dir(r) # 0
  PROVE  \A v \in UserPage : v \in Mapped(Dir(r)) <=> Has(r, v)
<1> SUFFICES ASSUME NEW v \in UserPage PROVE v \in Mapped(Dir(r)) <=> Has(r, v)
  OBVIOUS
<1>1. PICK i \in UserPde, j \in Pte : i = pde_index(v) /\ j = pte_index(v)
  BY UserPageFacts
<1>2. FromPde(r) = user_pde_start /\ FromPte(r) = 0 /\ i >= user_pde_start /\ j >= 0
  BY EntryFacts DEF FromPde, FromPte
<1>3. TableOf(r, i) = table[Dir(r)][i]
  BY <1>2 DEF TableOf
<1>4. PageOf(r, i, j) = IF table[Dir(r)][i] # 0 THEN table[table[Dir(r)][i]][j] ELSE 0
  BY <1>2, <1>3 DEF PageOf
<1> QED
  BY <1>1, <1>4 DEF Mapped, find_pte, pte_paddr, Has

LEMMA OwnSpace ==
  ASSUME NEW p \in Proc
  PROVE  /\ <<"cr3", p>> \in Root /\ ~Cut(<<"cr3", p>>) /\ Dir(<<"cr3", p>>) = cr3[p]
         /\ op[p].at \in {"copy", "copymap"} =>
              <<"to", p>> \in Root /\ ~Cut(<<"to", p>>) /\ Dir(<<"to", p>>) = op[p].to
BY RootFacts DEF Cut, Dir

LEMMA CopyPageCopy ==
  ASSUME CInv, NEW p \in Proc, copy_page(p)
  PROVE  CInv'
<1>1. MInv /\ MInv' /\ CopyOK(p)
  BY CopyPageInv DEF CInv
<1>2. PICK o, rest : o = op[p] /\ rest = {v \in Mapped(cr3[p]) : v >= o.vaddr}
  OBVIOUS
<1>3. o.at = "copy" /\ table' = table
  BY <1>2 DEF copy_page
<1>4. o.child \in Proc /\ o.vaddr \in Nat /\ o.to \in Nat
  <2>1. o \in CopyOp
    BY <1>1, <1>2, <1>3 DEF MInv, MemTypeOK, Op, Idle, AllocOp, MapOp, CopymapOp, DestroyOp
  <2> QED
    BY <2>1 DEF CopyOp
<1>5. op[o.child].at = "idle"
  BY <1>1, <1>2, <1>3 DEF MInv, ChildOK
<1>6. \A n : op' = [op EXCEPT ![p] = n] => op'[p] = n /\ \A q \in Proc : q # p => op'[q] = op[q]
  BY <1>1 DEF MInv, MemTypeOK
<1>7. CASE /\ rest = {} /\ Becomes(p, Idle)
           /\ cr3' = [cr3 EXCEPT ![o.child] = o.to]
           /\ heap_end' = [heap_end EXCEPT ![o.child] = heap_end[p]]
  <2>1. op'[p] = Idle /\ \A q \in Proc : q # p => op'[q] = op[q]
    BY <1>6, <1>7 DEF Becomes
  <2>2. \A q \in Proc : q # o.child => cr3'[q] = cr3[q] /\ heap_end'[q] = heap_end[q]
    BY <1>1, <1>7 DEF MInv, MemTypeOK
  <2>3. \A q \in Proc : Works(q) => q # o.child
    BY <1>5 DEF Works
  <2>4. OthersLeft(p)
    BY <1>3, <2>1, <2>2, <2>3, QuietTables, QuietLeft
  <2>5. op'[p].at \notin {"alloc", "map", "copy", "copymap"}
    BY <2>1 DEF Idle
  <2> QED
    BY <1>1, <2>4, <2>5, Resting, CopyStep
<1>8. ASSUME rest # {}, NEW a,
             Becomes(p, [at |-> "copymap", child |-> o.child, to |-> o.to,
                         vaddr |-> Min(rest), paddr |-> a]),
             UNCHANGED <<cr3, heap_end>>
      PROVE  CInv'
  <2>1. PICK n, m : m = Min(rest) /\ n = [at |-> "copymap", child |-> o.child, to |-> o.to,
                                          vaddr |-> m, paddr |-> a]
    OBVIOUS
  <2>2. /\ op'[p] = n /\ n.at = "copymap" /\ n.to = o.to /\ n.vaddr = m
        /\ \A q \in Proc : q # p => op'[q] = op[q]
    BY <1>6, <1>8, <2>1 DEF Becomes
  <2>3. OthersLeft(p)
    BY <1>3, <1>8, <2>2, QuietTables, QuietLeft
  <2>4. GrowOK(p)'
    BY <2>2 DEF GrowOK
  <2>5. m \in rest /\ \A v \in rest : m <= v
    <3>1. rest \subseteq Nat
      BY <1>2, UserPageFacts DEF Mapped
    <3> QED
      BY <1>8, <2>1, <3>1, MinNat
  <2>6. \A v \in UserPage : /\ Has(<<"cr3", p>>, v)' <=> Has(<<"cr3", p>>, v)
                            /\ Has(<<"to", p>>, v)' <=> Has(<<"to", p>>, v)
    <3>1. SameRoot(<<"cr3", p>>) /\ SameRoot(<<"to", p>>)
      BY <1>2, <1>3, <1>8, <2>2 DEF SameRoot, Dir, FromPde, FromPte, Cut
    <3>2. Steady(<<"cr3", p>>) /\ Steady(<<"to", p>>)
      BY <1>3, <3>1, QuietTables, RootFacts, SameTree DEF Steady
    <3> QED
      BY <3>2, UserPageFacts DEF Has, Steady
  <2>7. /\ cr3[p] # 0
        /\ \A v \in UserPage : Has(<<"to", p>>, v) <=> Has(<<"cr3", p>>, v) /\ v < o.vaddr
    BY <1>1, <1>2, <1>3 DEF CopyOK
  <2>8. /\ \A v \in UserPage : v \in rest <=> Has(<<"cr3", p>>, v) /\ v >= o.vaddr
        /\ rest \subseteq UserPage
    <3>1. \A v \in UserPage : v \in Mapped(cr3[p]) <=> Has(<<"cr3", p>>, v)
      BY <2>7, OwnSpace, MappedHas
    <3> QED
      BY <1>2, <3>1 DEF Mapped
  <2>9. \A v \in UserPage : v \in Nat
    BY UserPageFacts
  <2>10. \A v \in UserPage : Has(<<"cr3", p>>, v) => (v < o.vaddr <=> v < m)
    BY <1>4, <2>5, <2>8, <2>9
  <2>11. CopyOK(p)'
    BY <1>8, <2>2, <2>5, <2>6, <2>7, <2>8, <2>10 DEF CopyOK
  <2> QED
    BY <1>1, <2>3, <2>4, <2>11, CopyStep
<1>9. CASE Undo(p) /\ UNCHANGED <<cr3, heap_end>>
  <2>1. PICK n : n = Destroying(o.to, user_pde_start, 0)
    OBVIOUS
  <2>2. op' = [op EXCEPT ![p] = n] /\ n.at = "destroy"
    BY <1>2, <1>9, <2>1 DEF Undo, Becomes, destroy_from, Destroying
  <2>3. op'[p] = n /\ \A q \in Proc : q # p => op'[q] = op[q]
    BY <1>6, <2>2
  <2>4. OthersLeft(p)
    BY <1>3, <1>9, <2>3, QuietTables, QuietLeft
  <2>5. op'[p].at = "destroy"
    BY <2>2, <2>3
  <2> QED
    BY <1>1, <2>4, <2>5, Resting, CopyStep
<1> QED
  BY <1>2, <1>7, <1>8, <1>9 DEF copy_page

LEMMA MulSum ==
  ASSUME NEW a \in Nat, NEW b \in Nat, NEW P \in Nat, NEW s \in Nat
  PROVE  (a * P + b) * s = a * (P * s) + b * s
<1>1. (a * P + b) * s = (a * P) * s + b * s
  OBVIOUS
<1>2. (a * P) * s = a * (P * s)
  OBVIOUS
<1> QED
  BY <1>1, <1>2

(* A page is known by the two indexes of its address.                      *)
LEMMA IndexOf ==
  ASSUME NEW v \in UserPage
  PROVE  v = (pde_index(v) * PTE_CNT + pte_index(v)) * page_size
<1>1. PICK k \in Nat : v = k * page_size /\ v \in Nat
  BY PageAbove
<1>2. PICK P \in Nat \ {0}, s \in Nat \ {0}, d \in Nat \ {0} :
         P = PTE_CNT /\ s = page_size /\ d = P * s
  BY LimitFacts
<1>3. PICK a \in Nat, b \in 0..(P-1) : a = k \div P /\ b = k % P /\ k = a * P + b
  BY DivFacts
<1>4. v = a * d + b * s
  <2>1. b \in Nat /\ v = (a * P + b) * s
    BY <1>1, <1>2, <1>3
  <2> QED
    BY <1>2, <2>1, MulSum
<1>5. b * s \in Nat /\ b * s < d
  <2>1. (b + 1) * s <= P * s
    BY <1>3, MulMono
  <2>2. (b + 1) * s = b * s + s /\ b * s \in Nat
    BY <1>3
  <2> QED
    BY <1>2, <2>1, <2>2
<1>6. a * d \in Nat /\ (a + 1) * d = a * d + d
  OBVIOUS
<1>7. a * d <= v /\ v < (a + 1) * d
  BY <1>4, <1>5, <1>6
<1>8. v \div d = a
  <2>1. PICK c \in Nat : c = a + 1
    OBVIOUS
  <2>2. a * d <= v /\ v < c * d
    BY <1>7, <2>1
  <2>3. a <= v \div d /\ v \div d < c
    BY <1>1, <2>2, DivBounds
  <2>4. v \div d \in Nat
    BY <1>1, DivFacts
  <2> QED
    BY <2>1, <2>3, <2>4
<1>9. v \div s = k
  BY <1>1, <1>2, DivExact
<1>10. pde_index(v) = a /\ pte_index(v) = b
  BY <1>2, <1>3, <1>8, <1>9 DEF pde_index, pte_index
<1> QED
  BY <1>1, <1>2, <1>3, <1>10

(* Between two pages there is none.                                        *)
LEMMA NextPage ==
  ASSUME NEW v \in UserPage, NEW w \in UserPage
  PROVE  v < w + page_size <=> v < w \/ v = w
<1>1. PICK k \in Nat : v = k * page_size /\ v \in Nat
  BY PageAbove
<1>2. PICK l \in Nat : w = l * page_size /\ w \in Nat
  BY PageAbove
<1>3. PICK s \in Nat \ {0} : s = page_size
  BY LimitFacts
<1>4. (l + 1) * s = w + s
  BY <1>2, <1>3
<1>5. l + 1 <= k => w + s <= v
  BY <1>1, <1>3, <1>4, MulMono
<1>6. k <= l => v <= w
  BY <1>1, <1>2, <1>3, MulMono
<1> QED
  BY <1>1, <1>2, <1>3, <1>5, <1>6

(* A page mapped in a space of p leaves the other tasks alone.             *)
LEMMA MapsLeft ==
  ASSUME NEW p \in Proc, NEW r, r = <<"cr3", p>> \/ r = <<"to", p>>,
         NEW i, NEW j, NEW a, MapsOnly(r, i, j, a), cr3' = cr3,
         \A q \in Proc : q # p => op'[q] = op[q] /\ heap_end'[q] = heap_end[q]
  PROVE  OthersLeft(p)
<1> SUFFICES ASSUME NEW q \in Proc, q # p PROVE Left(q)
  BY DEF OthersLeft
<1>1. ASSUME NEW s \in Root, s # r PROVE Steady(s)
  <2>1. \A k, l : AtPage(s, k, l) # AtPage(r, i, j)
    BY <1>1 DEF AtPage
  <2> QED
    BY <2>1 DEF Steady, MapsOnly
<1>2. /\ <<"cr3", q>> \in Root /\ <<"to", q>> \in Root
      /\ <<"cr3", q>> # r /\ <<"to", q>> # r
  BY RootFacts
<1> QED
  BY <1>1, <1>2 DEF Left

LEMMA CopyMapCopy ==
  ASSUME CInv, NEW p \in Proc, copy_map(p)
  PROVE  CInv'
<1>1. MInv /\ MInv' /\ CopyOK(p)
  BY CopyMapInv DEF CInv
<1>2. PICK o : o = op[p]
  OBVIOUS
<1>3. o.at = "copymap" /\ UNCHANGED <<kernel_page_dir, cr3, heap_end>>
  BY <1>2 DEF copy_map
<1>4. o.vaddr \in Nat /\ o.to \in Nat /\ o.child \in Proc /\ o.paddr \in Nat
  <2>1. o \in CopymapOp
    BY <1>1, <1>2, <1>3 DEF MInv, MemTypeOK, Op, Idle, AllocOp, MapOp, CopyOp, DestroyOp
  <2> QED
    BY <2>1 DEF CopymapOp
<1>5. o.paddr # 0 /\ o.to # 0 /\ o.vaddr \in UserPage
  BY <1>1, <1>2, <1>3 DEF MInv, OpOK
<1>6. \A n : op' = [op EXCEPT ![p] = n] => op'[p] = n /\ \A q \in Proc : q # p => op'[q] = op[q]
  BY <1>1 DEF MInv, MemTypeOK
<1>7. CASE create_map(o.to, o.vaddr, o.paddr) /\ UNCHANGED leaked
             /\ Becomes(p, [at |-> "copy", child |-> o.child, to |-> o.to,
                            vaddr |-> copy_next(o.vaddr)])
  <2>1. PICK n : n = [at |-> "copy", child |-> o.child, to |-> o.to, vaddr |-> copy_next(o.vaddr)]
    OBVIOUS
  <2>2. /\ op' = [op EXCEPT ![p] = n] /\ op'[p] = n /\ \A q \in Proc : q # p => op'[q] = op[q]
        /\ n.at = "copy" /\ n.to = o.to /\ n.vaddr = o.vaddr + page_size
    BY <1>6, <1>7, <2>1 DEF Becomes, copy_next
  <2>3. PICK r \in Root : r = <<"to", p>>
    BY RootFacts
  <2>4. Dir(r) = o.to /\ ~Cut(r) /\ NewOf(p) = o.paddr
    BY <1>2, <1>3, <2>3 DEF Dir, Cut, NewOf
  <2>5. /\ \A s \in Root : SameRoot(s)
        /\ NewOf(p)' = 0 /\ \A q \in Proc : q # p => NewOf(q)' = NewOf(q)
    BY <1>1, <1>2, <1>3, <2>2, MapRoots
  <2>6. PICK i, j : i = pde_index(o.vaddr) /\ j = pte_index(o.vaddr)
    OBVIOUS
  <2>7. i \in UserPde /\ j \in Pte
    BY <1>5, <2>6, UserPageFacts
  <2>8. MapsOnly(r, i, j, o.paddr)
    <3>1. create_map(Dir(r), o.vaddr, o.paddr) /\ Dir(r) # 0
      BY <1>5, <1>7, <2>4
    <3>2. pde_index(o.vaddr) \in UserPde /\ pte_index(o.vaddr) \in Pte
      BY <2>6, <2>7
    <3>3. MapsOnly(r, pde_index(o.vaddr), pte_index(o.vaddr), o.paddr)
      BY <1>1, <1>3, <1>4, <1>5, <1>7, <2>4, <2>5, <3>1, <3>2, CreateMapInv
    <3> QED
      BY <2>6, <3>3
  <2>9. OthersLeft(p)
    BY <1>3, <2>2, <2>3, <2>8, MapsLeft
  <2>10. \A v \in UserPage : Has(<<"cr3", p>>, v)' <=> Has(<<"cr3", p>>, v)
    <3>1. PICK c \in Root : c = <<"cr3", p>> /\ c # r
      BY <2>3, RootFacts
    <3>2. \A k, l : AtPage(c, k, l) # AtPage(r, i, j)
      BY <3>1 DEF AtPage
    <3>3. Steady(c)
      BY <2>8, <3>2 DEF MapsOnly, Steady
    <3> QED
      BY <3>1, <3>3, UserPageFacts DEF Steady, Has
  <2>11. \A v \in UserPage : Has(<<"to", p>>, v)' <=> Has(<<"to", p>>, v) \/ v = o.vaddr
    <3>1. ASSUME NEW v \in UserPage, v # o.vaddr
          PROVE  AtPage(r, pde_index(v), pte_index(v)) # AtPage(r, i, j)
      <4>1. SUFFICES ASSUME pde_index(v) = i, pte_index(v) = j PROVE FALSE
        BY PlaceApart
      <4> QED
        BY <1>5, <2>6, <3>1, <4>1, IndexOf
    <3>2. ASSUME NEW v \in UserPage, v # o.vaddr
          PROVE  Has(<<"to", p>>, v)' <=> Has(<<"to", p>>, v)
      BY <2>3, <2>8, <3>1, <3>2, UserPageFacts DEF MapsOnly, Has
    <3>3. Has(<<"to", p>>, o.vaddr)'
      BY <1>5, <2>3, <2>6, <2>8 DEF MapsOnly, Has
    <3> QED
      BY <3>2, <3>3
  <2>12. /\ cr3[p] # 0 /\ Has(<<"cr3", p>>, o.vaddr)
         /\ \A v \in UserPage : Has(<<"to", p>>, v) <=> Has(<<"cr3", p>>, v) /\ v < o.vaddr
    BY <1>1, <1>2, <1>3 DEF CopyOK
  <2>13. \A v \in UserPage : v < o.vaddr + page_size <=> v < o.vaddr \/ v = o.vaddr
    BY <1>5, NextPage
  <2>14. CopyOK(p)'
    BY <1>3, <1>5, <2>2, <2>10, <2>11, <2>12, <2>13 DEF CopyOK
  <2>15. GrowOK(p)'
    BY <2>2 DEF GrowOK
  <2> QED
    BY <1>1, <2>9, <2>14, <2>15, CopyStep
<1>8. CASE Undo(p) /\ table' = table
  <2>1. PICK n : n = Destroying(o.to, user_pde_start, 0)
    OBVIOUS
  <2>2. op' = [op EXCEPT ![p] = n] /\ n.at = "destroy"
    BY <1>2, <1>8, <2>1 DEF Undo, Becomes, destroy_from, Destroying
  <2>3. op'[p] = n /\ \A q \in Proc : q # p => op'[q] = op[q]
    BY <1>6, <2>2
  <2>4. OthersLeft(p)
    BY <1>3, <1>8, <2>3, QuietTables, QuietLeft
  <2>5. op'[p].at = "destroy"
    BY <2>2, <2>3
  <2> QED
    BY <1>1, <2>4, <2>5, Resting, CopyStep
<1> QED
  BY <1>2, <1>7, <1>8 DEF copy_map

LEMMA CeilFacts ==
  ASSUME NEW x \in Nat, NEW d \in Nat \ {0}, NEW k, k = (x + d - 1) \div d
  PROVE  k \in Nat /\ k * d \in Nat /\ x <= k * d /\ k * d < x + d
<1>1. PICK y \in Nat : y = x + d - 1
  OBVIOUS
<1>2. PICK q \in Nat, m \in 0..(d-1) : q = y \div d /\ y = q * d + m
  BY <1>1, DivFacts
<1>3. q * d \in Nat /\ k = q
  BY <1>1, <1>2
<1> QED
  BY <1>1, <1>2, <1>3

(* The pages from the end of the heap on are those that sys_sbrk asks for. *)
LEMMA SbrkCovers ==
  ASSUME NEW h \in Nat, NEW e \in Nat, NEW from, from = up2(h), from <= e,
         NEW count, count = up2(e - from) \div page_size
  PROVE  \A v \in UserPage : v >= h /\ v < e =>
            \E n \in Nat : n < count /\ v = from + n * page_size
<1>1. PICK d \in Nat \ {0} : d = page_size
  BY LimitFacts
<1>2. PICK k : k = (h + d - 1) \div d
  OBVIOUS
<1>3. k \in Nat /\ k * d \in Nat /\ h <= k * d /\ k * d < h + d /\ from = k * d
  BY <1>1, <1>2, CeilFacts DEF up2
<1>4. PICK x \in Nat : x = e - from
  BY <1>3
<1>5. PICK c : c = (x + d - 1) \div d
  OBVIOUS
<1>6. c \in Nat /\ c * d \in Nat /\ x <= c * d
  BY <1>5, CeilFacts
<1>7. count = c
  BY <1>1, <1>4, <1>5, <1>6, DivExact DEF up2
<1> SUFFICES ASSUME NEW v \in UserPage, v >= h, v < e
             PROVE  \E n \in Nat : n < c /\ v = from + n * d
  BY <1>1, <1>7
<1>8. PICK l \in Nat : v = l * d /\ v \in Nat
  BY <1>1, PageAbove
<1>9. l >= k
  <2> SUFFICES ASSUME l + 1 <= k PROVE FALSE
    BY <1>3
  <2>1. (l + 1) * d <= k * d
    BY <1>3, MulMono
  <2>2. (l + 1) * d = v + d
    BY <1>8
  <2> QED
    BY <1>3, <1>8, <2>1, <2>2
<1>10. PICK n \in Nat : n = l - k
  BY <1>3, <1>9
<1>11. l * d = k * d + n * d /\ n * d \in Nat
  BY <1>3, <1>10
<1>12. n < c
  <2> SUFFICES ASSUME c <= n PROVE FALSE
    BY <1>6
  <2>1. c * d <= n * d
    BY <1>6, MulMono
  <2> QED
    BY <1>3, <1>4, <1>6, <1>8, <1>11, <2>1
<1> QED
  BY <1>3, <1>8, <1>11, <1>12

(* If that does not fit in the page that the heap ends in, it ends beyond. *)
LEMMA SbrkFrom ==
  ASSUME NEW h \in Nat, NEW incr \in Nat, incr # 0,
         ~(h % page_size # 0 /\ (h % page_size) + incr <= page_size)
  PROVE  up2(h) <= h + incr
<1>1. PICK d \in Nat \ {0} : d = page_size
  BY LimitFacts
<1>2. PICK q \in Nat, m \in 0..(d-1) : m = h % d /\ h = q * d + m
  BY DivFacts
<1>3. PICK k : k = (h + d - 1) \div d
  OBVIOUS
<1>4. k \in Nat /\ k * d \in Nat /\ k * d < h + d /\ up2(h) = k * d
  BY <1>1, <1>3, CeilFacts DEF up2
<1>5. /\ q * d \in Nat /\ (q + 1) * d = q * d + d /\ (q + 2) * d = q * d + d + d
  OBVIOUS
<1>6. CASE m = 0
  <2>1. ~(q + 1 <= k)
    <3> SUFFICES ASSUME q + 1 <= k PROVE FALSE
      OBVIOUS
    <3>1. (q + 1) * d <= k * d
      BY <1>4, MulMono
    <3> QED
      BY <1>2, <1>4, <1>5, <1>6, <3>1
  <2>2. k <= q
    BY <1>4, <2>1
  <2>3. k * d <= q * d
    BY <1>4, <2>2, MulMono
  <2> QED
    BY <1>2, <1>4, <1>5, <1>6, <2>3
<1>7. CASE m # 0
  <2>1. m + incr > d
    BY <1>1, <1>2, <1>7
  <2>2. ~(q + 2 <= k)
    <3> SUFFICES ASSUME q + 2 <= k PROVE FALSE
      OBVIOUS
    <3>1. (q + 2) * d <= k * d
      BY <1>4, MulMono
    <3> QED
      BY <1>2, <1>4, <1>5, <3>1
  <2>3. k <= q + 1
    BY <1>4, <2>2
  <2>4. k * d <= (q + 1) * d
    BY <1>4, <2>3, MulMono
  <2> QED
    BY <1>2, <1>4, <1>5, <2>1, <2>4
<1> QED
  BY <1>6, <1>7

(* The rest of the page that the heap ends in begins no page.              *)
LEMMA SbrkInside ==
  ASSUME NEW h \in Nat, NEW incr \in Nat, h % page_size # 0,
         (h % page_size) + incr <= page_size
  PROVE  \A v \in UserPage : ~(v >= h /\ v < h + incr)
<1>1. PICK d \in Nat \ {0} : d = page_size
  BY LimitFacts
<1>2. PICK q \in Nat, m \in 0..(d-1) : m = h % d /\ h = q * d + m
  BY DivFacts
<1>3. m # 0 /\ m + incr <= d
  BY <1>1, <1>2
<1> SUFFICES ASSUME NEW v \in UserPage, v >= h, v < h + incr PROVE FALSE
  OBVIOUS
<1>4. PICK l \in Nat : v = l * d /\ v \in Nat
  BY <1>1, PageAbove
<1>5. q * d \in Nat /\ (q + 1) * d = q * d + d
  OBVIOUS
<1>6. CASE l <= q
  <2>1. l * d <= q * d
    BY <1>6, MulMono
  <2> QED
    BY <1>2, <1>3, <1>4, <1>5, <2>1
<1>7. CASE q + 1 <= l
  <2>1. (q + 1) * d <= l * d
    BY <1>7, MulMono
  <2> QED
    BY <1>2, <1>3, <1>4, <1>5, <2>1
<1> QED
  BY <1>6, <1>7

LEMMA SbrkCopy ==
  ASSUME CInv, NEW p \in Proc, NEW incr \in Incr, sys_sbrk(p, incr)
  PROVE  CInv'
<1>1. MInv /\ MInv'
  BY SbrkInv DEF CInv
<1>2. PICK h, from, count : /\ h = heap_end[p] /\ from = up2(h)
                            /\ count = up2((h + incr) - from) \div page_size
  OBVIOUS
<1>3. op[p].at = "idle" /\ h + incr <= HeapLimit /\ incr # 0 /\ UNCHANGED <<table, cr3>>
  BY <1>2 DEF sys_sbrk
<1>4. h \in Nat /\ incr \in Nat /\ h + incr \in Nat
  <2>1. h \in MEMORY_TASK_BASE..HeapLimit
    BY <1>1, <1>2 DEF MInv, MemTypeOK
  <2>2. MEMORY_TASK_BASE \in Nat
    BY LimitFacts
  <2>3. incr \in Nat
    BY MemoryAssumption
  <2> QED
    BY <2>1, <2>2, <2>3
<1>7. from = IF h % page_size = 0 THEN h ELSE h + (page_size - (h % page_size))
  BY <1>2, <1>4, HeapFrom
<1>5. CASE set_heap_end(p, h + incr) /\ UNCHANGED op
  <2>1. \A q \in Proc : q # p => op'[q] = op[q] /\ heap_end'[q] = heap_end[q]
    BY <1>1, <1>5 DEF set_heap_end, MInv, MemTypeOK
  <2>2. OthersLeft(p)
    BY <1>3, <2>1, QuietTables, QuietLeft
  <2>3. op'[p].at \notin {"alloc", "map", "copy", "copymap"}
    BY <1>3, <1>5
  <2> QED
    BY <1>1, <2>2, <2>3, Resting, CopyStep
<1>6. CASE /\ ~(h % page_size # 0 /\ (h % page_size) + incr <= page_size)
           /\ Becomes(p, Allocating(h + incr, from, count, 0)) /\ UNCHANGED heap_end
  <2>1. PICK n : n = Allocating(h + incr, from, count, 0)
    OBVIOUS
  <2>2. /\ op' = [op EXCEPT ![p] = n] /\ n.at = "alloc" /\ n.end = h + incr /\ n.vaddr = from
        /\ n.page_count = count /\ n.i = 0
    BY <1>6, <2>1 DEF Becomes, Allocating
  <2>3. op'[p] = n /\ \A q \in Proc : q # p => op'[q] = op[q]
    BY <1>1, <2>2 DEF MInv, MemTypeOK
  <2>4. OthersLeft(p)
    BY <1>3, <1>6, <2>3, QuietTables, QuietLeft
  <2>5. CopyOK(p)'
    BY <2>2, <2>3 DEF CopyOK
  <2>6. from <= h + incr
    BY <1>2, <1>3, <1>4, <1>6, SbrkFrom
  <2>7. Covers(n, h)
    BY <1>2, <1>4, <2>2, <2>6, SbrkCovers DEF Covers
  <2>8. GrowOK(p)'
    <3>1. heap_end'[p] = h
      BY <1>2, <1>6
    <3>2. Covers(op[p], heap_end[p])'
      BY <2>3, <2>7, <3>1 DEF Covers
    <3> QED
      BY <2>2, <2>3, <3>2 DEF GrowOK
  <2> QED
    BY <1>1, <2>4, <2>5, <2>8, CopyStep
<1> QED
  BY <1>2, <1>5, <1>6, <1>7 DEF sys_sbrk

LEMMA AllocPageCopy ==
  ASSUME CInv, NEW p \in Proc, alloc_page(p)
  PROVE  CInv'
<1>1. MInv /\ MInv' /\ GrowOK(p) /\ OpOK(p) /\ op[p] \in Op
  BY AllocPageInv DEF CInv, MInv, MemTypeOK
<1>2. PICK o : o = op[p]
  OBVIOUS
<1>3. o.at = "alloc" /\ UNCHANGED <<table, cr3>>
  BY <1>2 DEF alloc_page
<1>4. \A n : op' = [op EXCEPT ![p] = n] => op'[p] = n /\ \A q \in Proc : q # p => op'[q] = op[q]
  BY <1>1 DEF MInv, MemTypeOK
<1>5. ASSUME NEW a, UNCHANGED heap_end,
             Becomes(p, [at |-> "map", end |-> o.end, vaddr |-> o.vaddr,
                         page_count |-> o.page_count, i |-> o.i, paddr |-> a])
      PROVE  CInv'
  <2>1. PICK n : n = [at |-> "map", end |-> o.end, vaddr |-> o.vaddr,
                      page_count |-> o.page_count, i |-> o.i, paddr |-> a]
    OBVIOUS
  <2>2. /\ op'[p] = n /\ n.at = "map" /\ n.end = o.end /\ n.vaddr = o.vaddr
        /\ n.page_count = o.page_count /\ n.i = o.i
        /\ \A q \in Proc : q # p => op'[q] = op[q]
    BY <1>4, <1>5, <2>1 DEF Becomes
  <2>3. OthersLeft(p)
    BY <1>3, <1>5, <2>2, QuietTables, QuietLeft
  <2>4. \A v \in UserPage : Has(<<"cr3", p>>, v)' <=> Has(<<"cr3", p>>, v)
    <3>1. SameRoot(<<"cr3", p>>) /\ <<"cr3", p>> \in Root
      BY <1>3, RootFacts DEF SameRoot, Dir, FromPde, FromPte, Cut
    <3>2. Steady(<<"cr3", p>>)
      BY <1>3, <3>1, QuietTables, SameTree DEF Steady
    <3> QED
      BY <3>2, UserPageFacts DEF Has, Steady
  <2>5. /\ Covers(o, heap_end[p])
        /\ \A k \in Nat : k < o.i => Has(<<"cr3", p>>, o.vaddr + k * page_size)
    BY <1>1, <1>2, <1>3 DEF GrowOK
  <2>6. \A k \in Nat : k < o.i => o.vaddr + k * page_size \in UserPage
    BY <1>1, <1>2, <1>3, HeapPages
  <2>7. Covers(op[p], heap_end[p])'
    BY <1>5, <2>2, <2>5 DEF Covers
  <2>8. GrowOK(p)'
    BY <2>2, <2>4, <2>5, <2>6, <2>7 DEF GrowOK
  <2>9. CopyOK(p)'
    BY <2>2 DEF CopyOK
  <2> QED
    BY <1>1, <2>3, <2>8, <2>9, CopyStep
<1>6. CASE set_heap_end(p, o.end) /\ Becomes(p, Idle)
  <2>1. op'[p] = Idle /\ \A q \in Proc : q # p => op'[q] = op[q]
    BY <1>4, <1>6 DEF Becomes
  <2>2. \A q \in Proc : q # p => heap_end'[q] = heap_end[q]
    BY <1>1, <1>6 DEF set_heap_end, MInv, MemTypeOK
  <2>3. OthersLeft(p)
    BY <1>3, <2>1, <2>2, QuietTables, QuietLeft
  <2>4. op'[p].at \notin {"alloc", "map", "copy", "copymap"}
    BY <2>1 DEF Idle
  <2> QED
    BY <1>1, <2>3, <2>4, Resting, CopyStep
<1> QED
  BY <1>2, <1>5, <1>6 DEF alloc_page

(* A turn of sys_sbrk that maps its page: the pages up to it are mapped.   *)
LEMMA MapGrows ==
  ASSUME CInv, NEW p \in Proc, NEW o, o = op[p], o.at = "map",
         NEW n, op' = [op EXCEPT ![p] = n], n.at \in {"alloc", "idle"},
         create_map(cr3[p], o.vaddr + o.i * page_size, o.paddr),
         UNCHANGED <<kernel_page_dir, cr3, leaked>>,
         \A q \in Proc : q # p => heap_end'[q] = heap_end[q]
  PROVE  OthersLeft(p) /\ \A k \in Nat : k <= o.i => Has(<<"cr3", p>>, o.vaddr + k * page_size)'
<1>1. MInv /\ GrowOK(p) /\ OpOK(p) /\ op[p] \in Op
  BY DEF CInv, MInv, MemTypeOK
<1>2. o.paddr \in Nat /\ o.paddr # 0 /\ cr3[p] # 0
  <2>1. o \in MapOp
    BY <1>1 DEF Op, Idle, AllocOp, CopyOp, CopymapOp, DestroyOp
  <2> QED
    BY <1>1, <2>1 DEF MapOp, OpOK
<1>3. PICK v : v = o.vaddr + o.i * page_size
  OBVIOUS
<1>4. /\ o.i \in Nat /\ o.page_count \in Nat /\ o.i < o.page_count
      /\ \A k \in Nat : k < o.page_count => o.vaddr + k * page_size \in UserPage
  BY <1>1, HeapPages
<1>5. v \in UserPage
  BY <1>3, <1>4
<1>6. PICK i \in UserPde, j \in Pte : i = pde_index(v) /\ j = pte_index(v)
  BY <1>5, UserPageFacts
<1>7. PICK r \in Root : r = <<"cr3", p>>
  BY RootFacts
<1>8. Dir(r) = cr3[p] /\ ~Cut(r) /\ NewOf(p) = o.paddr
  BY <1>7 DEF Dir, Cut, NewOf
<1>9. /\ \A s \in Root : SameRoot(s)
      /\ NewOf(p)' = 0 /\ \A q \in Proc : q # p => NewOf(q)' = NewOf(q)
  BY <1>1, MapRoots
<1>10. MapsOnly(r, i, j, o.paddr)
  <2>1. create_map(Dir(r), v, o.paddr) /\ Dir(r) # 0
    BY <1>2, <1>3, <1>8
  <2>2. pde_index(v) \in UserPde /\ pte_index(v) \in Pte
    BY <1>6
  <2>3. MapsOnly(r, pde_index(v), pte_index(v), o.paddr)
    BY <1>1, <1>2, <1>8, <1>9, <2>1, <2>2, CreateMapInv
  <2> QED
    BY <1>6, <2>3
<1>11. OthersLeft(p)
  <2>1. \A q \in Proc : q # p => op'[q] = op[q] /\ heap_end'[q] = heap_end[q]
    BY <1>1 DEF MInv, MemTypeOK
  <2> QED
    BY <1>7, <1>10, <2>1, MapsLeft
<1>12. ASSUME NEW w \in UserPage, Has(r, w) \/ w = v PROVE Has(r, w)'
  <2>1. CASE w = v
    BY <1>2, <1>6, <1>10, <2>1 DEF MapsOnly, Has
  <2>2. CASE w # v
    <3>1. AtPage(r, pde_index(w), pte_index(w)) # AtPage(r, i, j)
      <4>1. SUFFICES ASSUME pde_index(w) = i, pte_index(w) = j PROVE FALSE
        BY PlaceApart
      <4> QED
        BY <1>5, <1>6, <2>2, <4>1, IndexOf
    <3> QED
      BY <1>10, <1>12, <2>2, <3>1, UserPageFacts DEF MapsOnly, Has
  <2> QED
    BY <2>1, <2>2
<1>13. ASSUME NEW k \in Nat, k <= o.i PROVE Has(r, o.vaddr + k * page_size)'
  <2>1. PICK w \in UserPage : w = o.vaddr + k * page_size
    BY <1>4, <1>13
  <2>2. CASE k = o.i
    BY <1>3, <1>12, <2>1, <2>2
  <2>3. CASE k # o.i
    <3>1. k < o.i
      BY <1>4, <1>13, <2>3
    <3>2. Has(r, w)
      BY <1>1, <1>7, <2>1, <3>1 DEF GrowOK
    <3> QED
      BY <1>12, <2>1, <3>2
  <2> QED
    BY <2>2, <2>3
<1> QED
  BY <1>7, <1>11, <1>13

LEMMA MapPageCopy ==
  ASSUME CInv, NEW p \in Proc, map_page(p)
  PROVE  CInv'
<1>1. MInv /\ MInv' /\ GrowOK(p) /\ OpOK(p) /\ op[p] \in Op
  BY MapPageInv DEF CInv, MInv, MemTypeOK
<1>2. PICK o, v : o = op[p] /\ v = o.vaddr + o.i * page_size
  OBVIOUS
<1>3. o.at = "map" /\ UNCHANGED <<kernel_page_dir, cr3>>
  BY <1>2 DEF map_page
<1>4. \A n : op' = [op EXCEPT ![p] = n] => op'[p] = n /\ \A q \in Proc : q # p => op'[q] = op[q]
  BY <1>1 DEF MInv, MemTypeOK
<1>5. CASE create_map(cr3[p], v, o.paddr) /\ UNCHANGED leaked /\ o.i + 1 < o.page_count
             /\ Becomes(p, Allocating(o.end, o.vaddr, o.page_count, o.i + 1)) /\ UNCHANGED heap_end
  <2>1. PICK n : n = Allocating(o.end, o.vaddr, o.page_count, o.i + 1)
    OBVIOUS
  <2>2. /\ op' = [op EXCEPT ![p] = n] /\ n.at = "alloc" /\ n.end = o.end /\ n.vaddr = o.vaddr
        /\ n.page_count = o.page_count /\ n.i = o.i + 1
    BY <1>5, <2>1 DEF Becomes, Allocating
  <2>3. op'[p] = n
    BY <1>4, <2>2
  <2>4. OthersLeft(p) /\ \A k \in Nat : k <= o.i => Has(<<"cr3", p>>, o.vaddr + k * page_size)'
    <3>1. create_map(cr3[p], o.vaddr + o.i * page_size, o.paddr)
      BY <1>2, <1>5
    <3> QED
      BY <1>2, <1>3, <1>5, <2>2, <3>1, MapGrows
  <2>5. Covers(op[p], heap_end[p])'
    <3>1. Covers(o, heap_end[p])
      BY <1>1, <1>2, <1>3 DEF GrowOK
    <3> QED
      BY <1>5, <2>2, <2>3, <3>1 DEF Covers
  <2>6. \A k \in Nat : k < n.i => k <= o.i
    BY <1>1, <1>2, <1>3, <2>2, HeapPages
  <2>7. GrowOK(p)'
    BY <2>2, <2>3, <2>4, <2>5, <2>6 DEF GrowOK
  <2>8. CopyOK(p)'
    BY <2>2, <2>3 DEF CopyOK
  <2> QED
    BY <1>1, <2>4, <2>7, <2>8, CopyStep
<1>6. CASE create_map(cr3[p], v, o.paddr) /\ UNCHANGED leaked
             /\ Becomes(p, Idle) /\ set_heap_end(p, o.end)
  <2>1. PICK n : n = Idle
    OBVIOUS
  <2>2. op' = [op EXCEPT ![p] = n] /\ n.at = "idle"
    BY <1>6, <2>1 DEF Becomes, Idle
  <2>3. op'[p] = n
    BY <1>4, <2>2
  <2>4. OthersLeft(p)
    <3>1. create_map(cr3[p], o.vaddr + o.i * page_size, o.paddr)
      BY <1>2, <1>6
    <3>2. \A q \in Proc : q # p => heap_end'[q] = heap_end[q]
      BY <1>1, <1>6 DEF set_heap_end, MInv, MemTypeOK
    <3> QED
      BY <1>2, <1>3, <1>6, <2>2, <3>1, <3>2, MapGrows
  <2>5. op'[p].at \notin {"alloc", "map", "copy", "copymap"}
    BY <2>2, <2>3
  <2> QED
    BY <1>1, <2>4, <2>5, Resting, CopyStep
<1>7. ASSUME NEW n, Becomes(p, n), n.at \in {"idle", "panic"}, UNCHANGED <<table, heap_end>>
      PROVE  CInv'
  <2>1. op'[p] = n /\ \A q \in Proc : q # p => op'[q] = op[q]
    BY <1>4, <1>7 DEF Becomes
  <2>2. OthersLeft(p)
    BY <1>3, <1>7, <2>1, QuietTables, QuietLeft
  <2>3. op'[p].at \notin {"alloc", "map", "copy", "copymap"}
    BY <1>7, <2>1
  <2> QED
    BY <1>1, <2>2, <2>3, Resting, CopyStep
<1>8. CASE Becomes(p, Idle) /\ UNCHANGED <<table, heap_end>>
  BY <1>7, <1>8 DEF Idle
<1>9. CASE Becomes(p, [at |-> "panic"]) /\ UNCHANGED <<table, heap_end>>
  BY <1>7, <1>9
<1> QED
  BY <1>2, <1>5, <1>6, <1>8, <1>9 DEF map_page

LEMMA CInit == MInit => CInv
<1> SUFFICES ASSUME MInit PROVE CInv
  OBVIOUS
<1>1. \A p \in Proc : op[p].at = "idle"
  BY DEF MInit, Idle
<1> QED
  BY <1>1, MInitInv DEF CInv, CopyOK, GrowOK

LEMMA CNextInv ==
  ASSUME CInv, [MNext]_mvars
  PROVE  CInv'
<1>1. CASE UNCHANGED mvars
  <2>1. UNCHANGED <<table, cr3, heap_end, op>>
    BY <1>1 DEF mvars
  <2>2. \A q \in Proc : Left(q)
    BY <2>1, RootFacts, QuietTables, SameLeft
  <2>3. \A q \in Proc : CopyOK(q) /\ GrowOK(q) /\ OpOK(q) /\ op[q] \in Op
    BY DEF CInv, MInv, MemTypeOK
  <2>4. MInv'
    BY MNextInv DEF CInv
  <2> QED
    BY <2>2, <2>3, <2>4, LeftKeeps DEF CInv
<1>2. CASE \E i \in 0..(KERNEL_PDES-1) : create_kernel_table(i)
  BY <1>2, KernelCopy
<1>3. ASSUME NEW p \in Proc,
             \/ new_task(p)
             \/ \E incr \in Incr : sys_sbrk(p, incr)
             \/ alloc_page(p) \/ map_page(p)
             \/ \E q \in Proc : memory_copy_uvm(p, q)
             \/ copy_page(p) \/ copy_map(p)
             \/ memory_destroy_uvm(p) \/ destroy_page(p)
             \/ \E v \in UserPage : memory_free_page(p, v)
      PROVE  CInv'
  BY <1>3, NewTaskCopy, SbrkCopy, AllocPageCopy, MapPageCopy, CopyUvmCopy, CopyPageCopy,
     CopyMapCopy, DestroyUvmCopy, DestroyPageCopy, FreePageCopy
<1> QED
  BY <1>1, <1>2, <1>3 DEF MNext
-----------------------------------------------------------------------------
MappedIs == \A r \in Root : ~Cut(r) /\ Dir(r) # 0 =>
                \A v \in UserPage : v \in Mapped(Dir(r)) <=> Has(r, v)

LEMMA MappedFacts == MappedIs
BY MappedHas DEF MappedIs

LEMMA MappedNext == MappedIs'
BY MappedFacts, PTL

(* The end of the heap moves in sys_sbrk only.                             *)
LEMMA HeapStep ==
  ASSUME CInv, [MNext]_mvars, NEW p \in Proc, heap_end'[p] > heap_end[p], cr3[p] # 0
  PROVE  \/ op[p].at = "alloc" /\ NoRoom
         \/ {v \in UserPage : v >= heap_end[p] /\ v < heap_end'[p]} \subseteq Mapped(cr3[p])'
<1>1. MInv
  BY DEF CInv
<1>2. PICK h \in Nat : h = heap_end[p] /\ h >= MEMORY_TASK_BASE /\ MEMORY_TASK_BASE \in Nat
  <2>1. heap_end[p] \in MEMORY_TASK_BASE..HeapLimit
    BY <1>1 DEF MInv, MemTypeOK
  <2>2. MEMORY_TASK_BASE \in Nat
    BY LimitFacts
  <2> QED
    BY <2>1, <2>2
<1>3. heap_end'[p] # heap_end[p]
  BY <1>2
<1>4. CASE heap_end' = heap_end
  BY <1>3, <1>4
<1>5. ASSUME NEW q \in Proc, NEW incr \in Incr, sys_sbrk(q, incr)
      PROVE  {v \in UserPage : v >= heap_end[p] /\ v < heap_end'[p]} = {}
  <2>1. CASE UNCHANGED heap_end
    BY <1>3, <2>1
  <2>2. CASE set_heap_end(q, heap_end[q] + incr)
               /\ heap_end[q] % page_size # 0 /\ (heap_end[q] % page_size) + incr <= page_size
    <3>1. q = p
      BY <1>1, <1>3, <2>2 DEF set_heap_end, MInv, MemTypeOK
    <3>2. heap_end'[p] = h + incr
      BY <1>1, <1>2, <2>2, <3>1 DEF set_heap_end, MInv, MemTypeOK
    <3>3. incr \in Nat
      BY MemoryAssumption
    <3>4. \A v \in UserPage : ~(v >= h /\ v < h + incr)
      BY <1>2, <2>2, <3>1, <3>3, SbrkInside
    <3> QED
      BY <1>2, <3>2, <3>4
  <2> QED
    BY <1>5, <2>1, <2>2 DEF sys_sbrk
<1>6. ASSUME NEW q \in Proc, alloc_page(q) PROVE op[p].at = "alloc" /\ NoRoom
  <2>1. op[q].at = "alloc" /\ NoRoom /\ set_heap_end(q, op[q].end)
    BY <1>3, <1>6 DEF alloc_page
  <2>2. q = p
    BY <1>1, <1>3, <2>1 DEF set_heap_end, MInv, MemTypeOK
  <2> QED
    BY <2>1, <2>2
<1>7. ASSUME NEW q \in Proc, map_page(q)
      PROVE  {v \in UserPage : v >= heap_end[p] /\ v < heap_end'[p]} \subseteq Mapped(cr3[p])'
  <2>1. PICK o : o = op[q]
    OBVIOUS
  <2>2. /\ o.at = "map" /\ UNCHANGED <<kernel_page_dir, cr3, leaked>>
        /\ create_map(cr3[q], o.vaddr + o.i * page_size, o.paddr)
        /\ ~(o.i + 1 < o.page_count) /\ Becomes(q, Idle) /\ set_heap_end(q, o.end)
    BY <1>3, <1>7, <2>1 DEF map_page
  <2>3. q = p
    BY <1>1, <1>3, <2>2 DEF set_heap_end, MInv, MemTypeOK
  <2>4. /\ heap_end'[p] = o.end
        /\ \A s \in Proc : s # p => heap_end'[s] = heap_end[s]
    BY <1>1, <2>2, <2>3 DEF set_heap_end, MInv, MemTypeOK
  <2>5. PICK n : op' = [op EXCEPT ![p] = n] /\ n.at = "idle"
    <3>1. op' = [op EXCEPT ![p] = Idle]
      BY <2>2, <2>3 DEF Becomes
    <3>2. Idle.at = "idle"
      BY DEF Idle
    <3> QED
      BY <3>1, <3>2
  <2>6. \A k \in Nat : k <= o.i => Has(<<"cr3", p>>, o.vaddr + k * page_size)'
    BY <2>1, <2>2, <2>3, <2>4, <2>5, MapGrows
  <2>7. /\ Covers(o, heap_end[p]) /\ o.i \in Nat /\ o.page_count \in Nat
    <3>1. GrowOK(p) /\ OpOK(p) /\ op[p] \in Op
      BY <1>1 DEF CInv, MInv, MemTypeOK
    <3> QED
      BY <2>1, <2>2, <2>3, <3>1, HeapPages DEF GrowOK
  <2>8. \A v \in UserPage : v >= heap_end[p] /\ v < o.end => Has(<<"cr3", p>>, v)'
    <3> SUFFICES ASSUME NEW v \in UserPage, v >= heap_end[p], v < o.end
                 PROVE  Has(<<"cr3", p>>, v)'
      OBVIOUS
    <3>1. PICK k \in Nat : k < o.page_count /\ v = o.vaddr + k * page_size
      BY <2>7 DEF Covers
    <3>2. k <= o.i
      BY <2>2, <2>7, <3>1
    <3> QED
      BY <2>6, <3>1, <3>2
  <2>9. \A v \in UserPage : Has(<<"cr3", p>>, v)' => v \in Mapped(cr3[p])'
    <3>1. PICK r \in Root : r = <<"cr3", p>>
      BY RootFacts
    <3>2. ~Cut(r)' /\ Dir(r)' = cr3'[p] /\ cr3'[p] # 0
      BY <2>2, <3>1 DEF Cut, Dir
    <3>3. \A v \in UserPage : v \in Mapped(Dir(r))' <=> Has(r, v)'
      BY <3>2, MappedNext DEF MappedIs
    <3>4. Mapped(Dir(r))' = Mapped(cr3[p])'
      BY <3>2 DEF Mapped, find_pte, pte_paddr
    <3> QED
      BY <3>1, <3>3, <3>4
  <2> QED
    BY <2>4, <2>8, <2>9
<1>8. ASSUME NEW q \in Proc, copy_page(q) PROVE FALSE
  <2>1. PICK c : c = op[q].child
    OBVIOUS
  <2>2. heap_end' = [heap_end EXCEPT ![c] = heap_end[q]] /\ op[q].at = "copy"
    BY <1>3, <1>8, <2>1 DEF copy_page
  <2>3. p # c
    BY <1>1, <2>1, <2>2 DEF MInv, ChildOK
  <2> QED
    BY <1>1, <1>3, <2>2, <2>3 DEF MInv, MemTypeOK
<1>9. ASSUME NEW q \in Proc, memory_destroy_uvm(q) PROVE FALSE
  <2>1. heap_end' = [heap_end EXCEPT ![q] = MEMORY_TASK_BASE]
    BY <1>9 DEF memory_destroy_uvm
  <2>2. heap_end'[p] = MEMORY_TASK_BASE
    BY <1>1, <1>3, <2>1 DEF MInv, MemTypeOK
  <2> QED
    BY <1>2, <2>2
<1>10. CASE UNCHANGED mvars
  BY <1>4, <1>10 DEF mvars
<1>11. ASSUME NEW i, create_kernel_table(i) PROVE heap_end' = heap_end
  BY <1>11 DEF create_kernel_table
<1>12. ASSUME NEW q, NEW s, NEW v,
              \/ new_task(q) \/ memory_copy_uvm(q, s) \/ copy_map(q) \/ destroy_page(q)
              \/ memory_free_page(q, v)
       PROVE  heap_end' = heap_end
  BY <1>12 DEF new_task, memory_copy_uvm, copy_map, destroy_page, memory_free_page
<1> QED
  BY <1>4, <1>5, <1>6, <1>7, <1>8, <1>9, <1>10, <1>11, <1>12 DEF MNext

(* For any number of tasks and pages, and whatever the other tasks do in   *)
(* between the calls of addr_alloc_page: when sys_sbrk moves the end of a  *)
(* heap, every page that it moves it over is mapped, or the allocator has  *)
(* just given it none.                                                     *)
THEOREM HeapGrows == MSpec => HeapGrowth
<1> DEFINE Grows == \A p \in Proc : (heap_end'[p] > heap_end[p] /\ cr3[p] # 0) =>
          \/ op[p].at = "alloc" /\ NoRoom
          \/ {v \in UserPage : v >= heap_end[p] /\ v < heap_end'[p]} \subseteq Mapped(cr3[p])'
<1>1. MInit => CInv
  BY CInit
<1>2. CInv /\ [MNext]_mvars => CInv'
  BY CNextInv
<1>3. CInv /\ [MNext]_mvars => [Grows]_mvars
  BY HeapStep
<1> QED
  BY <1>1, <1>2, <1>3, PTL DEF MSpec, HeapGrowth

(* A task gets the directory of a copy only from the copy's last step.     *)
LEMMA CopyEnds ==
  ASSUME MInv, [MNext]_mvars, NEW p \in Proc, NEW q \in Proc, op[p].at = "copy",
         cr3[q] = 0, cr3'[q] = op[p].to
  PROVE  copy_page(p) /\ {v \in Mapped(cr3[p]) : v >= op[p].vaddr} = {}
<1>1. op[p].to # 0 /\ cr3'[q] # cr3[q] /\ cr3'[q] # 0
  BY DEF MInv, OpOK
<1>2. <<"to", p>> \in Root /\ Dir(<<"to", p>>) = op[p].to /\ op[p].to \in held
  <2>1. <<"to", p>> \in Root /\ Dir(<<"to", p>>) = op[p].to
    BY OwnSpace
  <2> QED
    BY <1>1, <2>1, TablesIn
<1>3. cr3 \in [Proc -> Nat]
  BY DEF MInv, MemTypeOK
<1>4. ASSUME NEW r \in Proc, new_task(r) PROVE FALSE
  <2>1. addr_alloc_page(1) /\ cr3' = [cr3 EXCEPT ![r] = NewPage]
    BY <1>4 DEF new_task, memory_create_uvm
  <2>2. NewPage \notin held
    BY <2>1, PageFacts DEF MInv
  <2> QED
    BY <1>1, <1>2, <1>3, <2>1, <2>2
<1>5. ASSUME NEW r \in Proc, copy_page(r)
      PROVE  r = p /\ {v \in Mapped(cr3[p]) : v >= op[p].vaddr} = {}
  <2>1. /\ op[r].at = "copy" /\ cr3' = [cr3 EXCEPT ![op[r].child] = op[r].to]
        /\ {v \in Mapped(cr3[r]) : v >= op[r].vaddr} = {}
    BY <1>1, <1>5 DEF copy_page
  <2>2. op[r].to = op[p].to
    BY <1>1, <1>3, <2>1
  <2>3. <<"to", r>> \in Root /\ Dir(<<"to", r>>) = op[r].to
    BY <2>1, OwnSpace
  <2>4. <<"to", r>> = <<"to", p>>
    BY <1>1, <1>2, <2>2, <2>3, TreesApart
  <2> QED
    BY <2>1, <2>4
<1>6. ASSUME NEW r \in Proc, memory_destroy_uvm(r) PROVE FALSE
  BY <1>1, <1>3, <1>6 DEF memory_destroy_uvm
<1>7. cr3' # cr3
  BY <1>1
<1>8. ~ UNCHANGED mvars
  BY <1>7 DEF mvars
<1>9. \A i : ~create_kernel_table(i)
  BY <1>7 DEF create_kernel_table
<1>10. ASSUME NEW r, NEW s, NEW v,
              \/ sys_sbrk(r, s) \/ alloc_page(r) \/ map_page(r) \/ memory_copy_uvm(r, s)
              \/ copy_map(r) \/ destroy_page(r) \/ memory_free_page(r, v)
       PROVE  FALSE
  BY <1>7, <1>10 DEF sys_sbrk, alloc_page, map_page, memory_copy_uvm, copy_map, destroy_page,
     memory_free_page
<1> QED
  BY <1>4, <1>5, <1>6, <1>8, <1>9, <1>10 DEF MNext

(* Two places in two directories hold two pages.                           *)
LEMMA PagesDiffer ==
  ASSUME MInv, NEW r \in Root, NEW s \in Root, r # s, NEW v \in UserPage, Has(r, v)
  PROVE  PageOf(r, pde_index(v), pte_index(v)) # PageOf(s, pde_index(v), pte_index(v))
<1>1. PICK i \in UserPde, j \in Pte : i = pde_index(v) /\ j = pte_index(v)
  BY UserPageFacts
<1>2. \A x, y \in Place : Own[x] # 0 /\ Own[x] = Own[y] => x = y
  BY DEF MInv, OneEach
<1>3. AtPage(r, i, j) # AtPage(s, i, j)
  BY DEF AtPage
<1>4. AtPage(r, i, j) \in Place /\ AtPage(s, i, j) \in Place
  BY PlaceIn
<1>5. Own[AtPage(r, i, j)] = PageOf(r, i, j) /\ Own[AtPage(s, i, j)] = PageOf(s, i, j)
  BY OwnFacts DEF OwnIs
<1> QED
  BY <1>1, <1>2, <1>3, <1>4, <1>5 DEF Has

LEMMA MappedAddr ==
  ASSUME NEW r \in Root, ~Cut(r), Dir(r) # 0, NEW v \in Mapped(Dir(r))
  PROVE  pte_paddr(Dir(r), v) = PageOf(r, pde_index(v), pte_index(v))
<1>1. v \in UserPage /\ table[Dir(r)][pde_index(v)] # 0
  BY DEF Mapped, find_pte
<1>2. PICK i \in UserPde, j \in Pte : i = pde_index(v) /\ j = pte_index(v)
  BY <1>1, UserPageFacts
<1>3. FromPde(r) = user_pde_start /\ FromPte(r) = 0 /\ i >= user_pde_start /\ j >= 0
  BY EntryFacts DEF FromPde, FromPte
<1>4. TableOf(r, i) = table[Dir(r)][i]
  BY <1>3 DEF TableOf
<1>5. PageOf(r, i, j) = table[table[Dir(r)][i]][j]
  BY <1>1, <1>2, <1>3, <1>4 DEF PageOf
<1> QED
  BY <1>2, <1>5 DEF find_pte, pte_paddr

LEMMA CopyLast ==
  ASSUME CInv, [MNext]_mvars, NEW p \in Proc, NEW q \in Proc, op[p].at = "copy",
         cr3[q] = 0, cr3'[q] = op[p].to
  PROVE  /\ Mapped(op[p].to) = Mapped(cr3[p])
         /\ \A v \in Mapped(cr3[p]) : pte_paddr(op[p].to, v) # pte_paddr(cr3[p], v)
<1>1. MInv /\ CopyOK(p) /\ op[p].to # 0
  BY DEF CInv, MInv, OpOK
<1>2. {v \in Mapped(cr3[p]) : v >= op[p].vaddr} = {}
  BY <1>1, CopyEnds
<1>3. PICK r \in Root, s \in Root : /\ r = <<"to", p>> /\ ~Cut(r) /\ Dir(r) = op[p].to
                                    /\ s = <<"cr3", p>> /\ ~Cut(s) /\ Dir(s) = cr3[p] /\ r # s
  BY OwnSpace
<1>4. /\ cr3[p] # 0
      /\ \A v \in UserPage : Has(r, v) <=> Has(s, v) /\ v < op[p].vaddr
  BY <1>1, <1>3 DEF CopyOK
<1>5. /\ \A v \in UserPage : v \in Mapped(op[p].to) <=> Has(r, v)
      /\ \A v \in UserPage : v \in Mapped(cr3[p]) <=> Has(s, v)
  BY <1>1, <1>3, <1>4, MappedHas
<1>6. \A v \in UserPage : v \in Nat /\ op[p].vaddr \in Nat
  <2>1. op[p] \in CopyOp
    BY <1>1 DEF MInv, MemTypeOK, Op, Idle, AllocOp, MapOp, CopymapOp, DestroyOp
  <2> QED
    BY <2>1, UserPageFacts DEF CopyOp
<1>7. Mapped(op[p].to) = Mapped(cr3[p])
  <2>1. Mapped(op[p].to) \subseteq UserPage /\ Mapped(cr3[p]) \subseteq UserPage
    BY DEF Mapped
  <2>2. \A v \in Mapped(cr3[p]) : v < op[p].vaddr
    BY <1>2, <1>6, <2>1
  <2> QED
    BY <1>4, <1>5, <2>1, <2>2
<1>8. ASSUME NEW v \in Mapped(cr3[p]) PROVE pte_paddr(op[p].to, v) # pte_paddr(cr3[p], v)
  <2>1. v \in UserPage /\ v \in Mapped(Dir(r)) /\ v \in Mapped(Dir(s))
    BY <1>3, <1>7, <1>8 DEF Mapped
  <2>2. Has(r, v)
    BY <1>3, <1>5, <2>1
  <2>3. /\ pte_paddr(op[p].to, v) = PageOf(r, pde_index(v), pte_index(v))
        /\ pte_paddr(cr3[p], v) = PageOf(s, pde_index(v), pte_index(v))
    BY <1>1, <1>3, <1>4, <2>1, MappedAddr
  <2> QED
    BY <1>1, <1>3, <2>1, <2>2, <2>3, PagesDiffer
<1> QED
  BY <1>7, <1>8

(* For any number of tasks and pages, and whatever the other tasks do      *)
(* while memory_copy_uvm runs: the copy that it returns maps exactly the   *)
(* pages that the original maps, each to a page of its own.                *)
THEOREM CopiesComplete == MSpec => CopyComplete
<1> DEFINE Complete ==
       \A p, q \in Proc :
          (op[p].at = "copy" /\ cr3[q] = 0 /\ cr3'[q] = op[p].to)
            => /\ Mapped(op[p].to) = Mapped(cr3[p])
               /\ \A v \in Mapped(cr3[p]) : pte_paddr(op[p].to, v) # pte_paddr(cr3[p], v)
<1>1. MInit => CInv
  BY CInit
<1>2. CInv /\ [MNext]_mvars => CInv'
  BY CNextInv
<1>3. CInv /\ [MNext]_mvars => [Complete]_mvars
  BY CopyLast
<1> QED
  BY <1>1, <1>2, <1>3, PTL DEF MSpec, CopyComplete
-----------------------------------------------------------------------------
(* A sum of a multiple and a remainder.                                    *)
LEMMA ModSum ==
  ASSUME NEW k \in Nat, NEW d \in Nat \ {0}, NEW o \in 0..(d-1)
  PROVE  (k * d + o) % d = o /\ (k * d + o) \div d = k
<1>1. PICK x \in Nat : x = k * d
  OBVIOUS
<1>2. PICK y \in Nat : y = x + o
  BY <1>1
<1>3. PICK q \in Nat, m \in 0..(d-1) : q = y \div d /\ m = y % d /\ y = q * d + m
  BY DivFacts
<1>4. q = k
  <2>1. PICK c \in Nat : c = k + 1
    OBVIOUS
  <2>2. c * d = x + d
    BY <1>1, <2>1
  <2>3. k * d <= y /\ y < c * d
    BY <1>1, <1>2, <2>2
  <2>4. k <= q /\ q < c
    BY <1>3, <2>3, DivBounds
  <2> QED
    BY <2>1, <2>4
<1>5. q * d = x
  BY <1>1, <1>4
<1> QED
  BY <1>1, <1>2, <1>3, <1>4, <1>5

(* A virtual address of a task is an offset into a page of it, and has the *)
(* indexes of that page.                                                   *)
LEMMA AddrSplit ==
  ASSUME NEW v \in MEMORY_TASK_BASE..(HeapLimit-1)
  PROVE  \E u \in UserPage, k \in Nat, o \in 0..(page_size-1) :
            /\ u = k * page_size /\ v = u + o /\ u \in Nat
            /\ v \div page_size = k /\ v % page_size = o
            /\ pde_index(v) = pde_index(u) /\ pte_index(v) = pte_index(u)
<1>1. PICK P \in Nat \ {0}, s \in Nat \ {0}, d \in Nat \ {0} :
         P = PTE_CNT /\ s = page_size /\ d = P * s
  BY LimitFacts
<1>2. v \in Nat /\ FirstUser * s <= v /\ v < LastUser * s /\ FirstUser \in Nat /\ LastUser \in Nat
  BY <1>1, LimitFacts
<1>3. PICK k \in Nat, o \in 0..(s-1) : k = v \div s /\ o = v % s /\ v = k * s + o
  BY <1>2, DivFacts
<1>4. FirstUser <= k /\ k < LastUser
  BY <1>2, <1>3, DivBounds
<1>5. PICK u \in UserPage : u = k * s /\ u \in Nat
  BY <1>1, <1>4, IndexFacts
<1>6. PICK a \in Nat, b \in Nat : a = pde_index(u) /\ b = pte_index(u) /\ b < P
  BY <1>1, UserPageFacts, EntryFacts
<1>7. u = (a * P + b) * s
  BY <1>1, <1>6, IndexOf
<1>8. u = a * d + b * s
  BY <1>1, <1>7, MulSum
<1>9. b * s \in Nat /\ b * s + s <= d
  <2>1. PICK c \in Nat : c = b + 1
    OBVIOUS
  <2>2. c * s <= P * s
    BY <1>6, <2>1, MulMono
  <2>3. c * s = b * s + s /\ b * s \in Nat
    BY <2>1
  <2> QED
    BY <1>1, <2>2, <2>3
<1>10. PICK c \in Nat : c = a + 1
  OBVIOUS
<1>11. a * d \in Nat /\ c * d = a * d + d
  BY <1>10
<1>12. a * d <= v /\ v < c * d
  BY <1>3, <1>5, <1>8, <1>9, <1>11
<1>13. a <= v \div d /\ v \div d < c /\ v \div d \in Nat
  BY <1>2, <1>12, DivBounds, DivFacts
<1>14. v \div d = a
  BY <1>10, <1>13
<1>15. u \div s = k
  BY <1>5, DivExact
<1>16. pde_index(v) = pde_index(u) /\ pte_index(v) = pte_index(u)
  BY <1>1, <1>3, <1>6, <1>14, <1>15 DEF pde_index, pte_index
<1> QED
  BY <1>1, <1>3, <1>5, <1>16

(* The address of a page is aligned.                                       *)
LEMMA Aligned ==
  ASSUME NEW a \in PageAddr, NEW o \in 0..(page_size-1)
  PROVE  a \in Nat /\ (a + o) % page_size = o
<1>1. PICK i \in 0..(bit_count-1) : a = start + i * page_size
  BY DEF PageAddr, page_addr
<1>2. PICK s \in Nat \ {0} : s = page_size
  BY LimitFacts
<1>3. i \in Nat /\ start \in Nat
  BY PageAllocAssumption
<1>4. PICK q \in Nat : start = q * s
  <2>1. start = (start \div s) * s + (start % s) /\ start \div s \in Nat /\ start % s = 0
    BY <1>2, <1>3, DivFacts, MemoryAssumption
  <2>2. PICK q \in Nat : q = start \div s
    BY <2>1
  <2>3. q * s \in Nat
    OBVIOUS
  <2>4. start = q * s
    BY <2>1, <2>2, <2>3
  <2> QED
    BY <2>4
<1>5. PICK k \in Nat : k = q + i
  BY <1>3
<1>6. k * s = q * s + i * s /\ k * s \in Nat
  BY <1>3, <1>5
<1>7. a = k * s
  BY <1>1, <1>2, <1>4, <1>6
<1>8. o \in 0..(s-1)
  BY <1>2
<1>9. (k * s + o) % s = o
  BY <1>8, ModSum
<1> QED
  BY <1>2, <1>6, <1>7, <1>9

(* memory_get_paddr of a task's address.                                   *)
LEMMA GetPaddr ==
  ASSUME MInv, NEW p \in Proc, NEW dir, dir = cr3[p], dir # 0,
         NEW v \in MEMORY_TASK_BASE..(HeapLimit-1)
  PROVE  /\ memory_get_paddr(dir, v) \in Nat
         /\ find_pte(dir, v) = 0 => memory_get_paddr(dir, v) = 0
         /\ (v \div page_size) * page_size \in Mapped(dir) =>
               /\ memory_get_paddr(dir, v) = pte_paddr(dir, v) + (v % page_size)
               /\ pte_paddr(dir, v) \in Nat \ {0}
               /\ memory_get_paddr(dir, v) # 0
               /\ memory_get_paddr(dir, v) % page_size = v % page_size
<1>1. PICK u \in UserPage, k \in Nat, o \in 0..(page_size-1) :
            /\ u = k * page_size /\ v = u + o /\ u \in Nat
            /\ v \div page_size = k /\ v % page_size = o
            /\ pde_index(v) = pde_index(u) /\ pte_index(v) = pte_index(u)
  BY AddrSplit
<1>2. PICK r \in Root : r = <<"cr3", p>> /\ ~Cut(r) /\ Dir(r) = dir
  BY OwnSpace
<1>3. PICK i \in UserPde, j \in Pte : i = pde_index(u) /\ j = pte_index(u)
  BY UserPageFacts
<1>4. FromPde(r) = user_pde_start /\ FromPte(r) = 0 /\ i >= user_pde_start /\ j >= 0
  BY <1>2, EntryFacts DEF FromPde, FromPte
<1>5. PICK t : t = table[dir][i]
  OBVIOUS
<1>6. TableOf(r, i) = t
  BY <1>2, <1>4, <1>5 DEF TableOf
<1>7. PageOf(r, i, j) = IF t # 0 THEN table[t][j] ELSE 0
  BY <1>4, <1>6 DEF PageOf
<1>8. find_pte(dir, v) = t /\ pte_paddr(dir, v) = table[t][j]
  BY <1>1, <1>3, <1>5 DEF find_pte, pte_paddr
<1>9. t # 0 => t \in PageAddr
  BY <1>6, TablesIn
<1>10. t # 0 => table[t][j] \in Nat
  <2>1. j \in Entries
    BY LimitFacts, MemoryAssumption DEF Pte, Entries
  <2> QED
    BY <1>9, <2>1 DEF MInv, MemTypeOK
<1>11. o \in Nat
  BY LimitFacts
<1>12. memory_get_paddr(dir, v) = IF t = 0 THEN 0 ELSE table[t][j] + o
  BY <1>1, <1>8 DEF memory_get_paddr
<1>13. ASSUME u \in Mapped(dir)
       PROVE  /\ memory_get_paddr(dir, v) = pte_paddr(dir, v) + o
              /\ pte_paddr(dir, v) \in Nat \ {0}
              /\ memory_get_paddr(dir, v) # 0
              /\ memory_get_paddr(dir, v) % page_size = o
  <2>1. t # 0 /\ table[t][j] # 0
    BY <1>3, <1>5, <1>13 DEF Mapped, find_pte, pte_paddr
  <2>2. PageOf(r, i, j) = table[t][j]
    BY <1>7, <2>1
  <2>3. \A x \in Place : Own[x] # 0 => Own[x] \in held
    BY DEF MInv, OneEach
  <2>4. AtPage(r, i, j) \in Place /\ Own[AtPage(r, i, j)] = PageOf(r, i, j)
    BY PlaceIn, OwnFacts DEF OwnIs
  <2>5. table[t][j] \in PageAddr
    BY <2>1, <2>2, <2>3, <2>4, HeldAddr DEF MInv
  <2>6. PICK a \in PageAddr : a = table[t][j]
    BY <2>5
  <2>7. a \in Nat /\ (a + o) % page_size = o /\ a # 0
    BY <2>1, <2>6, Aligned
  <2> QED
    BY <1>8, <1>11, <1>12, <2>1, <2>6, <2>7
<1> QED
  BY <1>1, <1>8, <1>10, <1>11, <1>12, <1>13

-----------------------------------------------------------------------------
(* The loop of memory_copy_uvm_data, as a function of the bytes that are   *)
(* left: it stops where there is no page table, and else copies add[left]  *)
(* and goes on with c[left] bytes less.                                    *)
Loop(n, c, stop, add, f) ==
    f = [left \in 0..n |->
          IF left = 0 THEN [ret |-> 0, bytes |-> {}]
          ELSE IF left \in stop THEN [ret |-> -1, bytes |-> {}]
          ELSE [ret   |-> f[left - c[left]].ret,
                bytes |-> add[left] \union f[left - c[left]].bytes]]

\* What a turn of the loop gives, from the function of the turns after it.
Turn(c, stop, add, f, left) ==
    IF left = 0 THEN [ret |-> 0, bytes |-> {}]
    ELSE IF left \in stop THEN [ret |-> -1, bytes |-> {}]
    ELSE [ret   |-> f[left - c[left]].ret,
          bytes |-> add[left] \union f[left - c[left]].bytes]

LEMMA LoopTurn ==
  ASSUME NEW n, NEW c, NEW stop, NEW add, NEW f
  PROVE  Loop(n, c, stop, add, f)
           <=> f = [left \in 0..n |-> Turn(c, stop, add, f, left)]
BY DEF Loop, Turn

(* The loop ends: whatever is left, there is a function that satisfies the *)
(* equation, since every turn copies at least a byte.                      *)
LEMMA LoopEnds ==
  ASSUME NEW size \in Nat, NEW c, NEW stop, NEW add,
         \A left \in 1..size : c[left] \in 1..left
  PROVE  \E f : Loop(size, c, stop, add, f)
<1> DEFINE Good(n) == \E f : Loop(n, c, stop, add, f)
<1>1. PICK T : T = {n \in 0..size : ~Good(n)}
  OBVIOUS
<1>2. T \in SUBSET Nat
  BY <1>1
<1>3. T = {}
  <2> SUFFICES ASSUME T # {} PROVE FALSE
    OBVIOUS
  <2>1. PICK n \in T : \A m \in T : n <= m
    BY <1>2, LeastNat
  <2>2. n \in 0..size /\ ~Good(n)
    BY <1>1, <2>1
  <2>3. PICK f : /\ n # 0 => /\ f = [left \in 0..(n-1) |-> Turn(c, stop, add, f, left)]
    <3>1. CASE n = 0
      BY <3>1
    <3>2. CASE n # 0
      <4>1. PICK m \in 0..size : m = n - 1 /\ m \notin T
        BY <2>1, <2>2, <3>2
      <4>2. Good(m)
        BY <1>1, <4>1
      <4>3. PICK f : Loop(m, c, stop, add, f)
        BY <4>2
      <4>4. f = [left \in 0..m |-> Turn(c, stop, add, f, left)]
        BY <4>3, LoopTurn
      <4> QED
        BY <4>1, <4>4
    <3> QED
      BY <3>1, <3>2
  <2>4. PICK g : g = [left \in 0..n |-> IF left = n THEN Turn(c, stop, add, f, n) ELSE f[left]]
    OBVIOUS
  <2>5. \A left \in 0..n : left # n => g[left] = f[left]
    BY <2>4
  <2>6. ASSUME NEW left \in 0..n
        PROVE  Turn(c, stop, add, g, left) = Turn(c, stop, add, f, left)
    <3>1. CASE left = 0
      BY <3>1 DEF Turn
    <3>2. CASE left # 0
      <4>1. c[left] \in 1..left
        BY <2>2, <3>2
      <4>2. PICK l \in 0..n : l = left - c[left] /\ l # n
        BY <2>2, <3>2, <4>1
      <4>3. g[left - c[left]] = f[left - c[left]]
        BY <2>5, <4>2
      <4> QED
        BY <4>3 DEF Turn
    <3> QED
      BY <3>1, <3>2
  <2>7. \A left \in 0..n : g[left] = Turn(c, stop, add, g, left)
    <3> SUFFICES ASSUME NEW left \in 0..n PROVE g[left] = Turn(c, stop, add, g, left)
      OBVIOUS
    <3>1. CASE left = n
      BY <2>4, <2>6, <3>1
    <3>2. CASE left # n
      <4>1. n # 0 /\ left \in 0..(n-1)
        BY <2>2, <3>2
      <4>2. f[left] = Turn(c, stop, add, f, left)
        BY <2>3, <4>1
      <4> QED
        BY <2>5, <2>6, <3>2, <4>2
    <3> QED
      BY <3>1, <3>2
  <2>8. g = [left \in 0..n |-> Turn(c, stop, add, g, left)]
    BY <2>4, <2>7
  <2>9. Loop(n, c, stop, add, g)
    BY <2>8, LoopTurn
  <2> QED
    BY <2>2, <2>9
<1>4. Good(size)
  BY <1>1, <1>3
<1> QED
  BY <1>4

\* The body of memory_copy_uvm_data's loop, and its equation.
CopyTurn(to, dir, from, size, f, left) ==
    LET done      == size - left
        to_paddr  == memory_get_paddr(dir, to + done)
        curr_size == Min({chunk(to_paddr), left})
    IN  IF left = 0 THEN [ret |-> 0, bytes |-> {}]
        ELSE IF to_paddr = 0 THEN [ret |-> -1, bytes |-> {}]
        ELSE [ret   |-> f[left - curr_size].ret,
              bytes |-> {<<to_paddr + i, from + done + i>> : i \in 0..(curr_size-1)}
                        \union f[left - curr_size].bytes]
CopySolves(to, dir, from, size, f) ==
    f = [left \in 0..size |-> CopyTurn(to, dir, from, size, f, left)]

(* If its equation has a solution, what the function returns is a value of *)
(* a solution.                                                             *)
LEMMA CopySolved ==
  ASSUME NEW to, NEW dir, NEW from, NEW size, NEW g, CopySolves(to, dir, from, size, g)
  PROVE  \E f : /\ CopySolves(to, dir, from, size, f)
                /\ memory_copy_uvm_data(to, dir, from, size) = f[size]
<1>1. memory_copy_uvm_data(to, dir, from, size)
        = (CHOOSE f : CopySolves(to, dir, from, size, f))[size]
  BY Zenon DEF memory_copy_uvm_data, CopySolves, CopyTurn
<1>2. CopySolves(to, dir, from, size, CHOOSE f : CopySolves(to, dir, from, size, f))
  BY Zenon
<1> QED
  BY <1>1, <1>2, Zenon

(* The bytes that are copied in the turn with left bytes left, the turns   *)
(* that find no page, and what they copy.                                  *)
PaddrAt(to, dir, size, left) == memory_get_paddr(dir, to + (size - left))
Steps(to, dir, size) ==
    [left \in 1..size |-> Min({chunk(PaddrAt(to, dir, size, left)), left})]
Stops(to, dir, size) == {left \in 1..size : PaddrAt(to, dir, size, left) = 0}
Adds(to, dir, size) ==
    [left \in 1..size |-> {<<PaddrAt(to, dir, size, left) + i, 0 + (size - left) + i>> :
                             i \in 0..(Steps(to, dir, size)[left] - 1)}]

LEMMA CopyIsLoop ==
  ASSUME NEW to, NEW dir, NEW size \in Nat, NEW f
  PROVE  CopySolves(to, dir, 0, size, f)
           <=> Loop(size, Steps(to, dir, size), Stops(to, dir, size), Adds(to, dir, size), f)
<1>1. PICK c, st, ad : /\ c = Steps(to, dir, size) /\ st = Stops(to, dir, size)
                       /\ ad = Adds(to, dir, size)
  OBVIOUS
<1>2. ASSUME NEW left \in 0..size
      PROVE  CopyTurn(to, dir, 0, size, f, left) = Turn(c, st, ad, f, left)
  <2>1. CASE left = 0
    BY <2>1 DEF CopyTurn, Turn
  <2>2. CASE left # 0
    <3>1. left \in 1..size
      BY <2>2
    <3>2. PICK a, z : /\ a = PaddrAt(to, dir, size, left)
                      /\ z = Min({chunk(PaddrAt(to, dir, size, left)), left})
      OBVIOUS
    <3>3. c[left] = z
      BY <1>1, <3>1, <3>2 DEF Steps
    <3>4. left \in st <=> a = 0
      BY <1>1, <3>1, <3>2 DEF Stops
    <3>5. ad[left] = {<<a + i, 0 + (size - left) + i>> : i \in 0..(z - 1)}
      <4>1. ad[left] = {<<PaddrAt(to, dir, size, left) + i, 0 + (size - left) + i>> :
                             i \in 0..(Steps(to, dir, size)[left] - 1)}
        BY <1>1, <3>1, Zenon DEF Adds
      <4> QED
        BY <1>1, <3>2, <3>3, <4>1
    <3>6. CopyTurn(to, dir, 0, size, f, left)
            = IF a = 0 THEN [ret |-> -1, bytes |-> {}]
              ELSE [ret   |-> f[left - z].ret,
                    bytes |-> {<<a + i, 0 + (size - left) + i>> : i \in 0..(z - 1)}
                              \union f[left - z].bytes]
      BY <2>2, <3>2, Zenon DEF CopyTurn, PaddrAt
    <3>7. Turn(c, st, ad, f, left)
            = IF left \in st THEN [ret |-> -1, bytes |-> {}]
              ELSE [ret   |-> f[left - c[left]].ret,
                    bytes |-> ad[left] \union f[left - c[left]].bytes]
      BY <2>2, Zenon DEF Turn
    <3> QED
      BY <3>3, <3>4, <3>5, <3>6, <3>7
  <2> QED
    BY <2>1, <2>2
<1>3. [left \in 0..size |-> CopyTurn(to, dir, 0, size, f, left)]
        = [left \in 0..size |-> Turn(c, st, ad, f, left)]
  BY <1>2
<1>4. CopySolves(to, dir, 0, size, f) <=> f = [left \in 0..size |-> Turn(c, st, ad, f, left)]
  BY <1>3, Zenon DEF CopySolves
<1> QED
  BY <1>1, <1>4, LoopTurn

(* Every turn copies at least one of the bytes that are left, so that the  *)
(* loop has an end and its value is what the function returns.             *)
LEMMA CopyReturns ==
  ASSUME MInv, NEW p \in Proc, NEW dir, dir = cr3[p], dir # 0,
         NEW to \in MEMORY_TASK_BASE..(HeapLimit-1), NEW size \in 1..(HeapLimit - to)
  PROVE  /\ \A left \in 1..size : Steps(to, dir, size)[left] \in 1..left
         /\ \E f : /\ Loop(size, Steps(to, dir, size), Stops(to, dir, size),
                           Adds(to, dir, size), f)
                   /\ memory_copy_uvm_data(to, dir, 0, size) = f[size]
<1> USE LimitFacts
<1>1. ASSUME NEW left \in 1..size PROVE Steps(to, dir, size)[left] \in 1..left
  <2>1. PICK v \in MEMORY_TASK_BASE..(HeapLimit-1) : v = to + (size - left)
    OBVIOUS
  <2>2. PICK a \in Nat : a = memory_get_paddr(dir, v)
    BY GetPaddr
  <2>3. PICK x \in Nat \ {0} : x = chunk(a)
    <3>1. a % page_size \in 0..(page_size-1)
      BY DivFacts
    <3>2. chunk(a) \in Nat \ {0}
      BY <3>1 DEF chunk
    <3> QED
      BY <3>2
  <2>4. Steps(to, dir, size)[left] = Min({x, left})
    BY <2>1, <2>2, <2>3 DEF Steps, PaddrAt
  <2>5. PICK S \in SUBSET Nat : S = {x, left} /\ S # {}
    <3>1. {x, left} \in SUBSET Nat
      OBVIOUS
    <3> QED
      BY <3>1
  <2>6. Min(S) \in S /\ \A y \in S : Min(S) <= y
    BY <2>5, MinNat
  <2> QED
    BY <2>4, <2>5, <2>6
<1>2. size \in Nat
  OBVIOUS
<1>3. PICK g : Loop(size, Steps(to, dir, size), Stops(to, dir, size), Adds(to, dir, size), g)
  BY <1>1, <1>2, LoopEnds
<1>4. CopySolves(to, dir, 0, size, g)
  BY <1>2, <1>3, CopyIsLoop
<1>5. PICK f : /\ CopySolves(to, dir, 0, size, f)
               /\ memory_copy_uvm_data(to, dir, 0, size) = f[size]
  BY <1>4, CopySolved
<1>6. Loop(size, Steps(to, dir, size), Stops(to, dir, size), Adds(to, dir, size), f)
  BY <1>2, <1>5, CopyIsLoop
<1> QED
  BY <1>1, <1>5, <1>6

\* The bytes of the virtual addresses R, each with where it belongs.
CopiedTo(dir, v) == pte_paddr(dir, v) + v - (v \div page_size) * page_size
Copied(dir, to, R) == {<<CopiedTo(dir, v), v - to>> : v \in R}

\* A turn of the loop, with left bytes left from v on, that copies z bytes.
TurnAt(dir, to, size, left, v, z) ==
    /\ to \in MEMORY_TASK_BASE..(HeapLimit-1) /\ size \in 1..(HeapLimit - to)
    /\ left \in 1..size /\ v = to + (size - left)
    /\ (v \div page_size) * page_size \in Mapped(dir)
    /\ z = Steps(to, dir, size)[left] /\ z \in 1..left

TurnCopies(dir, to, size, left, v, z) ==
    /\ left \notin Stops(to, dir, size)
    /\ Adds(to, dir, size)[left] = Copied(dir, to, v..(v + z - 1))

(* A turn of the loop copies the bytes it counts to where they belong: it  *)
(* stays in one page of the task, since the page in memory is aligned as   *)
(* the task's page is.                                                     *)
LEMMA CopyChunk ==
  ASSUME MInv, NEW p \in Proc, NEW dir, dir = cr3[p], dir # 0,
         NEW to, NEW size, NEW left, NEW v, NEW z, TurnAt(dir, to, size, left, v, z)
  PROVE  TurnCopies(dir, to, size, left, v, z)
<1> USE LimitFacts DEF TurnAt
<1>1. v \in MEMORY_TASK_BASE..(HeapLimit-1)
  OBVIOUS
<1>2. PICK a \in Nat : a = memory_get_paddr(dir, v) /\ a = PaddrAt(to, dir, size, left)
  BY <1>1, GetPaddr DEF PaddrAt
<1>3. PICK b \in Nat \ {0}, o \in 0..(page_size-1) :
         b = pte_paddr(dir, v) /\ o = v % page_size /\ a = b + o /\ a # 0 /\ a % page_size = o
  <2>1. v % page_size \in 0..(page_size-1)
    BY <1>1, DivFacts
  <2> QED
    BY <1>1, <1>2, <2>1, GetPaddr
<1>4. left \notin Stops(to, dir, size)
  BY <1>2, <1>3 DEF Stops
<1>5. PICK u \in UserPage, k \in Nat :
            /\ u = k * page_size /\ v = u + o /\ u \in Nat
            /\ v \div page_size = k
            /\ pde_index(v) = pde_index(u) /\ pte_index(v) = pte_index(u)
  <2>1. PICK u \in UserPage, k \in Nat, q \in 0..(page_size-1) :
            /\ u = k * page_size /\ v = u + q /\ u \in Nat
            /\ v \div page_size = k /\ v % page_size = q
            /\ pde_index(v) = pde_index(u) /\ pte_index(v) = pte_index(u)
    BY <1>1, AddrSplit
  <2>2. q = o
    BY <1>3, <2>1
  <2> QED
    BY <2>1, <2>2
<1>6. z <= page_size - o
  <2>1. PICK x \in Nat \ {0} : x = chunk(a) /\ x = page_size - o
    BY <1>3 DEF chunk
  <2>2. z = Min({x, left})
    BY <1>2, <2>1 DEF Steps
  <2>3. PICK S \in SUBSET Nat : S = {x, left} /\ S # {}
    <3>1. {x, left} \in SUBSET Nat
      OBVIOUS
    <3> QED
      BY <3>1
  <2>4. Min(S) \in S /\ \A y \in S : Min(S) <= y
    BY <2>3, MinNat
  <2> QED
    BY <2>1, <2>2, <2>3, <2>4
<1>7. ASSUME NEW i \in 0..(z-1), NEW w, w = v + i
      PROVE  CopiedTo(dir, w) = a + i
  <2>1. w \in MEMORY_TASK_BASE..(HeapLimit-1)
    BY <1>1, <1>7
  <2>2. PICK oi \in 0..(page_size-1) : oi = o + i
    BY <1>6
  <2>3. w = k * page_size + oi
    BY <1>5, <1>7, <2>2
  <2>4. w \div page_size = k
    BY <2>2, <2>3, ModSum
  <2>5. PICK u2 \in UserPage, k2 \in Nat :
            /\ u2 = k2 * page_size /\ w \div page_size = k2
            /\ pde_index(w) = pde_index(u2) /\ pte_index(w) = pte_index(u2)
    BY <2>1, AddrSplit
  <2>6. u2 = u
    BY <1>5, <2>4, <2>5
  <2>7. pte_paddr(dir, w) = b
    BY <1>3, <1>5, <2>5, <2>6 DEF pte_paddr, find_pte
  <2>8. CopiedTo(dir, w) = b + w - u
    BY <1>5, <2>4, <2>7 DEF CopiedTo
  <2> QED
    BY <1>3, <1>5, <1>7, <2>8
<1>8. Adds(to, dir, size)[left] = {<<a + i, 0 + (size - left) + i>> : i \in 0..(z-1)}
  <2>1. Adds(to, dir, size)[left]
          = {<<PaddrAt(to, dir, size, left) + i, 0 + (size - left) + i>> :
                i \in 0..(Steps(to, dir, size)[left] - 1)}
    BY Zenon DEF Adds
  <2> QED
    BY <1>2, <2>1
<1>9. ASSUME NEW i \in 0..(z-1)
      PROVE  <<a + i, 0 + (size - left) + i>> \in Copied(dir, to, v..(v + z - 1))
  <2>1. PICK w \in v..(v + z - 1) : w = v + i
    BY <1>1
  <2>2. a + i = CopiedTo(dir, w)
    BY <1>7, <2>1
  <2>3. 0 + (size - left) + i = w - to
    BY <1>1, <2>1
  <2> QED
    BY <2>2, <2>3 DEF Copied
<1>10. ASSUME NEW w \in v..(v + z - 1)
       PROVE  <<CopiedTo(dir, w), w - to>> \in Adds(to, dir, size)[left]
  <2>1. PICK i \in 0..(z-1) : w = v + i
    <3>1. w - v \in 0..(z-1) /\ w = v + (w - v)
      BY <1>1
    <3> QED
      BY <3>1
  <2>2. a + i = CopiedTo(dir, w)
    BY <1>7, <2>1
  <2>3. 0 + (size - left) + i = w - to
    BY <1>1, <2>1
  <2> QED
    BY <1>8, <2>2, <2>3
<1>11. Adds(to, dir, size)[left] \subseteq Copied(dir, to, v..(v + z - 1))
  BY <1>8, <1>9
<1>12. Copied(dir, to, v..(v + z - 1)) \subseteq Adds(to, dir, size)[left]
  BY <1>10 DEF Copied
<1> QED
  BY <1>4, <1>11, <1>12 DEF TurnCopies

(* Where the whole range is mapped, the turns with left bytes left copy    *)
(* the last left bytes of it.                                              *)
LEMMA CopyMapped ==
  ASSUME MInv, NEW p \in Proc, NEW dir, dir = cr3[p], dir # 0,
         NEW to \in MEMORY_TASK_BASE..(HeapLimit-1), NEW size \in 1..(HeapLimit - to),
         \A v \in to..(to + size - 1) : (v \div page_size) * page_size \in Mapped(dir)
  PROVE  /\ memory_copy_uvm_data(to, dir, 0, size).ret = 0
         /\ memory_copy_uvm_data(to, dir, 0, size).bytes = Copied(dir, to, to..(to + size - 1))
<1> USE LimitFacts
<1>1. PICK c, st, ad : /\ c = Steps(to, dir, size) /\ st = Stops(to, dir, size)
                       /\ ad = Adds(to, dir, size)
  OBVIOUS
<1>2. /\ \A left \in 1..size : c[left] \in 1..left
      /\ \E f : /\ Loop(size, c, st, ad, f)
                /\ memory_copy_uvm_data(to, dir, 0, size) = f[size]
  BY <1>1, CopyReturns
<1>3. PICK f : /\ Loop(size, c, st, ad, f)
               /\ memory_copy_uvm_data(to, dir, 0, size) = f[size]
  BY <1>2
<1>4. \A left \in 0..size : f[left] = Turn(c, st, ad, f, left)
  <2>1. f = [left \in 0..size |-> Turn(c, st, ad, f, left)]
    BY <1>3, LoopTurn
  <2> QED
    BY <2>1
<1> DEFINE Rest(left) == Copied(dir, to, (to + (size - left))..(to + size - 1))
           Right(left) == f[left].ret = 0 /\ f[left].bytes = Rest(left)
<1>5. PICK T : T = {left \in 0..size : ~Right(left)}
  OBVIOUS
<1>6. T \in SUBSET Nat
  BY <1>5
<1>7. T = {}
  <2> SUFFICES ASSUME T # {} PROVE FALSE
    OBVIOUS
  <2>1. PICK left \in T : \A m \in T : left <= m
    BY <1>6, LeastNat
  <2>2. left \in 0..size /\ ~Right(left)
    BY <1>5, <2>1
  <2>3. left # 0
    <3> SUFFICES ASSUME left = 0 PROVE FALSE
      OBVIOUS
    <3>1. f[left] = [ret |-> 0, bytes |-> {}]
      BY <1>4, <2>2 DEF Turn
    <3>2. (to + (size - left))..(to + size - 1) = {}
      OBVIOUS
    <3>3. Rest(left) = {}
      BY <3>2 DEF Copied
    <3> QED
      BY <2>2, <3>1, <3>3
  <2>4. left \in 1..size
    BY <2>2, <2>3
  <2>5. PICK z \in 1..left : z = c[left]
    BY <1>2, <2>4
  <2>6. PICK v \in to..(to + size - 1) : v = to + (size - left)
    BY <2>4
  <2>7. (v \div page_size) * page_size \in Mapped(dir)
    OBVIOUS
  <2>8. left \notin st /\ ad[left] = Copied(dir, to, v..(v + z - 1))
    <3>1. z = Steps(to, dir, size)[left]
      BY <1>1, <2>5
    <3>2. TurnAt(dir, to, size, left, v, z)
      BY <2>4, <2>6, <2>7, <3>1 DEF TurnAt
    <3>3. TurnCopies(dir, to, size, left, v, z)
      BY <3>2, CopyChunk
    <3> QED
      BY <1>1, <3>3 DEF TurnCopies
  <2>9. PICK l \in 0..size : l = left - z /\ l \notin T
    BY <2>1, <2>4, <2>5
  <2>10. Right(l)
    BY <1>5, <2>9
  <2>11. f[left] = [ret |-> f[l].ret, bytes |-> ad[left] \union f[l].bytes]
    BY <1>4, <2>2, <2>3, <2>5, <2>8, <2>9 DEF Turn
  <2>12. f[left].ret = 0 /\ f[left].bytes = ad[left] \union Rest(l)
    BY <2>10, <2>11
  <2>13. ad[left] \union Rest(l) = Rest(left)
    <3>1. v..(v + z - 1) \union ((to + (size - l))..(to + size - 1))
            = (to + (size - left))..(to + size - 1)
      BY <2>4, <2>5, <2>6, <2>9
    <3>2. \A R, Q : Copied(dir, to, R) \union Copied(dir, to, Q) = Copied(dir, to, R \union Q)
      BY DEF Copied
    <3>3. PICK R, Q, U : /\ R = v..(v + z - 1) /\ Q = (to + (size - l))..(to + size - 1)
                         /\ U = (to + (size - left))..(to + size - 1)
      OBVIOUS
    <3>4. U = R \union Q
      BY <3>1, <3>3
    <3>5. Copied(dir, to, R) \union Copied(dir, to, Q) = Copied(dir, to, U)
      BY <3>2, <3>4
    <3> QED
      BY <2>8, <3>3, <3>5, Zenon
  <2> QED
    BY <2>2, <2>12, <2>13
<1>8. Right(size)
  BY <1>5, <1>7
<1>9. to + (size - size) = to
  OBVIOUS
<1> QED
  BY <1>3, <1>8, <1>9

(* Where the range begins in a part without a page table, nothing is       *)
(* copied.                                                                 *)
LEMMA CopyUnmapped ==
  ASSUME MInv, NEW p \in Proc, NEW dir, dir = cr3[p], dir # 0,
         NEW to \in MEMORY_TASK_BASE..(HeapLimit-1), NEW size \in 1..(HeapLimit - to),
         find_pte(dir, to) = 0
  PROVE  /\ memory_copy_uvm_data(to, dir, 0, size).ret = -1
         /\ memory_copy_uvm_data(to, dir, 0, size).bytes = {}
<1> USE LimitFacts
<1>1. PICK c, st, ad : /\ c = Steps(to, dir, size) /\ st = Stops(to, dir, size)
                       /\ ad = Adds(to, dir, size)
  OBVIOUS
<1>2. PICK f : /\ Loop(size, c, st, ad, f)
               /\ memory_copy_uvm_data(to, dir, 0, size) = f[size]
  BY <1>1, CopyReturns
<1>3. memory_get_paddr(dir, to) = 0
  BY DEF memory_get_paddr
<1>4. to + (size - size) = to /\ size \in 1..size /\ size \in 0..size /\ size # 0
  OBVIOUS
<1>5. size \in st
  BY <1>1, <1>3, <1>4 DEF Stops, PaddrAt
<1>6. f = [left \in 0..size |-> Turn(c, st, ad, f, left)]
  BY <1>2, LoopTurn
<1>7. f[size] = Turn(c, st, ad, f, size)
  BY <1>4, <1>6
<1>8. f[size] = [ret |-> -1, bytes |-> {}]
  BY <1>4, <1>5, <1>7 DEF Turn
<1> QED
  BY <1>2, <1>8

(* For any number of tasks and pages, and wherever the range begins and    *)
(* ends: memory_copy_uvm_data copies every byte to the page it is mapped   *)
(* to and no other byte, and nothing where there is no page table.         *)
THEOREM CopyDataSafe == MSpec => []CopyDataExact
<1>1. MInit => MInv
  BY MInitInv
<1>2. MInv /\ [MNext]_mvars => MInv'
  BY MNextInv
<1>3. MInv => CopyDataExact
  <2> SUFFICES ASSUME MInv, NEW p \in Proc, cr3[p] # 0,
                      NEW to \in MEMORY_TASK_BASE..(HeapLimit-1),
                      NEW size \in 1..(HeapLimit - to)
               PROVE  LET r == memory_copy_uvm_data(to, cr3[p], 0, size)
                          page(v) == (v \div page_size) * page_size
                          range == to..(to + size - 1)
                      IN  /\ {page(v) : v \in range} \subseteq Mapped(cr3[p]) =>
                             /\ r.ret = 0
                             /\ r.bytes = {<<pte_paddr(cr3[p], v) + v - page(v), v - to>> : v \in range}
                          /\ find_pte(cr3[p], to) = 0 => r.ret = -1 /\ r.bytes = {}
    BY DEF CopyDataExact
  <2>1. PICK dir : dir = cr3[p]
    OBVIOUS
  <2>2. ASSUME {(v \div page_size) * page_size : v \in to..(to + size - 1)} \subseteq Mapped(dir)
        PROVE  /\ memory_copy_uvm_data(to, dir, 0, size).ret = 0
               /\ memory_copy_uvm_data(to, dir, 0, size).bytes
                    = Copied(dir, to, to..(to + size - 1))
    <3>1. \A v \in to..(to + size - 1) : (v \div page_size) * page_size \in Mapped(dir)
      BY <2>2
    <3> QED
      BY <2>1, <3>1, CopyMapped
  <2>3. ASSUME find_pte(dir, to) = 0
        PROVE  /\ memory_copy_uvm_data(to, dir, 0, size).ret = -1
               /\ memory_copy_uvm_data(to, dir, 0, size).bytes = {}
    BY <2>1, <2>3, CopyUnmapped
  <2>4. Copied(dir, to, to..(to + size - 1))
          = {<<pte_paddr(dir, v) + v - (v \div page_size) * page_size, v - to>> :
               v \in to..(to + size - 1)}
    BY Zenon DEF Copied, CopiedTo
  <2> QED
    BY <2>1, <2>2, <2>3, <2>4
<1> QED
  BY <1>1, <1>2, <1>3, PTL DEF MSpec
=============================================================================
