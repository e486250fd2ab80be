SPECIFICATION MSpec
CONSTANTS
    bit_count = 6
    start = 4
    page_size = 4
    PageCounts = {1}
    Proc = {p1, p2}
    PDE_CNT = 6
    PTE_CNT = 2
    user_pde_start = 4
    KERNEL_PDES = 1
    Incr = {3,9}
INVARIANTS PagesOwnedOnce
PROPERTIES HeapGrowth UsesPageAlloc
SYMMETRY TaskSymmetry
CHECK_DEADLOCK FALSE
