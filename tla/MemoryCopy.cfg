SPECIFICATION MSpec
CONSTANTS
    bit_count = 9
    start = 2
    page_size = 2
    PageCounts = {1}
    Proc = {p1, p2}
    PDE_CNT = 6
    PTE_CNT = 2
    user_pde_start = 5
    KERNEL_PDES = 1
    Incr = {3}
INVARIANTS CopyDataExact
PROPERTIES CopyComplete
SYMMETRY TaskSymmetry
CHECK_DEADLOCK FALSE
