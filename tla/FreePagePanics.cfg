SPECIFICATION MSpec
CONSTANTS
    bit_count = 6
    start = 4
    page_size = 4
    PageCounts = {1}
    Proc = {p1}
    PDE_CNT = 6
    PTE_CNT = 2
    user_pde_start = 4
    KERNEL_PDES = 1
    Incr = {3, 9}
PROPERTY FreePageFrees
CHECK_DEADLOCK FALSE
