SPECIFICATION PASpec
CONSTANTS
    bit_count = 4
    start = 4096
    page_size = 4096
    PageCounts = {1, 2}
INVARIANT AllocIsFirstFit
CHECK_DEADLOCK FALSE
