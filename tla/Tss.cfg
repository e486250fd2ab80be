SPECIFICATION TSpec
CONSTANTS
    bit_count = 4
    start = 2
    page_size = 2
    PageCounts = {1}
    Proc = {p1, p2, p3, p4}
    GDT_TABLE_SIZE = 6
    Reserved = {1, 2}
INVARIANTS AllOrNothing BitsAreHeld SearchOneShort
