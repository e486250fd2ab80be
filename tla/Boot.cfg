SPECIFICATION BSpec
CONSTANTS
    Maps <- BMaps
    Files <- BFiles
    FileSize = 3
    BOOT_RAM_REGION_MAX = 4
    UINT = 32
    MEM_PAGE_SIZE = 2
    MEM_EXT_START = 6
    MEM_EBDA_START = 5
    mem_free_start = 3
INVARIANTS RegionsExact AllocatorInRam ImageLoaded
