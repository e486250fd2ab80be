-------------------------------- MODULE Boot --------------------------------
(***************************************************************************)
(* From power-on to the page allocator: the loader asks the BIOS for the   *)
(* memory map (loader/loader_16.c), loads the kernel's ELF file from the   *)
(* disk and calls it (loader/loader_32.c), and memory_init of              *)
(* kernel/core/memory.c sizes the page allocator by the map.  It is one    *)
(* sequence of steps; what varies is the machine: the BIOS, with its map   *)
(* and the call that fails, if any, and the file on the disk.              *)
(*                                                                         *)
(* An entry of the BIOS map is [base, length, type, ignored], ignored when *)
(* it has 24 bytes and the first bit of ACPI is clear.  An ELF file is     *)
(* [magic, e_entry, phdrs]; its bytes are numbered from 1, so that memory  *)
(* holds OLD, 0 or a byte of the file.                                     *)
(***************************************************************************)
EXTENDS Integers, SequencesExt, FiniteSetsExt

CONSTANTS
    Maps,                   \* the maps of the BIOS
    Files,                  \* the files that may be on the disk
    FileSize,               \* what read_disk reads, at most
    BOOT_RAM_REGION_MAX,    \* the size of ram_region_cfg
    UINT,                   \* 2^32
    MEM_PAGE_SIZE,
    MEM_EXT_START,          \* 1 MB, where the allocator's memory begins
    MEM_EBDA_START,         \* the end of the memory for the bitmap
    mem_free_start          \* the end of the kernel

SYS_KERNEL_LOAD_ADDR == MEM_EXT_START   \* 1 MB as well
OLD == -1

\* A map of the BIOS has an entry.
IsMap(map) ==
    /\ map \in Seq(ToSet(map)) /\ map # << >>
    /\ \A e \in ToSet(map) : e.base \in Nat /\ e.length \in Nat /\ e.ignored \in BOOLEAN

\* A kernel is linked below 1 MB, one segment behind the other (kernel.lds).
IsFile(f) ==
    /\ f.phdrs \in Seq(ToSet(f.phdrs))
    /\ \A p \in ToSet(f.phdrs) :
          /\ p.offset \in Nat /\ p.paddr \in Nat /\ p.filesz \in Nat /\ p.memsz \in Nat
          /\ p.filesz <= p.memsz /\ p.offset + p.filesz <= FileSize
          /\ p.paddr + p.memsz <= SYS_KERNEL_LOAD_ADDR
    /\ \A p, q \in {x \in ToSet(f.phdrs) : x.type = "PT_LOAD"} :
          p = q \/ p.paddr + p.memsz <= q.paddr \/ q.paddr + q.memsz <= p.paddr

ASSUME BootAssumption ==
    /\ BOOT_RAM_REGION_MAX \in Nat /\ FileSize \in Nat
    /\ MEM_PAGE_SIZE \in Nat \ {0} /\ UINT \in Nat /\ UINT % MEM_PAGE_SIZE = 0
    /\ MEM_EXT_START \in 1..(UINT-1) /\ MEM_EXT_START % MEM_PAGE_SIZE = 0
    /\ \A map \in Maps : IsMap(map)
    /\ \A f \in Files : IsFile(f)

VARIABLES
    phase,          \* "detect" "protect" "read" "load" "page" "init",
                    \* and then "ready", "dead" or "panic"
    mode,           \* of the processor: "real", "protected", "paged"
    bios, fail,     \* the BIOS: its map, and the call that fails (0 for none)
    contID, i,      \* the local variables of detect_memory
    boot_info,      \* ram_region_cfg, as far as ram_region_count
    file, mem,      \* the file that was read, and the memory below its end
    ph,             \* the loop's i in reload_elf_file
    alloc_size      \* paddr_alloc.size

bvars == <<phase, mode, bios, fail, contID, i, boot_info, file, mem, ph, alloc_size>>

None == [magic |-> FALSE, e_entry |-> 0, phdrs |-> << >>]
-----------------------------------------------------------------------------
(* Faulty variants of definitions below, used to see that the properties   *)
(* notice such mistakes.                                                   *)

\* Entries of every type are taken for memory.
bad_recorded(regions, entry) ==
    Append(regions, [start |-> entry.base % UINT, size |-> entry.length % UINT])

\* The zeros begin behind the file's bytes and are as many as the segment.
bad_zero_bytes(p) == (p.paddr + p.filesz)..(p.paddr + p.filesz + p.memsz - 1)

\* The memory below 1 MB is counted as memory above it.
bad_free_size(total) == (total \div MEM_PAGE_SIZE) * MEM_PAGE_SIZE
-----------------------------------------------------------------------------
BInit ==
    /\ phase = "detect" /\ mode = "real"
    /\ bios \in Maps /\ fail \in 0..BOOT_RAM_REGION_MAX
    /\ contID = 0 /\ i = 0
    /\ boot_info = << >>
    /\ file = None
    /\ mem = [a \in 0..(SYS_KERNEL_LOAD_ADDR + FileSize - 1) |-> OLD]
    /\ ph = 1
    /\ alloc_size = 0

(* What detect_memory keeps of an entry: the low 32 bits, if it is memory. *)
recorded(regions, entry) ==
    IF entry.type = 1
    THEN Append(regions, [start |-> entry.base % UINT, size |-> entry.length % UINT])
    ELSE regions

(* One turn of the loop in detect_memory.  The BIOS gives the entry that   *)
(* contID stands for, and the contID of the next one or 0.  An entry that  *)
(* is ignored is not asked whether it was the last.                        *)
detect_memory ==
    LET entry == bios[contID + 1]
        next  == (contID + 1) % Len(bios)
    IN  /\ phase = "detect"
        /\ \/ /\ i < BOOT_RAM_REGION_MAX /\ i + 1 = fail
              /\ phase' = "protect"
              /\ UNCHANGED <<contID, i, boot_info>>
           \/ /\ i < BOOT_RAM_REGION_MAX /\ i + 1 # fail
              /\ contID' = next
              /\ i' = i + 1
              /\ \/ /\ entry.ignored
                    /\ UNCHANGED <<phase, boot_info>>
                 \/ /\ ~entry.ignored
                    /\ boot_info' = recorded(boot_info, entry)
                    /\ phase' = IF next = 0 THEN "protect" ELSE "detect"
           \/ /\ i = BOOT_RAM_REGION_MAX
              /\ phase' = "protect"
              /\ UNCHANGED <<contID, i, boot_info>>
        /\ UNCHANGED <<mode, bios, fail, file, mem, ph, alloc_size>>

(* Behind detect_memory, whatever it found: cli, A20, a GDT, and the jump. *)
enter_protect_mode ==
    /\ phase = "protect"
    /\ phase' = "read"
    /\ mode' = "protected"
    /\ UNCHANGED <<bios, fail, contID, i, boot_info, file, mem, ph, alloc_size>>

(* The first sectors of the disk, as they are.                             *)
read_disk ==
    /\ phase = "read"
    /\ file' \in Files
    /\ mem' = [a \in DOMAIN mem |->
                 IF a >= SYS_KERNEL_LOAD_ADDR THEN a - SYS_KERNEL_LOAD_ADDR + 1 ELSE mem[a]]
    /\ phase' = IF file'.magic THEN "load" ELSE "dead"
    /\ UNCHANGED <<mode, bios, fail, contID, i, boot_info, ph, alloc_size>>

(* The bytes of a segment that come from the file, and those that do not.  *)
file_bytes(p) == p.paddr..(p.paddr + p.filesz - 1)
zero_bytes(p) == (p.paddr + p.filesz)..(p.paddr + p.memsz - 1)

(* One turn of the loop in reload_elf_file.  The segment lies below the    *)
(* file in memory, so that the order of the bytes does not matter.         *)
reload_elf_file ==
    /\ phase = "load" /\ ph <= Len(file.phdrs)
    /\ ph' = ph + 1
    /\ LET p == file.phdrs[ph]
       IN  \/ /\ p.type # "PT_LOAD"
              /\ UNCHANGED mem
           \/ /\ p.type = "PT_LOAD"
              /\ mem' = [a \in DOMAIN mem |->
                           IF a \in file_bytes(p)
                           THEN mem[SYS_KERNEL_LOAD_ADDR + p.offset + (a - p.paddr)]
                           ELSE IF a \in zero_bytes(p) THEN 0 ELSE mem[a]]
    /\ UNCHANGED <<phase, mode, bios, fail, contID, i, boot_info, file, alloc_size>>

(* load_kernel goes on to the kernel, unless its address is 0.             *)
load_kernel ==
    /\ phase = "load" /\ ph > Len(file.phdrs)
    /\ phase' = IF file.e_entry = 0 THEN "dead" ELSE "page"
    /\ UNCHANGED <<mode, bios, fail, contID, i, boot_info, file, mem, ph, alloc_size>>

(* The first 4 MB are mapped to themselves, and the kernel is called.      *)
enable_page_mode ==
    /\ phase = "page"
    /\ phase' = "init"
    /\ mode' = "paged"
    /\ UNCHANGED <<bios, fail, contID, i, boot_info, file, mem, ph, alloc_size>>

(* The sum of the regions, as an unsigned number.                          *)
total_mem_size(regions) ==
    LET sum[n \in 0..Len(regions)] ==
            IF n = 0 THEN 0 ELSE (sum[n-1] + regions[n].size) % UINT
    IN  sum[Len(regions)]

(* The size of the memory above 1 MB: all of it without the first 1 MB.    *)
free_size(total) ==
    (((total - MEM_EXT_START) % UINT) \div MEM_PAGE_SIZE) * MEM_PAGE_SIZE

bitmap_byte_count(bit_count) == (bit_count + 7) \div 8

(* memory_init: the bitmap lies behind the kernel, and must end below the  *)
(* BIOS's data area.                                                       *)
memory_init ==
    LET size == free_size(total_mem_size(boot_info))
        mem_free == mem_free_start + bitmap_byte_count(size \div MEM_PAGE_SIZE)
    IN  /\ phase = "init"
        /\ alloc_size' = size
        /\ phase' = IF mem_free < MEM_EBDA_START THEN "ready" ELSE "panic"
        /\ UNCHANGED <<mode, bios, fail, contID, i, boot_info, file, mem, ph>>

\* The machine has been started, or has stopped.
Over == phase \in {"ready", "dead", "panic"} /\ UNCHANGED bvars

BNext ==
    \/ detect_memory \/ enter_protect_mode
    \/ read_disk \/ reload_elf_file \/ load_kernel \/ enable_page_mode
    \/ memory_init
    \/ Over

BSpec == BInit /\ [][BNext]_bvars
-----------------------------------------------------------------------------
\* How many entries the BIOS has given when the loop ends: one call may have
\* failed, and the loop makes only so many.
Given == Min({Len(bios), BOOT_RAM_REGION_MAX} \union (IF fail = 0 THEN {} ELSE {fail - 1}))

Usable(entry) == entry.type = 1 /\ ~entry.ignored

\* boot_info has the memory of the first n entries: at[k] is the entry that
\* region k is made from.
Detected(n) ==
    \E at \in [1..Len(boot_info) -> 1..n] :
      /\ \A j, k \in 1..Len(boot_info) : j < k => at[j] < at[k]
      /\ {at[k] : k \in 1..Len(boot_info)} = {m \in 1..n : Usable(bios[m])}
      /\ \A k \in 1..Len(boot_info) :
            boot_info[k] = [start |-> bios[at[k]].base % UINT,
                            size  |-> bios[at[k]].length % UINT]

(* Unless the BIOS's last entry is one that is ignored, boot_info has the  *)
(* memory that the BIOS gave, every region once and in order, also when a  *)
(* call fails or there are more entries than the table holds.              *)
RegionsExact == (phase # "detect" /\ ~Last(bios).ignored) => Detected(Given)

\* The addresses of an entry, and those of all the memory there is.
Extent(entry) == entry.base..(entry.base + entry.length - 1)
Ram == UNION {Extent(e) : e \in {x \in ToSet(bios) : Usable(x)}}

\* The memory map that memory_init is written for: it was given in full, no
\* memory is in two entries, and the memory above 1 MB is one block, below 4 GB.
PlainMap ==
    LET high == {a \in Ram : a >= MEM_EXT_START}
    IN  /\ ~Last(bios).ignored /\ Given = Len(bios)
        /\ \A j, k \in {m \in DOMAIN bios : Usable(bios[m])} :
              j # k => Extent(bios[j]) \intersect Extent(bios[k]) = {}
        /\ high = MEM_EXT_START..(MEM_EXT_START + Cardinality(high) - 1)
        /\ MEM_EXT_START <= Cardinality(Ram) /\ Cardinality(Ram) < UINT

(* On such a map, every page that the allocator may hand out is memory     *)
(* that exists, although memory_init adds up all regions and never looks   *)
(* where they are; and it gives away no more than what is missing below    *)
(* 1 MB and a part of a page.                                              *)
AllocatorInRam ==
    (phase = "ready" /\ PlainMap) =>
        LET low  == {a \in Ram : a < MEM_EXT_START}
            high == Ram \ low
        IN  /\ MEM_EXT_START..(MEM_EXT_START + alloc_size - 1) \subseteq high
            /\ Cardinality(high) - alloc_size
                 < (MEM_EXT_START - Cardinality(low)) + MEM_PAGE_SIZE

(* When the kernel is called, memory holds its segments: the bytes of the  *)
(* file, zeros behind them, and everything else as it was, the file        *)
(* included.                                                               *)
ImageLoaded ==
    phase \in {"init", "ready"} =>
        LET loads  == {p \in ToSet(file.phdrs) : p.type = "PT_LOAD"}
            segment(p) == p.paddr..(p.paddr + p.memsz - 1)
        IN  \A a \in DOMAIN mem :
              /\ \A p \in loads : a \in segment(p) =>
                    mem[a] = IF a - p.paddr < p.filesz THEN p.offset + (a - p.paddr) + 1 ELSE 0
              /\ (\A p \in loads : a \notin segment(p)) =>
                    mem[a] = IF a < SYS_KERNEL_LOAD_ADDR THEN OLD
                             ELSE a - SYS_KERNEL_LOAD_ADDR + 1

(* loader_16.c line 45: the enumeration ends when the BIOS returns EBX = 0,*)
(* after its last entry.                                                   *)
EnumerationEnds == [][ phase = "detect" /\ contID # 0 /\ contID' = 0 => phase' = "protect" ]_bvars

(* memory_init's comment: the allocator gets the memory above 1 MB.        *)
AllocatorAlwaysInRam ==
    phase = "ready" => MEM_EXT_START..(MEM_EXT_START + alloc_size - 1) \subseteq Ram
=============================================================================
