----------------------------- MODULE PageAlloc ------------------------------
(***************************************************************************)
(* The physical page allocator: addr_alloc_page and addr_free_page of      *)
(* kernel/core/memory.c on the bitmap of kernel/tools/bitmap.c.  Each call *)
(* holds the allocator's mutex from start to end, so it is one action      *)
(* (module Kernel has the mutex).                                          *)
(***************************************************************************)
EXTENDS Integers, FiniteSetsExt

CONSTANTS
    bit_count,      \* pages managed (alloc->size / page_size)
    start,          \* address of the first page, not zero
    page_size,      \* bytes in a page
    PageCounts      \* the page_count arguments of addr_alloc_page

ASSUME PageAllocAssumption ==
    /\ bit_count \in Nat
    /\ start \in Nat \ {0}
    /\ page_size \in Nat \ {0}
    /\ PageCounts \subseteq Nat \ {0}

VARIABLES
    bits,           \* the bitmap: page index -> 0 (free) or 1
    held            \* the callers' view: addresses of the pages they hold

pavars == <<bits, held>>
-----------------------------------------------------------------------------
(* Faulty variants of definitions below, used to see that the properties   *)
(* notice such mistakes.                                                   *)

\* One bit too few is set.
bad_set_bit_short(b, index, count, bit) ==
    [i \in DOMAIN b |-> IF i \in index..(index + count - 2)
                        THEN IF bit # 0 THEN 1 ELSE 0
                        ELSE b[i]]

\* The search gives up at the first bit that differs.
bad_search_from(b, bit, count) ==
    LET reads == {i \in 0..(count - 2) : i < bit_count} \union {0}
    IN  IF (\A i \in reads : b[i] = bit) /\ count - 1 <= bit_count THEN 0 ELSE -1
-----------------------------------------------------------------------------
bitmap_get_bit(b, index) == b[index]

(* The loop stops at the end of the bitmap; any bit but 0 sets.            *)
bitmap_set_bit(b, index, count, bit) ==
    [i \in DOMAIN b |-> IF i \in index..(index + count - 1)
                        THEN IF bit # 0 THEN 1 ELSE 0
                        ELSE b[i]]

(* ~bit in C, which is zero neither for bit = 0 nor for bit = 1.           *)
complement(bit) == -1 - bit

(* The search of bitmap_alloc_nbits.  From a matching bit at s the inner   *)
(* loop reads count - 1 bits starting at s itself; on a mismatch the       *)
(* search resumes behind it, and at the end of the bitmap it gives up.     *)
search_from(b, bit, count) ==
    LET at[s \in 0..bit_count] ==
          IF s = bit_count THEN -1
          ELSE IF bitmap_get_bit(b, s) # bit THEN at[s + 1]
          ELSE LET reads == {i \in s..(s + count - 2) : i < bit_count}
                   other == {i \in reads : bitmap_get_bit(b, i) # bit}
               IN  IF other # {} THEN at[Min(other) + 1]
                   ELSE IF s + count - 1 <= bit_count THEN s ELSE -1
    IN  at[0]

bitmap_alloc_nbits(b, bit, count) ==
    LET ok_idx == search_from(b, bit, count)
    IN  [index |-> ok_idx,
         bits  |-> IF ok_idx < 0 THEN b
                   ELSE bitmap_set_bit(b, ok_idx, count, complement(bit))]
-----------------------------------------------------------------------------
(* addr_alloc_init: every page is free.                                    *)
PAInit ==
    /\ bits = [i \in 0..(bit_count-1) |-> 0]
    /\ held = {}

page_addr(index) == start + index * page_size

pg_idx(addr) == (addr - start) \div page_size

(* Returns zero, without any change, when the bitmap has no room.          *)
addr_alloc_page(page_count) ==
    LET r == bitmap_alloc_nbits(bits, 0, page_count)
    IN  /\ r.index >= 0
        /\ bits' = r.bits
        /\ held' = held \union {page_addr(r.index + i) : i \in 0..(page_count - 1)}

addr_free_page(addr) ==
    /\ bits' = bitmap_set_bit(bits, pg_idx(addr), 1, 0)
    /\ held' = held \ {addr}

PANext ==
    \/ \E page_count \in PageCounts : addr_alloc_page(page_count)
    \/ \E addr \in held : addr_free_page(addr)

PASpec == PAInit /\ [][PANext]_pavars
-----------------------------------------------------------------------------
(* The types of the page allocator: the bitmap holds bits.                 *)
PATypeOK ==
    /\ bits \in [0..(bit_count-1) -> {0, 1}]
    /\ held \subseteq Nat

(* The bitmap marks exactly the pages that callers hold: no page is lost   *)
(* and no page in use is marked free, through the conversions of page      *)
(* indexes to addresses and back.                                          *)
BitsAreHeld == held = {page_addr(i) : i \in {j \in DOMAIN bits : bits[j] = 1}}

\* The start of the first run of count bits that all equal bit, or -1.
FirstFit(b, bit, count) ==
    LET runs == {s \in 0..(bit_count - count) :
                    \A i \in s..(s + count - 1) : b[i] = bit}
    IN  IF runs = {} THEN -1 ELSE Min(runs)

(* "Allocates consecutive bits and returns the index where they start"     *)
(* (bitmap.c): the first run of enough free bits, and failure only when    *)
(* there is none.  It is true of requests for one page, the only ones the  *)
(* kernel makes; asked for more, the search never looks at the last bit.   *)
AllocIsFirstFit ==
    \A page_count \in PageCounts :
        bitmap_alloc_nbits(bits, 0, page_count).index = FirstFit(bits, 0, page_count)

(* What bitmap_alloc_nbits does for any number of bits, on every bitmap    *)
(* that allocations and releases leave: a request for one bit gets the     *)
(* first free one, and a request for several gets the first room for one   *)
(* bit fewer, since its loop (bitmap.c line 79) looks at the first bit     *)
(* twice and never at the last.  The last bit may be in use, or be the one *)
(* behind the end of the bitmap.                                           *)
SearchOneShort ==
    \A count \in 1..(bit_count + 1) :
        bitmap_alloc_nbits(bits, 0, count).index
          = FirstFit(bits, 0, IF count = 1 THEN 1 ELSE count - 1)
=============================================================================
