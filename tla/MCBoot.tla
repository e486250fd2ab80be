------------------------------- MODULE MCBoot -------------------------------
(* Boot on machines whose memory has up to five entries in the BIOS map,   *)
(* in ascending or descending order, and with files of up to two segments. *)
(* 1 MB is 6 units and 4 GB are 32.                                        *)
EXTENDS Boot

Entry(base, length, type, ignored) ==
    [base |-> base, length |-> length, type |-> type, ignored |-> ignored]

\* Memory below 1 MB, the BIOS's own, memory from 1 MB on, memory behind a
\* hole, one that is ignored, one above 4 GB.
Entries == {Entry(0, 5, 1, FALSE), Entry(5, 1, 2, FALSE), Entry(6, 7, 1, FALSE),
            Entry(14, 4, 1, FALSE), Entry(18, 2, 1, TRUE), Entry(32, 4, 1, FALSE)}

BMaps ==
    LET up(S) == SetToSortSeq(S, LAMBDA x, y : x.base < y.base)
    IN  UNION {{up(S), Reverse(up(S))} :
                 S \in {T \in SUBSET Entries : Cardinality(T) \in 1..5}}

Phdr(type, offset, paddr, filesz, memsz) ==
    [type |-> type, offset |-> offset, paddr |-> paddr, filesz |-> filesz, memsz |-> memsz]

Segments == {Phdr(type, offset, 0, filesz, filesz + extra) :
               type \in {"PT_LOAD", "PT_NOTE"}, offset \in 0..1, filesz \in 0..2, extra \in 0..1}

BFiles ==
    {[magic |-> FALSE, e_entry |-> 1, phdrs |-> << >>],
     [magic |-> TRUE, e_entry |-> 0, phdrs |-> << >>]}
    \union {[magic |-> TRUE, e_entry |-> 1, phdrs |-> <<s, [t EXCEPT !.paddr = 3]>>] :
              s \in Segments, t \in {u \in Segments : u.offset = 1}}
=============================================================================
