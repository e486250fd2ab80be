----------------------------- MODULE BootProofs -----------------------------
(***************************************************************************)
(* The loader and memory_init, proved for every map of the BIOS, every     *)
(* file and every size of the memory: the regions that were detected, the  *)
(* kernel's image and the memory that the allocator hands out.             *)
(***************************************************************************)
EXTENDS Boot, FiniteSetTheorems, WellFoundedInduction, TLAPS

Addr == 0..(SYS_KERNEL_LOAD_ADDR + FileSize - 1)

\* The segments that the first n - 1 program headers of a file ask for.
Loads(f, n) == {f.phdrs[k] : k \in {x \in 1..(n - 1) : f.phdrs[x].type = "PT_LOAD"}}

Segment(p) == p.paddr..(p.paddr + p.memsz - 1)

\* The memory m holds the segments P, and is otherwise as read_disk left it.
Holds(m, P) ==
    \A a \in Addr :
      /\ \A p \in P : a \in Segment(p) =>
            m[a] = IF a - p.paddr < p.filesz THEN p.offset + (a - p.paddr) + 1 ELSE 0
      /\ (\A p \in P : a \notin Segment(p)) =>
            m[a] = IF a < SYS_KERNEL_LOAD_ADDR THEN OLD ELSE a - SYS_KERNEL_LOAD_ADDR + 1

(* How far the image has got: all segments in front of the loop's i.       *)
ImageInv ==
    /\ mem = [a \in Addr |-> mem[a]]
    /\ phase \in {"detect", "protect", "read"} => ph = 1 /\ \A a \in Addr : mem[a] = OLD
    /\ phase \in {"load", "page", "init", "ready", "panic"} =>
         file \in Files /\ ph \in 1..(Len(file.phdrs) + 1) /\ Holds(mem, Loads(file, ph))
    /\ phase \in {"page", "init", "ready", "panic"} => ph = Len(file.phdrs) + 1

LEMMA ImageInit == BInit => ImageInv
BY DEF BInit, ImageInv, Addr

(* What IsFile says of a program header.                                   *)
LEMMA Header ==
  ASSUME NEW f \in Files, NEW k \in 1..Len(f.phdrs), NEW p, p = f.phdrs[k]
  PROVE  /\ p.offset \in Nat /\ p.paddr \in Nat /\ p.filesz \in Nat /\ p.memsz \in Nat
         /\ p.filesz <= p.memsz /\ p.offset + p.filesz <= FileSize
         /\ p.paddr + p.memsz <= SYS_KERNEL_LOAD_ADDR
         /\ p \in ToSet(f.phdrs)
<1>1. p \in ToSet(f.phdrs)
  BY BootAssumption DEF IsFile, ToSet
<1> QED
  BY <1>1, BootAssumption DEF IsFile

(* Two segments have no address in common.                                 *)
LEMMA Apart ==
  ASSUME NEW f \in Files, NEW p \in ToSet(f.phdrs), NEW q \in ToSet(f.phdrs),
         p.type = "PT_LOAD", q.type = "PT_LOAD", p # q, NEW a \in Segment(p)
  PROVE  a \notin Segment(q)
<1>1. p.paddr + p.memsz <= q.paddr \/ q.paddr + q.memsz <= p.paddr
  BY BootAssumption DEF IsFile
<1>2. p.paddr \in Nat /\ p.memsz \in Nat /\ q.paddr \in Nat /\ q.memsz \in Nat
  BY BootAssumption DEF IsFile
<1> QED
  BY <1>1, <1>2 DEF Segment

LEMMA LoadsNext ==
  ASSUME NEW f, NEW n \in Nat \ {0}
  PROVE  Loads(f, n + 1) = IF f.phdrs[n].type = "PT_LOAD"
                           THEN Loads(f, n) \union {f.phdrs[n]} ELSE Loads(f, n)
BY DEF Loads

LEMMA LoadStep ==
  ASSUME ImageInv, reload_elf_file
  PROVE  ImageInv'
<1> DEFINE p == file.phdrs[ph]  K == SYS_KERNEL_LOAD_ADDR
<1> HIDE DEF p
<1>1. /\ phase = "load" /\ phase' = phase /\ file' = file /\ file \in Files
      /\ ph \in 1..Len(file.phdrs) /\ ph' = ph + 1 /\ ph' \in 1..(Len(file.phdrs) + 1)
      /\ Len(file.phdrs) \in Nat /\ Holds(mem, Loads(file, ph)) /\ ph \in Nat \ {0}
      /\ mem = [a \in Addr |-> mem[a]]
  <2>1. file \in Files
    BY DEF ImageInv, reload_elf_file
  <2>2. Len(file.phdrs) \in Nat
    BY <2>1, BootAssumption DEF IsFile
  <2> QED
    BY <2>1, <2>2 DEF ImageInv, reload_elf_file
<1>3. /\ p.offset \in Nat /\ p.paddr \in Nat /\ p.filesz \in Nat /\ p.memsz \in Nat
      /\ p.filesz <= p.memsz /\ p.offset + p.filesz <= FileSize /\ p.paddr + p.memsz <= K
  BY <1>1, Header DEF p
<1>4. K \in Nat /\ FileSize \in Nat
  BY BootAssumption DEF SYS_KERNEL_LOAD_ADDR
<1>5. mem' = [a \in Addr |-> mem'[a]] /\ Holds(mem', Loads(file, ph + 1))
  <2>1. CASE p.type # "PT_LOAD"
    <3>1. mem' = mem
      BY <2>1 DEF reload_elf_file, p
    <3>2. Loads(file, ph + 1) = Loads(file, ph)
      BY <1>1, <2>1, LoadsNext DEF p
    <3> QED
      BY <1>1, <3>1, <3>2
  <2>2. CASE p.type = "PT_LOAD"
    <3>1. mem' = [a \in Addr |->
                    IF a \in file_bytes(p) THEN mem[K + p.offset + (a - p.paddr)]
                    ELSE IF a \in zero_bytes(p) THEN 0 ELSE mem[a]]
      BY <1>1, <2>2 DEF reload_elf_file, p
    <3>2. Loads(file, ph + 1) = Loads(file, ph) \union {p}
      BY <1>1, <2>2, LoadsNext DEF p
    <3>3. \A q \in Loads(file, ph) : /\ q = p \/ \A a \in Segment(q) : a \notin Segment(p)
                               /\ \A a \in Segment(q) : a < K
      <4> SUFFICES ASSUME NEW q \in Loads(file, ph)
                   PROVE  /\ q = p \/ \A a \in Segment(q) : a \notin Segment(p)
                          /\ \A a \in Segment(q) : a < K
        OBVIOUS
      <4>1. PICK k \in 1..Len(file.phdrs) : q = file.phdrs[k] /\ q.type = "PT_LOAD"
        BY <1>1 DEF Loads
      <4>2. q.paddr \in Nat /\ q.memsz \in Nat /\ q.paddr + q.memsz <= K
        BY <1>1, <4>1, Header
      <4>3. p \in ToSet(file.phdrs) /\ q \in ToSet(file.phdrs)
        BY <1>1, <4>1, Header DEF p
      <4>4. ASSUME q # p, NEW a \in Segment(q) PROVE a \notin Segment(p)
        BY <1>1, <2>2, <4>1, <4>3, <4>4, Apart
      <4> QED
        BY <1>4, <4>2, <4>4 DEF Segment
    <3>4. ASSUME NEW a \in Addr
          PROVE  /\ a \in Segment(p) =>
                      mem'[a] = IF a - p.paddr < p.filesz THEN p.offset + (a - p.paddr) + 1 ELSE 0
                 /\ a \notin Segment(p) => mem'[a] = mem[a]
      <4>1. CASE a \in file_bytes(p)
        <5>1. PICK b \in Addr : b = K + p.offset + (a - p.paddr)
          BY <1>3, <1>4, <4>1 DEF file_bytes, Addr
        <5>2. b >= K
          BY <1>3, <1>4, <4>1, <5>1 DEF file_bytes
        <5>3. \A q \in Loads(file, ph) : b \notin Segment(q)
          BY <3>3, <5>2, <1>4 DEF Addr
        <5>4. mem[b] = b - K + 1
          BY <1>1, <1>4, <5>2, <5>3 DEF Holds, Addr
        <5>5. mem'[a] = mem[b]
          BY <3>1, <4>1, <5>1
        <5>6. a \in Segment(p) /\ a - p.paddr < p.filesz /\ b - K + 1 = p.offset + (a - p.paddr) + 1
          BY <1>3, <1>4, <4>1, <5>1 DEF file_bytes, Segment
        <5> QED
          BY <5>4, <5>5, <5>6
      <4>2. CASE a \in zero_bytes(p)
        <5>1. mem'[a] = 0
          BY <3>1, <4>2, <1>3 DEF file_bytes, zero_bytes
        <5>2. a \in Segment(p) /\ ~(a - p.paddr < p.filesz)
          BY <1>3, <4>2 DEF zero_bytes, Segment
        <5> QED
          BY <5>1, <5>2
      <4>3. CASE a \notin file_bytes(p) /\ a \notin zero_bytes(p)
        <5>1. a \notin Segment(p)
          BY <1>3, <1>4, <4>3 DEF file_bytes, zero_bytes, Segment, Addr
        <5> QED
          BY <3>1, <4>3, <5>1
      <4> QED
        BY <4>1, <4>2, <4>3
    <3>5. Holds(mem', Loads(file, ph + 1))
      <4> SUFFICES ASSUME NEW a \in Addr
                   PROVE  /\ \A q \in Loads(file, ph + 1) : a \in Segment(q) =>
                                mem'[a] = IF a - q.paddr < q.filesz THEN q.offset + (a - q.paddr) + 1 ELSE 0
                          /\ (\A q \in Loads(file, ph + 1) : a \notin Segment(q)) =>
                                mem'[a] = IF a < K THEN OLD ELSE a - K + 1
        BY DEF Holds
      <4>1. ASSUME NEW q \in Loads(file, ph + 1), a \in Segment(q)
            PROVE  mem'[a] = IF a - q.paddr < q.filesz THEN q.offset + (a - q.paddr) + 1 ELSE 0
        <5>1. CASE q = p
          BY <3>4, <4>1, <5>1
        <5>2. CASE q # p
          <6>1. q \in Loads(file, ph) /\ a \notin Segment(p)
            BY <3>2, <3>3, <4>1, <5>2
          <6> QED
            BY <1>1, <3>4, <4>1, <6>1 DEF Holds
        <5> QED
          BY <5>1, <5>2
      <4>2. ASSUME \A q \in Loads(file, ph + 1) : a \notin Segment(q)
            PROVE  mem'[a] = IF a < K THEN OLD ELSE a - K + 1
        <5>1. a \notin Segment(p) /\ \A q \in Loads(file, ph) : a \notin Segment(q)
          BY <3>2, <4>2
        <5> QED
          BY <1>1, <3>4, <5>1 DEF Holds
      <4> QED
        BY <4>1, <4>2
    <3> QED
      BY <3>1, <3>5
  <2> QED
    BY <2>1, <2>2
<1>6. Addr' = Addr
  BY DEF Addr
<1> QED
  BY <1>1, <1>5, <1>6 DEF ImageInv

LEMMA ImageNext ==
  ASSUME ImageInv, [BNext]_bvars
  PROVE  ImageInv'
<1>1. Addr' = Addr
  BY DEF Addr
<1>2. CASE detect_memory
  BY <1>1, <1>2 DEF detect_memory, ImageInv
<1>3. CASE enter_protect_mode
  BY <1>1, <1>3 DEF enter_protect_mode, ImageInv
<1>4. CASE read_disk
  <2>1. phase = "read" /\ phase' \in {"load", "dead"} /\ file' \in Files /\ ph' = 1
    BY <1>4 DEF read_disk, ImageInv
  <2>2. mem' = [a \in Addr |-> IF a >= SYS_KERNEL_LOAD_ADDR
                               THEN a - SYS_KERNEL_LOAD_ADDR + 1 ELSE OLD]
    BY <1>4 DEF read_disk, ImageInv
  <2>3. Loads(file', 1) = {}
    BY DEF Loads
  <2>4. SYS_KERNEL_LOAD_ADDR \in Int
    BY BootAssumption DEF SYS_KERNEL_LOAD_ADDR
  <2>5. Holds(mem', Loads(file', ph'))
    BY <2>1, <2>2, <2>3, <2>4 DEF Holds, Addr
  <2>6. Len(file'.phdrs) \in Nat
    BY <2>1, BootAssumption DEF IsFile
  <2> QED
    BY <1>1, <2>1, <2>2, <2>5, <2>6 DEF ImageInv
<1>5. CASE reload_elf_file
  BY <1>5, LoadStep
<1>6. CASE load_kernel
  <2>1. file \in Files
    BY <1>6 DEF load_kernel, ImageInv
  <2>2. Len(file.phdrs) \in Nat
    BY <2>1, BootAssumption DEF IsFile
  <2> QED
    BY <1>1, <1>6, <2>2 DEF load_kernel, ImageInv
<1>7. CASE enable_page_mode
  BY <1>1, <1>7 DEF enable_page_mode, ImageInv
<1>8. CASE memory_init
  BY <1>1, <1>8 DEF memory_init, ImageInv
<1>9. CASE UNCHANGED bvars
  BY <1>1, <1>9 DEF bvars, ImageInv
<1> QED
  BY <1>2, <1>3, <1>4, <1>5, <1>6, <1>7, <1>8, <1>9 DEF BNext, Over

(* When the kernel is called, its image is complete and nothing else was   *)
(* overwritten (ImageLoaded), whatever segments the file has, as long as   *)
(* they do not overlap and lie below 1 MB (reload_elf_file, load_kernel).  *)
THEOREM ImageSafe == BSpec => []ImageLoaded
<1>1. ASSUME ImageInv PROVE ImageLoaded
  <2> SUFFICES ASSUME phase \in {"init", "ready"} PROVE ImageLoaded
    BY DEF ImageLoaded
  <2>1. file \in Files /\ ph = Len(file.phdrs) + 1 /\ Holds(mem, Loads(file, ph))
        /\ DOMAIN mem = Addr
    BY <1>1 DEF ImageInv
  <2>2. Len(file.phdrs) \in Nat /\ DOMAIN file.phdrs = 1..Len(file.phdrs)
    BY <2>1, BootAssumption DEF IsFile
  <2>3. Loads(file, ph) = {p \in ToSet(file.phdrs) : p.type = "PT_LOAD"}
    BY <2>1, <2>2 DEF Loads, ToSet
  <2> QED
    BY <2>1, <2>3 DEF ImageLoaded, Holds, Segment
<1> QED
  BY <1>1, ImageInit, ImageNext, PTL DEF BSpec

-----------------------------------------------------------------------------
\* An increasing function that takes l numbers to the members of U.
Increasing(at, l, n, U) ==
    /\ at \in [1..l -> 1..n]
    /\ \A j, k \in 1..l : j < k => at[j] < at[k]
    /\ {at[k] : k \in 1..l} = U

\* Region k of R is made from the entry at[k] of the map.
Made(R, map, at, l) ==
    \A k \in 1..l : R[k] = [start |-> map[at[k]].base % UINT,
                            size  |-> map[at[k]].length % UINT]

UsableIn(map, n) == {m \in 1..n : Usable(map[m])}

\* The regions R are the memory of the first n entries of a map.
From(R, map, n) ==
    \E at : Increasing(at, Len(R), n, UsableIn(map, n)) /\ Made(R, map, at, Len(R))

LEMMA DetectedFrom == ASSUME NEW n PROVE Detected(n) <=> From(boot_info, bios, n)
BY Zenon DEF Detected, From, Increasing, Made, UsableIn

(* Where detect_memory has got, unless an entry that is ignored comes last:*)
(* the loop's i counts the entries that the BIOS gave.                     *)
DetectInv ==
    /\ bios \in Maps /\ fail \in 0..BOOT_RAM_REGION_MAX /\ i \in 0..BOOT_RAM_REGION_MAX
    /\ boot_info \in Seq([start : Nat, size : Nat])
    /\ contID \in 0..(Len(bios) - 1)
    /\ ~Last(bios).ignored =>
         /\ phase = "detect" =>
              /\ contID = i /\ i < Len(bios) /\ (fail # 0 => i < fail)
              /\ From(boot_info, bios, i)
         /\ phase # "detect" => From(boot_info, bios, Given)

(* What IsMap says of the map and its entries.                             *)
LEMMA MapFacts ==
  ASSUME NEW map \in Maps
  PROVE  /\ Len(map) \in Nat \ {0} /\ DOMAIN map = 1..Len(map)
         /\ \A k \in 1..Len(map) : /\ map[k].base \in Nat /\ map[k].length \in Nat
                                   /\ map[k].ignored \in BOOLEAN
<1>1. map \in Seq(ToSet(map)) /\ map # << >>
  BY BootAssumption DEF IsMap
<1>2. Len(map) \in Nat \ {0} /\ DOMAIN map = 1..Len(map)
  BY <1>1
<1>3. \A k \in 1..Len(map) : map[k] \in ToSet(map)
  BY <1>2 DEF ToSet
<1> QED
  BY <1>2, <1>3, BootAssumption DEF IsMap

LEMMA MinIs ==
  ASSUME NEW S \in SUBSET Int, NEW m \in S, \A x \in S : m <= x
  PROVE  Min(S) = m
<1>1. \E x \in S : \A y \in S : x <= y
  OBVIOUS
<1>2. PICK x \in Int : x = Min(S) /\ x \in S /\ \A y \in S : x <= y
  BY <1>1 DEF Min
<1>3. x <= m /\ m <= x
  BY <1>2
<1> QED
  BY <1>2, <1>3

(* How many entries there are when the loop ends.                          *)
LEMMA GivenIs ==
  ASSUME bios \in Maps, fail \in 0..BOOT_RAM_REGION_MAX,
         NEW n \in Nat, n <= Len(bios), n <= BOOT_RAM_REGION_MAX, fail # 0 => n < fail,
         n = Len(bios) \/ n = BOOT_RAM_REGION_MAX \/ n + 1 = fail
  PROVE  Given = n
<1>1. Len(bios) \in Nat /\ BOOT_RAM_REGION_MAX \in Nat
  BY MapFacts, BootAssumption
<1> DEFINE S == {Len(bios), BOOT_RAM_REGION_MAX} \union (IF fail = 0 THEN {} ELSE {fail - 1})
<1>2. S \in SUBSET Int /\ n \in S /\ \A x \in S : n <= x
  BY <1>1
<1> QED
  BY <1>2, MinIs DEF Given

LEMMA ModIs ==
  ASSUME NEW L \in Nat \ {0}, NEW n \in 1..L
  PROVE  n % L = IF n = L THEN 0 ELSE n
OBVIOUS

LEMMA DetectInit == BInit => DetectInv
<1> SUFFICES ASSUME BInit PROVE DetectInv
  OBVIOUS
<1>1. Len(bios) \in Nat \ {0} /\ BOOT_RAM_REGION_MAX \in Nat
  BY MapFacts, BootAssumption DEF BInit
<1>2. From(boot_info, bios, 0)
  <2>1. boot_info = << >> /\ Len(boot_info) = 0 /\ 1..Len(boot_info) = {} /\ 1..0 = {}
    BY DEF BInit
  <2>2. Increasing(<< >>, 0, 0, {})
    BY <2>1 DEF Increasing
  <2>3. UsableIn(bios, 0) = {} /\ Made(boot_info, bios, << >>, 0)
    BY <2>1 DEF UsableIn, Made
  <2> QED
    BY <2>1, <2>2, <2>3 DEF From
<1>3. boot_info \in Seq([start : Nat, size : Nat])
  BY DEF BInit
<1> QED
  BY <1>1, <1>2, <1>3 DEF BInit, DetectInv

(* Such a function is continued by a number that is larger.                *)
LEMMA Continued ==
  ASSUME NEW l \in Nat, NEW n \in Nat, NEW at, NEW U, Increasing(at, l, n, U),
         NEW to, to = [k \in 1..(l + 1) |-> IF k = l + 1 THEN n + 1 ELSE at[k]]
  PROVE  Increasing(to, l + 1, n + 1, U \union {n + 1})
<1>1. ASSUME NEW k \in 1..l PROVE to[k] = at[k] /\ at[k] \in 1..n
  BY DEF Increasing
<1>2. to[l + 1] = n + 1
  OBVIOUS
<1>3. \A k \in 1..(l + 1) : k \in 1..l \/ k = l + 1
  OBVIOUS
<1>4. ASSUME NEW k \in 1..(l + 1) PROVE to[k] \in 1..(n + 1)
  <2>1. CASE k \in 1..l
    BY <1>1, <2>1
  <2>2. CASE k = l + 1
    BY <1>2, <2>2
  <2> QED
    BY <1>3, <2>1, <2>2
<1>5. ASSUME NEW j \in 1..(l + 1), NEW k \in 1..(l + 1), j < k PROVE to[j] < to[k]
  <2>1. PICK x \in 1..l : x = j
    BY <1>5
  <2>2. CASE k \in 1..l
    <3>1. to[x] = at[x] /\ to[k] = at[k]
      BY <1>1, <2>2
    <3>2. at[x] < at[k]
      BY <1>5, <2>1, <2>2 DEF Increasing
    <3> QED
      BY <2>1, <3>1, <3>2
  <2>3. CASE k = l + 1
    <3>1. to[x] \in 1..n
      BY <1>1
    <3> QED
      BY <1>2, <2>1, <2>3, <3>1
  <2> QED
    BY <1>3, <2>2, <2>3
<1>6. {to[k] : k \in 1..(l + 1)} = U \union {n + 1}
  <2>1. 1..(l + 1) = (1..l) \union {l + 1}
    OBVIOUS
  <2>2. {to[k] : k \in 1..l} = U
    BY <1>1 DEF Increasing
  <2>3. \A S, e : {to[k] : k \in S \union {e}} = {to[k] : k \in S} \union {to[e]}
    OBVIOUS
  <2> QED
    BY <1>2, <2>1, <2>2, <2>3
<1>7. to \in [1..(l + 1) -> 1..(n + 1)]
  BY <1>4
<1> QED
  BY <1>5, <1>6, <1>7 DEF Increasing

LEMMA UsableNext ==
  ASSUME NEW map, NEW n \in Nat
  PROVE  UsableIn(map, n + 1) = IF Usable(map[n + 1]) THEN UsableIn(map, n) \union {n + 1}
                                                      ELSE UsableIn(map, n)
<1>1. 1..(n + 1) = (1..n) \union {n + 1}
  OBVIOUS
<1> QED
  BY <1>1 DEF UsableIn

(* An entry that is not memory, or is ignored, adds no region; one that is *)
(* memory adds its own behind the others.                                  *)
LEMMA FromSame ==
  ASSUME NEW R, NEW map, NEW n \in Nat, From(R, map, n), ~Usable(map[n + 1])
  PROVE  From(R, map, n + 1)
<1>1. PICK at : Increasing(at, Len(R), n, UsableIn(map, n)) /\ Made(R, map, at, Len(R))
  BY DEF From
<1>2. Increasing(at, Len(R), n + 1, UsableIn(map, n))
  BY <1>1 DEF Increasing
<1>3. UsableIn(map, n + 1) = UsableIn(map, n)
  BY UsableNext
<1> QED
  BY <1>1, <1>2, <1>3 DEF From

LEMMA FromMore ==
  ASSUME NEW T, NEW R \in Seq(T), NEW map, NEW n \in Nat, From(R, map, n),
         Usable(map[n + 1]), NEW r \in T,
         r = [start |-> map[n + 1].base % UINT, size |-> map[n + 1].length % UINT]
  PROVE  From(Append(R, r), map, n + 1)
<1>1. PICK l \in Nat : l = Len(R)
  OBVIOUS
<1>2. PICK at : Increasing(at, l, n, UsableIn(map, n)) /\ Made(R, map, at, l)
  BY <1>1 DEF From
<1>3. PICK to : to = [k \in 1..(l + 1) |-> IF k = l + 1 THEN n + 1 ELSE at[k]]
  OBVIOUS
<1>4. Increasing(to, l + 1, n + 1, UsableIn(map, n) \union {n + 1})
  BY <1>2, <1>3, Continued
<1>5. UsableIn(map, n + 1) = UsableIn(map, n) \union {n + 1}
  BY UsableNext
<1>6. PICK Q : Q = Append(R, r)
  OBVIOUS
<1>7. Len(Q) = l + 1 /\ (\A k \in 1..l : Q[k] = R[k]) /\ Q[l + 1] = r
  BY <1>1, <1>6
<1>8. \A k \in 1..(l + 1) : k \in 1..l \/ k = l + 1
  OBVIOUS
<1>9. Made(Q, map, to, l + 1)
  <2> SUFFICES ASSUME NEW k \in 1..(l + 1)
               PROVE  Q[k] = [start |-> map[to[k]].base % UINT,
                              size  |-> map[to[k]].length % UINT]
    BY DEF Made
  <2>1. CASE k \in 1..l
    <3>1. to[k] = at[k]
      BY <1>3, <2>1
    <3> QED
      BY <1>2, <1>7, <2>1, <3>1 DEF Made
  <2>2. CASE k = l + 1
    <3>1. to[k] = n + 1
      BY <1>3, <2>2
    <3> QED
      BY <1>7, <2>2, <3>1
  <2> QED
    BY <1>8, <2>1, <2>2, Zenon
<1> QED
  BY <1>4, <1>5, <1>6, <1>7, <1>9 DEF From

(* One turn of the loop of detect_memory.                                  *)
LEMMA DetectStep ==
  ASSUME DetectInv, detect_memory
  PROVE  DetectInv'
<1>1. /\ bios \in Maps /\ bios' = bios /\ fail' = fail /\ phase = "detect"
      /\ fail \in 0..BOOT_RAM_REGION_MAX /\ i \in 0..BOOT_RAM_REGION_MAX
      /\ contID \in 0..(Len(bios) - 1)
      /\ boot_info \in Seq([start : Nat, size : Nat])
  BY DEF DetectInv, detect_memory
<1>2. Given' = Given
  BY <1>1 DEF Given
<1>3. /\ Len(bios) \in Nat \ {0} /\ BOOT_RAM_REGION_MAX \in Nat
      /\ \A k \in 1..Len(bios) : /\ bios[k].base \in Nat /\ bios[k].length \in Nat
                                 /\ bios[k].ignored \in BOOLEAN
  BY <1>1, MapFacts, BootAssumption
<1>4. CASE /\ i + 1 = fail \/ i = BOOT_RAM_REGION_MAX
           /\ phase' = "protect" /\ UNCHANGED <<contID, i, boot_info>>
  <2>1. ASSUME ~Last(bios).ignored PROVE From(boot_info', bios', Given')
    <3>1. i < Len(bios) /\ (fail # 0 => i < fail) /\ From(boot_info, bios, i)
      BY <1>1, <2>1 DEF DetectInv
    <3>2. Given = i
      BY <1>1, <1>3, <1>4, <3>1, GivenIs
    <3> QED
      BY <1>1, <1>2, <1>4, <3>1, <3>2
  <2> QED
    BY <1>1, <1>4, <2>1 DEF DetectInv, Last
<1>5. CASE /\ i < BOOT_RAM_REGION_MAX /\ i + 1 # fail
           /\ contID' = (contID + 1) % Len(bios) /\ i' = i + 1
           /\ \/ /\ bios[contID + 1].ignored
                 /\ UNCHANGED <<phase, boot_info>>
              \/ /\ ~bios[contID + 1].ignored
                 /\ boot_info' = recorded(boot_info, bios[contID + 1])
                 /\ phase' = IF (contID + 1) % Len(bios) = 0 THEN "protect" ELSE "detect"
  <2>1. contID + 1 \in 1..Len(bios)
    BY <1>1, <1>3
  <2>2. PICK e : e = bios[contID + 1]
    OBVIOUS
  <2>3. PICK r : r = [start |-> e.base % UINT, size |-> e.length % UINT]
    OBVIOUS
  <2>4. r \in [start : Nat, size : Nat]
    <3>1. UINT \in Nat \ {0}
      BY BootAssumption
    <3>2. e.base \in Nat /\ e.length \in Nat
      BY <1>3, <2>1, <2>2
    <3>3. e.base % UINT \in Nat /\ e.length % UINT \in Nat
      BY <3>1, <3>2
    <3> QED
      BY <2>3, <3>3
  <2>5. boot_info' = IF Usable(e) THEN Append(boot_info, r) ELSE boot_info
    BY <1>5, <2>2, <2>3 DEF recorded, Usable
  <2>6. boot_info' \in Seq([start : Nat, size : Nat])
    <3>1. PICK T : T = [start : Nat, size : Nat]
      OBVIOUS
    <3>2. \A q \in Seq(T), x \in T : Append(q, x) \in Seq(T)
      OBVIOUS
    <3> QED
      BY <1>1, <2>4, <2>5, <3>1, <3>2
  <2>7. contID' = IF contID + 1 = Len(bios) THEN 0 ELSE contID + 1
    BY <1>3, <1>5, <2>1, ModIs
  <2>8. contID' \in 0..(Len(bios) - 1) /\ i' \in 0..BOOT_RAM_REGION_MAX
    BY <1>1, <1>3, <1>5, <2>1, <2>7
  <2>9. ASSUME ~Last(bios).ignored
        PROVE  /\ phase' = "detect" =>
                    /\ contID' = i' /\ i' < Len(bios) /\ (fail # 0 => i' < fail)
                    /\ From(boot_info', bios', i')
               /\ phase' # "detect" => From(boot_info', bios', Given')
    <3>1. /\ contID = i /\ i < Len(bios) /\ (fail # 0 => i < fail)
          /\ From(boot_info, bios, i)
      BY <1>1, <2>9 DEF DetectInv
    <3>2. i \in Nat
      BY <1>1, <1>3
    <3>3. From(boot_info', bios, i + 1)
      <4>1. CASE Usable(e)
        BY <1>1, <2>2, <2>3, <2>4, <2>5, <3>1, <3>2, <4>1, FromMore
      <4>2. CASE ~Usable(e)
        BY <2>2, <2>5, <3>1, <3>2, <4>2, FromSame
      <4> QED
        BY <4>1, <4>2
    <3>4. phase' = IF i + 1 = Len(bios) THEN "protect" ELSE "detect"
      <4>1. i + 1 = Len(bios) => ~bios[contID + 1].ignored
        BY <2>9, <3>1 DEF Last
      <4>2. (contID + 1) % Len(bios) = 0 <=> contID + 1 = Len(bios)
        BY <1>3, <2>1, ModIs
      <4> QED
        BY <1>1, <1>5, <3>1, <4>1, <4>2
    <3>5. fail # 0 => i + 1 < fail
      BY <1>1, <1>5, <3>1, <3>2
    <3>6. i + 1 = Len(bios) => Given = i + 1
      BY <1>1, <1>3, <1>5, <3>2, <3>5, GivenIs
    <3>7. i + 1 # Len(bios) => i + 1 < Len(bios) /\ contID' = i + 1
      BY <1>3, <2>7, <3>1, <3>2
    <3> QED
      BY <1>1, <1>2, <1>5, <3>3, <3>4, <3>5, <3>6, <3>7
  <2> QED
    BY <1>1, <2>6, <2>8, <2>9 DEF DetectInv, Last
<1> QED
  BY <1>1, <1>4, <1>5 DEF detect_memory

LEMMA DetectNext ==
  ASSUME DetectInv, [BNext]_bvars
  PROVE  DetectInv'
<1>1. CASE detect_memory
  BY <1>1, DetectStep
<1>2. CASE /\ UNCHANGED <<bios, fail, contID, i, boot_info>>
           /\ phase = phase' \/ (phase # "detect" /\ phase' # "detect")
  <2>1. Given' = Given
    BY <1>2 DEF Given
  <2> QED
    BY <1>2, <2>1 DEF DetectInv, Last
<1>3. CASE \/ enter_protect_mode \/ read_disk \/ reload_elf_file \/ load_kernel
           \/ enable_page_mode \/ memory_init \/ UNCHANGED bvars
  BY <1>2, <1>3 DEF enter_protect_mode, read_disk, reload_elf_file, load_kernel,
     enable_page_mode, memory_init, bvars
<1> QED
  BY <1>1, <1>3 DEF BNext, Over

(* boot_info has the memory that the BIOS gave, every region once and in   *)
(* order (RegionsExact), for every map whose last entry is not ignored,    *)
(* wherever a call fails and however small the table is (detect_memory).   *)
THEOREM RegionsSafe == BSpec => []RegionsExact
<1>1. ASSUME DetectInv PROVE RegionsExact
  BY <1>1, DetectedFrom DEF DetectInv, RegionsExact
<1> QED
  BY <1>1, DetectInit, DetectNext, PTL DEF BSpec

-----------------------------------------------------------------------------
(* Every non-empty set of natural numbers has a least element.  It takes   *)
(* the place of induction: the set is that of the counterexamples.         *)
LEMMA LeastNat ==
  ASSUME NEW T \in SUBSET Nat, T # {}
  PROVE  \E x \in T : \A y \in T : x <= y
<1>1. PICK R : R = OpToRel(<, Nat)
  OBVIOUS
<1>2. IsWellFoundedOn(R, Nat)
  BY <1>1, NatLessThanWellFounded
<1>3. PICK x \in T : \A y \in T : ~(<<y, x>> \in R)
  BY <1>2, WFMin
<1>4. \A y \in Nat : y < x => <<y, x>> \in R
  BY <1>1, Zenon DEF OpToRel
<1>5. \A y \in T : ~(y < x)
  BY <1>3, <1>4
<1> QED
  BY <1>5

\* f is the sum in total_mem_size, turn by turn.
Sums(R, f) == f = [n \in 0..Len(R) |-> IF n = 0 THEN 0 ELSE (f[n-1] + R[n].size) % UINT]

(* The loop of total_mem_size has one result.                              *)
LEMMA TotalIs ==
  ASSUME NEW R, Len(R) \in Nat, NEW g, Sums(R, g)
  PROVE  total_mem_size(R) = g[Len(R)]
<1>1. total_mem_size(R) = (CHOOSE f : Sums(R, f))[Len(R)]
  BY Zenon DEF total_mem_size, Sums
<1>2. Sums(R, CHOOSE f : Sums(R, f))
  BY Zenon
<1>3. PICK f : f = (CHOOSE h : Sums(R, h)) /\ Sums(R, f)
  BY <1>2
<1>4. PICK T : T = {n \in 0..Len(R) : f[n] # g[n]}
  OBVIOUS
<1>5. T = {}
  <2> SUFFICES ASSUME T # {} PROVE FALSE
    OBVIOUS
  <2>1. PICK n \in T : \A m \in T : n <= m
    BY <1>4, LeastNat
  <2>2. n \in 0..Len(R) /\ f[n] # g[n]
    BY <1>4, <2>1
  <2>3. /\ f[n] = IF n = 0 THEN 0 ELSE (f[n-1] + R[n].size) % UINT
        /\ g[n] = IF n = 0 THEN 0 ELSE (g[n-1] + R[n].size) % UINT
    BY <1>3, <2>2 DEF Sums
  <2>4. n # 0
    BY <2>2, <2>3
  <2>5. n - 1 \in 0..Len(R) /\ n - 1 \notin T
    BY <2>1, <2>2, <2>4
  <2>6. f[n-1] = g[n-1]
    BY <1>4, <2>5
  <2> QED
    BY <2>2, <2>3, <2>4, <2>6
<1> QED
  BY <1>1, <1>3, <1>4, <1>5

\* The addresses of the first n regions, which at takes to their entries.
Covered(map, at, n) == UNION {Extent(map[at[k]]) : k \in 1..n}

LEMMA CoveredNext ==
  ASSUME NEW map, NEW at, NEW n \in Nat
  PROVE  /\ Covered(map, at, 0) = {}
         /\ Covered(map, at, n + 1) = Covered(map, at, n) \union Extent(map[at[n + 1]])
<1>1. 1..0 = {} /\ 1..(n + 1) = (1..n) \union {n + 1}
  OBVIOUS
<1>2. \A S, e : UNION {Extent(map[at[k]]) : k \in S \union {e}}
                  = (UNION {Extent(map[at[k]]) : k \in S}) \union Extent(map[at[e]])
  BY Zenon
<1> QED
  BY <1>1, <1>2 DEF Covered

LEMMA ExtentFinite ==
  ASSUME NEW map \in Maps, NEW m \in 1..Len(map)
  PROVE  /\ IsFiniteSet(Extent(map[m])) /\ Cardinality(Extent(map[m])) = map[m].length
         /\ Extent(map[m]) \in SUBSET Nat
<1>1. PICK b \in Nat, l \in Nat : b = map[m].base /\ l = map[m].length
  BY MapFacts
<1>2. Extent(map[m]) = b..(b + l - 1)
  BY <1>1 DEF Extent
<1>3. IsFiniteSet(b..(b + l - 1)) /\ Cardinality(b..(b + l - 1)) = l
  BY FS_Interval
<1> QED
  BY <1>1, <1>2, <1>3

LEMMA CoveredFinite ==
  ASSUME NEW map \in Maps, NEW l \in Nat, NEW at \in [1..l -> 1..Len(map)]
  PROVE  \A n \in 0..l : IsFiniteSet(Covered(map, at, n))
<1>1. PICK T : T = {n \in 0..l : ~IsFiniteSet(Covered(map, at, n))}
  OBVIOUS
<1>2. T = {}
  <2> SUFFICES ASSUME T # {} PROVE FALSE
    OBVIOUS
  <2>0. T \in SUBSET Nat
    BY <1>1
  <2>1. PICK n \in T : \A m \in T : n <= m
    BY <2>0, LeastNat
  <2>2. n \in 0..l /\ ~IsFiniteSet(Covered(map, at, n))
    BY <1>1, <2>1
  <2>3. n # 0
    BY <2>2, CoveredNext, FS_EmptySet
  <2>4. PICK m \in Nat : m = n - 1 /\ m \in 0..l /\ m \notin T /\ n = m + 1
    BY <2>1, <2>2, <2>3
  <2>5. IsFiniteSet(Covered(map, at, m))
    BY <1>1, <2>4
  <2>6. IsFiniteSet(Extent(map[at[n]]))
    <3>1. n \in 1..l
      BY <2>2, <2>3
    <3> QED
      BY <3>1, ExtentFinite
  <2>7. Covered(map, at, n) = Covered(map, at, m) \union Extent(map[at[n]])
    <3>1. Covered(map, at, m + 1) = Covered(map, at, m) \union Extent(map[at[m + 1]])
      BY CoveredNext
    <3> QED
      BY <2>4, <3>1
  <2> QED
    BY <2>2, <2>5, <2>6, <2>7, FS_Union
<1> QED
  BY <1>1, <1>2

(* All the memory there is, when the map was given in full.                *)
LEMMA RamCovered ==
  ASSUME bios \in Maps, NEW l \in Nat, NEW at,
         Increasing(at, l, Len(bios), UsableIn(bios, Len(bios)))
  PROVE  Ram = Covered(bios, at, l)
<1>1. DOMAIN bios = 1..Len(bios)
  BY MapFacts
<1>2. PICK n, U : n = Len(bios) /\ U = UsableIn(bios, n)
  OBVIOUS
<1>3. {x \in ToSet(bios) : Usable(x)} = {bios[m] : m \in U}
  BY <1>1, <1>2 DEF ToSet, UsableIn
<1>4. U = {at[k] : k \in 1..l}
  BY <1>2 DEF Increasing
<1>5. Ram = UNION {Extent(bios[m]) : m \in U}
  BY <1>3, Zenon DEF Ram
<1>6. {Extent(bios[m]) : m \in U} = {Extent(bios[at[k]]) : k \in 1..l}
  BY <1>4, Zenon
<1> QED
  BY <1>5, <1>6 DEF Covered

LEMMA SmallMod == ASSUME NEW a \in Nat, NEW d \in Nat, a < d PROVE a % d = a
OBVIOUS

\* No memory is in two entries.
Separate(map) ==
    \A j, k \in UsableIn(map, Len(map)) : j # k => Extent(map[j]) \intersect Extent(map[k]) = {}

(* One turn of total_mem_size adds what its region covers.                 *)
LEMMA TurnCovers ==
  ASSUME NEW map \in Maps, NEW l \in Nat, NEW at,
         Increasing(at, l, Len(map), UsableIn(map, Len(map))), Separate(map),
         IsFiniteSet(Covered(map, at, l)), Cardinality(Covered(map, at, l)) < UINT,
         NEW m \in 0..(l - 1)
  PROVE  Cardinality(Covered(map, at, m + 1))
           = (Cardinality(Covered(map, at, m)) + (map[at[m + 1]].length % UINT)) % UINT
<1>1. PICK n \in 1..l : n = m + 1
  OBVIOUS
<1>2. at \in [1..l -> 1..Len(map)]
  BY DEF Increasing
<1>3. PICK C, E, D : C = Covered(map, at, m) /\ E = Extent(map[at[n]]) /\ D = Covered(map, at, n)
  OBVIOUS
<1>4. D = C \union E
  <2>1. Covered(map, at, m + 1) = Covered(map, at, m) \union Extent(map[at[m + 1]])
    <3>1. m \in Nat
      OBVIOUS
    <3> QED
      BY <3>1, CoveredNext
  <2> QED
    BY <1>1, <1>3, <2>1
<1>5. C \intersect E = {}
  <2> SUFFICES ASSUME NEW x \in C, x \in E PROVE FALSE
    OBVIOUS
  <2>1. PICK k \in 1..m : x \in Extent(map[at[k]])
    BY <1>3 DEF Covered
  <2>2. k \in 1..l /\ k < n
    BY <1>1
  <2>3. at[k] < at[n] /\ at[k] \in 1..Len(map) /\ at[n] \in 1..Len(map)
    BY <1>2, <2>2 DEF Increasing
  <2>4. at[k] # at[n]
    BY <2>3
  <2>5. at[k] \in UsableIn(map, Len(map)) /\ at[n] \in UsableIn(map, Len(map))
    BY <2>2 DEF Increasing
  <2> QED
    BY <1>3, <2>1, <2>4, <2>5 DEF Separate
<1>6. D \in SUBSET Covered(map, at, l)
  <2>1. \A k \in 1..n : k \in 1..l
    OBVIOUS
  <2> QED
    BY <1>3, <2>1 DEF Covered
<1>7. IsFiniteSet(C) /\ IsFiniteSet(D)
  <2>1. m \in 0..l /\ n \in 0..l
    BY <1>1
  <2> QED
    BY <1>2, <1>3, <2>1, CoveredFinite
<1>8. IsFiniteSet(E) /\ Cardinality(E) = map[at[n]].length
  <2>1. at[n] \in 1..Len(map)
    BY <1>2
  <2> QED
    BY <1>3, <2>1, ExtentFinite
<1>9. PICK c, e, d : c = Cardinality(C) /\ e = Cardinality(E) /\ d = Cardinality(D)
  OBVIOUS
<1>10. c \in Nat /\ e \in Nat /\ d \in Nat
  BY <1>7, <1>8, <1>9, FS_CardinalityType
<1>11. d = c + e
  <2>1. Cardinality(C \intersect E) = 0
    BY <1>5, FS_EmptySet
  <2>2. Cardinality(C \union E) = Cardinality(C) + Cardinality(E) - Cardinality(C \intersect E)
    BY <1>7, <1>8, FS_Union
  <2> QED
    BY <1>4, <1>9, <1>10, <2>1, <2>2
<1>12. d < UINT /\ UINT \in Nat
  <2>1. Cardinality(D) <= Cardinality(Covered(map, at, l))
    BY <1>6, FS_Subset
  <2>2. Cardinality(Covered(map, at, l)) \in Nat
    BY FS_CardinalityType
  <2> QED
    BY <1>9, <1>10, <2>1, <2>2, BootAssumption
<1>13. e % UINT = e /\ d % UINT = d
  BY <1>10, <1>11, <1>12, SmallMod
<1> QED
  BY <1>1, <1>3, <1>8, <1>9, <1>11, <1>13

(* The sum of the regions is the size of all the memory there is.          *)
LEMMA TotalIsRam ==
  ASSUME bios \in Maps, boot_info \in Seq([start : Nat, size : Nat]),
         From(boot_info, bios, Len(bios)), Separate(bios), Cardinality(Ram) < UINT
  PROVE  IsFiniteSet(Ram) /\ total_mem_size(boot_info) = Cardinality(Ram)
<1>1. PICK l \in Nat : l = Len(boot_info)
  OBVIOUS
<1>2. PICK at : /\ Increasing(at, l, Len(bios), UsableIn(bios, Len(bios)))
                /\ Made(boot_info, bios, at, l)
  BY <1>1 DEF From
<1>3. Ram = Covered(bios, at, l)
  BY <1>2, RamCovered
<1>4. IsFiniteSet(Ram)
  <2>1. at \in [1..l -> 1..Len(bios)]
    BY <1>2 DEF Increasing
  <2>2. l \in 0..l
    OBVIOUS
  <2> QED
    BY <1>3, <2>1, <2>2, CoveredFinite
<1>5. PICK g : g = [n \in 0..l |-> Cardinality(Covered(bios, at, n))]
  OBVIOUS
<1>6. ASSUME NEW n \in 0..l
      PROVE  g[n] = IF n = 0 THEN 0 ELSE (g[n-1] + boot_info[n].size) % UINT
  <2>1. CASE n = 0
    BY <1>5, <2>1, CoveredNext, FS_EmptySet
  <2>2. CASE n # 0
    <3>1. PICK m \in 0..(l - 1) : n = m + 1 /\ m = n - 1 /\ m \in 0..l /\ n \in 1..l
      BY <2>2
    <3>2. Cardinality(Covered(bios, at, m + 1))
            = (Cardinality(Covered(bios, at, m)) + (bios[at[m + 1]].length % UINT)) % UINT
      BY <1>2, <1>3, <1>4, TurnCovers
    <3>3. boot_info[n].size = bios[at[n]].length % UINT
      <4>1. boot_info[n] = [start |-> bios[at[n]].base % UINT,
                            size  |-> bios[at[n]].length % UINT]
        BY <1>2, <3>1, Zenon DEF Made
      <4> QED
        BY <4>1
    <3>4. g[n] = Cardinality(Covered(bios, at, n)) /\ g[n-1] = Cardinality(Covered(bios, at, m))
      BY <1>5, <3>1
    <3> QED
      BY <2>2, <3>1, <3>2, <3>3, <3>4
  <2> QED
    BY <2>1, <2>2
<1>7. Sums(boot_info, g)
  BY <1>1, <1>5, <1>6 DEF Sums
<1>8. g[l] = Cardinality(Ram)
  BY <1>3, <1>5
<1> QED
  BY <1>1, <1>4, <1>7, <1>8, TotalIs

(* memory_init rounds the memory above 1 MB down to pages.                 *)
LEMMA FreeSizeIs ==
  ASSUME NEW c \in Nat, MEM_EXT_START <= c, c < UINT
  PROVE  /\ free_size(c) \in Nat /\ free_size(c) <= c - MEM_EXT_START
         /\ c - MEM_EXT_START < free_size(c) + MEM_PAGE_SIZE
<1>1. PICK d \in Nat : d = MEM_PAGE_SIZE /\ d # 0
  BY BootAssumption
<1>2. PICK x \in Nat : x = c - MEM_EXT_START /\ x < UINT
  BY BootAssumption
<1>3. x % UINT = x
  BY <1>2, SmallMod, BootAssumption
<1>4. free_size(c) = (x \div d) * d
  BY <1>1, <1>2, <1>3 DEF free_size
<1>5. PICK q, y : q = (x \div d) * d /\ y = x % d
  OBVIOUS
<1>6. q \in Nat /\ y \in 0..(d - 1) /\ x = q + y
  <2>1. x = (x \div d) * d + (x % d) /\ x % d \in 0..(d - 1) /\ x \div d \in Nat
    BY <1>1
  <2>2. (x \div d) * d \in Nat
    BY <2>1
  <2> QED
    BY <1>5, <2>1, <2>2
<1>7. PICK s : s = free_size(c) /\ s = q
  BY <1>4, <1>5
<1>8. s \in Nat /\ s <= c - MEM_EXT_START /\ c - MEM_EXT_START < s + d
  BY <1>1, <1>2, <1>6, <1>7
<1> QED
  BY <1>1, <1>7, <1>8

(* The memory below an address, and from there on.                         *)
LEMMA CutSizes ==
  ASSUME NEW R \in SUBSET Nat, IsFiniteSet(R), NEW E \in Nat, NEW low, NEW high,
         low = {a \in R : a < E}, high = {a \in R : a >= E}
  PROVE  /\ high = R \ low
         /\ Cardinality(R) \in Nat /\ Cardinality(low) \in Nat /\ Cardinality(high) \in Nat
         /\ Cardinality(R) = Cardinality(low) + Cardinality(high)
         /\ Cardinality(low) <= E
<1>1. \A a \in R : a < E <=> ~(a >= E)
  OBVIOUS
<1>2. high = R \ low
  BY <1>1
<1>3. low \union high = R /\ low \intersect high = {}
  BY <1>2
<1>4. low \in SUBSET R /\ high \in SUBSET R
  OBVIOUS
<1>5. IsFiniteSet(low) /\ IsFiniteSet(high)
  BY <1>4, FS_Subset
<1>6. Cardinality(R) \in Nat /\ Cardinality(low) \in Nat /\ Cardinality(high) \in Nat
  BY <1>5, FS_CardinalityType
<1>7. Cardinality(low \union high)
        = Cardinality(low) + Cardinality(high) - Cardinality(low \intersect high)
  BY <1>5, FS_Union
<1>8. Cardinality(R) = Cardinality(low) + Cardinality(high)
  <2>1. Cardinality(R) = Cardinality(low) + Cardinality(high) - Cardinality({})
    BY <1>3, <1>7, Zenon
  <2> QED
    BY <1>6, <2>1, FS_EmptySet
<1>9. Cardinality(low) <= E
  <2>1. PICK S : S = 0..(E - 1)
    OBVIOUS
  <2>2. IsFiniteSet(S) /\ Cardinality(S) = E
    BY <2>1, FS_Interval
  <2>3. low \in SUBSET S
    <3> SUFFICES ASSUME NEW a \in low PROVE a \in S
      OBVIOUS
    <3>1. a \in Nat /\ a < E
      OBVIOUS
    <3> QED
      BY <2>1, <3>1
  <2>4. Cardinality(low) <= Cardinality(S)
    BY <2>2, <2>3, FS_Subset
  <2> QED
    BY <2>2, <2>4
<1> QED
  BY <1>2, <1>6, <1>8, <1>9

(* What memory_init has made of boot_info.                                 *)
AllocInv ==
    /\ DetectInv
    /\ phase = "ready" => alloc_size = free_size(total_mem_size(boot_info))

LEMMA AllocNext ==
  ASSUME AllocInv, [BNext]_bvars
  PROVE  AllocInv'
<1>1. DetectInv'
  BY DetectNext DEF AllocInv
<1>3. CASE memory_init
  BY <1>1, <1>3 DEF memory_init, AllocInv
<1>4. CASE detect_memory \/ enter_protect_mode \/ read_disk \/ reload_elf_file
           \/ load_kernel \/ enable_page_mode
  <2>1. phase' # "ready"
    BY <1>4 DEF detect_memory, enter_protect_mode, read_disk, reload_elf_file, load_kernel,
       enable_page_mode
  <2> QED
    BY <1>1, <2>1 DEF AllocInv
<1>5. CASE UNCHANGED bvars
  BY <1>1, <1>5 DEF bvars, AllocInv
<1> QED
  BY <1>3, <1>4, <1>5 DEF BNext, Over

(* On a map with one block of memory above 1 MB, the allocator hands out   *)
(* only memory that exists, and gives away less than a page beside what is *)
(* missing below 1 MB (AllocatorInRam), for every such map, page size and  *)
(* table size (memory_init, total_mem_size).                               *)
THEOREM AllocatorSafe == BSpec => []AllocatorInRam
<1>1. ASSUME AllocInv PROVE AllocatorInRam
  <2> SUFFICES ASSUME phase = "ready", PlainMap PROVE AllocatorInRam
    BY DEF AllocatorInRam
  <2>1. PICK E, low, high : /\ E = MEM_EXT_START
                            /\ low = {a \in Ram : a < MEM_EXT_START}
                            /\ high = {a \in Ram : a >= MEM_EXT_START}
    OBVIOUS
  <2>2. E \in Nat /\ UINT \in Nat /\ MEM_PAGE_SIZE \in Nat
    BY <2>1, BootAssumption
  <2>3. /\ bios \in Maps /\ boot_info \in Seq([start : Nat, size : Nat])
        /\ ~Last(bios).ignored /\ Given = Len(bios)
        /\ From(boot_info, bios, Len(bios))
    BY <1>1 DEF AllocInv, DetectInv, PlainMap
  <2>4. Separate(bios)
    BY <2>3, MapFacts DEF PlainMap, Separate, UsableIn
  <2>5. /\ high = E..(E + Cardinality(high) - 1)
        /\ E <= Cardinality(Ram) /\ Cardinality(Ram) < UINT
    BY <2>1 DEF PlainMap
  <2>6. IsFiniteSet(Ram) /\ total_mem_size(boot_info) = Cardinality(Ram)
    BY <2>3, <2>4, <2>5, TotalIsRam
  <2>7. Ram \in SUBSET Nat
    <3> SUFFICES ASSUME NEW a \in Ram PROVE a \in Nat
      OBVIOUS
    <3>1. PICK m \in 1..Len(bios) : a \in Extent(bios[m])
      BY <2>3, MapFacts DEF Ram, ToSet
    <3> QED
      BY <2>3, <3>1, ExtentFinite
  <2>8. PICK c, l, h : c = Cardinality(Ram) /\ l = Cardinality(low) /\ h = Cardinality(high)
    OBVIOUS
  <2>9. /\ high = Ram \ low /\ c \in Nat /\ l \in Nat /\ h \in Nat
        /\ c = l + h /\ l <= E
    BY <2>1, <2>2, <2>6, <2>7, <2>8, CutSizes
  <2>10. PICK s : s = alloc_size /\ s = free_size(c)
    BY <1>1, <2>6, <2>8 DEF AllocInv
  <2>11. s \in Nat /\ s <= c - E /\ c - E < s + MEM_PAGE_SIZE
    BY <2>1, <2>5, <2>8, <2>9, <2>10, FreeSizeIs
  <2>12. E..(E + s - 1) \subseteq E..(E + h - 1)
    BY <2>2, <2>9, <2>11
  <2>13. h - s < (E - l) + MEM_PAGE_SIZE
    BY <2>2, <2>9, <2>11
  <2> QED
    BY <2>1, <2>5, <2>8, <2>9, <2>10, <2>12, <2>13 DEF AllocatorInRam
<1>2. BInit => AllocInv
  BY DetectInit DEF BInit, AllocInv
<1> QED
  BY <1>1, <1>2, AllocNext, PTL DEF BSpec
=============================================================================
