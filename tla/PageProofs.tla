----------------------------- MODULE PageProofs -----------------------------
(***************************************************************************)
(* The bitmap's search, for every bitmap, bit and count, and the page      *)
(* allocator's invariants for the calls of addr_alloc_page that the kernel *)
(* makes: all of them ask for one page.                                    *)
(***************************************************************************)
EXTENDS PageAlloc, WellFoundedInduction, TLAPS

(* Every non-empty set of natural numbers has a least element.  It takes   *)
(* the place of induction: the set is that of the counterexamples.         *)
LEMMA LeastNat ==
  ASSUME NEW T \in SUBSET Nat, T # {}
  PROVE  \E x \in T : \A y \in T : x <= y
<1>1. PICK R : R = OpToRel(<, Nat)
  OBVIOUS
<1>2. IsWellFoundedOn(R, Nat)
  BY <1>1, NatLessThanWellFounded
<1>3. PICK x \in T : \A y \in T : ~(<<y, x>> \in R)
  BY <1>2, WFMin
<1>4. \A y \in Nat : y < x => <<y, x>> \in R
  BY <1>1, Zenon DEF OpToRel
<1>5. \A y \in T : ~(y < x)
  BY <1>3, <1>4
<1> QED
  BY <1>5

LEMMA MinNat ==
  ASSUME NEW T \in SUBSET Nat, T # {}
  PROVE  Min(T) \in T /\ \A y \in T : Min(T) <= y
BY LeastNat DEF Min
-----------------------------------------------------------------------------
\* The bits that the search reads before it accepts s: the one at s, and the
\* count - 1 bits from s on, as far as the bitmap goes.
Accepted(b, bit, count, s) ==
    /\ b[s] = bit
    /\ \A i \in s..(s + count - 2) : i < bit_count => b[i] = bit

\* The places from s on where the search may end.
Places(b, bit, count, s) == {j \in s..(bit_count - 1) : Accepted(b, bit, count, j)}

\* What the search returns when it starts at s, without recursion.
FirstPlace(b, bit, count, s) ==
    LET places == Places(b, bit, count, s)
    IN  IF places # {} /\ Min(places) + count - 1 <= bit_count THEN Min(places) ELSE -1

\* The equation of the search as a condition on a function.
Solves(b, bit, count, f) ==
    f = [s \in 0..bit_count |->
          IF s = bit_count THEN -1
          ELSE IF bitmap_get_bit(b, s) # bit THEN f[s + 1]
          ELSE LET reads == {i \in s..(s + count - 2) : i < bit_count}
                   other == {i \in reads : bitmap_get_bit(b, i) # bit}
               IN  IF other # {} THEN f[Min(other) + 1]
                   ELSE IF s + count - 1 <= bit_count THEN s ELSE -1]

(* If its equation has a solution, the search is a solution at 0.          *)
LEMMA SearchSolves ==
  ASSUME NEW b, NEW bit, NEW count, NEW g, Solves(b, bit, count, g)
  PROVE  \E f : Solves(b, bit, count, f) /\ search_from(b, bit, count) = f[0]
<1>1. search_from(b, bit, count) = (CHOOSE f : Solves(b, bit, count, f))[0]
  BY Zenon DEF search_from, Solves
<1>2. Solves(b, bit, count, CHOOSE f : Solves(b, bit, count, f))
  BY Zenon
<1> QED
  BY <1>1, <1>2, Zenon

(* The three ways the search goes on from s, in terms of the places.       *)
LEMMA PlacesStep ==
  ASSUME NEW b \in [0..(bit_count-1) -> {0, 1}], NEW bit \in {0, 1},
         NEW count \in Nat \ {0}, NEW s \in 0..(bit_count-1)
  PROVE  /\ b[s] # bit => Places(b, bit, count, s) = Places(b, bit, count, s + 1)
         /\ \A o \in s..(s + count - 2) :
               o < bit_count /\ b[o] # bit
                 => Places(b, bit, count, s) = Places(b, bit, count, o + 1)
         /\ Accepted(b, bit, count, s)
              => s \in Places(b, bit, count, s) /\ Min(Places(b, bit, count, s)) = s
<1> USE PageAllocAssumption
<1>1. ASSUME b[s] # bit PROVE Places(b, bit, count, s) = Places(b, bit, count, s + 1)
  BY <1>1 DEF Places, Accepted
<1>2. ASSUME NEW o \in s..(s + count - 2), o < bit_count, b[o] # bit
      PROVE  Places(b, bit, count, s) = Places(b, bit, count, o + 1)
  <2>1. ASSUME NEW j \in s..o PROVE ~Accepted(b, bit, count, j)
    <3>1. o \in j..(j + count - 2)
      OBVIOUS
    <3> QED
      BY <1>2, <3>1 DEF Accepted
  <2> QED
    BY <1>2, <2>1 DEF Places
<1>3. ASSUME Accepted(b, bit, count, s)
      PROVE  s \in Places(b, bit, count, s) /\ Min(Places(b, bit, count, s)) = s
  <2>1. PICK P : P = Places(b, bit, count, s)
    OBVIOUS
  <2>2. s \in P /\ P \subseteq Nat /\ \A j \in P : s <= j
    BY <1>3, <2>1 DEF Places
  <2>3. Min(P) \in P /\ \A y \in P : Min(P) <= y
    BY <2>2, MinNat
  <2> QED
    BY <2>1, <2>2, <2>3
<1> QED
  BY <1>1, <1>2, <1>3

(* FirstPlace solves the equation.                                         *)
LEMMA FirstPlaceSolves ==
  ASSUME NEW b \in [0..(bit_count-1) -> {0, 1}], NEW bit \in {0, 1},
         NEW count \in Nat \ {0}
  PROVE  Solves(b, bit, count, [s \in 0..bit_count |-> FirstPlace(b, bit, count, s)])
<1> USE PageAllocAssumption
<1> DEFINE F == [s \in 0..bit_count |-> FirstPlace(b, bit, count, s)]
           other(s) == {i \in {j \in s..(s + count - 2) : j < bit_count} : b[i] # bit}
<1>1. ASSUME NEW s \in 0..bit_count
      PROVE  F[s] = IF s = bit_count THEN -1
                    ELSE IF b[s] # bit THEN F[s + 1]
                    ELSE IF other(s) # {} THEN F[Min(other(s)) + 1]
                    ELSE IF s + count - 1 <= bit_count THEN s ELSE -1
  <2>1. CASE s = bit_count
    <3>1. Places(b, bit, count, s) = {}
      BY <2>1 DEF Places
    <3> QED
      BY <2>1, <3>1 DEF FirstPlace
  <2>2. CASE s # bit_count /\ b[s] # bit
    <3>1. s \in 0..(bit_count-1) /\ s + 1 \in 0..bit_count
      BY <2>2
    <3>2. Places(b, bit, count, s) = Places(b, bit, count, s + 1)
      BY <2>2, <3>1, PlacesStep
    <3> QED
      BY <2>2, <3>1, <3>2 DEF FirstPlace
  <2>3. CASE s # bit_count /\ b[s] = bit /\ other(s) # {}
    <3>1. s \in 0..(bit_count-1)
      BY <2>3
    <3>2. PICK o : o = Min(other(s))
      OBVIOUS
    <3>3. o \in other(s)
      <4>1. other(s) \in SUBSET Nat
        OBVIOUS
      <4> HIDE DEF other
      <4> QED
        BY <2>3, <3>2, <4>1, MinNat
    <3>4. o \in s..(s + count - 2) /\ o < bit_count /\ b[o] # bit /\ o + 1 \in 0..bit_count
      BY <3>3
    <3>5. Places(b, bit, count, s) = Places(b, bit, count, o + 1)
      BY <3>1, <3>4, PlacesStep
    <3>6. F[s] = F[o + 1]
      BY <3>4, <3>5 DEF FirstPlace
    <3> QED
      BY <2>3, <3>2, <3>6
  <2>4. CASE s # bit_count /\ b[s] = bit /\ other(s) = {}
    <3>1. s \in 0..(bit_count-1)
      BY <2>4
    <3>2. Accepted(b, bit, count, s)
      BY <2>4 DEF Accepted
    <3>3. s \in Places(b, bit, count, s) /\ Min(Places(b, bit, count, s)) = s
      BY <3>1, <3>2, PlacesStep
    <3> QED
      BY <2>4, <3>3 DEF FirstPlace
  <2> QED
    BY <2>1, <2>2, <2>3, <2>4
<1>2. F = [s \in 0..bit_count |->
             IF s = bit_count THEN -1
             ELSE IF b[s] # bit THEN F[s + 1]
             ELSE IF other(s) # {} THEN F[Min(other(s)) + 1]
             ELSE IF s + count - 1 <= bit_count THEN s ELSE -1]
  <2>1. F = [s \in 0..bit_count |-> F[s]]
    OBVIOUS
  <2> HIDE DEF F, other
  <2> QED
    BY <1>1, <2>1
<1> HIDE DEF F
<1> QED
  BY <1>2 DEF Solves, bitmap_get_bit, F

(* The equation has one solution: two of them would differ at a place      *)
(* nearest to the end of the bitmap, and the search there depends on       *)
(* places nearer to the end only.                                          *)
LEMMA OneSolution ==
  ASSUME NEW b \in [0..(bit_count-1) -> {0, 1}], NEW bit \in {0, 1},
         NEW count \in Nat \ {0}, NEW f, NEW g,
         Solves(b, bit, count, f), Solves(b, bit, count, g)
  PROVE  f[0] = g[0]
<1> USE PageAllocAssumption
<1> DEFINE other(s) == {i \in {j \in s..(s + count - 2) : j < bit_count} : b[i] # bit}
           T == {n \in Nat : n <= bit_count /\ f[bit_count - n] # g[bit_count - n]}
<1>1. ASSUME NEW h, Solves(b, bit, count, h), NEW s \in 0..bit_count
      PROVE  h[s] = IF s = bit_count THEN -1
                    ELSE IF b[s] # bit THEN h[s + 1]
                    ELSE IF other(s) # {} THEN h[Min(other(s)) + 1]
                    ELSE IF s + count - 1 <= bit_count THEN s ELSE -1
  <2>1. h = [x \in 0..bit_count |->
               IF x = bit_count THEN -1
               ELSE IF b[x] # bit THEN h[x + 1]
               ELSE IF other(x) # {} THEN h[Min(other(x)) + 1]
               ELSE IF x + count - 1 <= bit_count THEN x ELSE -1]
    BY <1>1, Zenon DEF Solves, bitmap_get_bit
  <2> HIDE DEF other
  <2> QED
    BY <2>1
<1> SUFFICES ASSUME f[0] # g[0] PROVE FALSE
  OBVIOUS
<1>2. bit_count \in T
  <2>1. bit_count - bit_count = 0 /\ bit_count \in Nat /\ bit_count <= bit_count
    OBVIOUS
  <2> QED
    BY <2>1
<1>3. T \in SUBSET Nat
  OBVIOUS
<1>4. PICK n \in T : \A m \in T : n <= m
  <2> HIDE DEF T
  <2> QED
    BY <1>2, <1>3, LeastNat
<1>5. PICK s \in 0..bit_count : s = bit_count - n /\ f[s] # g[s]
  BY <1>4
<1>6. \A x \in 0..bit_count : x > s => f[x] = g[x]
  <2> SUFFICES ASSUME NEW x \in 0..bit_count, x > s, f[x] # g[x] PROVE FALSE
    OBVIOUS
  <2>1. bit_count - x \in Nat /\ bit_count - (bit_count - x) = x /\ bit_count - x < n
    BY <1>5
  <2>2. bit_count - x \in T
    BY <2>1
  <2> QED
    BY <1>4, <2>1, <2>2
<1>7. other(s) # {} => /\ Min(other(s)) + 1 \in 0..bit_count
                       /\ Min(other(s)) + 1 > s
  <2> SUFFICES ASSUME other(s) # {}
               PROVE  Min(other(s)) + 1 \in 0..bit_count /\ Min(other(s)) + 1 > s
    OBVIOUS
  <2>1. other(s) \in SUBSET Nat
    OBVIOUS
  <2>2. Min(other(s)) \in other(s)
    <3> HIDE DEF other
    <3> QED
      BY <2>1, MinNat
  <2>3. PICK o \in other(s) : o = Min(other(s))
    BY <2>2
  <2>4. o + 1 \in 0..bit_count /\ o + 1 > s
    OBVIOUS
  <2> QED
    BY <2>3, <2>4
<1>8. s # bit_count => s + 1 \in 0..bit_count /\ s + 1 > s
  OBVIOUS
<1> HIDE DEF other
<1>9. f[s] = g[s]
  BY <1>1, <1>6, <1>7, <1>8
<1> QED
  BY <1>5, <1>9

(* What the search of bitmap_alloc_nbits returns, for every bitmap, bit    *)
(* and count: the first place where the bit and the count - 1 bits from    *)
(* there on match, provided that this place leaves room, to within one     *)
(* bit.  The last of the count bits is not among those that are compared.  *)
THEOREM SearchExact ==
  ASSUME NEW b \in [0..(bit_count-1) -> {0, 1}], NEW bit \in {0, 1},
         NEW count \in Nat \ {0}
  PROVE  search_from(b, bit, count) = FirstPlace(b, bit, count, 0)
<1> DEFINE F == [s \in 0..bit_count |-> FirstPlace(b, bit, count, s)]
<1>1. Solves(b, bit, count, F)
  BY FirstPlaceSolves
<1>2. F[0] = FirstPlace(b, bit, count, 0)
  BY PageAllocAssumption
<1> HIDE DEF F
<1>3. PICK f : Solves(b, bit, count, f) /\ search_from(b, bit, count) = f[0]
  BY <1>1, SearchSolves
<1>4. f[0] = F[0]
  BY <1>1, <1>3, OneSolution
<1> QED
  BY <1>2, <1>3, <1>4
-----------------------------------------------------------------------------
(* For one page the search ends at the first bit that matches.             *)
LEMMA SearchOne ==
  ASSUME NEW b \in [0..(bit_count-1) -> {0, 1}], NEW bit \in {0, 1}
  PROVE  LET free == {s \in 0..(bit_count-1) : b[s] = bit}
             r    == search_from(b, bit, 1)
         IN  /\ free = {} => r = -1
             /\ free # {} => r = Min(free) /\ r \in free
<1> USE PageAllocAssumption
<1> DEFINE free == {s \in 0..(bit_count-1) : b[s] = bit}
<1>1. search_from(b, bit, 1) = FirstPlace(b, bit, 1, 0)
  BY SearchExact
<1>2. Places(b, bit, 1, 0) = free
  BY DEF Places, Accepted
<1>3. free \in SUBSET Nat /\ \A s \in free : s + 1 - 1 <= bit_count
  OBVIOUS
<1> HIDE DEF free
<1>4. free # {} => Min(free) \in free
  BY <1>3, MinNat
<1>5. FirstPlace(b, bit, 1, 0) = IF free # {} /\ Min(free) + 1 - 1 <= bit_count
                                 THEN Min(free) ELSE -1
  BY <1>2 DEF FirstPlace
<1> QED
  BY <1>1, <1>3, <1>4, <1>5 DEF free

(* Setting one bit.                                                        *)
LEMMA SetOne ==
  ASSUME NEW b \in [0..(bit_count-1) -> {0, 1}], NEW k \in 0..(bit_count-1), NEW bit
  PROVE  bitmap_set_bit(b, k, 1, bit) = [b EXCEPT ![k] = IF bit # 0 THEN 1 ELSE 0]
<1>1. \A i \in DOMAIN b : i \in k..(k + 1 - 1) <=> i = k
  BY PageAllocAssumption
<1>2. bitmap_set_bit(b, k, 1, bit)
        = [i \in DOMAIN b |-> IF i = k THEN IF bit # 0 THEN 1 ELSE 0 ELSE b[i]]
  BY <1>1 DEF bitmap_set_bit
<1> QED
  BY <1>2

(* What addr_alloc_page(1) and its failure do to the bitmap.               *)
LEMMA AllocOne ==
  ASSUME NEW b \in [0..(bit_count-1) -> {0, 1}]
  PROVE  LET r == bitmap_alloc_nbits(b, 0, 1)
         IN  /\ r.index >= 0 => /\ r.index \in 0..(bit_count-1)
                                /\ b[r.index] = 0
                                /\ r.bits = [b EXCEPT ![r.index] = 1]
             /\ r.index < 0 <=> \A i \in 0..(bit_count-1) : b[i] = 1
             /\ r.index \in Int
<1> USE PageAllocAssumption
<1>1. PICK k : k = search_from(b, 0, 1)
  OBVIOUS
<1>2. PICK free : free = {s \in 0..(bit_count-1) : b[s] = 0}
  OBVIOUS
<1>3. (free = {} => k = -1) /\ (free # {} => k \in free)
  BY <1>1, <1>2, SearchOne
<1>4. PICK r : r = bitmap_alloc_nbits(b, 0, 1)
  OBVIOUS
<1>5. r.index = k /\ r.bits = IF k < 0 THEN b ELSE bitmap_set_bit(b, k, 1, complement(0))
  BY <1>1, <1>4 DEF bitmap_alloc_nbits
<1>6. complement(0) # 0
  BY DEF complement
<1>7. ASSUME k \in 0..(bit_count-1)
      PROVE  bitmap_set_bit(b, k, 1, complement(0)) = [b EXCEPT ![k] = 1]
  BY <1>6, <1>7, SetOne
<1>8. k >= 0 => k \in 0..(bit_count-1) /\ b[k] = 0
  BY <1>2, <1>3
<1>9. k < 0 <=> \A i \in 0..(bit_count-1) : b[i] = 1
  BY <1>2, <1>3
<1>10. k \in Int
  BY <1>2, <1>3
<1> QED
  BY <1>4, <1>5, <1>7, <1>8, <1>9, <1>10

(* The conversions of page indexes to addresses and back are inverse, so   *)
(* that different pages have different addresses, none of them 0.          *)
LEMMA AddressFacts ==
  /\ \A i \in Nat : page_addr(i) \in Nat \ {0} /\ pg_idx(page_addr(i)) = i
  /\ \A i, j \in Nat : page_addr(i) = page_addr(j) => i = j
<1> USE PageAllocAssumption
<1>1. ASSUME NEW i \in Nat PROVE i * page_size \in Nat /\ (i * page_size) \div page_size = i
  OBVIOUS
<1>2. ASSUME NEW i \in Nat PROVE page_addr(i) \in Nat \ {0} /\ pg_idx(page_addr(i)) = i
  <2>1. PICK x \in Nat : x = i * page_size
    BY <1>1
  <2>2. page_addr(i) = start + x /\ (start + x) - start = x
    BY <2>1 DEF page_addr
  <2>3. pg_idx(page_addr(i)) = x \div page_size
    BY <2>2 DEF pg_idx
  <2> QED
    BY <1>1, <2>1, <2>2, <2>3
<1> QED
  BY <1>2

\* The inductive invariant.
PAInv == PATypeOK /\ BitsAreHeld

LEMMA PAInitInv == PAInit => PAInv
<1> SUFFICES ASSUME PAInit PROVE PAInv
  OBVIOUS
<1>1. PATypeOK
  BY DEF PAInit, PATypeOK
<1>2. {j \in DOMAIN bits : bits[j] = 1} = {}
  BY DEF PAInit
<1> QED
  BY <1>1, <1>2 DEF PAInit, PAInv, BitsAreHeld

(* Allocating one page: it was free and is held afterwards.                *)
LEMMA AllocInv ==
  ASSUME PAInv, addr_alloc_page(1)
  PROVE  LET idx == bitmap_alloc_nbits(bits, 0, 1).index
         IN  /\ PAInv'
             /\ idx \in 0..(bit_count-1)
             /\ held' = held \union {page_addr(idx)}
             /\ page_addr(idx) \notin held
<1> USE PageAllocAssumption
<1>1. PICK r : r = bitmap_alloc_nbits(bits, 0, 1)
  OBVIOUS
<1>2. bits \in [0..(bit_count-1) -> {0, 1}] /\ held \subseteq Nat
  BY DEF PAInv, PATypeOK
<1>3. /\ r.index >= 0 /\ bits' = r.bits
      /\ held' = held \union {page_addr(r.index + i) : i \in 0..(1 - 1)}
  BY <1>1 DEF addr_alloc_page
<1>4. PICK k \in 0..(bit_count-1) :
         k = r.index /\ bits[k] = 0 /\ bits' = [bits EXCEPT ![k] = 1]
  BY <1>1, <1>2, <1>3, AllocOne
<1>5. held' = held \union {page_addr(k)}
  <2>1. {page_addr(r.index + i) : i \in 0..(1 - 1)} = {page_addr(k)}
    BY <1>4
  <2> QED
    BY <1>3, <2>1
<1>6. page_addr(k) \notin held
  BY <1>2, <1>4, AddressFacts DEF PAInv, BitsAreHeld
<1>7. PATypeOK'
  <2>1. bits' \in [0..(bit_count-1) -> {0, 1}]
    BY <1>2, <1>4
  <2>2. held' \subseteq Nat
    <3>1. k \in Nat
      OBVIOUS
    <3>2. page_addr(k) \in Nat
      BY <3>1, AddressFacts
    <3> QED
      BY <1>2, <1>5, <3>2
  <2> QED
    BY <2>1, <2>2 DEF PATypeOK
<1>8. BitsAreHeld'
  <2>1. {j \in DOMAIN bits' : bits'[j] = 1} = {j \in DOMAIN bits : bits[j] = 1} \union {k}
    BY <1>2, <1>4
  <2> QED
    BY <1>5, <2>1 DEF PAInv, BitsAreHeld
<1> QED
  BY <1>1, <1>4, <1>5, <1>6, <1>7, <1>8 DEF PAInv

(* Freeing a page that is held clears the bit of that page.                *)
LEMMA FreeInv ==
  ASSUME PAInv, NEW addr \in held, addr_free_page(addr)
  PROVE  PAInv' /\ held' = held \ {addr}
<1> USE PageAllocAssumption
<1>1. bits \in [0..(bit_count-1) -> {0, 1}] /\ held \subseteq Nat
  BY DEF PAInv, PATypeOK
<1>2. PICK k \in 0..(bit_count-1) : bits[k] = 1 /\ addr = page_addr(k)
  BY <1>1 DEF PAInv, BitsAreHeld
<1>3. pg_idx(addr) = k
  BY <1>2, AddressFacts
<1>4. bits' = [bits EXCEPT ![k] = 0] /\ held' = held \ {addr}
  <2>1. bits' = bitmap_set_bit(bits, k, 1, 0) /\ held' = held \ {addr}
    BY <1>3 DEF addr_free_page
  <2> QED
    BY <1>1, <2>1, SetOne
<1>5. PATypeOK'
  BY <1>1, <1>4 DEF PATypeOK
<1>6. BitsAreHeld'
  <2>1. {j \in DOMAIN bits' : bits'[j] = 1} = {j \in DOMAIN bits : bits[j] = 1} \ {k}
    BY <1>1, <1>4
  <2>2. \A j \in 0..(bit_count-1) : page_addr(j) = page_addr(k) => j = k
    BY AddressFacts
  <2> QED
    BY <1>1, <1>2, <1>4, <2>1, <2>2 DEF PAInv, BitsAreHeld
<1> QED
  BY <1>4, <1>5, <1>6 DEF PAInv

LEMMA PANextInv ==
  ASSUME PageCounts = {1}, PAInv, [PANext]_pavars
  PROVE  PAInv'
<1>1. CASE \E page_count \in PageCounts : addr_alloc_page(page_count)
  BY <1>1, AllocInv
<1>2. ASSUME NEW addr \in held, addr_free_page(addr) PROVE PAInv'
  BY <1>2, FreeInv
<1>3. CASE UNCHANGED pavars
  BY <1>3 DEF pavars, PAInv, PATypeOK, BitsAreHeld
<1> QED
  BY <1>1, <1>2, <1>3 DEF PANext

(* The bitmap marks exactly the pages that are held, for a memory of any   *)
(* size, however allocations and releases follow each other.               *)
THEOREM BitmapExact ==
  ASSUME PageCounts = {1}
  PROVE  PASpec => []BitsAreHeld
<1>1. PAInit => PAInv
  BY PAInitInv
<1>2. PAInv /\ [PANext]_pavars => PAInv'
  BY PANextInv
<1>3. PAInv => BitsAreHeld
  BY DEF PAInv
<1> QED
  BY <1>1, <1>2, <1>3, PTL DEF PASpec

(* A request for one page is given the first free page, and fails only     *)
(* when there is none.                                                     *)
LEMMA OneIsFirstFit ==
  ASSUME PageCounts = {1}, PATypeOK
  PROVE  AllocIsFirstFit
<1> USE PageAllocAssumption
<1>1. PICK free : free = {s \in 0..(bit_count-1) : bits[s] = 0}
  OBVIOUS
<1>2. PICK k : k = search_from(bits, 0, 1)
  OBVIOUS
<1>3. (free = {} => k = -1) /\ (free # {} => k = Min(free))
  BY <1>1, <1>2, SearchOne DEF PATypeOK
<1>4. bitmap_alloc_nbits(bits, 0, 1).index = k
  BY <1>2 DEF bitmap_alloc_nbits
<1>5. {s \in 0..(bit_count - 1) : \A i \in s..(s + 1 - 1) : bits[i] = 0} = free
  BY <1>1
<1>6. FirstFit(bits, 0, 1) = IF free = {} THEN -1 ELSE Min(free)
  BY <1>5 DEF FirstFit
<1> QED
  BY <1>3, <1>4, <1>6 DEF AllocIsFirstFit

(* When every request is for one page, each takes the first free page.     *)
THEOREM FirstFitAlways ==
  ASSUME PageCounts = {1}
  PROVE  PASpec => []AllocIsFirstFit
<1>1. PAInit => PAInv
  BY PAInitInv
<1>2. PAInv /\ [PANext]_pavars => PAInv'
  BY PANextInv
<1>3. PAInv => AllocIsFirstFit
  BY OneIsFirstFit DEF PAInv
<1> QED
  BY <1>1, <1>2, <1>3, PTL DEF PASpec
(* For a request of count bits the search finds the first room for one     *)
(* bit fewer, or for one bit.                                              *)
LEMMA SearchRoom ==
  ASSUME NEW b \in [0..(bit_count-1) -> {0, 1}], NEW count \in Nat \ {0},
         NEW n, n = IF count = 1 THEN 1 ELSE count - 1
  PROVE  search_from(b, 0, count) = FirstFit(b, 0, n)
<1> USE PageAllocAssumption
<1>1. PICK P : P = Places(b, 0, count, 0)
  OBVIOUS
<1>2. PICK R : R = {s \in 0..(bit_count - n) : \A i \in s..(s + n - 1) : b[i] = 0}
  OBVIOUS
<1>3. /\ search_from(b, 0, count)
            = IF P # {} /\ Min(P) + count - 1 <= bit_count THEN Min(P) ELSE -1
      /\ FirstFit(b, 0, n) = IF R = {} THEN -1 ELSE Min(R)
  BY <1>1, <1>2, SearchExact DEF FirstPlace, FirstFit
<1>4. P \in SUBSET Nat /\ R \in SUBSET Nat
  BY <1>1, <1>2 DEF Places
<1>5. \A s : s \in R <=> s \in P /\ s + count - 1 <= bit_count
  <2>1. CASE count = 1
    BY <1>1, <1>2, <2>1 DEF Places, Accepted
  <2>2. CASE count # 1
    BY <1>1, <1>2, <2>2 DEF Places, Accepted
  <2> QED
    BY <2>1, <2>2
<1>6. PICK p, r : p = Min(P) /\ r = Min(R)
  OBVIOUS
<1>7. /\ P # {} => p \in P /\ \A s \in P : p <= s
      /\ R # {} => r \in R /\ \A s \in R : r <= s
  BY <1>4, <1>6, MinNat
<1>8. CASE P # {} /\ p + count - 1 <= bit_count
  <2>1. p \in R
    BY <1>5, <1>7, <1>8
  <2>2. r \in R /\ r \in P /\ r <= p
    BY <1>5, <1>7, <2>1
  <2>3. r = p
    BY <1>4, <1>7, <2>1, <2>2
  <2> QED
    BY <1>3, <1>6, <1>8, <2>1, <2>3
<1>9. CASE ~(P # {} /\ p + count - 1 <= bit_count)
  <2>1. ASSUME R # {} PROVE FALSE
    <3>1. r \in R /\ r \in P /\ r + count - 1 <= bit_count
      BY <1>5, <1>7, <2>1
    <3>2. p \in P /\ p <= r
      BY <1>7, <3>1
    <3>3. p \in Nat /\ r \in Nat
      BY <1>4, <3>1, <3>2
    <3> QED
      BY <1>9, <3>1, <3>2, <3>3
  <2> QED
    BY <1>3, <1>6, <1>9, <2>1
<1> QED
  BY <1>8, <1>9

(* Whatever is requested and freed, bitmap_alloc_nbits finds for a request *)
(* of any number of bits the first room for one bit fewer (for one bit,    *)
(* the first free one): the last bit is not looked at.  This holds for     *)
(* every set of request sizes and every size of the bitmap.                *)
THEOREM SearchAlways ==
  PASpec => []SearchOneShort
<1> USE PageAllocAssumption
<1> DEFINE Typed == bits \in [0..(bit_count-1) -> {0, 1}]
<1>1. PAInit => Typed
  BY DEF PAInit
<1>2. Typed /\ [PANext]_pavars => Typed'
  <2> SUFFICES ASSUME Typed, [PANext]_pavars PROVE Typed'
    OBVIOUS
  <2>1. ASSUME NEW page_count \in PageCounts, addr_alloc_page(page_count) PROVE Typed'
    BY <2>1 DEF addr_alloc_page, bitmap_alloc_nbits, bitmap_set_bit
  <2>2. ASSUME NEW addr \in held, addr_free_page(addr) PROVE Typed'
    BY <2>2 DEF addr_free_page, bitmap_set_bit
  <2>3. CASE UNCHANGED pavars
    BY <2>3 DEF pavars
  <2> QED
    BY <2>1, <2>2, <2>3 DEF PANext
<1>3. Typed => SearchOneShort
  <2> SUFFICES ASSUME Typed, NEW count \in 1..(bit_count + 1)
               PROVE  bitmap_alloc_nbits(bits, 0, count).index
                        = FirstFit(bits, 0, IF count = 1 THEN 1 ELSE count - 1)
    BY DEF SearchOneShort
  <2>1. search_from(bits, 0, count)
          = FirstFit(bits, 0, IF count = 1 THEN 1 ELSE count - 1)
    BY SearchRoom
  <2> QED
    BY <2>1 DEF bitmap_alloc_nbits
<1> HIDE DEF Typed
<1> QED
  BY <1>1, <1>2, <1>3, PTL DEF PASpec
-----------------------------------------------------------------------------
(* For the modules that use the allocator: who has which resource.         *)

(* d assigns to each place the resource that it names, 0 for none: the     *)
(* places name exactly the resources of S, and each of them once.          *)
OneEach(X, d, S) ==
    /\ \A x \in X : d[x] # 0 => d[x] \in S
    /\ \A v \in S : \E x \in X : d[x] = v
    /\ \A x, y \in X : d[x] # 0 /\ d[x] = d[y] => x = y
    /\ 0 \notin S

(* A resource that nobody has gets a place.                                *)
LEMMA TakeOne ==
  ASSUME NEW X, NEW d, NEW e, NEW S, OneEach(X, d, S), NEW z \in X, d[z] = 0,
         NEW v, v # 0, v \notin S,
         \A x \in X : e[x] = IF x = z THEN v ELSE d[x]
  PROVE  OneEach(X, e, S \union {v})
BY DEF OneEach

(* A place gives its resource up.                                          *)
LEMMA DropOne ==
  ASSUME NEW X, NEW d, NEW e, NEW S, OneEach(X, d, S), NEW z \in X, d[z] # 0,
         \A x \in X : e[x] = IF x = z THEN 0 ELSE d[x]
  PROVE  OneEach(X, e, S \ {d[z]}) /\ d[z] \in S
BY DEF OneEach

(* A resource goes from one place to another.                              *)
LEMMA MoveOne ==
  ASSUME NEW X, NEW d, NEW e, NEW S, OneEach(X, d, S),
         NEW y \in X, NEW z \in X, y # z, d[y] # 0, d[z] = 0,
         \A x \in X : e[x] = IF x = y THEN 0 ELSE IF x = z THEN d[y] ELSE d[x]
  PROVE  OneEach(X, e, S)
BY DEF OneEach

(* Places trade their resources.                                           *)
LEMMA SwapAll ==
  ASSUME NEW X, NEW d, NEW e, NEW S, OneEach(X, d, S), NEW pi \in [X -> X],
         \A x \in X : pi[pi[x]] = x,
         \A x \in X : e[x] = d[pi[x]]
  PROVE  OneEach(X, e, S)
<1>1. \A x \in X : e[x] # 0 => e[x] \in S
  BY DEF OneEach
<1>2. \A v \in S : \E x \in X : e[x] = v
  <2> SUFFICES ASSUME NEW v \in S PROVE \E x \in X : e[x] = v
    OBVIOUS
  <2>1. PICK y \in X : d[y] = v
    BY DEF OneEach
  <2> WITNESS pi[y] \in X
  <2> QED
    BY <2>1
<1>3. \A x, y \in X : e[x] # 0 /\ e[x] = e[y] => x = y
  <2> SUFFICES ASSUME NEW x \in X, NEW y \in X, e[x] # 0, e[x] = e[y] PROVE x = y
    OBVIOUS
  <2>1. pi[x] = pi[y]
    BY DEF OneEach
  <2> QED
    BY <2>1
<1> QED
  BY <1>1, <1>2, <1>3 DEF OneEach
=============================================================================
