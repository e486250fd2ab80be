--------------------------- MODULE SchedPtrProofs ---------------------------
(***************************************************************************)
(* The task manager on the linked lists of list.c implements the task      *)
(* manager on sequences, for every set of tasks and every value of the     *)
(* other constants: the step from module Sched to module SchedPtr.         *)
(***************************************************************************)
EXTENDS SchedPtr, NaturalsInduction, WellFoundedInduction, TLAPS

\* The proofs about Sched, on the sequences that the linked lists hold.
SP == INSTANCE SchedProofs

\* The nodes of a kernel whose pointers lead to nodes or nowhere.
Nodes == [AllTask -> L!LinkType]

LEMMA NullFacts == NULL \notin AllTask
BY PtrAssumption DEF AllTask

(* A list is not touched by what happens to the nodes of another one.      *)
LEMMA ListFrame ==
  ASSUME NEW X, NEW s \in Seq(X), NEW l, NEW k, NEW c, L!Represents(l, k, s),
         \A m \in SP!ToSet(s) : c[m] = k[m]
  PROVE  L!Represents(l, c, s)
<1>1. \A i \in 1..Len(s) : s[i] \in SP!ToSet(s)
  BY DEF SP!ToSet
<1> QED
  BY <1>1 DEF L!Represents

(* list_insert_last puts a node that is not on the list at its end.        *)
LEMMA InsertLast ==
  ASSUME NEW s \in Seq(AllTask), NEW l, NEW k \in Nodes, L!Represents(l, k, s),
         NEW n \in AllTask, n \notin SP!ToSet(s), NEW r, r = L!list_insert_last(l, k, n)
  PROVE  /\ r.node \in Nodes
         /\ L!Represents(r.list, r.node, Append(s, n))
         /\ \A m \in AllTask : m # n /\ m \notin SP!ToSet(s) => r.node[m] = k[m]
<1>1. PICK c, w : c = r.node /\ w = Append(s, n)
  OBVIOUS
<1>2. /\ w \in Seq(AllTask) /\ Len(w) = Len(s) + 1 /\ Len(s) \in Nat
      /\ \A i \in 1..Len(s) : w[i] = s[i]
      /\ w[Len(s) + 1] = n /\ w # << >>
  BY <1>1
<1>3. \A i \in 1..Len(s) : s[i] \in SP!ToSet(s) /\ s[i] \in AllTask /\ s[i] # n
  BY DEF SP!ToSet
<1>4. /\ l.count = Len(s) /\ \A i, j \in 1..Len(s) : s[i] = s[j] => i = j
      /\ l.first = (IF s = << >> THEN NULL ELSE s[1])
      /\ l.last = (IF s = << >> THEN NULL ELSE s[Len(s)])
      /\ \A i \in 1..Len(s) : /\ k[s[i]].pre = (IF i = 1 THEN NULL ELSE s[i-1])
                              /\ k[s[i]].next = (IF i = Len(s) THEN NULL ELSE s[i+1])
  BY DEF L!Represents, L!IsInjective
<1>5. SP!IsInjective(w) /\ L!IsInjective(w)
  <2>1. \A i, j \in 1..(Len(s) + 1) : w[i] = w[j] => i = j
    <3> SUFFICES ASSUME NEW i \in 1..(Len(s) + 1), NEW j \in 1..(Len(s) + 1), w[i] = w[j]
                 PROVE  i = j
      OBVIOUS
    <3>1. \A q \in 1..(Len(s) + 1) : q \in 1..Len(s) \/ q = Len(s) + 1
      BY <1>2
    <3>2. CASE i \in 1..Len(s) /\ j \in 1..Len(s)
      BY <1>2, <1>4, <3>2
    <3>3. CASE i = Len(s) + 1 \/ j = Len(s) + 1
      BY <1>2, <1>3, <3>1, <3>3
    <3> QED
      BY <3>1, <3>2, <3>3
  <2> QED
    BY <1>2, <2>1 DEF SP!IsInjective, L!IsInjective
<1>6. PICK b : b = [pre |-> l.last, next |-> NULL]
  OBVIOUS
<1>7. b \in L!LinkType /\ b.pre = l.last /\ b.next = NULL
  BY <1>3, <1>4, <1>6 DEF L!LinkType
<1>8. CASE s = << >>
  <2>1. /\ r.list.first = n /\ r.list.last = n /\ r.list.count = 1
        /\ c = [k EXCEPT ![n] = b]
    BY <1>1, <1>4, <1>6, <1>8 DEF L!list_insert_last, L!list_is_empty
  <2>2. c \in Nodes /\ c[n] = b /\ \A m \in AllTask : m # n => c[m] = k[m]
    BY <1>7, <2>1 DEF Nodes
  <2>3. L!Represents(r.list, c, w)
    BY <1>2, <1>4, <1>5, <1>7, <1>8, <2>1, <2>2 DEF L!Represents
  <2> QED
    BY <1>1, <2>2, <2>3
<1>9. CASE s # << >>
  <2>1. PICK z \in AllTask : z = l.last /\ z = s[Len(s)] /\ z # n /\ Len(s) \in 1..Len(s)
    BY <1>3, <1>4, <1>9
  <2>2. PICK d : d = [k EXCEPT ![n] = b]
    OBVIOUS
  <2>3. d \in Nodes /\ d[n] = b /\ \A m \in AllTask : m # n => d[m] = k[m]
    BY <1>7, <2>2 DEF Nodes
  <2>4. /\ r.list.first = l.first /\ r.list.last = n /\ r.list.count = Len(s) + 1
        /\ c = [d EXCEPT ![z].next = n]
    BY <1>1, <1>4, <1>6, <1>9, <2>1, <2>2 DEF L!list_insert_last, L!list_is_empty
  <2>5. /\ c \in Nodes /\ \A m \in AllTask : m # z => c[m] = d[m]
        /\ c[z].next = n /\ c[z].pre = d[z].pre
    BY <2>3, <2>4 DEF Nodes, L!LinkType
  <2>6. /\ c[n].pre = s[Len(s)] /\ c[n].next = NULL
        /\ \A m \in AllTask : m # n /\ m # z => c[m] = k[m]
        /\ c[z].pre = k[z].pre
    BY <1>7, <2>1, <2>3, <2>5
  <2>7. ASSUME NEW i \in 1..Len(w)
        PROVE  /\ c[w[i]].pre = (IF i = 1 THEN NULL ELSE w[i-1])
               /\ c[w[i]].next = (IF i = Len(w) THEN NULL ELSE w[i+1])
    <3>1. CASE i = Len(w)
      BY <1>2, <2>1, <2>6, <3>1
    <3>2. CASE i = Len(s)
      <4>1. w[i] = z /\ i # Len(w) /\ w[i+1] = n /\ i \in 1..Len(s) /\ s[i] = z
        BY <1>2, <2>1, <3>2
      <4>2. i # 1 => w[i-1] = s[i-1]
        <5>1. i # 1 => i - 1 \in 1..Len(s)
          BY <1>2, <3>2
        <5> QED
          BY <1>2, <5>1
      <4>3. c[z].pre = (IF i = 1 THEN NULL ELSE s[i-1])
        BY <1>4, <2>6, <4>1
      <4>4. c[z].next = n
        BY <2>5
      <4> QED
        BY <4>1, <4>2, <4>3, <4>4
    <3>3. CASE i \in 1..(Len(s) - 1)
      <4>1. s[i] # z /\ s[i] # n /\ s[i] \in AllTask
        BY <1>3, <1>4, <2>1, <3>3
      <4>2. c[w[i]] = k[s[i]] /\ i \in 1..Len(s) /\ i # Len(s) /\ i # Len(w)
        BY <1>2, <2>6, <3>3, <4>1
      <4>3. i # 1 => i - 1 \in 1..Len(s)
        BY <1>2, <3>3
      <4>4. i + 1 \in 1..Len(s)
        BY <1>2, <3>3
      <4>5. (i # 1 => w[i-1] = s[i-1]) /\ w[i+1] = s[i+1]
        BY <1>2, <4>3, <4>4
      <4> QED
        BY <1>4, <4>2, <4>5
    <3> QED
      BY <1>2, <3>1, <3>2, <3>3
  <2>8. L!Represents(r.list, c, w)
    BY <1>2, <1>4, <1>5, <1>9, <2>1, <2>4, <2>7 DEF L!Represents
  <2>9. z \in SP!ToSet(s)
    BY <1>3, <2>1
  <2> QED
    BY <1>1, <2>5, <2>6, <2>8, <2>9
<1> QED
  BY <1>8, <1>9

(* list_remove takes a node that is on the list off it.                    *)
LEMMA RemoveNode ==
  ASSUME NEW s \in Seq(AllTask), NEW l, NEW k \in Nodes, L!Represents(l, k, s),
         NEW n \in SP!ToSet(s), NEW r, r = L!list_remove(l, k, n)
  PROVE  /\ r.node \in Nodes
         /\ L!Represents(r.list, r.node, SP!RemoveFirst(s, n))
         /\ \A m \in AllTask : m \notin SP!ToSet(s) => r.node[m] = k[m]
<1>1. PICK c, w : c = r.node /\ w = SP!RemoveFirst(s, n)
  OBVIOUS
<1>2. PICK i \in 1..Len(s) : s[i] = n /\ w = SP!RemoveAt(s, i)
  <2>1. SP!IsInjective(s)
    BY DEF L!Represents, L!IsInjective, SP!IsInjective
  <2> QED
    BY <1>1, <2>1, PtrAssumption, SP!RemoveFirstIndex
<1>3. /\ w \in Seq(AllTask) /\ Len(w) = Len(s) - 1
      /\ \A j \in 1..(Len(s) - 1) : w[j] = IF j < i THEN s[j] ELSE s[j+1]
  BY <1>2, PtrAssumption, SP!RemoveAtFacts
<1>4. /\ l.count = Len(s) /\ \A p, q \in 1..Len(s) : s[p] = s[q] => p = q
      /\ l.first = (IF s = << >> THEN NULL ELSE s[1])
      /\ l.last = (IF s = << >> THEN NULL ELSE s[Len(s)])
      /\ \A q \in 1..Len(s) : /\ k[s[q]].pre = (IF q = 1 THEN NULL ELSE s[q-1])
                              /\ k[s[q]].next = (IF q = Len(s) THEN NULL ELSE s[q+1])
      /\ Len(s) \in Nat \ {0} /\ s # << >>
  BY <1>2 DEF L!Represents, L!IsInjective
<1>5. \A q \in 1..Len(s) : s[q] \in SP!ToSet(s) /\ s[q] \in AllTask
  BY DEF SP!ToSet
<1>6. PICK p, x : p = k[n].pre /\ x = k[n].next
  OBVIOUS
<1>7. /\ p = (IF i = 1 THEN NULL ELSE s[i-1]) /\ x = (IF i = Len(s) THEN NULL ELSE s[i+1])
  BY <1>2, <1>4, <1>6
<1>8. /\ p \in SP!ToSet(s) \union {NULL} /\ x \in SP!ToSet(s) \union {NULL} /\ p # n /\ x # n
      /\ n \in AllTask
  <2>1. i # 1 => i - 1 \in 1..Len(s) /\ s[i-1] # s[i]
    BY <1>4
  <2>2. i # Len(s) => i + 1 \in 1..Len(s) /\ s[i+1] # s[i]
    BY <1>4
  <2> QED
    BY <1>2, <1>5, <1>7, <2>1, <2>2, NullFacts
<1>9. SP!ToSet(s) \subseteq AllTask
  BY DEF SP!ToSet
<1>10. PICK d : d = IF p = NULL THEN k ELSE [k EXCEPT ![p].next = x]
  OBVIOUS
<1>11. /\ d \in Nodes /\ d[n] = k[n]
       /\ \A m \in AllTask : /\ d[m].pre = k[m].pre
                             /\ d[m].next = IF m = p THEN x ELSE k[m].next
                             /\ m # p => d[m] = k[m]
  <2>1. CASE p = NULL
    BY <1>8, <1>10, <2>1, NullFacts
  <2>2. CASE p # NULL
    BY <1>8, <1>9, <1>10, <2>2 DEF Nodes, L!LinkType
  <2> QED
    BY <2>1, <2>2
<1>12. PICK e : e = IF x = NULL THEN d ELSE [d EXCEPT ![x].pre = p]
  OBVIOUS
<1>13. /\ e \in Nodes
       /\ \A m \in AllTask : /\ e[m].next = d[m].next
                             /\ e[m].pre = IF m = x THEN p ELSE d[m].pre
                             /\ m # x => e[m] = d[m]
  <2>1. CASE x = NULL
    BY <1>11, <1>12, <2>1, NullFacts
  <2>2. CASE x # NULL
    <3>1. x \in AllTask /\ p \in AllTask \union {NULL} /\ d \in Nodes
      BY <1>8, <1>9, <1>11, <2>2
    <3>2. e = [d EXCEPT ![x].pre = p]
      BY <1>12, <2>2
    <3> QED
      BY <3>1, <3>2 DEF Nodes, L!LinkType
  <2> QED
    BY <2>1, <2>2
<1>14. /\ r.list.first = IF n = l.first THEN x ELSE l.first
       /\ r.list.last = IF n = l.last THEN p ELSE l.last
       /\ r.list.count = l.count - 1
       /\ c = [e EXCEPT ![n] = L!list_node_init]
  <2>1. k[n].pre = p /\ k[n].next = x /\ d[n].pre = p /\ d[n].next = x
    BY <1>6, <1>11
  <2> DEFINE K1    == IF k[n].pre = NULL THEN k
                      ELSE [k EXCEPT ![k[n].pre].next = k[n].next]
             K2(f) == IF f[n].next = NULL THEN f
                      ELSE [f EXCEPT ![f[n].next].pre = f[n].pre]
             G(f)  == [list |-> [first |-> IF n = l.first THEN k[n].next ELSE l.first,
                                 last  |-> IF n = l.last THEN k[n].pre ELSE l.last,
                                 count |-> l.count - 1],
                       node |-> [f EXCEPT ![n] = L!list_node_init]]
  <2>2. r = G(K2(K1))
    BY Zenon DEF L!list_remove
  <2>3. d = K1
    BY <1>10, <2>1, Zenon
  <2>4. e = K2(d)
    BY <1>12, <2>1, Zenon
  <2>5. r = G(e)
    <3> HIDE DEF K1, K2, G
    <3> QED
      BY <2>2, <2>3, <2>4
  <2> QED
    BY <1>1, <2>1, <2>5
<1>15. c \in Nodes /\ \A m \in AllTask : m # n => c[m] = e[m]
  <2>1. L!list_node_init \in L!LinkType
    BY DEF L!list_node_init, L!LinkType
  <2> QED
    BY <1>8, <1>13, <1>14, <2>1 DEF Nodes
<1>16. \A m \in AllTask : m # n =>
          /\ c[m].next = IF m = p THEN x ELSE k[m].next
          /\ c[m].pre = IF m = x THEN p ELSE k[m].pre
  BY <1>11, <1>13, <1>15
<1>17. \A m \in AllTask : m \notin SP!ToSet(s) => c[m] = k[m]
  BY <1>8, <1>11, <1>13, <1>15, NullFacts
<1>18. ASSUME NEW q \in 1..Len(s), q # i
       PROVE  /\ c[s[q]].next = (IF q + 1 = i THEN x ELSE IF q = Len(s) THEN NULL ELSE s[q+1])
              /\ c[s[q]].pre = (IF q = i + 1 THEN p ELSE IF q = 1 THEN NULL ELSE s[q-1])
  <2>1. s[q] \in AllTask /\ s[q] # n
    BY <1>2, <1>4, <1>5, <1>18
  <2>2. s[q] = p <=> q + 1 = i
    <3>1. i # 1 => i - 1 \in 1..Len(s) /\ (s[q] = s[i-1] => q = i - 1)
      BY <1>4
    <3> QED
      BY <1>7, <2>1, <3>1, NullFacts
  <2>3. s[q] = x <=> q = i + 1
    <3>1. i # Len(s) => i + 1 \in 1..Len(s) /\ (s[q] = s[i+1] => q = i + 1)
      BY <1>4
    <3> QED
      BY <1>4, <1>7, <2>1, <3>1, NullFacts
  <2> QED
    BY <1>4, <1>16, <2>1, <2>2, <2>3
<1>19. ASSUME NEW j \in 1..Len(w)
       PROVE  /\ c[w[j]].pre = (IF j = 1 THEN NULL ELSE w[j-1])
              /\ c[w[j]].next = (IF j = Len(w) THEN NULL ELSE w[j+1])
  <2>1. CASE j < i
    <3>1. j \in 1..Len(s) /\ j # i /\ j # i + 1 /\ j # Len(s) /\ w[j] = s[j]
      BY <1>3, <1>4, <2>1
    <3>2. j # 1 => w[j-1] = s[j-1]
      BY <1>3, <1>4, <2>1
    <3>3. CASE j + 1 = i
      <4>1. j = Len(w) <=> i = Len(s)
        BY <1>3, <1>4, <3>3
      <4>2. i # Len(s) => w[j+1] = s[i+1]
        BY <1>3, <1>4, <3>3
      <4>3. x = (IF j = Len(w) THEN NULL ELSE w[j+1])
        BY <1>7, <4>1, <4>2
      <4> QED
        BY <1>18, <3>1, <3>2, <3>3, <4>3
    <3>4. CASE j + 1 # i
      <4>1. j # Len(w) /\ j + 1 < i /\ j + 1 \in 1..(Len(s) - 1)
        BY <1>3, <1>4, <2>1, <3>4
      <4>2. w[j+1] = s[j+1]
        BY <1>3, <4>1
      <4> QED
        BY <1>18, <3>1, <3>2, <3>4, <4>1, <4>2
    <3> QED
      BY <3>3, <3>4
  <2>2. CASE j >= i
    <3>1. PICK q \in 1..Len(s) : q = j + 1
      BY <1>3, <1>4
    <3>2. q # i /\ q + 1 # i /\ w[j] = s[q] /\ q # 1 /\ (q = Len(s) <=> j = Len(w))
      BY <1>3, <1>4, <2>2, <3>1
    <3>3. j # Len(w) => w[j+1] = s[q+1]
      BY <1>3, <1>4, <2>2, <3>1
    <3>4. CASE j = i
      <4>1. q = i + 1
        BY <3>1, <3>4
      <4>2. j # 1 => w[j-1] = s[i-1]
        BY <1>3, <1>4, <3>4
      <4>3. p = (IF j = 1 THEN NULL ELSE w[j-1])
        BY <1>7, <3>4, <4>2
      <4> QED
        BY <1>18, <3>2, <3>3, <4>1, <4>3
    <3>5. CASE j # i
      <4>1. q # i + 1 /\ j # 1 /\ w[j-1] = s[q-1]
        BY <1>3, <1>4, <2>2, <3>1, <3>5
      <4> QED
        BY <1>18, <3>2, <3>3, <4>1
    <3> QED
      BY <3>4, <3>5
  <2> QED
    BY <1>4, <2>1, <2>2
<1>20. L!IsInjective(w)
  <2>1. SP!IsInjective(s)
    BY DEF L!Represents, L!IsInjective, SP!IsInjective
  <2>2. SP!IsInjective(SP!RemoveFirst(s, n))
    BY <2>1, PtrAssumption, SP!RemoveFirstFacts
  <2>3. SP!IsInjective(w)
    BY <1>1, <2>2
  <2> QED
    BY <2>3 DEF SP!IsInjective, L!IsInjective
<1>21. r.list.first = (IF w = << >> THEN NULL ELSE w[1])
  <2>1. n = l.first <=> i = 1
    BY <1>2, <1>4
  <2>2. w = << >> <=> Len(s) = 1
    BY <1>3, <1>4
  <2>3. Len(s) # 1 => w[1] = IF 1 < i THEN s[1] ELSE s[2]
    BY <1>3, <1>4
  <2>4. CASE i = 1
    BY <1>7, <1>14, <2>1, <2>2, <2>3, <2>4
  <2>5. CASE i # 1
    <3>1. 1 < i /\ Len(s) # 1
      BY <1>4, <2>5
    <3> QED
      BY <1>4, <1>14, <2>1, <2>2, <2>3, <2>5, <3>1
  <2> QED
    BY <2>4, <2>5
<1>22. r.list.last = (IF w = << >> THEN NULL ELSE w[Len(w)])
  <2>1. n = l.last <=> i = Len(s)
    BY <1>2, <1>4
  <2>2. w = << >> <=> Len(s) = 1
    BY <1>3, <1>4
  <2>3. Len(s) # 1 => w[Len(w)] = IF i = Len(s) THEN s[i-1] ELSE s[Len(s)]
    BY <1>3, <1>4
  <2>4. CASE i = Len(s)
    BY <1>4, <1>7, <1>14, <2>1, <2>2, <2>3, <2>4
  <2>5. CASE i # Len(s)
    <3>1. Len(s) # 1
      BY <1>4, <2>5
    <3> QED
      BY <1>4, <1>14, <2>1, <2>2, <2>3, <2>5, <3>1
  <2> QED
    BY <2>4, <2>5
<1>23. L!Represents(r.list, c, w)
  BY <1>3, <1>4, <1>14, <1>19, <1>20, <1>21, <1>22 DEF L!Represents
<1> QED
  BY <1>1, <1>15, <1>17, <1>23

-----------------------------------------------------------------------------
(* A non-empty set of natural numbers has a least one.                     *)
LEMMA LeastNat ==
  ASSUME NEW T \in SUBSET Nat, T # {}
  PROVE  \E x \in T : \A y \in T : x <= y
<1>1. PICK R : R = OpToRel(<, Nat)
  OBVIOUS
<1>2. IsWellFoundedOn(R, Nat)
  BY <1>1, NatLessThanWellFounded
<1>3. PICK x \in T : \A y \in T : ~(<<y, x>> \in R)
  BY <1>2, WFMin
<1>4. \A y \in Nat : y < x => <<y, x>> \in R
  BY <1>1, Zenon DEF OpToRel
<1>5. \A y \in T : ~(y < x)
  BY <1>3, <1>4
<1> QED
  BY <1>5

\* The equation of Contents, as a condition on a function.
Follows(l, k, f) ==
    f = [i \in 1..l.count |-> IF i = 1 THEN l.first ELSE k[f[i-1]].next]

\* The nodes met on following next, for any list and any nodes.
Walked(l, k) == CHOOSE f : Follows(l, k, f)

(* Following next from first, as often as count says, meets the sequence   *)
(* that the list represents, and nothing else satisfies the equation.      *)
LEMMA WalkedIs ==
  ASSUME NEW s \in Seq(AllTask), NEW l, NEW k, L!Represents(l, k, s)
  PROVE  Walked(l, k) = s
<1>1. /\ l.count = Len(s) /\ Len(s) \in Nat /\ s = [i \in 1..Len(s) |-> s[i]]
      /\ s # << >> => l.first = s[1]
      /\ \A i \in 1..Len(s) : k[s[i]].next = (IF i = Len(s) THEN NULL ELSE s[i+1])
  BY DEF L!Represents
<1>2. ASSUME NEW i \in 1..Len(s)
      PROVE  s[i] = IF i = 1 THEN l.first ELSE k[s[i-1]].next
  <2>1. CASE i = 1
    BY <1>1, <2>1
  <2>2. CASE i # 1
    <3>1. PICK j \in 1..Len(s) : j = i - 1 /\ j # Len(s) /\ j + 1 = i
      BY <1>1, <2>2
    <3> QED
      BY <1>1, <2>2, <3>1
  <2> QED
    BY <2>1, <2>2
<1>3. Follows(l, k, s)
  BY <1>1, <1>2 DEF Follows
<1>4. ASSUME NEW f, Follows(l, k, f) PROVE f = s
  <2>1. /\ f = [i \in 1..Len(s) |-> f[i]]
        /\ \A i \in 1..Len(s) : f[i] = IF i = 1 THEN l.first ELSE k[f[i-1]].next
    BY <1>1, <1>4 DEF Follows
  <2>2. PICK T : T = {i \in 1..Len(s) : f[i] # s[i]}
    OBVIOUS
  <2>3. T = {}
    <3> SUFFICES ASSUME T # {} PROVE FALSE
      OBVIOUS
    <3>0. T \in SUBSET Nat
      BY <2>2
    <3>1. PICK x \in T : \A y \in T : x <= y
      BY <3>0, LeastNat
    <3>2. x \in 1..Len(s) /\ f[x] # s[x]
      BY <2>2, <3>1
    <3>3. x # 1
      BY <1>2, <2>1, <3>2
    <3>4. PICK j \in 1..Len(s) : j = x - 1
      BY <1>1, <3>2, <3>3
    <3>5. f[j] = s[j]
      BY <2>2, <3>1, <3>2, <3>4
    <3>6. f[x] = k[f[j]].next
      BY <2>1, <3>2, <3>3, <3>4
    <3>7. s[x] = k[s[j]].next
      BY <1>2, <3>2, <3>3, <3>4
    <3> QED
      BY <3>2, <3>5, <3>6, <3>7
  <2>4. \A i \in 1..Len(s) : f[i] = s[i]
    BY <2>2, <2>3
  <2> QED
    BY <1>1, <2>1, <2>4
<1>5. Follows(l, k, Walked(l, k))
  BY <1>3, Zenon DEF Walked
<1> QED
  BY <1>4, <1>5

(* The two lists of Sched are what the walk meets, before and after a step.*)
LEMMA ListsWalked ==
  /\ ready_list = Walked(ready, run_node)
  /\ sleep_list = Walked(sleep, run_node)
BY Zenon DEF ready_list, sleep_list, Contents, Walked, Follows

LEMMA ListsWalkedNext ==
  /\ ready_list' = Walked(ready', run_node')
  /\ sleep_list' = Walked(sleep', run_node')
BY Zenon DEF ready_list, sleep_list, Contents, Walked, Follows

-----------------------------------------------------------------------------
(* The inductive invariant: the two lists are linked as they should be,    *)
(* and what they hold satisfies the inductive invariant of Sched.          *)
PInv ==
    /\ run_node \in Nodes
    /\ L!Represents(ready, run_node, ready_list)
    /\ L!Represents(sleep, run_node, sleep_list)
    /\ SP!IInv

(* What the proof of a step uses of the inductive invariant.               *)
LEMMA PFacts ==
  ASSUME PInv
  PROVE  /\ ready_list \in Seq(Task) /\ sleep_list \in Seq(Task)
         /\ SP!ToSet(ready_list) \intersect SP!ToSet(sleep_list) = {}
         /\ SP!ToSet(ready_list) \subseteq Task /\ SP!ToSet(sleep_list) \subseteq Task
         /\ ready.count = Len(ready_list)
         /\ sleep.first = IF sleep_list = << >> THEN NULL ELSE Head(sleep_list)
<1>1. /\ ready_list \in Seq(Task) /\ sleep_list \in Seq(Task)
      /\ SP!ToSet(ready_list) \intersect SP!ToSet(sleep_list) = {}
  BY DEF PInv, SP!IInv, SP!TypeOK, SP!RunNodeOnce
<1>2. SP!ToSet(ready_list) \subseteq Task /\ SP!ToSet(sleep_list) \subseteq Task
  BY <1>1 DEF SP!ToSet
<1>3. ready.count = Len(ready_list)
  BY DEF PInv, L!Represents
<1>4. sleep.first = IF sleep_list = << >> THEN NULL ELSE Head(sleep_list)
  BY <1>1 DEF PInv, L!Represents
<1> QED
  BY <1>1, <1>2, <1>3, <1>4

LEMMA SeqAll == \A s \in Seq(Task) : s \in Seq(AllTask)
BY DEF AllTask

(* The lists after a step, once it is known what they represent.           *)
LEMMA After ==
  ASSUME NEW s \in Seq(Task), L!Represents(ready', run_node', s),
         NEW u \in Seq(Task), L!Represents(sleep', run_node', u)
  PROVE  /\ ready_list' = s /\ sleep_list' = u
         /\ L!Represents(ready, run_node, ready_list)'
         /\ L!Represents(sleep, run_node, sleep_list)'
<1>1. s \in Seq(AllTask) /\ u \in Seq(AllTask)
  BY SeqAll
<1>2. ready_list' = s /\ sleep_list' = u
  BY <1>1, WalkedIs, ListsWalkedNext
<1> QED
  BY <1>2 DEF L!Represents

(* task_set_ready on the linked ready list, and the sleep list beside it.  *)
LEMMA SetReady ==
  ASSUME NEW s \in Seq(Task), NEW l, NEW k \in Nodes, L!Represents(l, k, s),
         NEW u \in Seq(Task), NEW ls, L!Represents(ls, k, u),
         NEW t \in Task, t \notin SP!ToSet(s), t \notin SP!ToSet(u),
         SP!ToSet(s) \intersect SP!ToSet(u) = {},
         NEW r, r = L!list_insert_last(l, k, t)
  PROVE  /\ r.node \in Nodes
         /\ L!Represents(r.list, r.node, Append(s, t))
         /\ L!Represents(ls, r.node, u)
<1>1. t # idle_task /\ t \in AllTask
  BY PtrAssumption DEF AllTask
<1>3. s \in Seq(AllTask) /\ u \in Seq(AllTask) /\ SP!ToSet(u) \subseteq AllTask
  BY SeqAll DEF SP!ToSet, AllTask
<1>4. /\ r.node \in Nodes /\ L!Represents(r.list, r.node, Append(s, t))
      /\ \A m \in AllTask : m # t /\ m \notin SP!ToSet(s) => r.node[m] = k[m]
  BY <1>1, <1>3, InsertLast
<1>5. \A m \in SP!ToSet(u) : (r.node)[m] = k[m]
  BY <1>3, <1>4
<1>6. PICK c : c = r.node
  OBVIOUS
<1>7. \A m \in SP!ToSet(u) : c[m] = k[m]
  BY <1>5, <1>6
<1>8. L!Represents(ls, c, u)
  BY <1>3, <1>7, ListFrame
<1> QED
  BY <1>4, <1>6, <1>8

(* task_set_block on the linked ready list, and the sleep list beside it.  *)
LEMMA SetBlock ==
  ASSUME NEW s \in Seq(Task), NEW l, NEW k \in Nodes, L!Represents(l, k, s),
         NEW u \in Seq(Task), NEW ls, L!Represents(ls, k, u),
         NEW t \in Task, t \in SP!ToSet(s),
         SP!ToSet(s) \intersect SP!ToSet(u) = {},
         NEW r, r = L!list_remove(l, k, t)
  PROVE  /\ r.node \in Nodes
         /\ L!Represents(r.list, r.node, SP!RemoveFirst(s, t))
         /\ L!Represents(ls, r.node, u)
         /\ SP!RemoveFirst(s, t) \in Seq(Task)
         /\ SP!ToSet(SP!RemoveFirst(s, t)) = SP!ToSet(s) \ {t}
<1>3. s \in Seq(AllTask) /\ u \in Seq(AllTask) /\ SP!ToSet(u) \subseteq AllTask
  BY SeqAll DEF SP!ToSet, AllTask
<1>4. /\ r.node \in Nodes /\ L!Represents(r.list, r.node, SP!RemoveFirst(s, t))
      /\ \A m \in AllTask : m \notin SP!ToSet(s) => r.node[m] = k[m]
  BY <1>3, RemoveNode
<1>5. \A m \in SP!ToSet(u) : (r.node)[m] = k[m]
  BY <1>3, <1>4
<1>6. PICK c : c = r.node
  OBVIOUS
<1>7. \A m \in SP!ToSet(u) : c[m] = k[m]
  BY <1>5, <1>6
<1>8. L!Represents(ls, c, u)
  BY <1>3, <1>7, ListFrame
<1>9. SP!IsInjective(s)
  BY DEF L!Represents, L!IsInjective, SP!IsInjective
<1>10. /\ SP!RemoveFirst(s, t) \in Seq(Task)
       /\ SP!ToSet(SP!RemoveFirst(s, t)) = SP!ToSet(s) \ {t}
  BY <1>9, PtrAssumption, SP!RemoveFirstFacts
<1> QED
  BY <1>4, <1>6, <1>8, <1>10

(* task_set_block and then task_set_ready of the current task.             *)
LEMMA Requeue ==
  ASSUME PInv, curr_task # NULL,
         NEW r, r = task_set_ready(task_set_block(Ready, curr_task), curr_task),
         NEW w, w = SP!task_set_ready(SP!task_set_block(ready_list, curr_task), curr_task)
  PROVE  /\ w \in Seq(Task)
         /\ r.node \in Nodes
         /\ L!Represents(r.list, r.node, w)
         /\ L!Represents(sleep, r.node, sleep_list)
<1>1. /\ ready_list \in Seq(Task) /\ sleep_list \in Seq(Task)
      /\ SP!ToSet(ready_list) \intersect SP!ToSet(sleep_list) = {}
      /\ run_node \in Nodes
      /\ L!Represents(ready, run_node, ready_list)
      /\ L!Represents(sleep, run_node, sleep_list)
  BY PFacts DEF PInv
<1>2. CASE curr_task = idle_task
  <2>1. r = Ready /\ w = ready_list
    BY <1>2 DEF task_set_ready, task_set_block, SP!task_set_ready, SP!task_set_block
  <2> QED
    BY <1>1, <2>1 DEF Ready
<1>3. CASE curr_task # idle_task
  <2>1. curr_task \in Task /\ curr_task \in SP!ToSet(ready_list)
    BY <1>3, PtrAssumption, SP!RunningFacts DEF PInv
  <2>2. PICK b : b = L!list_remove(ready, run_node, curr_task)
    OBVIOUS
  <2>3. PICK v : v = SP!RemoveFirst(ready_list, curr_task)
    OBVIOUS
  <2>4. /\ b.node \in Nodes
        /\ L!Represents(b.list, b.node, v)
        /\ L!Represents(sleep, b.node, sleep_list)
        /\ v \in Seq(Task)
        /\ SP!ToSet(v) = SP!ToSet(ready_list) \ {curr_task}
    BY <1>1, <2>1, <2>2, <2>3, SetBlock
  <2>5. r = L!list_insert_last(b.list, b.node, curr_task)
    BY <1>3, <2>2 DEF task_set_ready, task_set_block, Ready
  <2>6. w = Append(v, curr_task)
    BY <1>3, <2>3 DEF SP!task_set_ready, SP!task_set_block
  <2>7. /\ curr_task \notin SP!ToSet(v) /\ curr_task \notin SP!ToSet(sleep_list)
        /\ SP!ToSet(v) \intersect SP!ToSet(sleep_list) = {}
    BY <1>1, <2>1, <2>4
  <2>8. PICK bl, bn : bl = b.list /\ bn = b.node
    OBVIOUS
  <2>9. /\ bn \in Nodes /\ L!Represents(bl, bn, v) /\ L!Represents(sleep, bn, sleep_list)
        /\ r = L!list_insert_last(bl, bn, curr_task)
    BY <2>4, <2>5, <2>8
  <2>10. /\ r.node \in Nodes
         /\ L!Represents(r.list, r.node, Append(v, curr_task))
         /\ L!Represents(sleep, r.node, sleep_list)
    BY <1>1, <2>1, <2>4, <2>7, <2>9, SetReady
  <2> QED
    BY <2>1, <2>4, <2>6, <2>10
<1> QED
  BY <1>2, <1>3

(* task_dispatch takes the same task from a linked list as from the        *)
(* sequence it represents.                                                 *)
LEMMA Dispatch ==
  ASSUME NEW w \in Seq(Task), NEW l, NEW k, L!Represents(l, k, w), NEW st,
         task_dispatch(l, st), ready_list' = w
  PROVE  SP!task_dispatch(w, st)
<1>1. PICK to : to = task_next_run(l)
  OBVIOUS
<1>2. to = SP!task_next_run(w) /\ to # NULL
  <2>1. /\ l.count = Len(w) /\ (w # << >> => l.first = w[1] /\ w[1] \in Task /\ Head(w) = w[1])
        /\ (w = << >> <=> Len(w) = 0)
    BY DEF L!Represents
  <2> QED
    BY <1>1, <2>1, PtrAssumption DEF task_next_run, SP!task_next_run
<1>3. curr_task' = to /\ state' = IF to # curr_task THEN [st EXCEPT ![to] = "RUNNING"] ELSE st
  BY <1>1, <1>2 DEF task_dispatch
<1> QED
  BY <1>2, <1>3 DEF SP!task_dispatch
-----------------------------------------------------------------------------
(* Each action of the linked lists is the action of Sched of that name,    *)
(* and keeps the lists linked.                                             *)
Linked ==
    /\ run_node \in Nodes
    /\ L!Represents(ready, run_node, ready_list)
    /\ L!Represents(sleep, run_node, sleep_list)

LEMMA YieldStep == PInv /\ sys_sched_yield => SP!sys_sched_yield /\ Linked'
<1> SUFFICES ASSUME PInv, sys_sched_yield PROVE SP!sys_sched_yield /\ Linked'
  OBVIOUS
<1>1. PICK r : r = task_set_ready(task_set_block(Ready, curr_task), curr_task)
  OBVIOUS
<1>2. PICK w : w = SP!task_set_ready(SP!task_set_block(ready_list, curr_task), curr_task)
  OBVIOUS
<1>3. PICK st : st = set_state(state, curr_task, "READY")
  OBVIOUS
<1>4. /\ Running /\ ready.count > 1 /\ task_dispatch(r.list, st) /\ run_node' = r.node
      /\ sleep' = sleep
      /\ UNCHANGED <<task_list, sleep_ticks, slice_ticks, pc, cursor, in_service>>
  BY <1>1, <1>3 DEF sys_sched_yield
<1>5. curr_task # NULL
  BY <1>4, PtrAssumption DEF Running
<1>6. /\ w \in Seq(Task) /\ r.node \in Nodes /\ L!Represents(r.list, r.node, w)
      /\ L!Represents(sleep, r.node, sleep_list)
  BY <1>1, <1>2, <1>5, Requeue
<1>7. ready' = r.list
  BY <1>4 DEF task_dispatch
<1>8. /\ L!Represents(ready', run_node', w) /\ L!Represents(sleep', run_node', sleep_list)
  BY <1>4, <1>6, <1>7
<1>9. sleep_list \in Seq(Task) /\ ready.count = Len(ready_list)
  BY PFacts
<1>10. ready_list' = w /\ sleep_list' = sleep_list /\ Linked'
  BY <1>4, <1>6, <1>8, <1>9, After DEF Linked
<1>11. SP!task_dispatch(w, st)
  BY <1>4, <1>6, <1>10, Dispatch
<1>12. SP!sys_sched_yield
  BY <1>2, <1>3, <1>4, <1>9, <1>10, <1>11
     DEF SP!sys_sched_yield, SP!Running, Running, SP!set_state, set_state
<1> QED
  BY <1>10, <1>12

(* A step that leaves the lists alone.                                     *)
LEMMA Still ==
  ASSUME PInv, UNCHANGED lists
  PROVE  ready_list' = ready_list /\ sleep_list' = sleep_list /\ Linked'
<1>1. ready' = ready /\ sleep' = sleep /\ run_node' = run_node
  BY DEF lists
<1>2. ready_list' = ready_list /\ sleep_list' = sleep_list
  BY <1>1, ListsWalked, ListsWalkedNext
<1> QED
  BY <1>1, <1>2 DEF PInv, Linked

LEMMA MsleepStep ==
  ASSUME NEW ms \in Ms PROVE PInv /\ sys_msleep(ms) => SP!sys_msleep(ms) /\ Linked'
<1> SUFFICES ASSUME PInv, sys_msleep(ms) PROVE SP!sys_msleep(ms) /\ Linked'
  OBVIOUS
<1>1. PICK r : r = L!list_remove(ready, run_node, curr_task)
  OBVIOUS
<1>2. PICK ticks : ticks = msleep_ticks(ms)
  OBVIOUS
<1>3. /\ Running /\ UNCHANGED <<task_list, slice_ticks, pc, cursor, in_service>>
  BY DEF sys_msleep
<1>4. curr_task \in Task /\ curr_task # NULL /\ curr_task # idle_task
  BY <1>3, PtrAssumption DEF Running
<1>5. curr_task \in SP!ToSet(ready_list)
  BY <1>4, PtrAssumption, SP!RunningFacts DEF PInv
<1>6. task_set_block(Ready, curr_task) = r
  BY <1>1, <1>4 DEF task_set_block, Ready
<1>7. /\ ready_list \in Seq(Task) /\ sleep_list \in Seq(Task)
      /\ SP!ToSet(ready_list) \intersect SP!ToSet(sleep_list) = {}
      /\ run_node \in Nodes
      /\ L!Represents(ready, run_node, ready_list)
      /\ L!Represents(sleep, run_node, sleep_list)
  BY PFacts DEF PInv
<1>8. PICK v : v = SP!RemoveFirst(ready_list, curr_task)
  OBVIOUS
<1>9. /\ r.node \in Nodes
      /\ L!Represents(r.list, r.node, v)
      /\ L!Represents(sleep, r.node, sleep_list)
      /\ v \in Seq(Task)
      /\ SP!ToSet(v) = SP!ToSet(ready_list) \ {curr_task}
  BY <1>1, <1>4, <1>5, <1>7, <1>8, SetBlock
<1>10. v = SP!task_set_block(ready_list, curr_task)
  BY <1>4, <1>8 DEF SP!task_set_block
<1>11. SP!msleep_ticks(ms) = ticks /\ SP!Running
  BY <1>2, <1>3 DEF SP!msleep_ticks, msleep_ticks, SP!Running, Running
<1>12. CASE ticks > 0
  <2>1. PICK rl, rn : rl = r.list /\ rn = r.node
    OBVIOUS
  <2>2. PICK s : s = L!list_insert_last(sleep, rn, curr_task)
    OBVIOUS
  <2>3. PICK st : st = [state EXCEPT ![curr_task] = "SLEEP"]
    OBVIOUS
  <2>4. /\ sleep_ticks' = [sleep_ticks EXCEPT ![curr_task] = ticks]
        /\ sleep' = s.list /\ run_node' = s.node /\ task_dispatch(rl, st)
    BY <1>2, <1>6, <1>12, <2>1, <2>2, <2>3 DEF sys_msleep
  <2>5. /\ rn \in Nodes /\ L!Represents(rl, rn, v) /\ L!Represents(sleep, rn, sleep_list)
        /\ curr_task \notin SP!ToSet(v) /\ curr_task \notin SP!ToSet(sleep_list)
        /\ SP!ToSet(sleep_list) \intersect SP!ToSet(v) = {}
    BY <1>5, <1>7, <1>9, <2>1
  <2>6. /\ s.node \in Nodes
        /\ L!Represents(s.list, s.node, Append(sleep_list, curr_task))
        /\ L!Represents(rl, s.node, v)
    BY <1>4, <1>7, <1>9, <2>2, <2>5, SetReady
  <2>7. PICK u \in Seq(Task) : u = Append(sleep_list, curr_task)
    <3>1. Append(sleep_list, curr_task) \in Seq(Task)
      BY <1>4, <1>7
    <3> QED
      BY <3>1
  <2>8. ready' = rl
    BY <2>4 DEF task_dispatch
  <2>9. /\ L!Represents(ready', run_node', v) /\ L!Represents(sleep', run_node', u)
    BY <2>4, <2>6, <2>7, <2>8
  <2>10. ready_list' = v /\ sleep_list' = u /\ Linked'
    BY <1>9, <2>4, <2>6, <2>9, After DEF Linked
  <2>11. SP!task_dispatch(v, st)
    BY <1>9, <2>4, <2>5, <2>10, Dispatch
  <2>12. SP!sys_msleep(ms)
    BY <1>3, <1>10, <1>11, <1>12, <2>3, <2>4, <2>7, <2>10, <2>11 DEF SP!sys_msleep
  <2> QED
    BY <2>10, <2>12
<1>13. CASE ~(ticks > 0)
  <2>1. /\ ticks = 0 /\ run_node' = r.node /\ sleep_ticks' = sleep_ticks /\ sleep' = sleep
        /\ task_dispatch(r.list, state)
    BY <1>2, <1>6, <1>13 DEF sys_msleep
  <2>2. ready' = r.list
    BY <2>1 DEF task_dispatch
  <2>3. /\ L!Represents(ready', run_node', v) /\ L!Represents(sleep', run_node', sleep_list)
    BY <1>9, <2>1, <2>2
  <2>4. ready_list' = v /\ sleep_list' = sleep_list /\ Linked'
    BY <1>7, <1>9, <2>1, <2>3, After DEF Linked
  <2>5. SP!task_dispatch(v, state)
    BY <1>9, <2>1, <2>4, Dispatch
  <2>6. SP!sys_msleep(ms)
    BY <1>3, <1>10, <1>11, <2>1, <2>4, <2>5 DEF SP!sys_msleep
  <2> QED
    BY <2>4, <2>6
<1> QED
  BY <1>12, <1>13

(* task_init of a task that was not yet created.                           *)
LEMMA InitStep ==
  ASSUME PInv, NEW t \in Task, t \notin SP!Created, task_init(t, FALSE), sleep' = sleep
  PROVE  SP!task_init(t, FALSE) /\ sleep_list' = sleep_list /\ Linked'
<1>1. /\ ready_list \in Seq(Task) /\ sleep_list \in Seq(Task)
      /\ SP!ToSet(ready_list) \intersect SP!ToSet(sleep_list) = {}
      /\ SP!ToSet(ready_list) \subseteq Task /\ SP!ToSet(sleep_list) \subseteq Task
      /\ run_node \in Nodes
      /\ L!Represents(ready, run_node, ready_list)
      /\ L!Represents(sleep, run_node, sleep_list)
  BY PFacts DEF PInv
<1>2. t \notin SP!ToSet(ready_list) /\ t \notin SP!ToSet(sleep_list)
  BY DEF PInv, SP!IInv, SP!RunNodeOnce
<1>3. PICK k : k = [run_node EXCEPT ![t] = L!list_node_init]
  OBVIOUS
<1>4. t \in AllTask /\ t # idle_task /\ Task \subseteq AllTask
  BY PtrAssumption DEF AllTask
<1>5. k \in Nodes /\ \A m \in AllTask : m # t => k[m] = run_node[m]
  BY <1>1, <1>3, <1>4 DEF Nodes, L!LinkType, L!list_node_init
<1>6. /\ \A m \in SP!ToSet(ready_list) : k[m] = run_node[m]
      /\ \A m \in SP!ToSet(sleep_list) : k[m] = run_node[m]
  BY <1>1, <1>2, <1>4, <1>5
<1>7. L!Represents(ready, k, ready_list) /\ L!Represents(sleep, k, sleep_list)
  BY <1>1, <1>6, ListFrame
<1>8. PICK r : r = L!list_insert_last(ready, k, t)
  OBVIOUS
<1>9. /\ r.node \in Nodes
      /\ L!Represents(r.list, r.node, Append(ready_list, t))
      /\ L!Represents(sleep, r.node, sleep_list)
  BY <1>1, <1>2, <1>5, <1>7, <1>8, SetReady
<1>10. /\ ready' = r.list /\ run_node' = r.node
       /\ task_list' = Append(task_list, t)
       /\ state' = [state EXCEPT ![t] = "READY"]
       /\ sleep_ticks' = [sleep_ticks EXCEPT ![t] = 0]
       /\ slice_ticks' = [slice_ticks EXCEPT ![t] = TASK_TIME_SLICE_DEFAULT]
  BY <1>3, <1>4, <1>8 DEF task_init, task_set_ready
<1>11. PICK w \in Seq(Task) : w = Append(ready_list, t)
  <2>1. Append(ready_list, t) \in Seq(Task)
    BY <1>1
  <2> QED
    BY <2>1
<1>12. L!Represents(ready', run_node', w) /\ L!Represents(sleep', run_node', sleep_list)
  BY <1>9, <1>10, <1>11
<1>13. ready_list' = w /\ sleep_list' = sleep_list /\ Linked'
  BY <1>1, <1>9, <1>10, <1>12, After DEF Linked
<1>14. w = SP!task_set_ready(ready_list, t)
  BY <1>4, <1>11 DEF SP!task_set_ready
<1>15. SP!task_init(t, FALSE)
  BY <1>10, <1>13, <1>14 DEF SP!task_init
<1> QED
  BY <1>13, <1>15

LEMMA FirstInitStep ==
  ASSUME RestartFirst = FALSE
  PROVE  PInv /\ task_first_init => SP!task_first_init /\ Linked'
<1> SUFFICES ASSUME PInv, task_first_init PROVE SP!task_first_init /\ Linked'
  OBVIOUS
<1>1. /\ curr_task = NULL /\ task_init(first_task, FALSE) /\ curr_task' = first_task
      /\ sleep' = sleep /\ UNCHANGED <<pc, cursor, in_service>>
  BY DEF task_first_init
<1>2. first_task \in Task /\ first_task \notin SP!Created
  BY <1>1, PtrAssumption DEF PInv, SP!IInv, SP!Basics
<1>3. SP!task_init(first_task, FALSE) /\ sleep_list' = sleep_list /\ Linked'
  BY <1>1, <1>2, InitStep
<1> QED
  BY <1>1, <1>3 DEF SP!task_first_init

LEMMA CreateStep ==
  ASSUME NEW t \in Task PROVE PInv /\ create(t) => SP!create(t) /\ Linked'
<1> SUFFICES ASSUME PInv, create(t) PROVE SP!create(t) /\ Linked'
  OBVIOUS
<1>1. /\ Running /\ t \notin ToSet(task_list) /\ task_init(t, FALSE) /\ sleep' = sleep
      /\ UNCHANGED <<curr_task, pc, cursor, in_service>>
  BY DEF create
<1>2. t \notin SP!Created
  BY <1>1 DEF SP!Created, SP!ToSet, ToSet
<1>3. SP!task_init(t, FALSE) /\ sleep_list' = sleep_list /\ Linked'
  BY <1>1, <1>2, InitStep
<1> QED
  BY <1>1, <1>2, <1>3 DEF SP!create, SP!Running, Running

LEMMA BlockStep == PInv /\ block_current => SP!block_current /\ Linked'
<1> SUFFICES ASSUME PInv, block_current PROVE SP!block_current /\ Linked'
  OBVIOUS
<1>1. PICK r : r = L!list_remove(ready, run_node, curr_task)
  OBVIOUS
<1>2. /\ Running
      /\ UNCHANGED <<sleep, task_list, sleep_ticks, slice_ticks, pc, cursor, in_service>>
  BY DEF block_current
<1>3. curr_task \in Task /\ curr_task # NULL /\ curr_task # idle_task
  BY <1>2, PtrAssumption DEF Running
<1>4. curr_task \in SP!ToSet(ready_list)
  BY <1>3, PtrAssumption, SP!RunningFacts DEF PInv
<1>5. task_set_block(Ready, curr_task) = r
  BY <1>1, <1>3 DEF task_set_block, Ready
<1>6. /\ ready_list \in Seq(Task) /\ sleep_list \in Seq(Task)
      /\ SP!ToSet(ready_list) \intersect SP!ToSet(sleep_list) = {}
      /\ run_node \in Nodes
      /\ L!Represents(ready, run_node, ready_list)
      /\ L!Represents(sleep, run_node, sleep_list)
  BY PFacts DEF PInv
<1>7. PICK v : v = SP!RemoveFirst(ready_list, curr_task)
  OBVIOUS
<1>8. /\ r.node \in Nodes
      /\ L!Represents(r.list, r.node, v)
      /\ L!Represents(sleep, r.node, sleep_list)
      /\ v \in Seq(Task)
  BY <1>1, <1>3, <1>4, <1>6, <1>7, SetBlock
<1>9. v = SP!task_set_block(ready_list, curr_task)
  BY <1>3, <1>7 DEF SP!task_set_block
<1>10. run_node' = r.node /\ task_dispatch(r.list, state)
  BY <1>5 DEF block_current
<1>11. ready' = r.list
  BY <1>10 DEF task_dispatch
<1>12. /\ L!Represents(ready', run_node', v) /\ L!Represents(sleep', run_node', sleep_list)
  BY <1>2, <1>8, <1>10, <1>11
<1>13. ready_list' = v /\ sleep_list' = sleep_list /\ Linked'
  BY <1>6, <1>8, <1>10, <1>12, After DEF Linked
<1>14. SP!task_dispatch(v, state)
  BY <1>8, <1>10, <1>13, Dispatch
<1>15. SP!block_current
  BY <1>2, <1>9, <1>13, <1>14 DEF SP!block_current, SP!Running, Running
<1> QED
  BY <1>13, <1>15

LEMMA WakeStep ==
  ASSUME NEW t \in Task PROVE PInv /\ wake(t) => SP!wake(t) /\ Linked'
<1> SUFFICES ASSUME PInv, wake(t) PROVE SP!wake(t) /\ Linked'
  OBVIOUS
<1>1. PICK r : r = L!list_insert_last(ready, run_node, t)
  OBVIOUS
<1>2. t # idle_task /\ t \in AllTask
  BY PtrAssumption DEF AllTask
<1>3. /\ t \in Blocked /\ Running
      /\ UNCHANGED <<sleep, task_list, sleep_ticks, slice_ticks, pc, cursor, in_service>>
  BY DEF wake, make_ready
<1>4. t \in SP!Blocked /\ t \notin SP!ToSet(ready_list) /\ t \notin SP!ToSet(sleep_list)
  BY <1>3 DEF Blocked, SP!Blocked, SP!Created, SP!ToSet, ToSet
<1>5. task_set_ready(Ready, t) = r
  BY <1>1, <1>2 DEF task_set_ready, Ready
<1>6. PICK st : st = set_state(state, t, "READY")
  OBVIOUS
<1>7. run_node' = r.node /\ task_dispatch(r.list, st)
  BY <1>5, <1>6 DEF wake, make_ready
<1>8. /\ ready_list \in Seq(Task) /\ sleep_list \in Seq(Task)
      /\ SP!ToSet(ready_list) \intersect SP!ToSet(sleep_list) = {}
      /\ run_node \in Nodes
      /\ L!Represents(ready, run_node, ready_list)
      /\ L!Represents(sleep, run_node, sleep_list)
  BY PFacts DEF PInv
<1>9. /\ r.node \in Nodes
      /\ L!Represents(r.list, r.node, Append(ready_list, t))
      /\ L!Represents(sleep, r.node, sleep_list)
  BY <1>1, <1>4, <1>8, SetReady
<1>10. PICK w \in Seq(Task) : w = Append(ready_list, t)
  <2>1. Append(ready_list, t) \in Seq(Task)
    BY <1>8
  <2> QED
    BY <2>1
<1>11. ready' = r.list
  BY <1>7 DEF task_dispatch
<1>12. L!Represents(ready', run_node', w) /\ L!Represents(sleep', run_node', sleep_list)
  BY <1>3, <1>7, <1>9, <1>10, <1>11
<1>13. ready_list' = w /\ sleep_list' = sleep_list /\ Linked'
  BY <1>7, <1>8, <1>9, <1>12, After DEF Linked
<1>14. SP!task_dispatch(w, st)
  BY <1>7, <1>9, <1>10, <1>13, Dispatch
<1>15. w = SP!task_set_ready(ready_list, t) /\ st = SP!set_state(state, t, "READY")
  BY <1>2, <1>6, <1>10 DEF SP!task_set_ready, SP!set_state, set_state
<1>16. SP!make_ready(t)
  BY <1>3, <1>13, <1>14, <1>15 DEF SP!make_ready, SP!Running, Running
<1> QED
  BY <1>4, <1>13, <1>16 DEF SP!wake

LEMMA InterruptStep == PInv /\ timer_interrupt => SP!timer_interrupt /\ Linked'
<1> SUFFICES ASSUME PInv, timer_interrupt PROVE SP!timer_interrupt /\ Linked'
  OBVIOUS
<1>1. /\ curr_task # NULL /\ pc[curr_task] = "run" /\ ~in_service /\ in_service' = TRUE
      /\ pc' = [pc EXCEPT ![curr_task] = "timer"] /\ UNCHANGED lists
      /\ UNCHANGED <<curr_task, task_list, state, sleep_ticks, slice_ticks, cursor>>
  BY DEF timer_interrupt, InTick
<1>2. ready_list' = ready_list /\ sleep_list' = sleep_list /\ Linked'
  BY <1>1, Still
<1> QED
  BY <1>1, <1>2 DEF SP!timer_interrupt

LEMMA HandlerStep == PInv /\ do_handler_timer => SP!do_handler_timer /\ Linked'
<1> SUFFICES ASSUME PInv, do_handler_timer PROVE SP!do_handler_timer /\ Linked'
  OBVIOUS
<1>1. /\ curr_task # NULL /\ pc[curr_task] = "timer"
      /\ in_service' = FALSE
      /\ pc' = [pc EXCEPT ![curr_task] = "sleepers"]
      /\ sleep' = sleep /\ UNCHANGED <<task_list, sleep_ticks, cursor>>
  BY DEF do_handler_timer, InTick, pic_send_eoi
<1>2. in_service' = SP!pic_send_eoi(in_service)
  BY <1>1 DEF SP!pic_send_eoi
<1>3. CASE slice_ticks[curr_task] - 1 # 0
  <2>1. /\ slice_ticks' = [slice_ticks EXCEPT ![curr_task] = @ - 1]
        /\ UNCHANGED <<curr_task, ready, run_node, state>>
    BY <1>3 DEF do_handler_timer
  <2>2. UNCHANGED lists
    BY <1>1, <2>1 DEF lists
  <2>3. ready_list' = ready_list /\ sleep_list' = sleep_list /\ Linked'
    BY <2>2, Still
  <2>4. SP!do_handler_timer
    BY <1>1, <1>2, <1>3, <2>1, <2>3 DEF SP!do_handler_timer
  <2> QED
    BY <2>3, <2>4
<1>4. CASE slice_ticks[curr_task] - 1 = 0
  <2>1. PICK r : r = task_set_ready(task_set_block(Ready, curr_task), curr_task)
    OBVIOUS
  <2>2. PICK w : w = SP!task_set_ready(SP!task_set_block(ready_list, curr_task), curr_task)
    OBVIOUS
  <2>3. PICK st : st = set_state(state, curr_task, "READY")
    OBVIOUS
  <2>4. /\ slice_ticks' = [slice_ticks EXCEPT ![curr_task] = TASK_TIME_SLICE_DEFAULT]
        /\ task_dispatch(r.list, st) /\ run_node' = r.node
    BY <1>4, <2>1, <2>3 DEF do_handler_timer
  <2>5. /\ w \in Seq(Task) /\ r.node \in Nodes /\ L!Represents(r.list, r.node, w)
        /\ L!Represents(sleep, r.node, sleep_list)
    BY <1>1, <2>1, <2>2, Requeue
  <2>6. ready' = r.list
    BY <2>4 DEF task_dispatch
  <2>7. /\ L!Represents(ready', run_node', w) /\ L!Represents(sleep', run_node', sleep_list)
    BY <1>1, <2>4, <2>5, <2>6
  <2>8. sleep_list \in Seq(Task)
    BY PFacts
  <2>9. ready_list' = w /\ sleep_list' = sleep_list /\ Linked'
    BY <2>4, <2>5, <2>7, <2>8, After DEF Linked
  <2>10. SP!task_dispatch(w, st)
    BY <2>4, <2>5, <2>9, Dispatch
  <2>11. st = SP!set_state(state, curr_task, "READY")
    BY <2>3 DEF SP!set_state, set_state
  <2>12. SP!do_handler_timer
    BY <1>1, <1>2, <1>4, <2>2, <2>4, <2>9, <2>10, <2>11 DEF SP!do_handler_timer
  <2> QED
    BY <2>9, <2>12
<1> QED
  BY <1>3, <1>4

LEMMA WalkBeginStep == PInv /\ walk_begin => SP!walk_begin /\ Linked'
<1> SUFFICES ASSUME PInv, walk_begin PROVE SP!walk_begin /\ Linked'
  OBVIOUS
<1>1. /\ curr_task # NULL /\ pc[curr_task] = "sleepers" /\ cursor' = sleep.first
      /\ pc' = [pc EXCEPT ![curr_task] = "walk"] /\ UNCHANGED lists
      /\ UNCHANGED <<curr_task, task_list, state, sleep_ticks, slice_ticks, in_service>>
  BY DEF walk_begin, InTick
<1>2. ready_list' = ready_list /\ sleep_list' = sleep_list /\ Linked'
  BY <1>1, Still
<1>3. cursor' = IF sleep_list = << >> THEN NULL ELSE Head(sleep_list)
  BY <1>1, PFacts
<1> QED
  BY <1>1, <1>2, <1>3 DEF SP!walk_begin

LEMMA WalkEndStep == PInv /\ walk_end => SP!walk_end /\ Linked'
<1> SUFFICES ASSUME PInv, walk_end PROVE SP!walk_end /\ Linked'
  OBVIOUS
<1>1. /\ curr_task # NULL /\ pc[curr_task] = "walk" /\ cursor = NULL
      /\ pc' = [pc EXCEPT ![curr_task] = "run"] /\ task_dispatch(ready, state)
      /\ sleep' = sleep /\ run_node' = run_node
      /\ UNCHANGED <<task_list, sleep_ticks, slice_ticks, cursor, in_service>>
  BY DEF walk_end, InTick
<1>2. UNCHANGED lists
  BY <1>1 DEF lists, task_dispatch
<1>3. ready_list' = ready_list /\ sleep_list' = sleep_list /\ Linked'
  BY <1>2, Still
<1>4. ready_list \in Seq(Task) /\ L!Represents(ready, run_node, ready_list)
  BY PFacts DEF PInv
<1>5. SP!task_dispatch(ready_list, state)
  BY <1>1, <1>3, <1>4, Dispatch
<1> QED
  BY <1>1, <1>3, <1>5 DEF SP!walk_end

(* The pointer next of a sleeper leads to the next one on the list.        *)
LEMMA NextSleeper ==
  ASSUME NEW s \in Seq(Task), NEW l, NEW k, L!Represents(l, k, s), NEW t \in SP!ToSet(s)
  PROVE  k[t].next = SP!list_node_next(s, t)
<1>1. /\ Len(s) \in Nat /\ \A i, j \in 1..Len(s) : s[i] = s[j] => i = j
      /\ \A i \in 1..Len(s) : k[s[i]].next = (IF i = Len(s) THEN NULL ELSE s[i+1])
  BY DEF L!Represents, L!IsInjective
<1>2. PICK i \in 1..Len(s) : s[i] = t
  BY DEF SP!ToSet
<1>3. PICK later : later = {j \in 2..Len(s) : s[j-1] = t}
  OBVIOUS
<1>4. ASSUME NEW j \in 2..Len(s) PROVE s[j-1] = t <=> j = i + 1
  <2>1. PICK p \in 1..Len(s) : p = j - 1
    BY <1>1
  <2> QED
    BY <1>1, <1>2, <2>1
<1>5. SP!list_node_next(s, t) = IF later = {} THEN NULL ELSE s[SP!Min(later)]
  BY <1>3 DEF SP!list_node_next
<1>6. CASE i = Len(s)
  <2>1. later = {}
    BY <1>1, <1>3, <1>4, <1>6
  <2> QED
    BY <1>1, <1>2, <1>5, <1>6, <2>1
<1>7. CASE i # Len(s)
  <2>1. PICK n \in 2..Len(s) : n = i + 1
    BY <1>1, <1>7
  <2>2. later = {n}
    BY <1>3, <1>4, <2>1
  <2>3. SP!Min({n}) = n
    BY DEF SP!Min
  <2> QED
    BY <1>1, <1>2, <1>5, <1>7, <2>1, <2>2, <2>3
<1> QED
  BY <1>6, <1>7

LEMMA WalkStepStep == PInv /\ walk_step => SP!walk_step /\ Linked'
<1> SUFFICES ASSUME PInv, walk_step PROVE SP!walk_step /\ Linked'
  OBVIOUS
<1>1. /\ curr_task # NULL /\ pc[curr_task] = "walk" /\ cursor # NULL
      /\ cursor' = run_node[cursor].next
      /\ sleep_ticks' = [sleep_ticks EXCEPT ![cursor] = decrement(@)]
      /\ UNCHANGED <<curr_task, task_list, slice_ticks, pc, in_service>>
  BY DEF walk_step, InTick
<1>2. /\ ready_list \in Seq(Task) /\ sleep_list \in Seq(Task)
      /\ SP!ToSet(ready_list) \intersect SP!ToSet(sleep_list) = {}
      /\ SP!ToSet(sleep_list) \intersect SP!ToSet(ready_list) = {}
      /\ SP!ToSet(ready_list) \subseteq Task /\ SP!ToSet(sleep_list) \subseteq Task
      /\ run_node \in Nodes
      /\ L!Represents(ready, run_node, ready_list)
      /\ L!Represents(sleep, run_node, sleep_list)
  BY PFacts DEF PInv
<1>3. cursor \in SP!ToSet(sleep_list)
  BY <1>1 DEF PInv, SP!IInv, SP!CursorSleeps
<1>4. cursor \in Task /\ cursor # idle_task /\ cursor \notin SP!ToSet(ready_list)
  BY <1>2, <1>3, PtrAssumption
<1>5. sleep_ticks \in [AllTask -> Nat] /\ cursor \in AllTask
  BY <1>4 DEF PInv, SP!IInv, SP!TypeOK, SP!AllTask, AllTask
<1>6. cursor' = SP!list_node_next(sleep_list, cursor)
  BY <1>1, <1>2, <1>3, NextSleeper
<1>7. sleep_ticks' = [sleep_ticks EXCEPT ![cursor] = @ - 1]
  <2>1. decrement(sleep_ticks[cursor]) = sleep_ticks[cursor] - 1
    BY <1>5 DEF decrement
  <2> QED
    BY <1>1, <2>1
<1>8. CASE sleep_ticks[cursor] - 1 # 0
  <2>1. UNCHANGED lists /\ state' = state
    BY <1>8 DEF walk_step
  <2>2. ready_list' = ready_list /\ sleep_list' = sleep_list /\ Linked'
    BY <2>1, Still
  <2>3. SP!walk_step
    BY <1>1, <1>6, <1>7, <1>8, <2>1, <2>2 DEF SP!walk_step
  <2> QED
    BY <2>2, <2>3
<1>9. CASE sleep_ticks[cursor] - 1 = 0
  <2>1. PICK w : w = L!list_remove(sleep, run_node, cursor)
    OBVIOUS
  <2>2. PICK wn : wn = w.node
    OBVIOUS
  <2>3. PICK r : r = L!list_insert_last(ready, wn, cursor)
    OBVIOUS
  <2>4. task_set_ready([list |-> ready, node |-> w.node], cursor) = r
    BY <1>4, <2>2, <2>3 DEF task_set_ready
  <2>5. /\ sleep' = w.list /\ ready' = r.list /\ run_node' = r.node
        /\ state' = set_state(state, cursor, "READY")
    BY <1>9, <2>1, <2>4 DEF walk_step
  <2>6. PICK u : u = SP!RemoveFirst(sleep_list, cursor)
    OBVIOUS
  <2>7. /\ w.node \in Nodes
        /\ L!Represents(w.list, w.node, u)
        /\ L!Represents(ready, w.node, ready_list)
        /\ u \in Seq(Task)
        /\ SP!ToSet(u) = SP!ToSet(sleep_list) \ {cursor}
    BY <1>2, <1>3, <1>4, <2>1, <2>6, SetBlock
  <2>8. PICK wl : wl = w.list
    OBVIOUS
  <2>9. /\ wn \in Nodes /\ L!Represents(wl, wn, u) /\ L!Represents(ready, wn, ready_list)
        /\ cursor \notin SP!ToSet(u) /\ SP!ToSet(ready_list) \intersect SP!ToSet(u) = {}
    BY <1>2, <2>2, <2>7, <2>8
  <2>10. /\ r.node \in Nodes
         /\ L!Represents(r.list, r.node, Append(ready_list, cursor))
         /\ L!Represents(wl, r.node, u)
    BY <1>2, <1>4, <2>3, <2>7, <2>9, SetReady
  <2>11. PICK v \in Seq(Task) : v = Append(ready_list, cursor)
    <3>1. Append(ready_list, cursor) \in Seq(Task)
      BY <1>2, <1>4
    <3> QED
      BY <3>1
  <2>12. /\ L!Represents(ready', run_node', v) /\ L!Represents(sleep', run_node', u)
    BY <2>5, <2>8, <2>10, <2>11
  <2>13. ready_list' = v /\ sleep_list' = u /\ Linked'
    BY <2>5, <2>7, <2>10, <2>12, After DEF Linked
  <2>14. v = SP!task_set_ready(ready_list, cursor)
    BY <1>4, <2>11 DEF SP!task_set_ready
  <2>15. state' = SP!set_state(state, cursor, "READY")
    BY <2>5 DEF SP!set_state, set_state
  <2>16. SP!walk_step
    BY <1>1, <1>6, <1>7, <1>9, <2>6, <2>13, <2>14, <2>15 DEF SP!walk_step
  <2> QED
    BY <2>13, <2>16
<1> QED
  BY <1>8, <1>9

-----------------------------------------------------------------------------
LEMMA InitStepP == PInit => SP!Init /\ Linked
<1> SUFFICES ASSUME PInit PROVE SP!Init /\ Linked
  OBVIOUS
<1>1. run_node \in Nodes
  BY DEF PInit, Nodes, L!LinkType, L!list_node_init
<1>2. << >> \in Seq(AllTask)
  OBVIOUS
<1>3. L!Represents(ready, run_node, << >>) /\ L!Represents(sleep, run_node, << >>)
  BY DEF PInit, L!Represents, L!IsInjective, L!list_init
<1>4. ready_list = << >> /\ sleep_list = << >>
  BY <1>2, <1>3, WalkedIs, ListsWalked
<1>5. SP!Init
  BY <1>4 DEF PInit, SP!Init, SP!AllTask, AllTask
<1> QED
  BY <1>1, <1>3, <1>4, <1>5 DEF Linked

LEMMA PInvInit ==
  ASSUME RestartFirst = FALSE
  PROVE  PInit => PInv
<1>1. SP!Init => SP!IInv
  BY PtrAssumption, SP!InitIInv
<1> QED
  BY <1>1, InitStepP DEF PInv, Linked

(* Every step of the linked lists is a step of Sched or leaves what Sched  *)
(* sees as it is, and keeps the lists linked.                              *)
LEMMA NextStep ==
  ASSUME RestartFirst = FALSE
  PROVE  PInv /\ [PNext]_pvars => [SP!Next]_(SP!vars) /\ Linked'
<1> SUFFICES ASSUME PInv, [PNext]_pvars PROVE [SP!Next]_(SP!vars) /\ Linked'
  OBVIOUS
<1>1. CASE task_first_init
  BY <1>1, FirstInitStep DEF SP!Next
<1>2. ASSUME NEW t \in Task, create(t) PROVE [SP!Next]_(SP!vars) /\ Linked'
  BY <1>2, CreateStep DEF SP!Next
<1>3. CASE sys_sched_yield
  BY <1>3, YieldStep DEF SP!Next
<1>4. ASSUME NEW ms \in Ms, sys_msleep(ms) PROVE [SP!Next]_(SP!vars) /\ Linked'
  BY <1>4, MsleepStep DEF SP!Next
<1>5. CASE timer_interrupt
  BY <1>5, InterruptStep DEF SP!Next
<1>6. CASE do_handler_timer
  BY <1>6, HandlerStep DEF SP!Next, SP!Handler
<1>7. CASE walk_begin
  BY <1>7, WalkBeginStep DEF SP!Next, SP!Handler
<1>8. CASE walk_step
  BY <1>8, WalkStepStep DEF SP!Next, SP!Handler
<1>9. CASE walk_end
  BY <1>9, WalkEndStep DEF SP!Next, SP!Handler
<1>10. CASE block_current
  BY <1>10, BlockStep DEF SP!Next
<1>11. ASSUME NEW t \in Task, wake(t) PROVE [SP!Next]_(SP!vars) /\ Linked'
  BY <1>11, WakeStep DEF SP!Next
<1>12. CASE UNCHANGED pvars
  <2>1. UNCHANGED lists
    BY <1>12 DEF pvars, lists
  <2>2. ready_list' = ready_list /\ sleep_list' = sleep_list /\ Linked'
    BY <2>1, Still
  <2> QED
    BY <1>12, <2>2 DEF pvars, SP!vars
<1> QED
  BY <1>1, <1>2, <1>3, <1>4, <1>5, <1>6, <1>7, <1>8, <1>9, <1>10, <1>11, <1>12
     DEF PNext, BootNext, Handler

LEMMA PInvNext ==
  ASSUME RestartFirst = FALSE
  PROVE  PInv /\ [PNext]_pvars => PInv'
<1> SUFFICES ASSUME PInv, [PNext]_pvars PROVE PInv'
  OBVIOUS
<1>1. [SP!Next]_(SP!vars) /\ Linked'
  BY NextStep
<1>2. SP!IInv'
  BY <1>1, PtrAssumption, SP!NextIInv DEF PInv
<1> QED
  BY <1>1, <1>2 DEF PInv, Linked

(* The two instances of Sched, through SchedPtr and through SchedProofs,   *)
(* have the same steps.                                                    *)
LEMMA SameRemove == \A s, e : SP!RemoveFirst(s, e) = S!RemoveFirst(s, e)
BY Zenon DEF SP!RemoveFirst, S!RemoveFirst, SP!SelectInSeq, S!SelectInSeq,
             SP!RemoveAt, S!RemoveAt, SP!Min, S!Min

LEMMA SameNext == [SP!Next]_(SP!vars) => [S!Next]_(S!vars)
<1>1. SP!Created = S!Created /\ SP!Blocked = S!Blocked
  BY DEF SP!Created, S!Created, SP!Blocked, S!Blocked, SP!ToSet, S!ToSet
<1>2. \A s, t : /\ SP!task_set_ready(s, t) = S!task_set_ready(s, t)
                /\ SP!task_set_block(s, t) = S!task_set_block(s, t)
  BY SameRemove DEF SP!task_set_ready, S!task_set_ready, SP!task_set_block, S!task_set_block
<1>3. \A st, t, x : SP!set_state(st, t, x) = S!set_state(st, t, x)
  BY DEF SP!set_state, S!set_state
<1>4. \A s, st : SP!task_dispatch(s, st) <=> S!task_dispatch(s, st)
  BY DEF SP!task_dispatch, S!task_dispatch, SP!task_next_run, S!task_next_run
<1>5. SP!Running <=> S!Running
  BY DEF SP!Running, S!Running
<1>6. \A t, b : SP!task_init(t, b) <=> S!task_init(t, b)
  BY <1>2 DEF SP!task_init, S!task_init
<1>7. SP!task_first_init => S!task_first_init
  BY <1>6 DEF SP!task_first_init, S!task_first_init
<1>8. \A t \in Task : SP!create(t) => S!create(t)
  BY <1>1, <1>5, <1>6 DEF SP!create, S!create
<1>9. \A t \in Task : SP!wake(t) => S!wake(t)
  BY <1>1, <1>2, <1>3, <1>4, <1>5 DEF SP!wake, S!wake, SP!make_ready, S!make_ready
<1>10. SP!sys_sched_yield => S!sys_sched_yield
  BY <1>2, <1>3, <1>4, <1>5 DEF SP!sys_sched_yield, S!sys_sched_yield
<1>11. \A ms \in Ms : SP!sys_msleep(ms) => S!sys_msleep(ms)
  <2>1. \A ms \in Ms : SP!msleep_ticks(ms) = S!msleep_ticks(ms)
    BY DEF SP!msleep_ticks, S!msleep_ticks
  <2> QED
    BY <1>2, <1>4, <1>5, <2>1 DEF SP!sys_msleep, S!sys_msleep
<1>12. SP!block_current => S!block_current
  BY <1>2, <1>4, <1>5 DEF SP!block_current, S!block_current
<1>13. SP!timer_interrupt => S!timer_interrupt
  BY DEF SP!timer_interrupt, S!timer_interrupt
<1>14. SP!do_handler_timer => S!do_handler_timer
  BY <1>2, <1>3, <1>4 DEF SP!do_handler_timer, S!do_handler_timer, SP!pic_send_eoi,
     S!pic_send_eoi
<1>15. SP!walk_begin => S!walk_begin
  BY DEF SP!walk_begin, S!walk_begin
<1>16. SP!walk_step => S!walk_step
  <2>1. SP!list_node_next(sleep_list, cursor) = S!list_node_next(sleep_list, cursor)
    BY Zenon DEF SP!list_node_next, S!list_node_next, SP!Min, S!Min
  <2> QED
    BY <1>2, <1>3, <2>1, SameRemove DEF SP!walk_step, S!walk_step
<1>17. SP!walk_end => S!walk_end
  BY <1>4 DEF SP!walk_end, S!walk_end
<1>18. SP!Next => S!Next
  BY <1>7, <1>8, <1>9, <1>10, <1>11, <1>12, <1>13, <1>14, <1>15, <1>16, <1>17
     DEF SP!Next, S!Next, SP!Handler, S!Handler
<1>19. SP!vars = S!vars /\ (SP!vars' = SP!vars => S!vars' = S!vars)
  BY DEF SP!vars, S!vars
<1> QED
  BY <1>18, <1>19

(* The task manager on its linked lists implements the task manager on     *)
(* sequences: if task_first_init makes the first task ready once only,     *)
(* every behaviour of the pointers of list.c is one of Sched.              *)
THEOREM PointersImplementSched ==
  ASSUME RestartFirst = FALSE
  PROVE  PSpec => ImplementsSched
<1>1. PInit => PInv
  BY PInvInit
<1>2. PInv /\ [PNext]_pvars => PInv'
  BY PInvNext
<1>3. PInit => S!Init
  <2>1. SP!Init => S!Init
    BY DEF SP!Init, S!Init, SP!AllTask, S!AllTask
  <2> QED
    BY <2>1, InitStepP
<1>4. PInv /\ [PNext]_pvars => [S!Next]_(S!vars)
  <2>1. PInv /\ [PNext]_pvars => [SP!Next]_(SP!vars)
    BY NextStep
  <2>2. [SP!Next]_(SP!vars) => [S!Next]_(S!vars)
    BY SameNext
  <2> QED
    BY <2>1, <2>2
<1> QED
  BY <1>1, <1>2, <1>3, <1>4, PTL DEF PSpec, ImplementsSched, S!Spec

(* If task_first_init makes the first task ready once only, the ready and  *)
(* the sleep list stay linked in both directions and share no node: no     *)
(* operation of task.c breaks what list.c relies on.                       *)
THEOREM ListsSafe ==
  ASSUME RestartFirst = FALSE
  PROVE  PSpec => []ListsWellFormed
<1>1. PInit => PInv
  BY PInvInit
<1>2. PInv /\ [PNext]_pvars => PInv'
  BY PInvNext
<1>3. PInv => ListsWellFormed
  <2> SUFFICES ASSUME PInv PROVE ListsWellFormed
    OBVIOUS
  <2>1. Contents(ready) = ready_list /\ Contents(sleep) = sleep_list
    BY DEF ready_list, sleep_list
  <2>2. ToSet(ready_list) \intersect ToSet(sleep_list) = {}
    BY PFacts DEF ToSet, SP!ToSet
  <2> QED
    BY <2>1, <2>2 DEF PInv, ListsWellFormed
<1> QED
  BY <1>1, <1>2, <1>3, PTL DEF PSpec
=============================================================================
