----------------------------- MODULE KlibProofs -----------------------------
(***************************************************************************)
(* The lists of list.c and the functions of klib.c and log.c do what their *)
(* callers take them to do, for every list, string, number and line of the *)
(* log: ListsHold, StringsExact, ItoaReadsBack and LogLine of module Klib. *)
(***************************************************************************)
EXTENDS Klib, WellFoundedInduction, TLAPS

\* Nodes whose pointers lead to nodes or nowhere.
Nodes == [Node -> LinkType]

(* RemoveAt drops position k and moves the later elements one to the left. *)
LEMMA RemoveAtFacts ==
  ASSUME NEW S, NEW s \in Seq(S), NEW k \in 1..Len(s)
  PROVE  /\ RemoveAt(s, k) \in Seq(S)
         /\ Len(RemoveAt(s, k)) = Len(s) - 1
         /\ \A j \in 1..(Len(s)-1) :
               RemoveAt(s, k)[j] = IF j < k THEN s[j] ELSE s[j+1]
<1> DEFINE a == SubSeq(s, 1, k-1)
           b == SubSeq(s, k+1, Len(s))
<1>1. a \in Seq(S) /\ Len(a) = k-1 /\ \A j \in 1..(k-1) : a[j] = s[j]
  OBVIOUS
<1>2. b \in Seq(S) /\ Len(b) = Len(s)-k
  OBVIOUS
<1>3. \A j \in 1..(Len(s)-k) : b[j] = s[k+j]
  OBVIOUS
<1> HIDE DEF a, b
<1>4. a \o b \in Seq(S) /\ Len(a \o b) = Len(s) - 1
  BY <1>1, <1>2
<1>5. \A j \in 1..(Len(s)-1) : (a \o b)[j] = IF j < k THEN s[j] ELSE s[j+1]
  BY <1>1, <1>2, <1>3
<1>6. RemoveAt(s, k) = a \o b
  BY DEF RemoveAt, a, b
<1> QED
  BY <1>4, <1>5, <1>6

(* In a sequence without duplicates RemoveFirst(s, e) drops the one        *)
(* position that holds e.                                                  *)
LEMMA RemoveFirstIndex ==
  ASSUME NEW S, NEW s \in Seq(S), IsInjective(s), NEW e \in ToSet(s)
  PROVE  \E k \in 1..Len(s) : s[k] = e /\ RemoveFirst(s, e) = RemoveAt(s, k)
<1>1. PICK k \in 1..Len(s) : s[k] = e
  BY DEF ToSet
<1>2. {i \in 1..Len(s) : s[i] = e} = {k}
  BY <1>1 DEF IsInjective
<1>3. Min({k}) = k
  BY DEF Min
<1>4. SelectInSeq(s, LAMBDA v : v = e) = k
  BY <1>2, <1>3 DEF SelectInSeq
<1> QED
  BY <1>1, <1>4 DEF RemoveFirst

(* Removing a node of a list without duplicates takes exactly that node    *)
(* off it.                                                                 *)
LEMMA RemoveFirstFacts ==
  ASSUME NEW S, NEW s \in Seq(S), IsInjective(s), NEW e \in ToSet(s)
  PROVE  /\ RemoveFirst(s, e) \in Seq(S)
         /\ IsInjective(RemoveFirst(s, e))
         /\ ToSet(RemoveFirst(s, e)) = ToSet(s) \ {e}
         /\ Len(RemoveFirst(s, e)) = Len(s) - 1
<1>1. PICK k \in 1..Len(s) : s[k] = e /\ RemoveFirst(s, e) = RemoveAt(s, k)
  BY RemoveFirstIndex
<1>2. PICK w : w = RemoveFirst(s, e)
  OBVIOUS
<1>3. /\ w \in Seq(S)
      /\ Len(w) = Len(s) - 1
      /\ \A j \in 1..(Len(s)-1) : w[j] = IF j < k THEN s[j] ELSE s[j+1]
  BY <1>1, <1>2, RemoveAtFacts
<1>4. DOMAIN w = 1..(Len(s)-1) /\ DOMAIN s = 1..Len(s) /\ Len(s) \in Nat
  BY <1>3
<1>5. ASSUME NEW i \in DOMAIN w
      PROVE  \E p \in DOMAIN s : /\ p = (IF i < k THEN i ELSE i+1)
                                 /\ s[p] = w[i]
  BY <1>1, <1>3, <1>4
<1>6. ASSUME NEW i \in DOMAIN w, NEW j \in DOMAIN w, w[i] = w[j] PROVE i = j
  <2>1. PICK p \in DOMAIN s : p = (IF i < k THEN i ELSE i+1) /\ s[p] = w[i]
    BY <1>5
  <2>2. PICK q \in DOMAIN s : q = (IF j < k THEN j ELSE j+1) /\ s[q] = w[j]
    BY <1>5
  <2>3. p = q
    BY <2>1, <2>2, <1>6 DEF IsInjective
  <2> QED
    BY <2>1, <2>2, <2>3, <1>1, <1>4
<1>7. ASSUME NEW i \in DOMAIN w PROVE w[i] \in ToSet(s) \ {e}
  <2>1. PICK p \in DOMAIN s : p = (IF i < k THEN i ELSE i+1) /\ s[p] = w[i]
    BY <1>5
  <2>2. p # k
    BY <2>1, <1>1, <1>4
  <2> QED
    BY <2>1, <2>2, <1>1, <1>4 DEF IsInjective, ToSet
<1>8. ASSUME NEW x \in ToSet(s) \ {e} PROVE x \in ToSet(w)
  <2>1. PICK i \in 1..Len(s) : s[i] = x /\ i # k
    BY <1>1 DEF ToSet
  <2>2. CASE i < k
    <3>1. w[i] = s[i] /\ i \in DOMAIN w
      BY <2>1, <2>2, <1>1, <1>3, <1>4
    <3> QED
      BY <3>1, <2>1 DEF ToSet
  <2>3. CASE i > k
    <3>1. w[i-1] = s[i] /\ i-1 \in DOMAIN w
      BY <2>1, <2>3, <1>1, <1>3, <1>4
    <3> QED
      BY <3>1, <2>1 DEF ToSet
  <2> QED
    BY <2>1, <2>2, <2>3, <1>1
<1>9. IsInjective(w)
  BY <1>6 DEF IsInjective
<1>10. ToSet(w) = ToSet(s) \ {e}
  BY <1>7, <1>8 DEF ToSet
<1> QED
  BY <1>2, <1>3, <1>9, <1>10

(* A list is not touched by what happens to the nodes of another one.      *)
LEMMA ListFrame ==
  ASSUME NEW S, NEW s \in Seq(S), NEW l, NEW k, NEW c, Represents(l, k, s),
         \A m \in ToSet(s) : c[m] = k[m]
  PROVE  Represents(l, c, s)
<1>1. \A i \in 1..Len(s) : s[i] \in ToSet(s)
  BY DEF ToSet
<1> QED
  BY <1>1 DEF Represents

(* list_insert_last puts a node that is not on the list at its end.        *)
LEMMA InsertLast ==
  ASSUME NEW s \in Seq(Node), NEW l, NEW k \in Nodes, Represents(l, k, s),
         NEW n \in Node, n \notin ToSet(s), NEW r, r = list_insert_last(l, k, n)
  PROVE  /\ r.node \in Nodes
         /\ Represents(r.list, r.node, Append(s, n))
         /\ \A m \in Node : m # n /\ m \notin ToSet(s) => r.node[m] = k[m]
<1>1. PICK c, w : c = r.node /\ w = Append(s, n)
  OBVIOUS
<1>2. /\ w \in Seq(Node) /\ Len(w) = Len(s) + 1 /\ Len(s) \in Nat
      /\ \A i \in 1..Len(s) : w[i] = s[i]
      /\ w[Len(s) + 1] = n /\ w # << >>
  BY <1>1
<1>3. \A i \in 1..Len(s) : s[i] \in ToSet(s) /\ s[i] \in Node /\ s[i] # n
  BY DEF ToSet
<1>4. /\ l.count = Len(s) /\ \A i, j \in 1..Len(s) : s[i] = s[j] => i = j
      /\ l.first = (IF s = << >> THEN NULL ELSE s[1])
      /\ l.last = (IF s = << >> THEN NULL ELSE s[Len(s)])
      /\ \A i \in 1..Len(s) : /\ k[s[i]].pre = (IF i = 1 THEN NULL ELSE s[i-1])
                              /\ k[s[i]].next = (IF i = Len(s) THEN NULL ELSE s[i+1])
  BY DEF Represents, IsInjective
<1>5. IsInjective(w)
  <2>1. \A i, j \in 1..(Len(s) + 1) : w[i] = w[j] => i = j
    <3> SUFFICES ASSUME NEW i \in 1..(Len(s) + 1), NEW j \in 1..(Len(s) + 1), w[i] = w[j]
                 PROVE  i = j
      OBVIOUS
    <3>1. \A q \in 1..(Len(s) + 1) : q \in 1..Len(s) \/ q = Len(s) + 1
      BY <1>2
    <3>2. CASE i \in 1..Len(s) /\ j \in 1..Len(s)
      BY <1>2, <1>4, <3>2
    <3>3. CASE i = Len(s) + 1 \/ j = Len(s) + 1
      BY <1>2, <1>3, <3>1, <3>3
    <3> QED
      BY <3>1, <3>2, <3>3
  <2> QED
    BY <1>2, <2>1 DEF IsInjective
<1>6. PICK b : b = [pre |-> l.last, next |-> NULL]
  OBVIOUS
<1>7. b \in LinkType /\ b.pre = l.last /\ b.next = NULL
  BY <1>3, <1>4, <1>6 DEF LinkType
<1>8. CASE s = << >>
  <2>1. /\ r.list.first = n /\ r.list.last = n /\ r.list.count = 1
        /\ c = [k EXCEPT ![n] = b]
    BY <1>1, <1>4, <1>6, <1>8 DEF list_insert_last, list_is_empty
  <2>2. c \in Nodes /\ c[n] = b /\ \A m \in Node : m # n => c[m] = k[m]
    BY <1>7, <2>1 DEF Nodes
  <2>3. Represents(r.list, c, w)
    BY <1>2, <1>4, <1>5, <1>7, <1>8, <2>1, <2>2 DEF Represents
  <2> QED
    BY <1>1, <2>2, <2>3
<1>9. CASE s # << >>
  <2>1. PICK z \in Node : z = l.last /\ z = s[Len(s)] /\ z # n /\ Len(s) \in 1..Len(s)
    BY <1>3, <1>4, <1>9
  <2>2. PICK d : d = [k EXCEPT ![n] = b]
    OBVIOUS
  <2>3. d \in Nodes /\ d[n] = b /\ \A m \in Node : m # n => d[m] = k[m]
    BY <1>7, <2>2 DEF Nodes
  <2>4. /\ r.list.first = l.first /\ r.list.last = n /\ r.list.count = Len(s) + 1
        /\ c = [d EXCEPT ![z].next = n]
    BY <1>1, <1>4, <1>6, <1>9, <2>1, <2>2 DEF list_insert_last, list_is_empty
  <2>5. /\ c \in Nodes /\ \A m \in Node : m # z => c[m] = d[m]
        /\ c[z].next = n /\ c[z].pre = d[z].pre
    BY <2>3, <2>4 DEF Nodes, LinkType
  <2>6. /\ c[n].pre = s[Len(s)] /\ c[n].next = NULL
        /\ \A m \in Node : m # n /\ m # z => c[m] = k[m]
        /\ c[z].pre = k[z].pre
    BY <1>7, <2>1, <2>3, <2>5
  <2>7. ASSUME NEW i \in 1..Len(w)
        PROVE  /\ c[w[i]].pre = (IF i = 1 THEN NULL ELSE w[i-1])
               /\ c[w[i]].next = (IF i = Len(w) THEN NULL ELSE w[i+1])
    <3>1. CASE i = Len(w)
      BY <1>2, <2>1, <2>6, <3>1
    <3>2. CASE i = Len(s)
      <4>1. w[i] = z /\ i # Len(w) /\ w[i+1] = n /\ i \in 1..Len(s) /\ s[i] = z
        BY <1>2, <2>1, <3>2
      <4>2. i # 1 => w[i-1] = s[i-1]
        <5>1. i # 1 => i - 1 \in 1..Len(s)
          BY <1>2, <3>2
        <5> QED
          BY <1>2, <5>1
      <4>3. c[z].pre = (IF i = 1 THEN NULL ELSE s[i-1])
        BY <1>4, <2>6, <4>1
      <4>4. c[z].next = n
        BY <2>5
      <4> QED
        BY <4>1, <4>2, <4>3, <4>4
    <3>3. CASE i \in 1..(Len(s) - 1)
      <4>1. s[i] # z /\ s[i] # n /\ s[i] \in Node
        BY <1>3, <1>4, <2>1, <3>3
      <4>2. c[w[i]] = k[s[i]] /\ i \in 1..Len(s) /\ i # Len(s) /\ i # Len(w)
        BY <1>2, <2>6, <3>3, <4>1
      <4>3. i # 1 => i - 1 \in 1..Len(s)
        BY <1>2, <3>3
      <4>4. i + 1 \in 1..Len(s)
        BY <1>2, <3>3
      <4>5. (i # 1 => w[i-1] = s[i-1]) /\ w[i+1] = s[i+1]
        BY <1>2, <4>3, <4>4
      <4> QED
        BY <1>4, <4>2, <4>5
    <3> QED
      BY <1>2, <3>1, <3>2, <3>3
  <2>8. Represents(r.list, c, w)
    BY <1>2, <1>4, <1>5, <1>9, <2>1, <2>4, <2>7 DEF Represents
  <2>9. z \in ToSet(s)
    BY <1>3, <2>1
  <2> QED
    BY <1>1, <2>5, <2>6, <2>8, <2>9
<1> QED
  BY <1>8, <1>9

(* list_remove takes a node that is on the list off it.                    *)
LEMMA RemoveNode ==
  ASSUME NEW s \in Seq(Node), NEW l, NEW k \in Nodes, Represents(l, k, s),
         NEW n \in ToSet(s), NEW r, r = list_remove(l, k, n)
  PROVE  /\ r.node \in Nodes
         /\ Represents(r.list, r.node, RemoveFirst(s, n))
         /\ \A m \in Node : m \notin ToSet(s) => r.node[m] = k[m]
<1>1. PICK c, w : c = r.node /\ w = RemoveFirst(s, n)
  OBVIOUS
<1>2. PICK i \in 1..Len(s) : s[i] = n /\ w = RemoveAt(s, i)
  BY <1>1, RemoveFirstIndex DEF Represents, IsInjective
<1>3. /\ w \in Seq(Node) /\ Len(w) = Len(s) - 1
      /\ \A j \in 1..(Len(s) - 1) : w[j] = IF j < i THEN s[j] ELSE s[j+1]
  BY <1>2, RemoveAtFacts
<1>4. /\ l.count = Len(s) /\ \A p, q \in 1..Len(s) : s[p] = s[q] => p = q
      /\ l.first = (IF s = << >> THEN NULL ELSE s[1])
      /\ l.last = (IF s = << >> THEN NULL ELSE s[Len(s)])
      /\ \A q \in 1..Len(s) : /\ k[s[q]].pre = (IF q = 1 THEN NULL ELSE s[q-1])
                              /\ k[s[q]].next = (IF q = Len(s) THEN NULL ELSE s[q+1])
      /\ Len(s) \in Nat \ {0} /\ s # << >>
  BY <1>2 DEF Represents, IsInjective
<1>5. \A q \in 1..Len(s) : s[q] \in ToSet(s) /\ s[q] \in Node
  BY DEF ToSet
<1>6. PICK p, x : p = k[n].pre /\ x = k[n].next
  OBVIOUS
<1>7. /\ p = (IF i = 1 THEN NULL ELSE s[i-1]) /\ x = (IF i = Len(s) THEN NULL ELSE s[i+1])
  BY <1>2, <1>4, <1>6
<1>8. /\ p \in ToSet(s) \union {NULL} /\ x \in ToSet(s) \union {NULL} /\ p # n /\ x # n
      /\ n \in Node
  <2>1. i # 1 => i - 1 \in 1..Len(s) /\ s[i-1] # s[i]
    BY <1>4
  <2>2. i # Len(s) => i + 1 \in 1..Len(s) /\ s[i+1] # s[i]
    BY <1>4
  <2> QED
    BY <1>2, <1>5, <1>7, <2>1, <2>2, NodeAssumption
<1>9. ToSet(s) \subseteq Node
  BY DEF ToSet
<1>10. PICK d : d = IF p = NULL THEN k ELSE [k EXCEPT ![p].next = x]
  OBVIOUS
<1>11. /\ d \in Nodes /\ d[n] = k[n]
       /\ \A m \in Node : /\ d[m].pre = k[m].pre
                          /\ d[m].next = IF m = p THEN x ELSE k[m].next
                          /\ m # p => d[m] = k[m]
  <2>1. CASE p = NULL
    BY <1>8, <1>10, <2>1, NodeAssumption
  <2>2. CASE p # NULL
    BY <1>8, <1>9, <1>10, <2>2 DEF Nodes, LinkType
  <2> QED
    BY <2>1, <2>2
<1>12. PICK e : e = IF x = NULL THEN d ELSE [d EXCEPT ![x].pre = p]
  OBVIOUS
<1>13. /\ e \in Nodes
       /\ \A m \in Node : /\ e[m].next = d[m].next
                          /\ e[m].pre = IF m = x THEN p ELSE d[m].pre
                          /\ m # x => e[m] = d[m]
  <2>1. CASE x = NULL
    BY <1>11, <1>12, <2>1, NodeAssumption
  <2>2. CASE x # NULL
    <3>1. x \in Node /\ p \in Node \union {NULL} /\ d \in Nodes
      BY <1>8, <1>9, <1>11, <2>2
    <3>2. e = [d EXCEPT ![x].pre = p]
      BY <1>12, <2>2
    <3> QED
      BY <3>1, <3>2 DEF Nodes, LinkType
  <2> QED
    BY <2>1, <2>2
<1>14. /\ r.list.first = IF n = l.first THEN x ELSE l.first
       /\ r.list.last = IF n = l.last THEN p ELSE l.last
       /\ r.list.count = l.count - 1
       /\ c = [e EXCEPT ![n] = list_node_init]
  <2>1. k[n].pre = p /\ k[n].next = x /\ d[n].pre = p /\ d[n].next = x
    BY <1>6, <1>11
  <2> DEFINE K1    == IF k[n].pre = NULL THEN k
                      ELSE [k EXCEPT ![k[n].pre].next = k[n].next]
             K2(f) == IF f[n].next = NULL THEN f
                      ELSE [f EXCEPT ![f[n].next].pre = f[n].pre]
             G(f)  == [list |-> [first |-> IF n = l.first THEN k[n].next ELSE l.first,
                                 last  |-> IF n = l.last THEN k[n].pre ELSE l.last,
                                 count |-> l.count - 1],
                       node |-> [f EXCEPT ![n] = list_node_init]]
  <2>2. r = G(K2(K1))
    BY Zenon DEF list_remove
  <2>3. d = K1
    BY <1>10, <2>1, Zenon
  <2>4. e = K2(d)
    BY <1>12, <2>1, Zenon
  <2>5. r = G(e)
    <3> HIDE DEF K1, K2, G
    <3> QED
      BY <2>2, <2>3, <2>4
  <2> QED
    BY <1>1, <2>1, <2>5
<1>15. c \in Nodes /\ \A m \in Node : m # n => c[m] = e[m]
  <2>1. list_node_init \in LinkType
    BY DEF list_node_init, LinkType
  <2> QED
    BY <1>8, <1>13, <1>14, <2>1 DEF Nodes
<1>16. \A m \in Node : m # n =>
          /\ c[m].next = IF m = p THEN x ELSE k[m].next
          /\ c[m].pre = IF m = x THEN p ELSE k[m].pre
  BY <1>11, <1>13, <1>15
<1>17. \A m \in Node : m \notin ToSet(s) => c[m] = k[m]
  BY <1>8, <1>11, <1>13, <1>15, NodeAssumption
<1>18. ASSUME NEW q \in 1..Len(s), q # i
       PROVE  /\ c[s[q]].next = (IF q + 1 = i THEN x ELSE IF q = Len(s) THEN NULL ELSE s[q+1])
              /\ c[s[q]].pre = (IF q = i + 1 THEN p ELSE IF q = 1 THEN NULL ELSE s[q-1])
  <2>1. s[q] \in Node /\ s[q] # n
    BY <1>2, <1>4, <1>5, <1>18
  <2>2. s[q] = p <=> q + 1 = i
    <3>1. i # 1 => i - 1 \in 1..Len(s) /\ (s[q] = s[i-1] => q = i - 1)
      BY <1>4
    <3> QED
      BY <1>7, <2>1, <3>1, NodeAssumption
  <2>3. s[q] = x <=> q = i + 1
    <3>1. i # Len(s) => i + 1 \in 1..Len(s) /\ (s[q] = s[i+1] => q = i + 1)
      BY <1>4
    <3> QED
      BY <1>4, <1>7, <2>1, <3>1, NodeAssumption
  <2> QED
    BY <1>4, <1>16, <2>1, <2>2, <2>3
<1>19. ASSUME NEW j \in 1..Len(w)
       PROVE  /\ c[w[j]].pre = (IF j = 1 THEN NULL ELSE w[j-1])
              /\ c[w[j]].next = (IF j = Len(w) THEN NULL ELSE w[j+1])
  <2>1. CASE j < i
    <3>1. j \in 1..Len(s) /\ j # i /\ j # i + 1 /\ j # Len(s) /\ w[j] = s[j]
      BY <1>3, <1>4, <2>1
    <3>2. j # 1 => w[j-1] = s[j-1]
      BY <1>3, <1>4, <2>1
    <3>3. CASE j + 1 = i
      <4>1. j = Len(w) <=> i = Len(s)
        BY <1>3, <1>4, <3>3
      <4>2. i # Len(s) => w[j+1] = s[i+1]
        BY <1>3, <1>4, <3>3
      <4>3. x = (IF j = Len(w) THEN NULL ELSE w[j+1])
        BY <1>7, <4>1, <4>2
      <4> QED
        BY <1>18, <3>1, <3>2, <3>3, <4>3
    <3>4. CASE j + 1 # i
      <4>1. j # Len(w) /\ j + 1 < i /\ j + 1 \in 1..(Len(s) - 1)
        BY <1>3, <1>4, <2>1, <3>4
      <4>2. w[j+1] = s[j+1]
        BY <1>3, <4>1
      <4> QED
        BY <1>18, <3>1, <3>2, <3>4, <4>1, <4>2
    <3> QED
      BY <3>3, <3>4
  <2>2. CASE j >= i
    <3>1. PICK q \in 1..Len(s) : q = j + 1
      BY <1>3, <1>4
    <3>2. q # i /\ q + 1 # i /\ w[j] = s[q] /\ q # 1 /\ (q = Len(s) <=> j = Len(w))
      BY <1>3, <1>4, <2>2, <3>1
    <3>3. j # Len(w) => w[j+1] = s[q+1]
      BY <1>3, <1>4, <2>2, <3>1
    <3>4. CASE j = i
      <4>1. q = i + 1
        BY <3>1, <3>4
      <4>2. j # 1 => w[j-1] = s[i-1]
        BY <1>3, <1>4, <3>4
      <4>3. p = (IF j = 1 THEN NULL ELSE w[j-1])
        BY <1>7, <3>4, <4>2
      <4> QED
        BY <1>18, <3>2, <3>3, <4>1, <4>3
    <3>5. CASE j # i
      <4>1. q # i + 1 /\ j # 1 /\ w[j-1] = s[q-1]
        BY <1>3, <1>4, <2>2, <3>1, <3>5
      <4> QED
        BY <1>18, <3>2, <3>3, <4>1
    <3> QED
      BY <3>4, <3>5
  <2> QED
    BY <1>4, <2>1, <2>2
<1>20. IsInjective(w)
  BY <1>1, RemoveFirstFacts DEF Represents
<1>21. r.list.first = (IF w = << >> THEN NULL ELSE w[1])
  <2>1. n = l.first <=> i = 1
    BY <1>2, <1>4
  <2>2. w = << >> <=> Len(s) = 1
    BY <1>3, <1>4
  <2>3. Len(s) # 1 => w[1] = IF 1 < i THEN s[1] ELSE s[2]
    BY <1>3, <1>4
  <2>4. CASE i = 1
    BY <1>7, <1>14, <2>1, <2>2, <2>3, <2>4
  <2>5. CASE i # 1
    <3>1. 1 < i /\ Len(s) # 1
      BY <1>4, <2>5
    <3> QED
      BY <1>4, <1>14, <2>1, <2>2, <2>3, <2>5, <3>1
  <2> QED
    BY <2>4, <2>5
<1>22. r.list.last = (IF w = << >> THEN NULL ELSE w[Len(w)])
  <2>1. n = l.last <=> i = Len(s)
    BY <1>2, <1>4
  <2>2. w = << >> <=> Len(s) = 1
    BY <1>3, <1>4
  <2>3. Len(s) # 1 => w[Len(w)] = IF i = Len(s) THEN s[i-1] ELSE s[Len(s)]
    BY <1>3, <1>4
  <2>4. CASE i = Len(s)
    BY <1>4, <1>7, <1>14, <2>1, <2>2, <2>3, <2>4
  <2>5. CASE i # Len(s)
    <3>1. Len(s) # 1
      BY <1>4, <2>5
    <3> QED
      BY <1>4, <1>14, <2>1, <2>2, <2>3, <2>5, <3>1
  <2> QED
    BY <2>4, <2>5
<1>23. Represents(r.list, c, w)
  BY <1>3, <1>4, <1>14, <1>19, <1>20, <1>21, <1>22 DEF Represents
<1> QED
  BY <1>1, <1>15, <1>17, <1>23

(* list_insert_first puts a node that is not on the list in front of it.   *)
LEMMA InsertFirst ==
  ASSUME NEW s \in Seq(Node), NEW l, NEW k \in Nodes, Represents(l, k, s),
         NEW n \in Node, n \notin ToSet(s), NEW r, r = list_insert_first(l, k, n)
  PROVE  /\ Represents(r.list, r.node, <<n>> \o s)
         /\ \A m \in Node : m # n /\ m \notin ToSet(s) => r.node[m] = k[m]
<1>1. PICK c, w : c = r.node /\ w = <<n>> \o s
  OBVIOUS
<1>2. /\ w \in Seq(Node) /\ Len(w) = Len(s) + 1 /\ Len(s) \in Nat
      /\ \A i \in 1..Len(s) : w[i + 1] = s[i]
      /\ w[1] = n /\ w # << >>
  BY <1>1
<1>3. \A i \in 1..Len(s) : s[i] \in ToSet(s) /\ s[i] \in Node /\ s[i] # n
  BY DEF ToSet
<1>4. /\ l.count = Len(s) /\ \A i, j \in 1..Len(s) : s[i] = s[j] => i = j
      /\ l.first = (IF s = << >> THEN NULL ELSE s[1])
      /\ l.last = (IF s = << >> THEN NULL ELSE s[Len(s)])
      /\ \A i \in 1..Len(s) : /\ k[s[i]].pre = (IF i = 1 THEN NULL ELSE s[i-1])
                              /\ k[s[i]].next = (IF i = Len(s) THEN NULL ELSE s[i+1])
  BY DEF Represents, IsInjective
<1>5. \A q \in 1..Len(w) : q = 1 \/ \E i \in 1..Len(s) : q = i + 1 /\ w[q] = s[i]
  <2> SUFFICES ASSUME NEW q \in 1..Len(w), q # 1
               PROVE  \E i \in 1..Len(s) : q = i + 1 /\ w[q] = s[i]
    OBVIOUS
  <2>1. PICK i \in 1..Len(s) : q = i + 1
    BY <1>2
  <2> QED
    BY <1>2, <2>1
<1>6. IsInjective(w)
  <2> SUFFICES ASSUME NEW a \in 1..Len(w), NEW b \in 1..Len(w), w[a] = w[b] PROVE a = b
    BY <1>2 DEF IsInjective
  <2>1. CASE a = 1 \/ b = 1
    BY <1>2, <1>3, <1>5, <2>1
  <2>2. CASE a # 1 /\ b # 1
    <3>1. PICK i \in 1..Len(s) : a = i + 1 /\ w[a] = s[i]
      BY <1>5, <2>2
    <3>2. PICK j \in 1..Len(s) : b = j + 1 /\ w[b] = s[j]
      BY <1>5, <2>2
    <3>3. i = j
      BY <1>4, <3>1, <3>2
    <3> QED
      BY <3>1, <3>2, <3>3
  <2> QED
    BY <2>1, <2>2
<1>7. PICK b : b = [pre |-> NULL, next |-> l.first]
  OBVIOUS
<1>8. b \in LinkType /\ b.pre = NULL /\ b.next = l.first
  BY <1>3, <1>4, <1>7 DEF LinkType
<1>9. PICK d : d = [k EXCEPT ![n] = b]
  OBVIOUS
<1>10. d \in Nodes /\ d[n] = b /\ \A m \in Node : m # n => d[m] = k[m]
  BY <1>8, <1>9 DEF Nodes
<1>11. CASE s = << >>
  <2>1. r.list.first = n /\ r.list.last = n /\ r.list.count = 1 /\ c = d
    BY <1>1, <1>4, <1>7, <1>9, <1>11 DEF list_insert_first, list_is_empty
  <2>2. Represents(r.list, c, w)
    BY <1>2, <1>4, <1>6, <1>8, <1>10, <1>11, <2>1 DEF Represents
  <2> QED
    BY <1>1, <1>10, <2>1, <2>2
<1>12. CASE s # << >>
  <2>1. PICK z \in Node : z = l.first /\ z = s[1] /\ z # n /\ 1 \in 1..Len(s)
    BY <1>3, <1>4, <1>12
  <2>2. /\ r.list.first = n /\ r.list.last = l.last /\ r.list.count = Len(s) + 1
        /\ c = [d EXCEPT ![z].pre = n]
    BY <1>1, <1>4, <1>7, <1>9, <1>12, <2>1 DEF list_insert_first, list_is_empty
  <2>3. /\ c \in Nodes /\ \A m \in Node : m # z => c[m] = d[m]
        /\ c[z].pre = n /\ c[z].next = d[z].next
    BY <1>10, <2>2 DEF Nodes, LinkType
  <2>4. /\ c[n].pre = NULL /\ c[n].next = s[1]
        /\ \A m \in Node : m # n /\ m # z => c[m] = k[m]
        /\ c[z].next = k[z].next
    BY <1>8, <1>10, <2>1, <2>3
  <2>5. ASSUME NEW q \in 1..Len(w)
        PROVE  /\ c[w[q]].pre = (IF q = 1 THEN NULL ELSE w[q-1])
               /\ c[w[q]].next = (IF q = Len(w) THEN NULL ELSE w[q+1])
    <3>1. CASE q = 1
      <4>1. q # Len(w) /\ w[q+1] = s[1]
        BY <1>2, <2>1, <3>1
      <4> QED
        BY <1>2, <2>4, <3>1, <4>1
    <3>2. CASE q # 1
      <4>1. PICK i \in 1..Len(s) : q = i + 1 /\ w[q] = s[i]
        BY <1>5, <3>2
      <4>2. (q = Len(w) <=> i = Len(s)) /\ q - 1 = i
        BY <1>2, <4>1
      <4>3. i # Len(s) => w[q+1] = s[i+1]
        BY <1>2, <4>1
      <4>4. s[i] \in Node /\ s[i] # n /\ (s[i] = z <=> i = 1)
        BY <1>3, <1>4, <2>1
      <4>5. c[s[i]].next = k[s[i]].next
        BY <2>4, <4>4
      <4>6. c[s[i]].pre = IF i = 1 THEN n ELSE k[s[i]].pre
        BY <2>3, <2>4, <4>4
      <4>7. w[i] = IF i = 1 THEN n ELSE s[i-1]
        <5>1. i # 1 => i - 1 \in 1..Len(s) /\ (i - 1) + 1 = i
          BY <1>2
        <5> QED
          BY <1>2, <5>1
      <4> QED
        BY <1>4, <3>2, <4>1, <4>2, <4>3, <4>5, <4>6, <4>7
    <3> QED
      BY <3>1, <3>2
  <2>6. Represents(r.list, c, w)
    <3>1. w[Len(w)] = s[Len(s)]
      BY <1>2, <2>1
    <3> QED
      BY <1>2, <1>4, <1>6, <1>12, <2>2, <2>5, <3>1 DEF Represents
  <2>7. z \in ToSet(s)
    BY <1>3, <2>1
  <2> QED
    BY <1>1, <2>4, <2>6, <2>7
<1> QED
  BY <1>11, <1>12

(* list_remove_first is list_remove of the first node.                     *)
LEMMA RemoveFirstIs ==
  ASSUME NEW s \in Seq(Node), s # << >>, NEW l, NEW k \in Nodes, Represents(l, k, s)
  PROVE  list_remove_first(l, k) = list_remove(l, k, s[1])
<1>1. PICK n \in Node : n = s[1] /\ n = l.first /\ k[n].pre = NULL
  BY DEF Represents
<1>2. PICK x : x = k[n].next
  OBVIOUS
<1>3. x = NULL <=> n = l.last
  <2>1. PICK len \in Nat \ {0} : len = Len(s)
    OBVIOUS
  <2>2. /\ \A a, b \in 1..len : s[a] = s[b] => a = b
        /\ \A i \in 1..len : k[s[i]].next = (IF i = len THEN NULL ELSE s[i+1]) /\ s[i] \in Node
        /\ l.last = s[len]
    <3>1. /\ \A i, j \in 1..Len(s) : s[i] = s[j] => i = j
          /\ l.last = (IF s = << >> THEN NULL ELSE s[Len(s)])
          /\ \A i \in 1..Len(s) : k[s[i]].next = (IF i = Len(s) THEN NULL ELSE s[i+1])
      BY DEF Represents, IsInjective
    <3>2. \A i \in 1..Len(s) : s[i] \in Node
      OBVIOUS
    <3> QED
      BY <2>1, <3>1, <3>2
  <2>3. 1 \in 1..len /\ len \in 1..len /\ (len # 1 => 1 + 1 \in 1..len)
    OBVIOUS
  <2>4. CASE len = 1
    BY <1>1, <1>2, <2>2, <2>3, <2>4
  <2>5. CASE len # 1
    <3>1. x = s[1+1] /\ s[1+1] \in Node
      BY <1>1, <1>2, <2>2, <2>3, <2>5
    <3>2. s[1] # s[len]
      BY <2>2, <2>3, <2>5
    <3> QED
      BY <1>1, <2>2, <3>1, <3>2, NodeAssumption
  <2> QED
    BY <2>4, <2>5
<1>4. PICK d : d = IF x = NULL THEN k ELSE [k EXCEPT ![x].pre = NULL]
  OBVIOUS
<1>5. list_remove_first(l, k)
        = [list |-> [first |-> x, last |-> IF x = NULL THEN NULL ELSE l.last,
                     count |-> l.count - 1],
           node |-> [d EXCEPT ![n] = list_node_init]]
  BY <1>1, <1>2, <1>4, Zenon DEF list_remove_first
<1>6. list_remove(l, k, n)
        = [list |-> [first |-> IF n = l.first THEN x ELSE l.first,
                     last  |-> IF n = l.last THEN NULL ELSE l.last,
                     count |-> l.count - 1],
           node |-> [d EXCEPT ![n] = list_node_init]]
  BY <1>1, <1>2, <1>4, Zenon DEF list_remove
<1>7. (IF n = l.first THEN x ELSE l.first) = x
      /\ (IF n = l.last THEN NULL ELSE l.last) = (IF x = NULL THEN NULL ELSE l.last)
  BY <1>1, <1>3
<1> QED
  BY <1>1, <1>5, <1>6, <1>7

-----------------------------------------------------------------------------
(* The lists that the calls begin with hold what they are said to hold.    *)
At(q, j) == IF j \in DOMAIN q THEN q[j] ELSE NULL
Link(q, n) == LET j == CHOOSE x \in DOMAIN q : q[x] = n
              IN  [pre |-> At(q, j - 1), next |-> At(q, j + 1)]

LEMMA LinkIs ==
  ASSUME NEW q \in Seq(Node), IsInjective(q), NEW j \in 1..Len(q)
  PROVE  /\ Link(q, q[j]) \in LinkType
         /\ Link(q, q[j]).pre = (IF j = 1 THEN NULL ELSE q[j-1])
         /\ Link(q, q[j]).next = (IF j = Len(q) THEN NULL ELSE q[j+1])
<1>1. PICK len \in Nat : len = Len(q) /\ DOMAIN q = 1..len /\ \A i \in 1..len : q[i] \in Node
  OBVIOUS
<1>2. j \in 1..len
  BY <1>1
<1>3. (CHOOSE x \in DOMAIN q : q[x] = q[j]) = j
  BY <1>1, <1>2 DEF IsInjective
<1>4. Link(q, q[j]) = [pre |-> At(q, j - 1), next |-> At(q, j + 1)]
  BY <1>3, Zenon DEF Link
<1>5. At(q, j - 1) = (IF j = 1 THEN NULL ELSE q[j-1])
  <2>1. j # 1 <=> j - 1 \in 1..len
    BY <1>2
  <2> QED
    BY <1>1, <2>1 DEF At
<1>6. At(q, j + 1) = (IF j = len THEN NULL ELSE q[j+1])
  <2>1. j # len <=> j + 1 \in 1..len
    BY <1>2
  <2> QED
    BY <1>1, <2>1 DEF At
<1>7. At(q, j - 1) \in Node \union {NULL} /\ At(q, j + 1) \in Node \union {NULL}
  BY <1>1 DEF At
<1> QED
  BY <1>1, <1>4, <1>5, <1>6, <1>7 DEF LinkType

LEMMA ListOfIs ==
  ASSUME NEW q \in Seq(Node), IsInjective(q), NEW k,
         \A j \in 1..Len(q) : k[q[j]] = Link(q, q[j])
  PROVE  Represents(ListOf(q), k, q)
<1>1. q # << >> => Head(q) = q[1] /\ Last(q) = q[Len(q)]
  BY DEF Last
<1>2. PICK l : l = ListOf(q)
  OBVIOUS
<1>3. /\ l.count = Len(q) /\ l.first = (IF q = << >> THEN NULL ELSE q[1])
      /\ l.last = (IF q = << >> THEN NULL ELSE q[Len(q)])
  BY <1>1, <1>2 DEF ListOf
<1>4. \A j \in 1..Len(q) : /\ k[q[j]].pre = (IF j = 1 THEN NULL ELSE q[j-1])
                           /\ k[q[j]].next = (IF j = Len(q) THEN NULL ELSE q[j+1])
  BY LinkIs
<1> QED
  BY <1>2, <1>3, <1>4 DEF Represents

LEMMA ListsStart ==
  ASSUME NEW s \in Seq(Node), NEW t \in Seq(Node), IsInjective(s), IsInjective(t),
         ToSet(s) \intersect ToSet(t) = {}, NEW k, k = NodesOf(s, t)
  PROVE  /\ k \in Nodes
         /\ Represents(ListOf(s), k, s) /\ Represents(ListOf(t), k, t)
<1>1. k = [n \in Node |-> IF n \in ToSet(s) THEN Link(s, n)
                          ELSE IF n \in ToSet(t) THEN Link(t, n) ELSE list_node_init]
  BY Zenon DEF NodesOf, Link, At
<1>2. ASSUME NEW q \in Seq(Node)
      PROVE  /\ \A j \in 1..Len(q) : q[j] \in ToSet(q) /\ q[j] \in Node
             /\ \A n \in ToSet(q) : \E j \in 1..Len(q) : n = q[j]
  BY DEF ToSet
<1>3. ASSUME NEW n \in Node PROVE k[n] \in LinkType
  <2>1. CASE n \in ToSet(s)
    BY <1>1, <1>2, <2>1, LinkIs
  <2>2. CASE n \notin ToSet(s) /\ n \in ToSet(t)
    BY <1>1, <1>2, <2>2, LinkIs
  <2>3. CASE n \notin ToSet(s) /\ n \notin ToSet(t)
    <3>1. list_node_init \in LinkType
      BY DEF list_node_init, LinkType
    <3> QED
      BY <1>1, <2>3, <3>1
  <2> QED
    BY <2>1, <2>2, <2>3
<1>4. k \in Nodes
  BY <1>1, <1>3 DEF Nodes
<1>5. \A j \in 1..Len(s) : k[s[j]] = Link(s, s[j])
  BY <1>1, <1>2
<1>6. \A j \in 1..Len(t) : k[t[j]] = Link(t, t[j])
  BY <1>1, <1>2
<1> QED
  BY <1>4, <1>5, <1>6, ListOfIs

(* A sequence without duplicates, cut in two.                              *)
LEMMA Cut ==
  ASSUME NEW d, NEW order \in [1..d -> Node], d \in Nat, IsInjective(order),
         NEW cut \in 0..Len(order), NEW s, NEW t,
         s = Prefix(order, cut), t = SubSeq(order, cut + 1, Len(order))
  PROVE  /\ s \in Seq(Node) /\ t \in Seq(Node) /\ IsInjective(s) /\ IsInjective(t)
         /\ ToSet(s) \intersect ToSet(t) = {}
         /\ ToSet(s) \union ToSet(t) \subseteq ToSet(order)
<1>1. order \in Seq(Node) /\ Len(order) = d
  OBVIOUS
<1>2. /\ s \in Seq(Node) /\ Len(s) = cut /\ \A j \in 1..cut : s[j] = order[j]
  BY <1>1 DEF Prefix
<1>3. /\ t \in Seq(Node) /\ Len(t) = d - cut /\ \A j \in 1..(d - cut) : t[j] = order[cut + j]
  BY <1>1
<1>4. \A a, b \in 1..d : order[a] = order[b] => a = b
  BY <1>1 DEF IsInjective
<1>5. DOMAIN s = 1..cut /\ DOMAIN t = 1..(d - cut) /\ DOMAIN order = 1..d
  BY <1>1, <1>2, <1>3
<1>6. /\ \A j \in 1..cut : j \in 1..d
      /\ \A j \in 1..(d - cut) : cut + j \in 1..d
      /\ \A a \in 1..cut, b \in 1..(d - cut) : a # cut + b
      /\ \A a, b \in 1..(d - cut) : cut + a = cut + b => a = b
  BY <1>1
<1>7. IsInjective(s)
  BY <1>2, <1>4, <1>5, <1>6 DEF IsInjective
<1>8. IsInjective(t)
  <2> SUFFICES ASSUME NEW a \in 1..(d - cut), NEW b \in 1..(d - cut), t[a] = t[b] PROVE a = b
    BY <1>5 DEF IsInjective
  <2>1. order[cut + a] = order[cut + b]
    BY <1>3
  <2>2. cut + a = cut + b
    BY <1>4, <1>6, <2>1
  <2> QED
    BY <1>6, <2>2
<1>9. ToSet(s) \intersect ToSet(t) = {}
  <2> SUFFICES ASSUME NEW a \in 1..cut, NEW b \in 1..(d - cut), s[a] = t[b] PROVE FALSE
    BY <1>5 DEF ToSet
  <2> QED
    BY <1>2, <1>3, <1>4, <1>6
<1>10. ToSet(s) \union ToSet(t) \subseteq ToSet(order)
  BY <1>2, <1>3, <1>5, <1>6 DEF ToSet
<1> QED
  BY <1>2, <1>3, <1>7, <1>8, <1>9, <1>10

\* What an operation on the list of s makes of it, beside the list of t.
Makes(r, s, t, w) == Represents(r.list, r.node, w) /\ Represents(ListOf(t), r.node, t)

(* The four operations of list.c, on lists that a call begins with.        *)
LEMMA OperationsMake ==
  ASSUME NEW s \in Seq(Node), NEW t \in Seq(Node), IsInjective(s), IsInjective(t),
         ToSet(s) \intersect ToSet(t) = {}, NEW k, k = NodesOf(s, t)
  PROVE  /\ \A n \in Node : n \notin ToSet(s) /\ n \notin ToSet(t) =>
               /\ Makes(list_insert_first(ListOf(s), k, n), s, t, <<n>> \o s)
               /\ Makes(list_insert_last(ListOf(s), k, n), s, t, Append(s, n))
         /\ \A n \in ToSet(s) : Makes(list_remove(ListOf(s), k, n), s, t, RemoveFirst(s, n))
         /\ s # << >> => Makes(list_remove_first(ListOf(s), k), s, t, RemoveFirst(s, Head(s)))
<1>1. PICK l : l = ListOf(s)
  OBVIOUS
<1>2. k \in Nodes /\ Represents(l, k, s) /\ Represents(ListOf(t), k, t)
  BY <1>1, ListsStart
<1>3. ToSet(s) \subseteq Node /\ ToSet(t) \subseteq Node
  BY DEF ToSet
<1>4. ASSUME NEW n \in Node, n \notin ToSet(s), n \notin ToSet(t)
      PROVE  /\ Makes(list_insert_first(l, k, n), s, t, <<n>> \o s)
             /\ Makes(list_insert_last(l, k, n), s, t, Append(s, n))
  <2>1. PICK r : r = list_insert_first(l, k, n)
    OBVIOUS
  <2>2. /\ Represents(r.list, r.node, <<n>> \o s)
        /\ \A m \in Node : m # n /\ m \notin ToSet(s) => r.node[m] = k[m]
    BY <1>2, <1>4, <2>1, InsertFirst
  <2>3. \A m \in ToSet(t) : r.node[m] = k[m]
    BY <1>3, <1>4, <2>2
  <2>4. Represents(ListOf(t), r.node, t)
    BY <1>2, <2>3, ListFrame
  <2>5. PICK q : q = list_insert_last(l, k, n)
    OBVIOUS
  <2>6. /\ Represents(q.list, q.node, Append(s, n))
        /\ \A m \in Node : m # n /\ m \notin ToSet(s) => q.node[m] = k[m]
    BY <1>2, <1>4, <2>5, InsertLast
  <2>7. \A m \in ToSet(t) : q.node[m] = k[m]
    BY <1>3, <1>4, <2>6
  <2>8. Represents(ListOf(t), q.node, t)
    BY <1>2, <2>7, ListFrame
  <2> QED
    BY <2>1, <2>2, <2>4, <2>5, <2>6, <2>8 DEF Makes
<1>5. ASSUME NEW n \in ToSet(s)
      PROVE  Makes(list_remove(l, k, n), s, t, RemoveFirst(s, n))
  <2>1. PICK r : r = list_remove(l, k, n)
    OBVIOUS
  <2>2. /\ Represents(r.list, r.node, RemoveFirst(s, n))
        /\ \A m \in Node : m \notin ToSet(s) => r.node[m] = k[m]
    BY <1>2, <2>1, RemoveNode
  <2>3. \A m \in ToSet(t) : r.node[m] = k[m]
    BY <1>3, <2>2
  <2>4. Represents(ListOf(t), r.node, t)
    BY <1>2, <2>3, ListFrame
  <2> QED
    BY <2>1, <2>2, <2>4 DEF Makes
<1>6. ASSUME s # << >>
      PROVE  Makes(list_remove_first(l, k), s, t, RemoveFirst(s, Head(s)))
  <2>1. s[1] \in ToSet(s) /\ Head(s) = s[1]
    BY <1>6 DEF ToSet
  <2>2. list_remove_first(l, k) = list_remove(l, k, s[1])
    BY <1>2, <1>6, RemoveFirstIs
  <2> QED
    BY <1>5, <2>1, <2>2
<1> QED
  BY <1>1, <1>4, <1>5, <1>6

(* A call of list.c, from the lists it begins with to what it returns.     *)
LEMMA ListCall ==
  ASSUME call_list
  PROVE  ListsHold'
<1>1. PICK order \in UNION {{q \in [1..d -> Node] : IsInjective(q)} : d \in 0..Cardinality(Node)} :
      \E cut \in 0..Len(order) :
        LET s == Prefix(order, cut)
            t == SubSeq(order, cut + 1, Len(order))
            k == NodesOf(s, t)
            Result(op, n, r) == Call([f |-> "list", op |-> op, n |-> n, s |-> s, t |-> t,
                                      res |-> r])
        IN  \/ \E n \in Node \ ToSet(order) :
                  \/ Result("insert_first", n, list_insert_first(ListOf(s), k, n))
                  \/ Result("insert_last", n, list_insert_last(ListOf(s), k, n))
            \/ ~list_is_empty(ListOf(s))
               /\ Result("remove_first", Head(s), list_remove_first(ListOf(s), k))
            \/ \E n \in ToSet(s) : Result("remove", n, list_remove(ListOf(s), k, n))
  BY Zenon DEF call_list
<1>2. PICK d \in Nat : order \in [1..d -> Node] /\ IsInjective(order)
  OBVIOUS
<1>3. PICK s, t : \E cut \in 0..Len(order) :
        /\ s = Prefix(order, cut) /\ t = SubSeq(order, cut + 1, Len(order))
        /\ LET k == NodesOf(s, t)
               Result(op, n, r) == Call([f |-> "list", op |-> op, n |-> n, s |-> s, t |-> t,
                                         res |-> r])
           IN  \/ \E n \in Node \ ToSet(order) :
                     \/ Result("insert_first", n, list_insert_first(ListOf(s), k, n))
                     \/ Result("insert_last", n, list_insert_last(ListOf(s), k, n))
               \/ ~list_is_empty(ListOf(s))
                  /\ Result("remove_first", Head(s), list_remove_first(ListOf(s), k))
               \/ \E n \in ToSet(s) : Result("remove", n, list_remove(ListOf(s), k, n))
  BY <1>1, Zenon
<1>4. /\ s \in Seq(Node) /\ t \in Seq(Node) /\ IsInjective(s) /\ IsInjective(t)
      /\ ToSet(s) \intersect ToSet(t) = {}
      /\ ToSet(s) \union ToSet(t) \subseteq ToSet(order)
  BY <1>2, <1>3, Cut
<1>5. PICK k : k = NodesOf(s, t)
  OBVIOUS
<1>6. /\ \A n \in Node : n \notin ToSet(s) /\ n \notin ToSet(t) =>
            /\ Makes(list_insert_first(ListOf(s), k, n), s, t, <<n>> \o s)
            /\ Makes(list_insert_last(ListOf(s), k, n), s, t, Append(s, n))
      /\ \A n \in ToSet(s) : Makes(list_remove(ListOf(s), k, n), s, t, RemoveFirst(s, n))
      /\ s # << >> => Makes(list_remove_first(ListOf(s), k), s, t, RemoveFirst(s, Head(s)))
  BY <1>4, <1>5, OperationsMake
<1>7. PICK op, n, r :
        /\ call' = [f |-> "list", op |-> op, n |-> n, s |-> s, t |-> t, res |-> r]
        /\ \/ /\ op = "insert_first" /\ n \in Node \ ToSet(order)
              /\ r = list_insert_first(ListOf(s), k, n)
           \/ /\ op = "insert_last" /\ n \in Node \ ToSet(order)
              /\ r = list_insert_last(ListOf(s), k, n)
           \/ /\ op = "remove_first" /\ ~list_is_empty(ListOf(s)) /\ n = Head(s)
              /\ r = list_remove_first(ListOf(s), k)
           \/ /\ op = "remove" /\ n \in ToSet(s)
              /\ r = list_remove(ListOf(s), k, n)
  BY <1>3, <1>5, Zenon DEF Call
<1>8. ~list_is_empty(ListOf(s)) => s # << >>
  BY <1>4 DEF list_is_empty, ListOf
<1>9. PICK w : w = CASE op = "insert_first" -> <<n>> \o s
                     [] op = "insert_last"  -> Append(s, n)
                     [] OTHER               -> RemoveFirst(s, n)
  OBVIOUS
<1>10. Makes(r, s, t, w)
  <2>1. CASE op = "insert_first"
    <3>1. w = <<n>> \o s
      BY <1>9, <2>1
    <3> QED
      BY <1>4, <1>6, <1>7, <2>1, <3>1
  <2>2. CASE op = "insert_last"
    <3>1. w = Append(s, n)
      BY <1>9, <2>2
    <3> QED
      BY <1>4, <1>6, <1>7, <2>2, <3>1
  <2>3. CASE op = "remove_first" \/ op = "remove"
    <3>1. w = RemoveFirst(s, n)
      BY <1>9, <2>3
    <3> QED
      BY <1>6, <1>7, <1>8, <2>3, <3>1
  <2> QED
    BY <1>7, <2>1, <2>2, <2>3
<1>11. PICK c : c = call'
  OBVIOUS
<1>12. c.op = op /\ c.n = n /\ c.s = s /\ c.t = t /\ c.res = r
  BY <1>7, <1>11
<1> QED
  BY <1>9, <1>10, <1>11, <1>12, Zenon DEF ListsHold, Makes

(* Every list holds what was put there, in both directions, after every    *)
(* operation of list.c, and no other list is disturbed (ListsHold), for    *)
(* lists of every length.                                                  *)
THEOREM ListOperations == KLSpec => []ListsHold
<1>1. KLInit => ListsHold
  BY DEF KLInit, None, ListsHold
<1>2. ASSUME ListsHold, [KLNext]_call PROVE ListsHold'
  <2>1. CASE call_list
    BY <2>1, ListCall
  <2>2. CASE call'.f # "list"
    BY <2>2 DEF ListsHold
  <2>3. CASE call_itoa
    BY <2>2, <2>3 DEF call_itoa, Call
  <2>4. CASE call_strncpy
    BY <2>2, <2>4 DEF call_strncpy, Call
  <2>5. CASE call_strncmp
    BY <2>2, <2>5 DEF call_strncmp, Call
  <2>6. CASE call_file_name
    BY <2>2, <2>6 DEF call_file_name, Call
  <2>7. CASE call_memcpy
    BY <2>2, <2>7 DEF call_memcpy, Call
  <2>8. CASE call_log
    BY <2>2, <2>8 DEF call_log, Call
  <2>9. CASE Return
    BY <2>2, <2>9 DEF Return, None
  <2>10. CASE UNCHANGED call
    BY <1>2, <2>10, Zenon DEF ListsHold
  <2> QED
    BY <1>2, <2>1, <2>3, <2>4, <2>5, <2>6, <2>7, <2>8, <2>9, <2>10 DEF KLNext
<1> QED
  BY <1>1, <1>2, PTL DEF KLSpec
-----------------------------------------------------------------------------
(* Every non-empty set of natural numbers has a least element.             *)
LEMMA LeastNat ==
  ASSUME NEW T \in SUBSET Nat, T # {}
  PROVE  \E x \in T : \A y \in T : x <= y
<1>1. PICK R : R = OpToRel(<, Nat)
  OBVIOUS
<1>2. IsWellFoundedOn(R, Nat)
  BY <1>1, NatLessThanWellFounded
<1>3. PICK x \in T : \A y \in T : ~(<<y, x>> \in R)
  BY <1>2, WFMin
<1>4. \A y \in Nat : y < x => <<y, x>> \in R
  BY <1>1, Zenon DEF OpToRel
<1>5. \A y \in T : ~(y < x)
  BY <1>3, <1>4
<1> QED
  BY <1>5

LEMMA MaxIs ==
  ASSUME NEW S \in SUBSET Int, NEW b \in Int, \A x \in S : x <= b, S # {}
  PROVE  Max(S) \in S /\ \A y \in S : y <= Max(S)
<1>1. PICK T : T = {b - x : x \in S}
  OBVIOUS
<1>2. T \in SUBSET Nat /\ T # {}
  <2>1. \A x \in S : b - x \in Nat /\ b - x \in T
    BY <1>1
  <2>2. \A y \in T : y \in Nat
    BY <1>1, <2>1
  <2>3. PICK x : x \in S
    OBVIOUS
  <2>4. b - x \in T
    BY <2>1, <2>3
  <2> QED
    BY <2>2, <2>4
<1>3. PICK z \in T : \A y \in T : z <= y
  BY <1>2, LeastNat
<1>4. PICK x \in S : z = b - x
  BY <1>1, <1>3
<1>5. \A y \in S : x >= y
  <2> SUFFICES ASSUME NEW y \in S PROVE x >= y
    OBVIOUS
  <2>1. b - y \in T
    BY <1>1
  <2>2. z <= b - y
    BY <1>3, <2>1
  <2>3. x \in Int /\ y \in Int /\ b - x <= b - y
    BY <1>4, <2>2
  <2> QED
    BY <2>3
<1>6. Max(S) \in S /\ \A y \in S : Max(S) >= y
  BY <1>5, Zenon DEF Max
<1> QED
  BY <1>6

LEMMA MinIs ==
  ASSUME NEW S \in SUBSET Int, NEW m \in S, \A x \in S : m <= x
  PROVE  Min(S) = m
<1>1. \E x \in S : \A y \in S : x <= y
  OBVIOUS
<1>2. PICK x \in Int : x = Min(S) /\ x \in S /\ \A y \in S : x <= y
  BY <1>1 DEF Min
<1>3. x <= m /\ m <= x
  BY <1>2
<1> QED
  BY <1>2, <1>3

(* A string has no NUL among its characters.                               *)
LEMMA StringFacts ==
  ASSUME NEW s \in Strings
  PROVE  /\ s \in Seq(ToSet(s)) /\ Len(s) \in Nat /\ DOMAIN s = 1..Len(s)
         /\ s = [j \in 1..Len(s) |-> s[j]]
         /\ \A j \in 1..Len(s) : s[j] # NUL
<1>1. s \in Seq(ToSet(s)) /\ NUL \notin ToSet(s)
  BY KlibAssumption
<1>2. Len(s) \in Nat /\ DOMAIN s = 1..Len(s) /\ s = [j \in 1..Len(s) |-> s[j]]
  BY <1>1
<1>3. \A j \in 1..Len(s) : s[j] \in ToSet(s)
  BY <1>2 DEF ToSet
<1> QED
  BY <1>1, <1>2, <1>3

\* The buffer that a string is copied to.
Fresh == [j \in 0..MaxSize |-> "z"]

\* How many characters kernel_strncpy leaves in the buffer.
KeptOf(len, size) == IF len + 1 = size THEN len - 1 ELSE Min({size, len})

LEMMA StrncpyCall ==
  ASSUME NEW src \in Strings, NEW size \in 0..MaxSize, size > 0,
         NEW dest, dest = Fresh,
         NEW res, res = kernel_strncpy(dest, src, size),
         NEW kept, kept = KeptOf(Len(src), size)
  PROVE  /\ kept >= 0 => StringOf(res) = Prefix(src, kept)
         /\ \A j \in DOMAIN dest : j > kept => res[j] = dest[j]
<1>1. PICK len \in Nat : len = Len(src) /\ src = [j \in 1..len |-> src[j]]
                         /\ \A j \in 1..len : src[j] # NUL
  BY StringFacts
<1>2. MaxSize \in Nat /\ size \in Nat /\ size # 0 /\ size <= MaxSize
  BY KlibAssumption
<1>3. PICK m \in Nat : m = Min({size, len}) /\ m <= size /\ m <= len /\ (m = size \/ m = len)
  <2>0. PICK S : S = {size, len}
    OBVIOUS
  <2>1. PICK m \in Nat : m \in S /\ m <= size /\ m <= len /\ (m = size \/ m = len)
    <3>1. CASE size <= len
      BY <1>2, <2>0, <3>1
    <3>2. CASE len <= size
      BY <1>2, <2>0, <3>2
    <3> QED
      BY <1>2, <3>1, <3>2
  <2>2. S \in SUBSET Int /\ \A x \in S : m <= x
    BY <1>2, <2>0, <2>1
  <2>3. Min(S) = m
    BY <2>1, <2>2, MinIs
  <2> QED
    BY <2>0, <2>1, <2>3
<1>4. kept = (IF len + 1 = size THEN len - 1 ELSE m) /\ terminator(size, len) = kept
  <2>1. kept = IF len + 1 = size THEN len - 1 ELSE m
    BY <1>1, <1>3 DEF KeptOf
  <2>2. terminator(size, len) = IF size - len = 1 THEN len - 1 ELSE m
    BY <1>3 DEF terminator
  <2>3. size - len = 1 <=> len + 1 = size
    BY <1>2
  <2> QED
    BY <2>1, <2>2, <2>3
<1>5. kept \in Int /\ kept <= m /\ m <= kept + 1 /\ kept <= len /\ kept <= MaxSize
  BY <1>2, <1>3, <1>4
<1>6. res = [j \in 0..MaxSize |-> IF j = kept THEN NUL
                                  ELSE IF j < m THEN src[j + 1] ELSE "z"]
  BY <1>1, <1>2, <1>3, <1>4 DEF kernel_strncpy, Fresh
<1>7. \A j \in 0..MaxSize : /\ j = kept => res[j] = NUL
                            /\ j < kept => res[j] = src[j + 1] /\ j + 1 \in 1..len
                            /\ j > kept => res[j] = "z"
  BY <1>3, <1>5, <1>6
<1>8. ASSUME kept >= 0 PROVE StringOf(res) = Prefix(src, kept)
  <2>1. PICK ends : ends = {j \in DOMAIN res : res[j] = NUL}
    OBVIOUS
  <2>2. ends = {kept}
    <3>1. kept \in 0..MaxSize /\ DOMAIN res = 0..MaxSize
      BY <1>5, <1>6, <1>8
    <3>2. \A j \in 0..MaxSize : res[j] = NUL => j = kept
      <4> SUFFICES ASSUME NEW j \in 0..MaxSize, j # kept PROVE res[j] # NUL
        OBVIOUS
      <4>1. CASE j < kept
        BY <1>1, <1>7, <4>1
      <4>2. CASE j > kept
        BY <1>7, <4>2 DEF NUL
      <4> QED
        BY <1>5, <4>1, <4>2
    <3> QED
      BY <1>7, <2>1, <3>1, <3>2
  <2>3. Min(ends) = kept /\ ends # {}
    <3>1. ends \in SUBSET Int /\ kept \in ends /\ \A x \in ends : kept <= x
      BY <1>5, <2>2
    <3> QED
      BY <3>1, MinIs
  <2>4. StringOf(res) = [j \in 1..kept |-> res[j-1]]
    BY <2>1, <2>3 DEF StringOf
  <2>5. \A j \in 1..kept : res[j-1] = src[j]
    <3> SUFFICES ASSUME NEW j \in 1..kept PROVE res[j-1] = src[j]
      OBVIOUS
    <3>1. j - 1 \in 0..MaxSize /\ j - 1 < kept /\ (j - 1) + 1 = j
      BY <1>2, <1>5
    <3> QED
      BY <1>7, <3>1
  <2>6. Prefix(src, kept) = [j \in 1..kept |-> src[j]]
    <3>1. src \in Seq(ToSet(src)) /\ kept \in Nat /\ kept <= Len(src)
      BY <1>1, <1>5, <1>8, StringFacts
    <3> QED
      BY <3>1 DEF Prefix
  <2> QED
    BY <2>4, <2>5, <2>6
<1> QED
  BY <1>7, <1>8 DEF Fresh

(* Two strings agree up to k exactly if they have the same k characters.   *)
LEMMA PrefixAgree ==
  ASSUME NEW s \in Strings, NEW t \in Strings, NEW k \in Nat, k <= Len(s), k <= Len(t)
  PROVE  Prefix(s, k) = Prefix(t, k) <=> \A j \in 1..k : s[j] = t[j]
<1>1. s \in Seq(ToSet(s)) /\ t \in Seq(ToSet(t)) /\ Len(s) \in Nat /\ Len(t) \in Nat
  BY StringFacts
<1>2. Prefix(s, k) = [j \in 1..k |-> s[j]]
  BY <1>1 DEF Prefix
<1>3. Prefix(t, k) = [j \in 1..k |-> t[j]]
  BY <1>1 DEF Prefix
<1>4. ASSUME Prefix(s, k) = Prefix(t, k), NEW j \in 1..k PROVE s[j] = t[j]
  <2>1. Prefix(s, k)[j] = s[j] /\ Prefix(t, k)[j] = t[j]
    BY <1>2, <1>3
  <2> QED
    BY <1>4, <2>1
<1>5. ASSUME \A j \in 1..k : s[j] = t[j] PROVE Prefix(s, k) = Prefix(t, k)
  BY <1>2, <1>3, <1>5
<1> QED
  BY <1>4, <1>5

(* A string is the start of another exactly if it is not longer and agrees *)
(* with it.                                                                *)
LEMMA StartIs ==
  ASSUME NEW s \in Strings, NEW t \in Strings
  PROVE  IsPrefix(s, t) <=> Len(s) <= Len(t) /\ \A j \in 1..Len(s) : s[j] = t[j]
<1>1. Len(s) \in Nat /\ Len(t) \in Nat
  BY StringFacts
<1>2. IsPrefix(s, t) <=> Len(s) <= Len(t) /\ Prefix(s, Len(s)) = Prefix(t, Len(s))
  BY <1>1 DEF IsPrefix, Prefix
<1>3. ASSUME Len(s) <= Len(t)
      PROVE  Prefix(s, Len(s)) = Prefix(t, Len(s)) <=> \A j \in 1..Len(s) : s[j] = t[j]
  BY <1>1, <1>3, PrefixAgree
<1> QED
  BY <1>2, <1>3

\* The longest common start of two strings up to m, and what it is.
StopOf(s, t, m) == Max({k \in 0..m : Prefix(s, k) = Prefix(t, k)})
Stops(s, t, m, n) ==
    n \in 0..m /\ (\A j \in 1..n : s[j] = t[j]) /\ (n < m => s[n + 1] # t[n + 1])

(* Where kernel_strncmp stops: behind the longest common start.            *)
LEMMA CommonStart ==
  ASSUME NEW s \in Strings, NEW t \in Strings, NEW m \in Nat, m <= Len(s), m <= Len(t),
         NEW n, n = StopOf(s, t, m)
  PROVE  Stops(s, t, m, n)
<1>0. Len(s) \in Nat /\ Len(t) \in Nat
  BY StringFacts
<1>1. PICK S : S = {k \in 0..m : Prefix(s, k) = Prefix(t, k)}
  OBVIOUS
<1>2. \A k \in 0..m : k \in S <=> \A j \in 1..k : s[j] = t[j]
  <2> SUFFICES ASSUME NEW k \in 0..m PROVE k \in S <=> \A j \in 1..k : s[j] = t[j]
    OBVIOUS
  <2>1. k \in Nat /\ k <= Len(s) /\ k <= Len(t)
    BY <1>0
  <2>2. Prefix(s, k) = Prefix(t, k) <=> \A j \in 1..k : s[j] = t[j]
    BY <2>1, PrefixAgree
  <2>3. k \in S <=> Prefix(s, k) = Prefix(t, k)
    BY <1>1
  <2> QED
    BY <2>2, <2>3
<1>3. 0 \in S
  BY <1>2
<1>4. S \in SUBSET Int /\ S # {} /\ m \in Int /\ \A x \in S : x <= m
  BY <1>1, <1>3
<1>5. n \in S /\ \A y \in S : y <= n
  BY <1>1, <1>4, MaxIs DEF StopOf
<1>6. n \in 0..m
  BY <1>1, <1>5
<1>7. \A j \in 1..n : s[j] = t[j]
  BY <1>2, <1>5, <1>6
<1>8. ASSUME n < m, s[n + 1] = t[n + 1] PROVE FALSE
  <2>1. n + 1 \in 0..m /\ ~(n + 1 <= n)
    BY <1>6, <1>8
  <2>2. \A j \in 1..(n + 1) : s[j] = t[j]
    <3> SUFFICES ASSUME NEW j \in 1..(n + 1) PROVE s[j] = t[j]
      OBVIOUS
    <3>1. j = n + 1 \/ j \in 1..n
      BY <1>6
    <3> QED
      BY <1>7, <1>8, <3>1
  <2>3. n + 1 \in S
    BY <1>2, <2>1, <2>2
  <2> QED
    BY <1>5, <2>1, <2>3
<1> QED
  BY <1>6, <1>7, <1>8 DEF Stops

\* Two strings go on behind the limit and agree up to the character there.
AgreeBehind(s, t, size) ==
    /\ Len(s) > size /\ Len(t) > size
    /\ Prefix(s, size + 1) = Prefix(t, size + 1)

LEMMA StrncmpCall ==
  ASSUME NEW s \in Strings, NEW t \in Strings, NEW size \in Nat,
         NEW res, res = kernel_strncmp(s, t, size)
  PROVE  res = 0 <=> IsPrefix(s, t) \/ IsPrefix(t, s) \/ AgreeBehind(s, t, size)
<1>1. PICK a \in Nat, b \in Nat : a = Len(s) /\ b = Len(t)
  BY StringFacts
<1>2. \A j \in 1..a : s[j] # NUL
  BY <1>1, StringFacts
<1>3. \A j \in 1..b : t[j] # NUL
  BY <1>1, StringFacts
<1>4. PICK m \in Nat : m <= a /\ m <= b /\ m <= size /\ (m = a \/ m = b \/ m = size)
  BY <1>1
<1>5. Min({size, a, b}) = m
  <2>1. PICK S : S = {size, a, b}
    OBVIOUS
  <2>2. S \in SUBSET Int /\ m \in S /\ \A x \in S : m <= x
    BY <1>1, <1>4, <2>1
  <2>3. Min(S) = m
    BY <2>2, MinIs
  <2> QED
    BY <2>1, <2>3
<1>6. PICK n : n = StopOf(s, t, m)
  OBVIOUS
<1>7. n \in 0..m /\ (\A j \in 1..n : s[j] = t[j]) /\ (n < m => s[n + 1] # t[n + 1])
  <2>1. m <= Len(s) /\ m <= Len(t)
    BY <1>1, <1>4
  <2>2. Stops(s, t, m, n)
    BY <1>6, <2>1, CommonStart
  <2> QED
    BY <2>2 DEF Stops
<1>8. PICK c, d : c = (IF n < a THEN s[n + 1] ELSE NUL) /\ d = (IF n < b THEN t[n + 1] ELSE NUL)
  OBVIOUS
<1>9. res = IF c = NUL \/ d = NUL \/ c = d THEN 0 ELSE 1
  BY <1>1, <1>5, <1>6, <1>8, Zenon DEF kernel_strncmp, ended, StopOf
<1>10. IsPrefix(s, t) <=> a <= b /\ \A j \in 1..a : s[j] = t[j]
  BY <1>1, StartIs
<1>11. IsPrefix(t, s) <=> b <= a /\ \A j \in 1..b : t[j] = s[j]
  BY <1>1, StartIs
<1>14. AgreeBehind(s, t, size) <=> size < a /\ size < b /\ \A j \in 1..(size + 1) : s[j] = t[j]
  <2>1. ASSUME size < a, size < b
        PROVE  Prefix(s, size + 1) = Prefix(t, size + 1) <=> \A j \in 1..(size + 1) : s[j] = t[j]
    <3>1. size + 1 \in Nat /\ size + 1 <= Len(s) /\ size + 1 <= Len(t)
      BY <1>1, <2>1
    <3> QED
      BY <3>1, PrefixAgree
  <2> QED
    BY <1>1, <2>1 DEF AgreeBehind
<1>12. CASE n = m
  <2>1. CASE m = a
    <3>1. c = NUL
      BY <1>1, <1>8, <1>12, <2>1
    <3> QED
      BY <1>4, <1>7, <1>9, <1>10, <1>12, <2>1, <3>1
  <2>2. CASE m = b
    <3>1. d = NUL
      BY <1>1, <1>8, <1>12, <2>2
    <3> QED
      BY <1>4, <1>7, <1>9, <1>11, <1>12, <2>2, <3>1
  <2>3. CASE m = size /\ m # a /\ m # b
    <3>1. n = size /\ size < a /\ size < b /\ size + 1 \in 1..a /\ size + 1 \in 1..b
      BY <1>4, <1>12, <2>3
    <3>2. c = s[size + 1] /\ d = t[size + 1]
      BY <1>8, <3>1
    <3>3. c # NUL /\ d # NUL
      BY <1>2, <1>3, <3>1, <3>2
    <3>4. CASE c = d
      <4>1. \A j \in 1..(size + 1) : s[j] = t[j]
        <5> SUFFICES ASSUME NEW j \in 1..(size + 1) PROVE s[j] = t[j]
          OBVIOUS
        <5>1. j = size + 1 \/ j \in 1..n
          BY <3>1
        <5> QED
          BY <1>7, <3>2, <3>4, <5>1
      <4>2. AgreeBehind(s, t, size)
        BY <1>14, <3>1, <4>1
      <4> QED
        BY <1>9, <3>4, <4>2
    <3>5. CASE c # d
      <4>1. size + 1 \in 1..(size + 1) /\ s[size + 1] # t[size + 1]
        BY <3>2, <3>5
      <4>2. ~AgreeBehind(s, t, size)
        BY <1>14, <4>1
      <4>3. ~IsPrefix(s, t) /\ ~IsPrefix(t, s)
        BY <1>10, <1>11, <3>1, <4>1
      <4>4. res = 1
        BY <1>9, <3>3, <3>5
      <4> QED
        BY <4>2, <4>3, <4>4
    <3> QED
      BY <3>4, <3>5
  <2> QED
    BY <1>4, <2>1, <2>2, <2>3
<1>13. CASE n < m
  <2>1. n + 1 \in 1..a /\ n + 1 \in 1..b /\ n < a /\ n < b /\ n + 1 \in 1..(size + 1)
    BY <1>4, <1>7, <1>13
  <2>2. c = s[n + 1] /\ d = t[n + 1]
    BY <1>8, <2>1
  <2>3. c # NUL /\ d # NUL /\ c # d
    BY <1>2, <1>3, <1>7, <1>13, <2>1, <2>2
  <2>4. res = 1
    BY <1>9, <2>3
  <2>5. ~IsPrefix(s, t) /\ ~IsPrefix(t, s)
    BY <1>7, <1>10, <1>11, <1>13, <2>1
  <2>6. ~AgreeBehind(s, t, size)
    BY <1>7, <1>13, <1>14, <2>1
  <2> QED
    BY <2>4, <2>5, <2>6
<1> QED
  BY <1>4, <1>7, <1>12, <1>13

LEMMA FileNameCall ==
  ASSUME NEW name \in Strings, NEW before, NEW res, res = get_file_name(before, name)
  PROVE  /\ res = 0 \/ name[res] \in {"/", "\\"}
         /\ \A j \in (res + 1)..Len(name) : name[j] \notin {"/", "\\"}
<1>1. PICK len \in Nat : len = Len(name)
  BY StringFacts
<1>2. PICK S : S = {p \in -1..(len - 1) :
                      (IF p < 0 THEN before ELSE name[p + 1]) \in {"/", "\\"} \/ p = -1}
  OBVIOUS
<1>3. res = Max(S) + 1
  BY <1>1, <1>2, Zenon DEF get_file_name, last_slash
<1>4. -1 \in S
  BY <1>2
<1>5. S \in SUBSET Int /\ S # {} /\ len \in Int /\ \A x \in S : x <= len
  <2>1. \A x \in S : x \in -1..(len - 1)
    BY <1>2
  <2> QED
    BY <1>4, <2>1
<1>6. PICK p : p = Max(S)
  OBVIOUS
<1>7. p \in S /\ \A y \in S : y <= p
  BY <1>5, <1>6, MaxIs
<1>8. p \in -1..(len - 1)
  BY <1>2, <1>7
<1>9. p = -1 \/ name[p + 1] \in {"/", "\\"}
  BY <1>2, <1>7, <1>8
<1>10. res = p + 1
  BY <1>3, <1>6
<1>11. ASSUME NEW j \in (res + 1)..len, name[j] \in {"/", "\\"} PROVE FALSE
  <2>1. j - 1 \in -1..(len - 1) /\ ~(j - 1 < 0) /\ (j - 1) + 1 = j /\ ~(j - 1 <= p)
    BY <1>8, <1>10, <1>11
  <2>2. j - 1 \in S
    BY <1>2, <1>11, <2>1
  <2> QED
    BY <1>7, <2>1, <2>2
<1> QED
  BY <1>1, <1>8, <1>9, <1>10, <1>11

\* The memory after every turn of the loop of kernel_memcpy.
Moves(mem, dest, src, size, f) ==
    f = [n \in 0..size |->
           IF n = 0 THEN mem ELSE [f[n-1] EXCEPT ![dest + n - 1] = f[n-1][src + n - 1]]]

\* The memory when n bytes have been copied.
Moved(mem, dest, src, n) ==
    [a \in DOMAIN mem |-> IF a \in dest..(dest + n - 1) THEN mem[src + (a - dest)] ELSE mem[a]]

(* The loop of kernel_memcpy has one result.                               *)
LEMMA MemcpyIs ==
  ASSUME NEW mem, NEW dest, NEW src, dest # 0, src # 0, NEW size \in Nat,
         NEW g, Moves(mem, dest, src, size, g)
  PROVE  kernel_memcpy(mem, dest, src, size) = g[size]
<1>1. kernel_memcpy(mem, dest, src, size) = (CHOOSE f : Moves(mem, dest, src, size, f))[size]
  BY Zenon DEF kernel_memcpy, Moves
<1>2. Moves(mem, dest, src, size, CHOOSE f : Moves(mem, dest, src, size, f))
  BY Zenon
<1>3. PICK f : f = (CHOOSE h : Moves(mem, dest, src, size, h)) /\ Moves(mem, dest, src, size, f)
  BY <1>2
<1>4. PICK T : T = {n \in 0..size : f[n] # g[n]}
  OBVIOUS
<1>5. T = {}
  <2> SUFFICES ASSUME T # {} PROVE FALSE
    OBVIOUS
  <2>0. T \in SUBSET Nat
    BY <1>4
  <2>1. PICK n \in T : \A m \in T : n <= m
    BY <2>0, LeastNat
  <2>2. n \in 0..size /\ f[n] # g[n]
    BY <1>4, <2>1
  <2>3. /\ f[n] = IF n = 0 THEN mem ELSE [f[n-1] EXCEPT ![dest + n - 1] = f[n-1][src + n - 1]]
        /\ g[n] = IF n = 0 THEN mem ELSE [g[n-1] EXCEPT ![dest + n - 1] = g[n-1][src + n - 1]]
    BY <1>3, <2>2 DEF Moves
  <2>4. n # 0
    BY <2>2, <2>3
  <2>5. n - 1 \in 0..size /\ n - 1 \notin T
    BY <2>0, <2>1, <2>2, <2>4
  <2>6. f[n-1] = g[n-1]
    BY <1>4, <2>5
  <2> QED
    BY <2>2, <2>3, <2>4, <2>6
<1> QED
  BY <1>1, <1>3, <1>4, <1>5

(* One turn of the loop.                                                   *)
LEMMA MovedNext ==
  ASSUME NEW mem, NEW top \in Nat, DOMAIN mem = 1..top,
         NEW dest \in 1..top, NEW src \in 1..top, NEW size \in Nat,
         dest + size <= top + 1, src + size <= top + 1,
         ~(dest > src /\ dest < src + size), NEW n \in 1..size
  PROVE  Moved(mem, dest, src, n)
           = [Moved(mem, dest, src, n - 1) EXCEPT
                ![dest + n - 1] = Moved(mem, dest, src, n - 1)[src + n - 1]]
<1>1. PICK x \in 1..top, y \in 1..top : x = dest + n - 1 /\ y = src + n - 1
  OBVIOUS
<1>2. PICK h : h = Moved(mem, dest, src, n - 1)
  OBVIOUS
<1>3. DOMAIN mem = 1..top /\ top \in Nat
  OBVIOUS
<1>4. \A a \in 1..top : (a \in dest..(dest + (n - 1) - 1) <=> dest <= a /\ a < x)
                        /\ (a \in dest..(dest + n - 1) <=> dest <= a /\ a <= x)
  BY <1>1
<1>5. h = [a \in 1..top |-> IF dest <= a /\ a < x THEN mem[src + (a - dest)] ELSE mem[a]]
  BY <1>2, <1>3, <1>4 DEF Moved
<1>6. ~(dest <= y /\ y < x)
  BY <1>1
<1>7. h[y] = mem[y]
  BY <1>5, <1>6
<1>8. src + (x - dest) = y
  BY <1>1
<1>9. PICK e : e = [h EXCEPT ![x] = h[y]]
  OBVIOUS
<1>10. e = [a \in 1..top |-> IF a = x THEN mem[y] ELSE h[a]]
  BY <1>5, <1>7, <1>9
<1>11. \A a \in 1..top : (IF a = x THEN mem[y] ELSE h[a])
                           = IF dest <= a /\ a <= x THEN mem[src + (a - dest)] ELSE mem[a]
  <2> SUFFICES ASSUME NEW a \in 1..top
               PROVE  (IF a = x THEN mem[y] ELSE h[a])
                        = IF dest <= a /\ a <= x THEN mem[src + (a - dest)] ELSE mem[a]
    OBVIOUS
  <2>1. CASE a = x
    BY <1>1, <1>8, <2>1
  <2>2. CASE a # x
    <3>1. dest <= a /\ a < x <=> dest <= a /\ a <= x
      BY <2>2
    <3>2. h[a] = IF dest <= a /\ a < x THEN mem[src + (a - dest)] ELSE mem[a]
      BY <1>5
    <3> QED
      BY <2>2, <3>1, <3>2
  <2> QED
    BY <2>1, <2>2
<1>12. e = [a \in 1..top |-> IF dest <= a /\ a <= x THEN mem[src + (a - dest)] ELSE mem[a]]
  BY <1>10, <1>11
<1>13. Moved(mem, dest, src, n) = e
  BY <1>3, <1>4, <1>12 DEF Moved
<1> QED
  BY <1>1, <1>2, <1>9, <1>13

LEMMA MemcpyCall ==
  ASSUME NEW mem \in [1..MaxSize -> {0, 1}], NEW dest \in 1..MaxSize, NEW src \in 1..MaxSize,
         NEW size \in 0..MaxSize, dest + size <= MaxSize + 1, src + size <= MaxSize + 1,
         ~(dest > src /\ dest < src + size)
  PROVE  kernel_memcpy(mem, dest, src, size) = Moved(mem, dest, src, size)
<1>1. PICK top \in Nat : top = MaxSize
  BY KlibAssumption
<1>2. mem = [a \in 1..top |-> mem[a]]
  BY <1>1
<1>3. PICK g : g = [n \in 0..size |-> Moved(mem, dest, src, n)]
  OBVIOUS
<1>4. ASSUME NEW n \in 0..size
      PROVE  g[n] = IF n = 0 THEN mem
                    ELSE [g[n-1] EXCEPT ![dest + n - 1] = g[n-1][src + n - 1]]
  <2>1. CASE n = 0
    <3>1. dest..(dest + 0 - 1) = {}
      BY <1>1
    <3>2. DOMAIN mem = 1..top
      BY <1>2
    <3>3. Moved(mem, dest, src, 0) = [a \in 1..top |-> mem[a]]
      BY <3>1, <3>2 DEF Moved
    <3> QED
      BY <1>2, <1>3, <2>1, <3>3
  <2>2. CASE n # 0
    <3>1. n \in 1..size /\ n - 1 \in 0..size /\ size \in Nat
      BY <1>1, <2>2
    <3>2. g[n] = Moved(mem, dest, src, n) /\ g[n - 1] = Moved(mem, dest, src, n - 1)
      BY <1>3, <3>1
    <3>3. Moved(mem, dest, src, n)
            = [Moved(mem, dest, src, n - 1) EXCEPT
                 ![dest + n - 1] = Moved(mem, dest, src, n - 1)[src + n - 1]]
      <4>1. /\ DOMAIN mem = 1..top /\ dest \in 1..top /\ src \in 1..top
            /\ dest + size <= top + 1 /\ src + size <= top + 1
        BY <1>1
      <4> QED
        BY <3>1, <4>1, MovedNext
    <3> QED
      BY <2>2, <3>2, <3>3
  <2> QED
    BY <2>1, <2>2
<1>5. Moves(mem, dest, src, size, g)
  BY <1>3, <1>4 DEF Moves
<1>6. kernel_memcpy(mem, dest, src, size) = g[size]
  BY <1>1, <1>5, MemcpyIs
<1> QED
  BY <1>1, <1>3, <1>6

(* What every call of kernel_strncpy, kernel_strncmp, get_file_name and    *)
(* kernel_memcpy computes, whatever the strings, the sizes and the memory  *)
(* are: copies that fit, that just fit and that are cut, comparisons that  *)
(* the size ends and those it does not, the name behind the last slash,    *)
(* and the move of a block that does not begin inside its source.          *)
THEOREM StringsSafe == KLSpec => []StringsExact
<1>1. KLInit => StringsExact
  BY DEF KLInit, None, StringsExact, StrncpyExact, StrncmpExact, FileNameIsLast, MemcpyMoves
<1>2. StringsExact /\ [KLNext]_call => StringsExact'
  <2> SUFFICES ASSUME StringsExact, [KLNext]_call PROVE StringsExact'
    OBVIOUS
  <2> USE DEF StringsExact, StrncpyExact, StrncmpExact, FileNameIsLast, MemcpyMoves
  <2>1. CASE call_itoa
    BY <2>1 DEF call_itoa, Call
  <2>2. CASE call_strncpy
    <3>0. PICK src \in Strings, size \in 0..MaxSize :
              call' = [f |-> "strncpy", src |-> src, size |-> size, dest |-> Fresh,
                       res |-> kernel_strncpy(Fresh, src, size)]
      BY <2>2, Zenon DEF call_strncpy, Call, Fresh
    <3>1. PICK dest, res : /\ dest = Fresh /\ res = kernel_strncpy(dest, src, size)
                           /\ call' = [f |-> "strncpy", src |-> src, size |-> size,
                                       dest |-> dest, res |-> res]
      BY <3>0
    <3>2. /\ call'.f = "strncpy" /\ call'.src = src /\ call'.size = size
          /\ call'.dest = dest /\ call'.res = res
      BY <3>1
    <3>3. PICK kept : kept = KeptOf(Len(src), size)
      OBVIOUS
    <3>4. size > 0 =>
            /\ kept >= 0 => StringOf(res) = Prefix(src, kept)
            /\ \A j \in DOMAIN dest : j > kept => res[j] = dest[j]
      BY <3>1, <3>3, StrncpyCall
    <3> QED
      BY <3>2, <3>3, <3>4 DEF KeptOf
  <2>3. CASE call_strncmp
    <3>0. PICK s1 \in Strings, s2 \in Strings, size \in 0..MaxSize :
              call' = [f |-> "strncmp", s1 |-> s1, s2 |-> s2, size |-> size,
                       res |-> kernel_strncmp(s1, s2, size)]
      BY <2>3, Zenon DEF call_strncmp, Call
    <3>1. PICK res : /\ res = kernel_strncmp(s1, s2, size)
                     /\ call' = [f |-> "strncmp", s1 |-> s1, s2 |-> s2, size |-> size,
                                 res |-> res]
      BY <3>0
    <3>2. /\ call'.f = "strncmp" /\ call'.s1 = s1 /\ call'.s2 = s2 /\ call'.size = size
          /\ call'.res = res
      BY <3>1
    <3>3. size \in Nat
      BY KlibAssumption
    <3>4. res = 0 <=> IsPrefix(s1, s2) \/ IsPrefix(s2, s1) \/ AgreeBehind(s1, s2, size)
      BY <3>1, <3>3, StrncmpCall
    <3> QED
      BY <3>2, <3>4 DEF AgreeBehind
  <2>4. CASE call_file_name
    <3>0. PICK name \in Strings, before \in {"a", "/", NUL} :
              call' = [f |-> "file", name |-> name, res |-> get_file_name(before, name)]
      BY <2>4, Zenon DEF call_file_name, Call
    <3>1. PICK res : /\ res = get_file_name(before, name)
                     /\ call' = [f |-> "file", name |-> name, res |-> res]
      BY <3>0
    <3>2. call'.f = "file" /\ call'.name = name /\ call'.res = res
      BY <3>1
    <3>3. /\ res = 0 \/ name[res] \in {"/", "\\"}
          /\ \A j \in (res + 1)..Len(name) : name[j] \notin {"/", "\\"}
      BY <3>1, FileNameCall
    <3> QED
      BY <3>2, <3>3
  <2>5. CASE call_memcpy
    <3>0. PICK mem \in [1..MaxSize -> {0, 1}], dest \in 1..MaxSize, src \in 1..MaxSize,
               size \in 0..MaxSize :
              /\ dest + size <= MaxSize + 1 /\ src + size <= MaxSize + 1
              /\ call' = [f |-> "memcpy", mem |-> mem, dest |-> dest, src |-> src, size |-> size,
                          res |-> kernel_memcpy(mem, dest, src, size)]
      BY <2>5, Zenon DEF call_memcpy, Call
    <3>1. PICK res : /\ res = kernel_memcpy(mem, dest, src, size)
                     /\ call' = [f |-> "memcpy", mem |-> mem, dest |-> dest, src |-> src,
                                 size |-> size, res |-> res]
      BY <3>0
    <3>2. /\ call'.f = "memcpy" /\ call'.mem = mem /\ call'.dest = dest /\ call'.src = src
          /\ call'.size = size /\ call'.res = res
      BY <3>1
    <3>3. ~(dest > src /\ dest < src + size) => res = Moved(mem, dest, src, size)
      BY <3>0, <3>1, MemcpyCall
    <3>4. ~(dest > src /\ dest < src + size) =>
             \A a \in DOMAIN mem : res[a] = IF a \in dest..(dest + size - 1)
                                            THEN mem[src + (a - dest)] ELSE mem[a]
      BY <3>3 DEF Moved
    <3> QED
      BY <3>2, <3>4
  <2>6. CASE call_log
    <3>1. call'.f = "log"
      BY <2>6 DEF call_log, Call
    <3> QED
      BY <3>1
  <2>7. CASE call_list
    <3>1. call'.f = "list"
      BY <2>7 DEF call_list, Call
    <3> QED
      BY <3>1
  <2>8. CASE Return
    BY <2>8 DEF Return, None
  <2>9. CASE UNCHANGED call
    BY <2>9
  <2> QED
    BY <2>1, <2>2, <2>3, <2>4, <2>5, <2>6, <2>7, <2>8, <2>9 DEF KLNext
<1> QED
  BY <1>1, <1>2, PTL DEF KLSpec

-----------------------------------------------------------------------------
(* kernel_itoa.                                                            *)

Bases == {2, 8, 10, 16}
Abs(n) == IF n < 0 THEN -n ELSE n

\* The characters that stand for digits.
DigitChars == {Chars[k] : k \in 1..16}

LEMMA CharsAre ==
  /\ \A k \in 1..16 : Chars[k] \in DigitChars /\ Chars[k] # "-" /\ Chars[k] # NUL
  /\ \A k \in 2..16 : Chars[k] # "0"
  /\ \A j, k \in 1..16 : Chars[j] = Chars[k] => j = k
<1>1. \A k \in 1..16 : Chars[k] \in DigitChars
  BY DEF DigitChars
<1>2. \A k \in 1..16 : \/ k = 1 \/ k = 2 \/ k = 3 \/ k = 4 \/ k = 5 \/ k = 6 \/ k = 7 \/ k = 8
                       \/ k = 9 \/ k = 10 \/ k = 11 \/ k = 12 \/ k = 13 \/ k = 14 \/ k = 15
                       \/ k = 16
  OBVIOUS
<1>3. /\ Chars[1] = "0" /\ Chars[2] = "1" /\ Chars[3] = "2" /\ Chars[4] = "3"
      /\ Chars[5] = "4" /\ Chars[6] = "5" /\ Chars[7] = "6" /\ Chars[8] = "7"
      /\ Chars[9] = "8" /\ Chars[10] = "9" /\ Chars[11] = "A" /\ Chars[12] = "B"
      /\ Chars[13] = "C" /\ Chars[14] = "D" /\ Chars[15] = "E" /\ Chars[16] = "F"
  BY DEF Chars
<1>4. \A k \in 1..16 : Chars[k] # "-" /\ Chars[k] # NUL
  BY <1>2, <1>3 DEF NUL
<1>5. \A k \in 2..16 : Chars[k] # "0"
  BY <1>2, <1>3
<1>6. \A j, k \in 1..16 : Chars[j] = Chars[k] => j = k
  <2> SUFFICES ASSUME NEW j \in 1..16, NEW k \in 1..16, Chars[j] = Chars[k] PROVE j = k
    OBVIOUS
  <2> QED
    BY <1>2, <1>3
<1> QED
  BY <1>1, <1>4, <1>5, <1>6

\* Where a digit is among Chars.
Position(ch) == CHOOSE k \in 1..16 : Chars[k] = ch

LEMMA DigitIs ==
  ASSUME NEW k \in 1..16
  PROVE  Position(Chars[k]) = k
BY CharsAre DEF Position

(* One turn of the loops: the digit and what is left, for both signs.      *)
LEMMA Division ==
  ASSUME NEW b \in Bases, NEW n \in Int
  PROVE  \E q \in Nat, r \in 0..(b-1) :
            /\ Abs(n) = b * q + r /\ b * q \in Nat /\ r + 1 \in 1..16
            /\ c_div(n, b) = IF n < 0 THEN -q ELSE q
            /\ num2ch(n - b * c_div(n, b)) = Chars[r + 1]
            /\ n # 0 => q < Abs(n)
            /\ q # 0 => b * q # 0
<1>1. PICK m \in Nat : m = Abs(n) /\ n = IF n < 0 THEN -m ELSE m
  BY DEF Abs
<1>2. \E q \in Nat, r \in 0..(b-1) :
         /\ m = b * q + r /\ b * q \in Nat /\ q = m \div b /\ (m # 0 => q < m)
         /\ q # 0 => b * q # 0
  <2>1. CASE b = 2
    BY <2>1
  <2>2. CASE b = 8
    BY <2>2
  <2>3. CASE b = 10
    BY <2>3
  <2>4. CASE b = 16
    BY <2>4
  <2> QED
    BY <2>1, <2>2, <2>3, <2>4 DEF Bases
<1>3. PICK q \in Nat, r \in 0..(b-1) :
         /\ m = b * q + r /\ b * q \in Nat /\ q = m \div b /\ (m # 0 => q < m)
         /\ q # 0 => b * q # 0
  BY <1>2
<1>4. r + 1 \in 1..16 /\ b \in Nat
  BY DEF Bases
<1>5. c_div(n, b) = IF n < 0 THEN -q ELSE q
  BY <1>1, <1>3 DEF c_div
<1>6. n - b * c_div(n, b) = IF n < 0 THEN -r ELSE r
  <2>1. CASE b = 2
    BY <1>1, <1>3, <1>5, <2>1
  <2>2. CASE b = 8
    BY <1>1, <1>3, <1>5, <2>2
  <2>3. CASE b = 10
    BY <1>1, <1>3, <1>5, <2>3
  <2>4. CASE b = 16
    BY <1>1, <1>3, <1>5, <2>4
  <2> QED
    BY <2>1, <2>2, <2>3, <2>4 DEF Bases
<1>7. \A x \in Int : (x = -r \/ x = r) => num2ch(x) = Chars[r + 1]
  BY <1>4 DEF num2ch
<1>8. num2ch(n - b * c_div(n, b)) = Chars[r + 1]
  BY <1>4, <1>6, <1>7
<1> QED
  BY <1>1, <1>3, <1>4, <1>5, <1>8

\* What a turn of the loop of kernel_itoa makes of n, if f has the digits of
\* what is left.
DigitsOf(n, b, f) ==
    <<num2ch(n - b * c_div(n, b))>> \o (IF c_div(n, b) = 0 THEN << >> ELSE f[c_div(n, b)])

\* f has the digits of the numbers S.
Digits(b, S, f) == f = [n \in S |-> DigitsOf(n, b, f)]

Ball(N) == (-N)..N

LEMMA InBall ==
  ASSUME NEW N \in Nat, NEW n \in Int
  PROVE  /\ n \in Ball(N) <=> Abs(n) <= N
         /\ Abs(n) \in Nat /\ n \in Ball(Abs(n)) /\ (Abs(n) = 0 <=> n = 0)
BY DEF Ball, Abs

(* What is left is nearer to 0.                                            *)
LEMMA Nearer ==
  ASSUME NEW b \in Bases, NEW n \in Int
  PROVE  /\ c_div(n, b) \in Int /\ c_div(n, b) \in Ball(Abs(n))
         /\ c_div(n, b) # 0 => Abs(c_div(n, b)) < Abs(n)
<1>1. PICK q \in Nat, r \in 0..(b-1) :
         /\ c_div(n, b) = IF n < 0 THEN -q ELSE q
         /\ n # 0 => q < Abs(n)
         /\ Abs(n) = b * q + r /\ b * q \in Nat
         /\ q # 0 => b * q # 0
  BY Division
<1>2. q = Abs(c_div(n, b)) /\ c_div(n, b) \in Int
  BY <1>1 DEF Abs
<1>3. n = 0 => q = 0
  BY <1>1 DEF Abs
<1>4. Abs(n) \in Nat
  BY DEF Abs
<1>5. q <= Abs(n)
  BY <1>1, <1>3, <1>4
<1>6. c_div(n, b) \in Ball(Abs(n))
  BY <1>2, <1>4, <1>5, InBall
<1>7. c_div(n, b) # 0 => q < Abs(n)
  BY <1>1, <1>3
<1> QED
  BY <1>2, <1>6, <1>7

(* Two functions with the digits agree where both have them.               *)
LEMMA DigitsAgree ==
  ASSUME NEW b \in Bases, NEW M \in Nat, NEW S, NEW U, NEW f, NEW g,
         Digits(b, S, f), Digits(b, U, g), Ball(M) \subseteq S, Ball(M) \subseteq U
  PROVE  \A n \in Ball(M) : f[n] = g[n]
<1>1. PICK T : T = {k \in Nat : \E n \in Ball(M) : Abs(n) = k /\ f[n] # g[n]}
  OBVIOUS
<1>2. T \in SUBSET Nat
  BY <1>1
<1>3. ASSUME T # {} PROVE FALSE
  <2>1. PICK k \in T : \A j \in T : k <= j
    BY <1>2, <1>3, LeastNat
  <2>2. PICK n \in Ball(M) : Abs(n) = k /\ f[n] # g[n]
    BY <1>1, <2>1
  <2>3. n \in Int /\ Abs(n) <= M
    BY <2>2, InBall DEF Ball
  <2>4. f[n] = DigitsOf(n, b, f) /\ g[n] = DigitsOf(n, b, g)
    BY <2>2 DEF Digits
  <2>5. PICK c : c = c_div(n, b)
    OBVIOUS
  <2>6. c # 0
    BY <2>2, <2>4, <2>5 DEF DigitsOf
  <2>7. c \in Int /\ Abs(c) < Abs(n) /\ Abs(c) \in Nat /\ Abs(n) \in Nat
    BY <2>3, <2>5, <2>6, Nearer, InBall
  <2>8. c \in Ball(M)
    BY <2>3, <2>7, InBall
  <2>9. ~(k <= Abs(c))
    BY <2>2, <2>7
  <2>10. Abs(c) \notin T
    BY <2>1, <2>9
  <2>11. f[c] = g[c]
    BY <1>1, <2>7, <2>8, <2>10
  <2> QED
    BY <2>2, <2>4, <2>5, <2>11 DEF DigitsOf
<1> QED
  <2> SUFFICES ASSUME NEW n \in Ball(M), f[n] # g[n] PROVE FALSE
    OBVIOUS
  <2>1. n \in Int
    BY DEF Ball
  <2>2. Abs(n) \in Nat
    BY <2>1, InBall
  <2>3. Abs(n) \in T
    BY <1>1, <2>2
  <2> QED
    BY <1>3, <2>3

LEMMA DigitsBounded ==
  ASSUME NEW b \in Bases, NEW N \in Nat
  PROVE  \E f : Digits(b, Ball(N), f)
<1>1. PICK T : T = {k \in Nat : ~\E f : Digits(b, Ball(k), f)}
  OBVIOUS
<1>2. T \in SUBSET Nat
  BY <1>1
<1>3. ASSUME T # {} PROVE FALSE
  <2>1. PICK k \in T : \A j \in T : k <= j
    BY <1>2, <1>3, LeastNat
  <2>2. k \in Nat /\ ~\E f : Digits(b, Ball(k), f)
    BY <1>1, <2>1
  <2>3. PICK g : k # 0 => Digits(b, Ball(k - 1), g)
    <3>1. CASE k = 0
      BY <3>1
    <3>2. CASE k # 0
      <4>1. k - 1 \in Nat /\ ~(k <= k - 1)
        BY <2>2, <3>2
      <4>2. k - 1 \notin T
        BY <2>1, <4>1
      <4> QED
        BY <1>1, <4>1, <4>2
    <3> QED
      BY <3>1, <3>2
  <2>4. PICK f : f = [n \in Ball(k) |-> DigitsOf(n, b, g)]
    OBVIOUS
  <2>5. ASSUME NEW n \in Ball(k) PROVE DigitsOf(n, b, g) = DigitsOf(n, b, f)
    <3>1. n \in Int /\ Abs(n) <= k /\ Abs(n) \in Nat
      BY <2>2, InBall DEF Ball
    <3>2. PICK c : c = c_div(n, b)
      OBVIOUS
    <3>3. CASE c = 0
      BY <3>2, <3>3 DEF DigitsOf
    <3>4. CASE c # 0
      <4>1. c \in Int /\ Abs(c) < Abs(n) /\ Abs(c) \in Nat
        BY <3>1, <3>2, <3>4, Nearer, InBall
      <4>2. k # 0 /\ k - 1 \in Nat /\ Abs(c) <= k - 1 /\ Abs(c) <= k
        BY <2>2, <3>1, <4>1
      <4>3. c \in Ball(k - 1) /\ c \in Ball(k)
        BY <2>2, <4>1, <4>2, InBall
      <4>4. g[c] = DigitsOf(c, b, g)
        BY <2>3, <4>2, <4>3 DEF Digits
      <4>5. f[c] = DigitsOf(c, b, g)
        BY <2>4, <4>3
      <4> QED
        BY <3>2, <4>4, <4>5 DEF DigitsOf
    <3> QED
      BY <3>3, <3>4
  <2>6. Digits(b, Ball(k), f)
    BY <2>4, <2>5 DEF Digits
  <2> QED
    BY <2>2, <2>6
<1> QED
  BY <1>1, <1>3

(* The loop of kernel_itoa ends for every number.                          *)
LEMMA DigitsExist ==
  ASSUME NEW b \in Bases
  PROVE  \E f : Digits(b, Int, f)
<1>1. PICK part : part = [N \in Nat |-> CHOOSE f : Digits(b, Ball(N), f)]
  OBVIOUS
<1>2. \A N \in Nat : Digits(b, Ball(N), part[N])
  <2> SUFFICES ASSUME NEW N \in Nat PROVE Digits(b, Ball(N), part[N])
    OBVIOUS
  <2>1. part[N] = CHOOSE f : Digits(b, Ball(N), f)
    BY <1>1
  <2>2. Digits(b, Ball(N), CHOOSE f : Digits(b, Ball(N), f))
    BY DigitsBounded, Zenon
  <2> QED
    BY <2>1, <2>2
<1>3. PICK h : h = [n \in Int |-> part[Abs(n)][n]]
  OBVIOUS
<1>4. ASSUME NEW n \in Int PROVE h[n] = DigitsOf(n, b, h)
  <2>1. Abs(n) \in Nat /\ n \in Ball(Abs(n))
    BY InBall
  <2>2. PICK c, p : c = c_div(n, b) /\ p = part[Abs(n)]
    OBVIOUS
  <2>3. h[n] = DigitsOf(n, b, p)
    BY <1>2, <1>3, <2>1, <2>2 DEF Digits
  <2>4. c \in Int /\ c \in Ball(Abs(n)) /\ Abs(c) \in Nat /\ c \in Ball(Abs(c))
    BY <2>2, Nearer, InBall
  <2>5. Ball(Abs(c)) \subseteq Ball(Abs(n))
    <3>1. Abs(c) <= Abs(n)
      BY <2>1, <2>4, InBall
    <3> QED
      BY <2>1, <2>4, <3>1 DEF Ball
  <2>6. p[c] = part[Abs(c)][c]
    <3>1. PICK u, w : u \in Nat /\ u = Abs(c) /\ w = part[u]
      BY <2>4
    <3>2. Digits(b, Ball(Abs(n)), p) /\ Digits(b, Ball(u), w)
      BY <1>2, <2>1, <2>2, <3>1
    <3>3. \A x \in Ball(u) : p[x] = w[x]
      BY <2>5, <3>1, <3>2, DigitsAgree
    <3> QED
      BY <2>4, <3>1, <3>3
  <2>7. h[c] = p[c]
    BY <1>3, <2>4, <2>6
  <2> QED
    BY <2>2, <2>3, <2>7 DEF DigitsOf
<1>5. Digits(b, Int, h)
  BY <1>3, <1>4 DEF Digits
<1> QED
  BY <1>5

\* The numbers that the starts of a sequence of digits stand for.
Values(w, b, v) ==
    v = [n \in 0..Len(w) |->
           IF n = 0 THEN 0 ELSE b * v[n-1] + Position(w[n]) - 1]

LEMMA ValueIs ==
  ASSUME NEW w, Len(w) \in Nat, NEW b, NEW g, Values(w, b, g)
  PROVE  Value(w, b) = g[Len(w)]
<1>1. Value(w, b) = (CHOOSE f : Values(w, b, f))[Len(w)]
  BY Zenon DEF Value, Values, Position
<1>2. Values(w, b, CHOOSE f : Values(w, b, f))
  BY Zenon
<1>3. PICK f : f = (CHOOSE h : Values(w, b, h)) /\ Values(w, b, f)
  BY <1>2
<1>4. PICK T : T = {n \in 0..Len(w) : f[n] # g[n]}
  OBVIOUS
<1>5. T = {}
  <2> SUFFICES ASSUME T # {} PROVE FALSE
    OBVIOUS
  <2>0. T \in SUBSET Nat
    BY <1>4
  <2>1. PICK n \in T : \A m \in T : n <= m
    BY <2>0, LeastNat
  <2>2. n \in 0..Len(w) /\ f[n] # g[n]
    BY <1>4, <2>1
  <2>3. PICK c : c = Position(w[n])
    OBVIOUS
  <2>4. f[n] = (IF n = 0 THEN 0 ELSE b * f[n-1] + c - 1)
    BY <1>3, <2>2, <2>3 DEF Values
  <2>5. g[n] = (IF n = 0 THEN 0 ELSE b * g[n-1] + c - 1)
    BY <2>2, <2>3 DEF Values
  <2>6. n # 0
    BY <2>2, <2>4, <2>5
  <2>7. n - 1 \in 0..Len(w) /\ n - 1 \notin T
    BY <2>0, <2>1, <2>2, <2>6
  <2>8. f[n-1] = g[n-1]
    BY <1>4, <2>7
  <2> QED
    BY <2>2, <2>4, <2>5, <2>6, <2>8
<1> QED
  BY <1>1, <1>3, <1>4, <1>5

(* The digits are made from the last to the first.                         *)
LEMMA ReverseIs ==
  ASSUME NEW S, NEW d \in Seq(S)
  PROVE  /\ Reverse(d) \in Seq(S) /\ Len(Reverse(d)) = Len(d)
         /\ \A n \in 1..Len(d) : Reverse(d)[n] = d[(Len(d) - n) + 1]
<1>1. PICK l \in Nat : l = Len(d)
  OBVIOUS
<1>2. Reverse(d) = [n \in 1..l |-> d[(l - n) + 1]]
  BY <1>1 DEF Reverse
<1>3. \A n \in 1..l : (l - n) + 1 \in 1..l
  OBVIOUS
<1>4. \A n \in 1..l : d[(l - n) + 1] \in S
  BY <1>1, <1>3
<1> QED
  BY <1>1, <1>2, <1>4

\* d has the digits of m, the last one first, and no 0 in front.
Reads(b, d, m) ==
    /\ d \in Seq(DigitChars) /\ Len(d) >= 1
    /\ \E v : Values(Reverse(d), b, v) /\ v[Len(d)] = m
    /\ m # 0 => d[Len(d)] # "0"
    /\ Len(d) > 1 => m # 0

LEMMA OneDigit ==
  ASSUME NEW b \in Bases, NEW r \in 0..(b-1), r + 1 \in 1..16
  PROVE  Reads(b, <<Chars[r + 1]>>, r)
<1>1. PICK c, d : c = Chars[r + 1] /\ d = <<c>> /\ c \in DigitChars
  BY CharsAre
<1>2. d \in Seq(DigitChars) /\ Len(d) = 1 /\ d[1] = c
  BY <1>1
<1>3. Len(Reverse(d)) = 1 /\ Reverse(d)[1] = c
  BY <1>2, ReverseIs
<1>4. Position(c) = r + 1
  BY <1>1, DigitIs
<1>5. PICK v : v = [n \in 0..1 |-> IF n = 0 THEN 0 ELSE r]
  OBVIOUS
<1>6. b * 0 = 0 /\ r \in Nat
  BY DEF Bases
<1>7. \A n \in 0..1 : v[n] = IF n = 0 THEN 0
                       ELSE b * v[n-1] + Position(Reverse(d)[n]) - 1
  <2>1. v[0] = 0 /\ v[1] = r
    BY <1>5
  <2>2. b * v[0] + Position(Reverse(d)[1]) - 1 = r
    BY <1>3, <1>4, <1>6, <2>1
  <2>3. \A n \in 0..1 : n = 0 \/ n = 1
    OBVIOUS
  <2> QED
    BY <2>1, <2>2, <2>3
<1>8. Values(Reverse(d), b, v)
  BY <1>3, <1>5, <1>7 DEF Values
<1>9. r # 0 => c # "0"
  BY <1>1, CharsAre
<1>10. v[1] = r
  BY <1>5
<1> QED
  BY <1>1, <1>2, <1>8, <1>9, <1>10 DEF Reads

LEMMA MoreDigits ==
  ASSUME NEW b \in Bases, NEW q \in Nat, q # 0, NEW r \in 0..(b-1), r + 1 \in 1..16,
         b * q \in Nat, b * q # 0, NEW d, Reads(b, d, q)
  PROVE  Reads(b, <<Chars[r + 1]>> \o d, b * q + r)
<1>1. PICK c, e : c = Chars[r + 1] /\ e = <<c>> \o d /\ c \in DigitChars
  BY CharsAre
<1>2. PICK l \in Nat : l = Len(d) /\ l >= 1
  BY DEF Reads
<1>3. d \in Seq(DigitChars)
  BY DEF Reads
<1>4. e \in Seq(DigitChars) /\ Len(e) = l + 1 /\ e[1] = c /\ \A n \in 1..l : e[n + 1] = d[n]
  BY <1>1, <1>2, <1>3
<1>5. PICK x, y : x = Reverse(d) /\ y = Reverse(e)
  OBVIOUS
<1>6. Len(x) = l /\ Len(y) = l + 1
  BY <1>2, <1>3, <1>4, <1>5, ReverseIs
<1>7. \A n \in 1..l : y[n] = x[n]
  <2> SUFFICES ASSUME NEW n \in 1..l PROVE y[n] = x[n]
    OBVIOUS
  <2>1. (l - n) + 1 \in 1..l /\ ((l + 1) - n) + 1 = ((l - n) + 1) + 1 /\ n \in 1..(l + 1)
    OBVIOUS
  <2>2. x[n] = d[(l - n) + 1]
    BY <1>2, <1>3, <1>5, ReverseIs
  <2>3. y[n] = e[((l + 1) - n) + 1]
    <3>1. \A j \in 1..Len(e) : y[j] = e[(Len(e) - j) + 1]
      BY <1>4, <1>5, ReverseIs
    <3> QED
      BY <1>4, <2>1, <3>1
  <2>4. e[((l - n) + 1) + 1] = d[(l - n) + 1]
    BY <1>4, <2>1
  <2> QED
    BY <2>1, <2>2, <2>3, <2>4
<1>8. y[l + 1] = c
  <2>1. l + 1 \in 1..(l + 1) /\ ((l + 1) - (l + 1)) + 1 = 1
    OBVIOUS
  <2>2. y[l + 1] = e[((l + 1) - (l + 1)) + 1]
    <3>1. \A j \in 1..Len(e) : y[j] = e[(Len(e) - j) + 1]
      BY <1>4, <1>5, ReverseIs
    <3> QED
      BY <1>4, <2>1, <3>1
  <2> QED
    BY <1>4, <2>1, <2>2
<1>9. PICK v : Values(x, b, v) /\ v[l] = q
  BY <1>2, <1>5 DEF Reads
<1>10. PICK p \in Nat : p = b * q
  OBVIOUS
<1>11. PICK u : u = [n \in 0..(l + 1) |-> IF n <= l THEN v[n] ELSE p + r]
  OBVIOUS
<1>12. Position(c) = r + 1
  BY <1>1, DigitIs
<1>13. \A n \in 0..l : u[n] = v[n]
  BY <1>11
<1>14. u[l + 1] = p + r
  BY <1>11
<1>15. ASSUME NEW n \in 0..(l + 1)
       PROVE  u[n] = IF n = 0 THEN 0
                     ELSE b * u[n-1] + Position(y[n]) - 1
  <2>1. CASE n \in 0..l
    <3>1. v[n] = IF n = 0 THEN 0
                 ELSE b * v[n-1] + Position(x[n]) - 1
      BY <1>6, <1>9, <2>1 DEF Values
    <3>2. CASE n = 0
      BY <1>13, <2>1, <3>1, <3>2
    <3>3. CASE n # 0
      <4>1. n - 1 \in 0..l /\ n \in 1..l
        BY <2>1, <3>3
      <4>2. u[n] = v[n] /\ u[n-1] = v[n-1] /\ y[n] = x[n]
        BY <1>7, <1>13, <2>1, <4>1
      <4> QED
        BY <3>1, <3>3, <4>2
    <3> QED
      BY <3>2, <3>3
  <2>2. CASE n = l + 1
    <3>1. n # 0 /\ n - 1 = l /\ l \in 0..l
      BY <2>2
    <3>2. u[n - 1] = q
      BY <1>9, <1>13, <3>1
    <3>3. Position(y[n]) = r + 1
      BY <1>8, <1>12, <2>2
    <3>4. p + (r + 1) - 1 = p + r
      BY DEF Bases
    <3> QED
      BY <1>10, <1>14, <2>2, <3>1, <3>2, <3>3, <3>4
  <2> QED
    BY <2>1, <2>2
<1>16. Values(y, b, u)
  BY <1>6, <1>11, <1>15 DEF Values
<1>17. e[l + 1] = d[l]
  BY <1>2, <1>4
<1>18. d[l] # "0"
  BY <1>2 DEF Reads
<1>19. p + r # 0 /\ p + r = b * q + r
  BY <1>10 DEF Bases
<1>20. \E z : Values(Reverse(e), b, z) /\ z[Len(e)] = p + r
  BY <1>4, <1>5, <1>14, <1>16
<1>21. Reads(b, e, p + r)
  BY <1>2, <1>4, <1>17, <1>18, <1>19, <1>20 DEF Reads
<1> QED
  BY <1>1, <1>19, <1>21

(* The digits of every number.                                             *)
LEMMA AllRead ==
  ASSUME NEW b \in Bases, NEW f, Digits(b, Int, f), NEW n \in Int
  PROVE  Reads(b, f[n], Abs(n))
<1>1. PICK T : T = {k \in Nat : \E x \in Int : Abs(x) = k /\ ~Reads(b, f[x], Abs(x))}
  OBVIOUS
<1>2. T \in SUBSET Nat
  BY <1>1
<1>3. ASSUME T # {} PROVE FALSE
  <2>1. PICK k \in T : \A j \in T : k <= j
    BY <1>2, <1>3, LeastNat
  <2>2. PICK x \in Int : Abs(x) = k /\ ~Reads(b, f[x], Abs(x))
    BY <1>1, <2>1
  <2>3. f[x] = DigitsOf(x, b, f)
    BY DEF Digits
  <2>4. PICK q \in Nat, r \in 0..(b-1) :
            /\ Abs(x) = b * q + r /\ b * q \in Nat /\ r + 1 \in 1..16
            /\ c_div(x, b) = IF x < 0 THEN -q ELSE q
            /\ num2ch(x - b * c_div(x, b)) = Chars[r + 1]
            /\ x # 0 => q < Abs(x)
            /\ q # 0 => b * q # 0
    BY Division
  <2>5. PICK c : c = c_div(x, b)
    OBVIOUS
  <2>6. c \in Int /\ Abs(c) = q /\ (c = 0 <=> q = 0)
    BY <2>4, <2>5 DEF Abs
  <2>7. f[x] = <<Chars[r + 1]>> \o (IF c = 0 THEN << >> ELSE f[c])
    BY <2>3, <2>4, <2>5 DEF DigitsOf
  <2>8. CASE q = 0
    <3>1. f[x] = <<Chars[r + 1]>>
      <4>1. f[x] = <<Chars[r + 1]>> \o << >>
        BY <2>6, <2>7, <2>8
      <4> QED
        BY <4>1
    <3>2. Abs(x) = r
      BY <2>4, <2>8 DEF Bases
    <3> QED
      BY <2>2, <2>4, <3>1, <3>2, OneDigit
  <2>9. CASE q # 0
    <3>1. f[x] = <<Chars[r + 1]>> \o f[c]
      BY <2>6, <2>7, <2>9
    <3>2. x # 0
      BY <2>4, <2>9 DEF Abs, Bases
    <3>3. ~(k <= q)
      BY <2>2, <2>4, <3>2, InBall
    <3>4. q \notin T
      BY <2>1, <3>3
    <3>5. Reads(b, f[c], q)
      BY <1>1, <2>6, <3>4
    <3>6. Reads(b, <<Chars[r + 1]>> \o f[c], b * q + r)
      BY <2>4, <2>9, <3>5, MoreDigits
    <3> QED
      BY <2>2, <2>4, <3>1, <3>6
  <2> QED
    BY <2>8, <2>9
<1> QED
  <2>1. Abs(n) \in Nat
    BY InBall
  <2> QED
    BY <1>1, <1>3, <2>1

(* What kernel_itoa writes, apart from the sign.                           *)
LEMMA DigitsRead ==
  ASSUME NEW b \in Bases, NEW f, Digits(b, Int, f), NEW n \in Int, NEW w, w = Reverse(f[n])
  PROVE  /\ w \in Seq(DigitChars) /\ Len(w) >= 1 /\ w[1] \in DigitChars
         /\ Value(w, b) = Abs(n)
         /\ Len(w) > 1 => w[1] # "0"
<1>1. PICK d : d = f[n] /\ Reads(b, d, Abs(n))
  BY AllRead
<1>2. PICK l \in Nat : l = Len(d) /\ l >= 1 /\ d \in Seq(DigitChars)
  BY <1>1 DEF Reads
<1>3. w \in Seq(DigitChars) /\ Len(w) = l
  BY <1>1, <1>2, ReverseIs
<1>4. w[1] = d[l]
  <2>1. 1 \in 1..l /\ (l - 1) + 1 = l
    BY <1>2
  <2>2. w[1] = d[(l - 1) + 1]
    BY <1>1, <1>2, <2>1, ReverseIs
  <2> QED
    BY <2>1, <2>2
<1>5. PICK v : Values(w, b, v) /\ v[l] = Abs(n)
  BY <1>1, <1>2 DEF Reads
<1>6. Value(w, b) = Abs(n)
  BY <1>3, <1>5, ValueIs
<1>7. l > 1 => w[1] # "0"
  BY <1>1, <1>2, <1>4 DEF Reads
<1> QED
  BY <1>2, <1>3, <1>4, <1>6, <1>7

\* What ItoaReadsBack says of one call.
ReadsBack(num, base, res) ==
    LET neg    == res[1] = "-"
        digits == IF neg THEN Tail(res) ELSE res
        value  == Value(digits, base)
    IN  /\ Len(digits) > 1 => digits[1] # "0"
        /\ (IF neg THEN -value ELSE value) = IF base = 10 THEN num ELSE num % UINT

LEMMA UnsignedIs ==
  ASSUME NEW num \in Nums
  PROVE  /\ num \in Int /\ num % UINT \in Nat
         /\ num >= 0 => num % UINT = num
<1>1. PICK u \in Nat : u = UINT /\ u # 0 /\ num \in (-(u \div 2))..(u \div 2 - 1)
  BY KlibAssumption
<1>2. u \div 2 \in Nat /\ u \div 2 <= u
  OBVIOUS
<1>3. num \in Int /\ num < u
  BY <1>1, <1>2
<1>4. num % u \in Nat
  BY <1>1, <1>3
<1>5. ASSUME num >= 0 PROVE num % u = num
  <2>1. num \in 0..(u - 1)
    BY <1>3, <1>5
  <2> QED
    BY <1>1, <2>1
<1> QED
  BY <1>1, <1>3, <1>4, <1>5

LEMMA ItoaCall ==
  ASSUME NEW num \in Nums, NEW base \in Bases, NEW res, res = kernel_itoa(num, base)
  PROVE  /\ ReadsBack(num, base, res)
         /\ res \in Seq(DigitChars \union {"-"})
<1>1. PICK f : f = CHOOSE g : Digits(base, Int, g)
  OBVIOUS
<1>2. Digits(base, Int, f)
  BY <1>1, DigitsExist, Zenon
<1>3. res = IF is_signed(num, base) THEN <<"-">> \o Reverse(f[num]) ELSE Reverse(f[num % UINT])
  <2>1. kernel_itoa(num, base)
          = IF base \notin {2, 8, 10, 16} THEN << >>
            ELSE IF is_signed(num, base)
            THEN <<"-">> \o Reverse((CHOOSE g : Digits(base, Int, g))[num])
            ELSE Reverse((CHOOSE g : Digits(base, Int, g))[num % UINT])
    BY Zenon DEF kernel_itoa, Digits, DigitsOf
  <2>2. res = IF base \notin {2, 8, 10, 16} THEN << >>
              ELSE IF is_signed(num, base) THEN <<"-">> \o Reverse(f[num])
              ELSE Reverse(f[num % UINT])
    BY <1>1, <2>1
  <2> QED
    BY <2>2 DEF Bases
<1>4. num \in Int /\ num % UINT \in Nat /\ (num >= 0 => num % UINT = num)
  BY UnsignedIs
<1>5. "-" \notin DigitChars
  BY CharsAre DEF DigitChars
<1>6. CASE is_signed(num, base)
  <2>1. num < 0 /\ base = 10
    BY <1>6 DEF is_signed
  <2>2. PICK w : w = Reverse(f[num])
    OBVIOUS
  <2>3. /\ w \in Seq(DigitChars) /\ Len(w) >= 1 /\ w[1] \in DigitChars
        /\ Value(w, base) = Abs(num)
        /\ Len(w) > 1 => w[1] # "0"
    BY <1>2, <1>4, <2>2, DigitsRead
  <2>4. res = <<"-">> \o w
    BY <1>3, <1>6, <2>2
  <2>5. res \in Seq(DigitChars \union {"-"})
    BY <2>3, <2>4
  <2>6. res[1] = "-" /\ Tail(res) = w
    BY <2>3, <2>4
  <2>7. -Value(w, base) = num
    BY <1>4, <2>1, <2>3 DEF Abs
  <2>8. ReadsBack(num, base, res)
    BY <2>1, <2>3, <2>6, <2>7 DEF ReadsBack
  <2> QED
    BY <2>5, <2>8
<1>7. CASE ~is_signed(num, base)
  <2>1. PICK u, w : u \in Nat /\ u = num % UINT /\ w = Reverse(f[u])
    BY <1>4
  <2>2. /\ w \in Seq(DigitChars) /\ Len(w) >= 1 /\ w[1] \in DigitChars
        /\ Value(w, base) = Abs(u)
        /\ Len(w) > 1 => w[1] # "0"
    <3>1. u \in Int
      BY <2>1
    <3> QED
      BY <1>2, <2>1, <3>1, DigitsRead
  <2>3. res = w
    BY <1>3, <1>7, <2>1
  <2>4. res[1] # "-"
    BY <1>5, <2>2, <2>3
  <2>5. Value(w, base) = u
    BY <2>1, <2>2 DEF Abs
  <2>6. base = 10 => num = u
    BY <1>4, <1>7, <2>1 DEF is_signed
  <2>7. ReadsBack(num, base, res)
    BY <2>1, <2>2, <2>3, <2>4, <2>5, <2>6 DEF ReadsBack
  <2>8. res \in Seq(DigitChars \union {"-"})
    BY <2>2, <2>3
  <2> QED
    BY <2>7, <2>8
<1> QED
  BY <1>6, <1>7

(* What kernel_itoa writes reads back as the number, for every int and     *)
(* every width of int: also for the least int, whose negation is none, in  *)
(* base 10, and for negative numbers in the other bases, where they are    *)
(* taken as unsigned.                                                      *)
THEOREM ItoaSafe == KLSpec => []ItoaReadsBack
<1>1. KLInit => ItoaReadsBack
  BY DEF KLInit, None, ItoaReadsBack
<1>2. ItoaReadsBack /\ [KLNext]_call => ItoaReadsBack'
  <2> SUFFICES ASSUME ItoaReadsBack, [KLNext]_call PROVE ItoaReadsBack'
    OBVIOUS
  <2>1. CASE call_itoa
    <3>1. PICK num \in Nums, base \in Bases :
              call' = [f |-> "itoa", num |-> num, base |-> base, res |-> kernel_itoa(num, base)]
      BY <2>1, Zenon DEF call_itoa, Call, Bases
    <3>2. PICK res : /\ res = kernel_itoa(num, base)
                     /\ call' = [f |-> "itoa", num |-> num, base |-> base, res |-> res]
      BY <3>1
    <3>3. call'.f = "itoa" /\ call'.num = num /\ call'.base = base /\ call'.res = res
      BY <3>2
    <3>4. ReadsBack(num, base, res)
      BY <3>2, ItoaCall
    <3>5. ReadsBack(call'.num, call'.base, call'.res)
      BY <3>3, <3>4
    <3> QED
      BY <3>5, Zenon DEF ItoaReadsBack, ReadsBack
  <2>2. ASSUME call'.f # "itoa" PROVE ItoaReadsBack'
    BY <2>2 DEF ItoaReadsBack
  <2>3. CASE call_strncpy \/ call_strncmp
    <3>1. call'.f # "itoa"
      BY <2>3 DEF call_strncpy, call_strncmp, Call
    <3> QED
      BY <2>2, <3>1
  <2>4. CASE call_file_name \/ call_memcpy
    <3>1. call'.f # "itoa"
      BY <2>4 DEF call_file_name, call_memcpy, Call
    <3> QED
      BY <2>2, <3>1
  <2>5. CASE call_log
    <3>1. call'.f # "itoa"
      BY <2>5 DEF call_log, Call
    <3> QED
      BY <2>2, <3>1
  <2>6. CASE call_list
    <3>1. call'.f # "itoa"
      BY <2>6 DEF call_list, Call
    <3> QED
      BY <2>2, <3>1
  <2>7. CASE Return
    <3>1. call'.f # "itoa"
      BY <2>7 DEF Return, None
    <3> QED
      BY <2>2, <3>1
  <2>8. CASE UNCHANGED call
    BY <2>8 DEF ItoaReadsBack
  <2> QED
    BY <2>1, <2>3, <2>4, <2>5, <2>6, <2>7, <2>8 DEF KLNext
<1> QED
  BY <1>1, <1>2, PTL DEF KLSpec

-----------------------------------------------------------------------------
(* log_printf.                                                             *)

\* The characters of a line: none of them is the NUL.
LineChars == {"a", "%", "d", "x", "c", "s", "b", "-"} \union DigitChars

\* What a conversion prints.
Conv(ch, num, str) ==
    CASE ch = "d" -> kernel_itoa(num, 10)
      [] ch = "x" -> kernel_itoa(num, 16)
      [] ch = "c" -> <<Chars[1]>>
      [] ch = "s" -> str
      [] OTHER    -> << >>

\* What kernel_itoa writes has no NUL in it.
LEMMA ItoaChars ==
  ASSUME NEW num \in Int, NEW base \in Bases
  PROVE  kernel_itoa(num, base) \in Seq(LineChars)
<1>1. PICK f : f = CHOOSE g : Digits(base, Int, g)
  OBVIOUS
<1>2. Digits(base, Int, f)
  BY <1>1, DigitsExist, Zenon
<1>3. PICK u, x, w : u = num % UINT /\ x = Reverse(f[num]) /\ w = Reverse(f[u])
  OBVIOUS
<1>4. u \in Int
  <2>1. PICK k \in Nat : k = UINT /\ k # 0
    BY KlibAssumption
  <2>2. num % k \in Int
    BY <2>1
  <2> QED
    BY <1>3, <2>1, <2>2
<1>5. x \in Seq(DigitChars) /\ w \in Seq(DigitChars)
  BY <1>2, <1>3, <1>4, DigitsRead
<1>6. <<"-">> \o x \in Seq(LineChars) /\ w \in Seq(LineChars)
  BY <1>5 DEF LineChars
<1>7. kernel_itoa(num, base)
        = IF base \notin {2, 8, 10, 16} THEN << >>
          ELSE IF is_signed(num, base)
          THEN <<"-">> \o Reverse((CHOOSE g : Digits(base, Int, g))[num])
          ELSE Reverse((CHOOSE g : Digits(base, Int, g))[num % UINT])
  BY Zenon DEF kernel_itoa, Digits, DigitsOf
<1>8. kernel_itoa(num, base) = IF is_signed(num, base) THEN <<"-">> \o x ELSE w
  BY <1>1, <1>3, <1>7 DEF Bases
<1> QED
  BY <1>6, <1>8

\* Neither has what a conversion prints.
LEMMA ConvChars ==
  ASSUME NEW ch, NEW num \in Int, NEW str \in Texts
  PROVE  Conv(ch, num, str) \in Seq(LineChars)
<1>1. kernel_itoa(num, 10) \in Seq(LineChars) /\ kernel_itoa(num, 16) \in Seq(LineChars)
  BY ItoaChars DEF Bases
<1>2. <<Chars[1]>> \in Seq(LineChars)
  <2>1. Chars[1] \in LineChars
    BY CharsAre DEF LineChars
  <2> QED
    BY <2>1
<1>3. str \in Seq(LineChars)
  <2>1. "b" \in LineChars
    BY DEF LineChars
  <2>2. <<"b", "b">> \in Seq(LineChars) /\ << >> \in Seq(LineChars)
    BY <2>1
  <2> QED
    BY <2>2 DEF Texts
<1>4. << >> \in Seq(LineChars)
  OBVIOUS
<1> QED
  BY <1>1, <1>2, <1>3, <1>4 DEF Conv

\* The state of kernel_vsprintf between two characters, and a turn of its loop.
Config == [state : {"NORMAL", "READ_FMT"}, out : Seq(LineChars), nul : Int]

Start == [state |-> "NORMAL", out |-> << >>, nul |-> -1]

Turn(st, ch, num, str) ==
    IF st.state = "NORMAL"
    THEN IF ch = "%" THEN [st EXCEPT !.state = "READ_FMT"]
         ELSE [st EXCEPT !.out = Append(@, ch)]
    ELSE [state |-> "NORMAL", out |-> st.out \o Conv(ch, num, str),
          nul |-> IF ch \in {"d", "x"} THEN Len(st.out \o Conv(ch, num, str)) ELSE st.nul]

\* What a turn makes of the state.
TurnMakes(st, ch, num, str, r) ==
    /\ r \in Config
    /\ st.state = "NORMAL" /\ ch = "%" => r.state = "READ_FMT" /\ r.out = st.out
    /\ st.state = "NORMAL" /\ ch # "%" => r.state = "NORMAL" /\ r.out = st.out \o <<ch>>
    /\ st.state = "READ_FMT" =>
          r.state = "NORMAL" /\ r.out = st.out \o Conv(ch, num, str)

\* One turn of the loop.
LEMMA TurnIs ==
  ASSUME NEW st \in Config, NEW ch \in LineChars, NEW num \in Int, NEW str \in Texts,
         NEW r, r = Turn(st, ch, num, str)
  PROVE  TurnMakes(st, ch, num, str, r)
<1>1. PICK o, c : o = st.out /\ c = Conv(ch, num, str)
  OBVIOUS
<1>2. o \in Seq(LineChars) /\ c \in Seq(LineChars)
  BY <1>1, ConvChars DEF Config
<1>3. o \o c \in Seq(LineChars) /\ Len(o \o c) \in Int
  BY <1>2
<1>4. Append(o, ch) \in Seq(LineChars) /\ Append(o, ch) = o \o <<ch>>
  BY <1>2
<1>5. CASE st.state = "NORMAL" /\ ch = "%"
  <2>1. r = [st EXCEPT !.state = "READ_FMT"]
    BY <1>5 DEF Turn
  <2> QED
    BY <1>5, <2>1 DEF Config, TurnMakes
<1>6. CASE st.state = "NORMAL" /\ ch # "%"
  <2>1. r = [st EXCEPT !.out = Append(o, ch)]
    BY <1>1, <1>6 DEF Turn
  <2>2. r \in Config /\ r.state = "NORMAL" /\ r.out = Append(o, ch)
    BY <1>4, <1>6, <2>1 DEF Config
  <2> QED
    BY <1>1, <1>4, <1>6, <2>2 DEF TurnMakes
<1>7. CASE st.state = "READ_FMT"
  <2>1. PICK z : z = IF ch \in {"d", "x"} THEN Len(o \o c) ELSE st.nul
    OBVIOUS
  <2>2. z \in Int
    BY <1>3, <2>1 DEF Config
  <2>3. r = [state |-> "NORMAL", out |-> o \o c, nul |-> z]
    BY <1>1, <1>7, <2>1 DEF Turn
  <2> QED
    BY <1>1, <1>3, <1>7, <2>2, <2>3 DEF Config, TurnMakes
<1> QED
  BY <1>5, <1>6, <1>7 DEF Config

\* The states after the first N turns.
Turns(fmt, num, str, N, f) ==
    f = [n \in 0..N |-> IF n = 0 THEN Start ELSE Turn(f[n-1], fmt[n], num, str)]

\* The definition of the turns has a solution, for every format.
LEMMA TurnsExist ==
  ASSUME NEW fmt, NEW num, NEW str, NEW N \in Nat
  PROVE  \E f : Turns(fmt, num, str, N, f)
<1>1. PICK T : T = {k \in Nat : ~\E f : Turns(fmt, num, str, k, f)}
  OBVIOUS
<1>2. T \in SUBSET Nat
  BY <1>1
<1>3. ASSUME T # {} PROVE FALSE
  <2>1. PICK k \in T : \A j \in T : k <= j
    BY <1>2, <1>3, LeastNat
  <2>2. k \in Nat /\ ~\E f : Turns(fmt, num, str, k, f)
    BY <1>1, <2>1
  <2>3. k # 0
    <3>1. ASSUME k = 0 PROVE FALSE
      <4>1. PICK f : f = [n \in 0..k |-> Start]
        OBVIOUS
      <4>2. \A n \in 0..k : n = 0
        BY <3>1
      <4>3. f = [n \in 0..k |-> IF n = 0 THEN Start ELSE Turn(f[n-1], fmt[n], num, str)]
        BY <4>1, <4>2
      <4> QED
        BY <2>2, <4>3 DEF Turns
    <3> QED
      BY <3>1
  <2>4. k - 1 \in Nat /\ ~(k <= k - 1)
    BY <2>2, <2>3
  <2>5. k - 1 \notin T
    BY <2>1, <2>4
  <2>6. PICK g : Turns(fmt, num, str, k - 1, g)
    BY <1>1, <2>4, <2>5
  <2>7. PICK f : f = [n \in 0..k |-> IF n = 0 THEN Start ELSE Turn(g[n-1], fmt[n], num, str)]
    OBVIOUS
  <2>8. ASSUME NEW n \in 0..k, n # 0 PROVE f[n-1] = g[n-1]
    <3>1. PICK m \in 0..(k - 1) : m = n - 1 /\ m \in 0..k
      BY <2>2, <2>8
    <3>2. g[m] = IF m = 0 THEN Start ELSE Turn(g[m-1], fmt[m], num, str)
      BY <2>6, <3>1 DEF Turns
    <3>3. f[m] = IF m = 0 THEN Start ELSE Turn(g[m-1], fmt[m], num, str)
      BY <2>7, <3>1
    <3> QED
      BY <3>1, <3>2, <3>3
  <2>9. f = [n \in 0..k |-> IF n = 0 THEN Start ELSE Turn(f[n-1], fmt[n], num, str)]
    BY <2>7, <2>8
  <2> QED
    BY <2>2, <2>9 DEF Turns
<1> QED
  BY <1>1, <1>3

\* What the rest of a format from i on stands for, if g says it of the rests
\* behind i.
RestOf(fmt, num, str, l, i, g) ==
    IF i > l THEN << >>
    ELSE IF fmt[i] # "%" THEN <<fmt[i]>> \o g[i + 1]
    ELSE IF i = l THEN << >>
    ELSE Conv(fmt[i + 1], num, str) \o g[i + 2]

\* g says it of the rests from lo on.
Rests(fmt, num, str, l, lo, g) ==
    g = [i \in lo..(l + 2) |-> RestOf(fmt, num, str, l, i, g)]

\* So has the definition of what a format stands for.
LEMMA RestsExist ==
  ASSUME NEW l \in Nat, NEW fmt \in [1..l -> LineChars], NEW num \in Int, NEW str \in Texts
  PROVE  \E g : Rests(fmt, num, str, l, 1, g) /\ g \in [1..(l + 2) -> Seq(LineChars)]
<1> DEFINE Good(k) == \E g : /\ Rests(fmt, num, str, l, l + 2 - k, g)
                             /\ g \in [(l + 2 - k)..(l + 2) -> Seq(LineChars)]
<1>1. PICK T : T = {k \in 0..(l + 1) : ~Good(k)}
  OBVIOUS
<1>2. T \in SUBSET Nat
  BY <1>1
<1>3. ASSUME T # {} PROVE FALSE
  <2>1. PICK k \in T : \A j \in T : k <= j
    BY <1>2, <1>3, LeastNat
  <2>2. k \in 0..(l + 1) /\ ~Good(k)
    BY <1>1, <2>1
  <2> HIDE DEF Good
  <2>3. PICK g : k # 0 => /\ Rests(fmt, num, str, l, l + 2 - (k - 1), g)
                          /\ g \in [(l + 2 - (k - 1))..(l + 2) -> Seq(LineChars)]
    <3>1. CASE k = 0
      BY <3>1
    <3>2. CASE k # 0
      <4>1. k - 1 \in 0..(l + 1) /\ ~(k <= k - 1)
        BY <2>2, <3>2
      <4>2. k - 1 \notin T
        BY <2>1, <4>1
      <4>3. Good(k - 1)
        BY <1>1, <4>1, <4>2
      <4> QED
        BY <4>3 DEF Good
    <3> QED
      BY <3>1, <3>2
  <2>4. PICK lo \in 1..(l + 2) : lo = l + 2 - k /\ lo + 1 = l + 2 - (k - 1) /\ (k = 0 <=> lo = l + 2)
    BY <2>2
  <2>5. /\ lo # l + 2 => Rests(fmt, num, str, l, lo + 1, g)
        /\ lo # l + 2 => g \in [(lo + 1)..(l + 2) -> Seq(LineChars)]
    BY <2>3, <2>4
  <2>6. PICK h : h = [i \in lo..(l + 2) |-> RestOf(fmt, num, str, l, i, g)]
    OBVIOUS
  <2>7. \A i \in (lo + 1)..(l + 2) : h[i] = g[i] /\ g[i] \in Seq(LineChars)
    <3> SUFFICES ASSUME NEW i \in (lo + 1)..(l + 2) PROVE h[i] = g[i] /\ g[i] \in Seq(LineChars)
      OBVIOUS
    <3>1. lo # l + 2 /\ i \in lo..(l + 2)
      BY <2>4
    <3>2. g[i] = RestOf(fmt, num, str, l, i, g)
      BY <2>5, <3>1 DEF Rests
    <3>3. h[i] = RestOf(fmt, num, str, l, i, g)
      BY <2>6, <3>1
    <3>4. g[i] \in Seq(LineChars)
      BY <2>5, <3>1
    <3> QED
      BY <3>2, <3>3, <3>4
  <2>8. ASSUME NEW i \in lo..(l + 2)
        PROVE  /\ RestOf(fmt, num, str, l, i, g) = RestOf(fmt, num, str, l, i, h)
               /\ RestOf(fmt, num, str, l, i, g) \in Seq(LineChars)
    <3>1. CASE i > l
      BY <3>1 DEF RestOf
    <3>2. CASE i <= l
      <4>1. i + 1 \in (lo + 1)..(l + 2) /\ i + 2 \in (lo + 1)..(l + 2) /\ i \in 1..l
        BY <2>4, <3>2
      <4>2. PICK x, y, c : x = g[i + 1] /\ y = g[i + 2] /\ c = Conv(fmt[i + 1], num, str)
        OBVIOUS
      <4>3. x \in Seq(LineChars) /\ y \in Seq(LineChars) /\ h[i + 1] = x /\ h[i + 2] = y
        BY <2>7, <4>1, <4>2
      <4>4. c \in Seq(LineChars)
        BY <4>2, ConvChars
      <4>5. fmt[i] \in LineChars
        BY <4>1
      <4>6. <<fmt[i]>> \o x \in Seq(LineChars) /\ c \o y \in Seq(LineChars)
        BY <4>3, <4>4, <4>5
      <4> QED
        BY <4>2, <4>3, <4>6 DEF RestOf
    <3> QED
      BY <2>4, <3>1, <3>2
  <2>9. Rests(fmt, num, str, l, lo, h)
    BY <2>6, <2>8 DEF Rests
  <2>10. h \in [lo..(l + 2) -> Seq(LineChars)]
    BY <2>6, <2>8
  <2>11. Good(k)
    BY <2>4, <2>9, <2>10 DEF Good
  <2> QED
    BY <2>2, <2>11
<1>4. l + 1 \in 0..(l + 1) /\ l + 2 - (l + 1) = 1
  OBVIOUS
<1>5. Good(l + 1)
  <2> HIDE DEF Good
  <2> QED
    BY <1>1, <1>3, <1>4
<1> QED
  BY <1>4, <1>5

\* Two solutions say the same of the whole format.
LEMMA RestsAgree ==
  ASSUME NEW fmt, NEW num, NEW str, NEW l \in Nat, NEW f, NEW g,
         Rests(fmt, num, str, l, 1, f), Rests(fmt, num, str, l, 1, g)
  PROVE  f[1] = g[1]
<1>1. PICK T : T = {n \in 0..(l + 1) : f[l + 2 - n] # g[l + 2 - n]}
  OBVIOUS
<1>2. T \in SUBSET Nat
  BY <1>1
<1>3. ASSUME T # {} PROVE FALSE
  <2>1. PICK n \in T : \A m \in T : n <= m
    BY <1>2, <1>3, LeastNat
  <2>2. PICK i \in 1..(l + 2) : i = l + 2 - n /\ f[i] # g[i] /\ n \in 0..(l + 1)
    BY <1>1, <2>1
  <2>3. f[i] = RestOf(fmt, num, str, l, i, f) /\ g[i] = RestOf(fmt, num, str, l, i, g)
    BY <2>2 DEF Rests
  <2>4. i <= l
    BY <2>2, <2>3 DEF RestOf
  <2>5. /\ n - 1 \in 0..(l + 1) /\ ~(n <= n - 1) /\ l + 2 - (n - 1) = i + 1
        /\ n - 2 \in 0..(l + 1) /\ ~(n <= n - 2) /\ l + 2 - (n - 2) = i + 2
    BY <2>2, <2>4
  <2>6. n - 1 \notin T /\ n - 2 \notin T
    BY <2>1, <2>5
  <2>7. f[i + 1] = g[i + 1] /\ f[i + 2] = g[i + 2]
    BY <1>1, <2>5, <2>6
  <2> QED
    BY <2>2, <2>3, <2>7 DEF RestOf
<1>4. l + 1 \in 0..(l + 1) /\ l + 2 - (l + 1) = 1
  OBVIOUS
<1> QED
  BY <1>1, <1>3, <1>4

\* What has been printed after n turns, and what the rest stands for, are
\* together what the format stands for.
Consistent(st, n, fmt, g) ==
    /\ st \in Config
    /\ st.state = "NORMAL" => g[1] = st.out \o g[n + 1]
    /\ st.state = "READ_FMT" => n >= 1 /\ fmt[n] = "%" /\ g[1] = st.out \o g[n]

Associate(s, t, u) == s \o (t \o u) = (s \o t) \o u

\* Concatenation is associative.
LEMMA ConcatAssoc ==
  ASSUME NEW S, NEW s \in Seq(S), NEW t \in Seq(S), NEW u \in Seq(S)
  PROVE  Associate(s, t, u)
<1>1. PICK a, b : a = t \o u /\ b = s \o t
  OBVIOUS
<1>2. /\ a \in Seq(S) /\ Len(a) = Len(t) + Len(u)
      /\ \A i \in 1..Len(a) : a[i] = IF i <= Len(t) THEN t[i] ELSE u[i - Len(t)]
  BY <1>1
<1>3. /\ b \in Seq(S) /\ Len(b) = Len(s) + Len(t)
      /\ \A i \in 1..Len(b) : b[i] = IF i <= Len(s) THEN s[i] ELSE t[i - Len(s)]
  BY <1>1
<1>4. PICK c, d : c = s \o a /\ d = b \o u
  OBVIOUS
<1>5. PICK k \in Nat, m \in Nat, n \in Nat : k = Len(s) /\ m = Len(t) /\ n = Len(u)
  OBVIOUS
<1>6. c \in Seq(S) /\ d \in Seq(S) /\ Len(c) = k + m + n /\ Len(d) = k + m + n
  <2>1. c \in Seq(S) /\ Len(c) = Len(s) + Len(a)
    <3>1. a \in Seq(S)
      BY <1>2
    <3>2. c = s \o a
      BY <1>4
    <3> QED
      BY <3>1, <3>2
  <2>2. d \in Seq(S) /\ Len(d) = Len(b) + Len(u)
    <3>1. b \in Seq(S)
      BY <1>3
    <3>2. d = b \o u
      BY <1>4
    <3> QED
      BY <3>1, <3>2
  <2>3. Len(a) = m + n /\ Len(b) = k + m
    BY <1>2, <1>3, <1>5
  <2> QED
    BY <1>5, <2>1, <2>2, <2>3
<1>7. ASSUME NEW i \in 1..(k + m + n) PROVE c[i] = d[i]
  <2>1. c[i] = IF i <= k THEN s[i] ELSE a[i - k]
    BY <1>2, <1>4, <1>5
  <2>2. d[i] = IF i <= k + m THEN b[i] ELSE u[i - (k + m)]
    <3>1. PICK h \in Nat : h = Len(b) /\ h = k + m
      BY <1>3, <1>5
    <3>2. i \in 1..(h + n)
      BY <3>1
    <3>3. d[i] = IF i <= h THEN b[i] ELSE u[i - h]
      BY <1>3, <1>4, <1>5, <3>1, <3>2
    <3> QED
      BY <3>1, <3>3
  <2>3. CASE i <= k
    BY <1>3, <1>5, <2>1, <2>2, <2>3
  <2>4. CASE i > k /\ i <= k + m
    <3>1. i - k \in 1..(m + n) /\ i - k <= m /\ i \in 1..(k + m) /\ ~(i <= k)
      BY <2>4
    <3>2. a[i - k] = t[i - k] /\ b[i] = t[i - k]
      BY <1>2, <1>3, <1>5, <3>1
    <3> QED
      BY <2>1, <2>2, <2>4, <3>1, <3>2
  <2>5. CASE i > k + m
    <3>1. /\ i - k \in 1..(m + n) /\ ~(i - k <= m) /\ ~(i <= k) /\ ~(i <= k + m)
          /\ (i - k) - m = i - (k + m)
      BY <2>5
    <3>2. a[i - k] = u[(i - k) - m]
      BY <1>2, <1>5, <3>1
    <3> QED
      BY <2>1, <2>2, <3>1, <3>2
  <2> QED
    BY <2>3, <2>4, <2>5
<1>8. c = d
  BY <1>6, <1>7
<1> QED
  BY <1>1, <1>4, <1>8 DEF Associate

\* A turn keeps what is printed and what is left together.
LEMMA ConsistentNext ==
  ASSUME NEW l \in Nat, NEW fmt \in [1..l -> LineChars], NEW num \in Int, NEW str \in Texts,
         NEW g \in [1..(l + 2) -> Seq(LineChars)], Rests(fmt, num, str, l, 1, g),
         NEW n \in 0..l, n < l, NEW st, Consistent(st, n, fmt, g),
         NEW r, r = Turn(st, fmt[n + 1], num, str)
  PROVE  Consistent(r, n + 1, fmt, g)
<1>1. PICK ch, c, o : ch = fmt[n + 1] /\ c = Conv(ch, num, str) /\ o = st.out
  OBVIOUS
<1>2. n + 1 \in 1..l /\ n + 1 \in 1..(l + 2) /\ n + 2 \in 1..(l + 2) /\ n + 1 <= l
      /\ (n + 1) + 1 = n + 2
  OBVIOUS
<1>3. ch \in LineChars /\ c \in Seq(LineChars) /\ o \in Seq(LineChars) /\ st \in Config
  BY <1>1, <1>2, ConvChars DEF Consistent, Config
<1>4. PICK y : y = g[n + 2] /\ y \in Seq(LineChars)
  BY <1>2
<1>5. g[n + 1] = RestOf(fmt, num, str, l, n + 1, g)
  BY <1>2 DEF Rests
<1>6. /\ r \in Config
      /\ st.state = "NORMAL" /\ ch = "%" => r.state = "READ_FMT" /\ r.out = o
      /\ st.state = "NORMAL" /\ ch # "%" => r.state = "NORMAL" /\ r.out = o \o <<ch>>
      /\ st.state = "READ_FMT" => r.state = "NORMAL" /\ r.out = o \o c
  <2>1. r = Turn(st, ch, num, str)
    BY <1>1
  <2>2. TurnMakes(st, ch, num, str, r)
    BY <1>3, <2>1, TurnIs
  <2> QED
    BY <1>1, <2>2 DEF TurnMakes
<1>7. CASE st.state = "NORMAL" /\ ch = "%"
  <2>1. g[1] = o \o g[n + 1]
    BY <1>1, <1>7 DEF Consistent
  <2>2. r.state = "READ_FMT" /\ r.out = o
    BY <1>6, <1>7
  <2> QED
    <3>1. n + 1 >= 1
      BY <1>2
    <3>2. fmt[n + 1] = "%"
      BY <1>1, <1>7
    <3>3. g[1] = r.out \o g[n + 1]
      BY <2>1, <2>2
    <3>4. r.state # "NORMAL"
      BY <2>2
    <3> QED
      BY <1>6, <3>1, <3>2, <3>3, <3>4, Zenon DEF Consistent
<1>8. CASE st.state = "NORMAL" /\ ch # "%"
  <2>1. g[1] = o \o g[n + 1]
    BY <1>1, <1>8 DEF Consistent
  <2>2. g[n + 1] = <<ch>> \o y
    BY <1>1, <1>2, <1>4, <1>5, <1>8 DEF RestOf
  <2>3. o \o (<<ch>> \o y) = (o \o <<ch>>) \o y
    <3>1. <<ch>> \in Seq(LineChars)
      BY <1>3
    <3>2. PICK one : one = <<ch>> /\ one \in Seq(LineChars)
      BY <3>1, Zenon
    <3>3. Associate(o, one, y)
      BY <1>3, <1>4, <3>2, ConcatAssoc
    <3> QED
      BY <3>2, <3>3 DEF Associate
  <2>4. r.state = "NORMAL" /\ r.out = o \o <<ch>>
    BY <1>6, <1>8
  <2>5. g[1] = r.out \o g[(n + 1) + 1]
    BY <1>2, <1>4, <2>1, <2>2, <2>3, <2>4
  <2> QED
    BY <1>6, <2>4, <2>5 DEF Consistent
<1>9. CASE st.state = "READ_FMT"
  <2>1. n >= 1 /\ fmt[n] = "%" /\ g[1] = o \o g[n]
    BY <1>1, <1>9 DEF Consistent
  <2>2. n \in 1..(l + 2) /\ ~(n > l) /\ n # l
    BY <2>1
  <2>3. g[n] = RestOf(fmt, num, str, l, n, g)
    BY <2>2 DEF Rests
  <2>4. g[n] = c \o y
    BY <1>1, <1>4, <2>1, <2>2, <2>3 DEF RestOf
  <2>5. o \o (c \o y) = (o \o c) \o y
    <3>1. Associate(o, c, y)
      BY <1>3, <1>4, ConcatAssoc
    <3> QED
      BY <3>1 DEF Associate
  <2>6. r.state = "NORMAL" /\ r.out = o \o c
    BY <1>6, <1>9
  <2>7. g[1] = r.out \o g[(n + 1) + 1]
    BY <1>2, <1>4, <2>1, <2>4, <2>5, <2>6
  <2> QED
    BY <1>6, <2>6, <2>7 DEF Consistent
<1> QED
  BY <1>3, <1>7, <1>8, <1>9 DEF Config

Printed(f, l, g) == f[l] \in Config /\ f[l].out = g[1]

(* All turns together print what the format stands for.                    *)
LEMMA TurnsPrint ==
  ASSUME NEW l \in Nat, NEW fmt \in [1..l -> LineChars], NEW num \in Int, NEW str \in Texts,
         NEW g \in [1..(l + 2) -> Seq(LineChars)], Rests(fmt, num, str, l, 1, g),
         NEW f, Turns(fmt, num, str, l, f)
  PROVE  Printed(f, l, g)
<1>1. PICK T : T = {n \in 0..l : ~Consistent(f[n], n, fmt, g)}
  OBVIOUS
<1>2. T \in SUBSET Nat
  BY <1>1
<1>3. ASSUME T # {} PROVE FALSE
  <2>1. PICK n \in T : \A m \in T : n <= m
    BY <1>2, <1>3, LeastNat
  <2>2. n \in 0..l /\ ~Consistent(f[n], n, fmt, g)
    BY <1>1, <2>1
  <2>3. f[n] = IF n = 0 THEN Start ELSE Turn(f[n-1], fmt[n], num, str)
    BY <2>2 DEF Turns
  <2>4. CASE n = 0
    <3>1. 0 + 1 \in 1..(l + 2) /\ 0 + 1 = 1
      OBVIOUS
    <3>2. PICK x : x = g[1] /\ x \in Seq(LineChars)
      BY <3>1
    <3>3. << >> \o x = x
      BY <3>2
    <3>4. Start \in Config /\ Start.state = "NORMAL" /\ Start.out = << >>
      <4>1. << >> \in Seq(LineChars)
        OBVIOUS
      <4> QED
        BY <4>1 DEF Start, Config
    <3>5. g[1] = Start.out \o g[0 + 1]
      BY <3>1, <3>2, <3>3, <3>4
    <3>6. Consistent(Start, 0, fmt, g)
      BY <3>4, <3>5 DEF Consistent
    <3> QED
      BY <2>2, <2>3, <2>4, <3>6
  <2>5. CASE n # 0
    <3>1. PICK m \in 0..l : m = n - 1 /\ n = m + 1 /\ m < l /\ ~(n <= m)
      BY <2>2, <2>5
    <3>2. m \notin T
      BY <2>1, <3>1
    <3>3. Consistent(f[m], m, fmt, g)
      BY <1>1, <3>1, <3>2
    <3>4. f[n] = Turn(f[m], fmt[m + 1], num, str)
      BY <2>3, <2>5, <3>1
    <3>5. Consistent(f[n], m + 1, fmt, g)
      BY <3>1, <3>3, <3>4, ConsistentNext
    <3> QED
      BY <2>2, <3>1, <3>5
  <2> QED
    BY <2>4, <2>5
<1>4. l \in 0..l
  OBVIOUS
<1>5. PICK st : st = f[l] /\ Consistent(st, l, fmt, g)
  BY <1>1, <1>3, <1>4
<1>6. st \in Config /\ st.out \in Seq(LineChars)
  BY <1>5 DEF Consistent, Config
<1>7. st.out \o << >> = st.out
  BY <1>6
<1>8. CASE st.state = "NORMAL"
  <2>1. g[1] = st.out \o g[l + 1]
    BY <1>5, <1>8 DEF Consistent
  <2>2. l + 1 \in 1..(l + 2) /\ l + 1 > l
    OBVIOUS
  <2>3. g[l + 1] = RestOf(fmt, num, str, l, l + 1, g)
    BY <2>2 DEF Rests
  <2>4. g[l + 1] = << >>
    BY <2>2, <2>3 DEF RestOf
  <2> QED
    BY <1>5, <1>6, <1>7, <2>1, <2>4 DEF Printed
<1>9. CASE st.state = "READ_FMT"
  <2>1. l >= 1 /\ fmt[l] = "%" /\ g[1] = st.out \o g[l]
    BY <1>5, <1>9 DEF Consistent
  <2>2. l \in 1..(l + 2) /\ ~(l > l)
    BY <2>1
  <2>3. g[l] = RestOf(fmt, num, str, l, l, g)
    BY <2>2 DEF Rests
  <2>4. g[l] = << >>
    BY <2>1, <2>2, <2>3 DEF RestOf
  <2> QED
    BY <1>5, <1>6, <1>7, <2>1, <2>4 DEF Printed
<1> QED
  BY <1>6, <1>8, <1>9 DEF Config

(* The string in a buffer that begins with the characters of out and is    *)
(* otherwise cleared.                                                      *)
LEMMA ClearedBuffer ==
  ASSUME NEW out \in Seq(LineChars), NEW top \in Nat, Len(out) < top, NEW z,
         NEW buf, buf = [i \in 0..(top - 1) |->
                           IF i < Len(out) THEN out[i + 1] ELSE IF i = z THEN NUL ELSE NUL]
  PROVE  StringOf(buf) = out
<1>1. PICK len \in Nat : len = Len(out) /\ len < top
  OBVIOUS
<1>2. NUL \notin LineChars
  <2>1. NUL \notin DigitChars
    BY CharsAre DEF DigitChars
  <2> QED
    BY <2>1 DEF LineChars, NUL
<1>3. \A i \in 0..(top - 1) : /\ i < len => buf[i] = out[i + 1] /\ i + 1 \in 1..len
                              /\ ~(i < len) => buf[i] = NUL
  BY <1>1
<1>4. PICK ends : ends = {i \in DOMAIN buf : buf[i] = NUL}
  OBVIOUS
<1>5. DOMAIN buf = 0..(top - 1) /\ len \in 0..(top - 1)
  BY <1>1
<1>6. \A i \in 1..len : out[i] \in LineChars
  BY <1>1
<1>7. \A i \in 0..(top - 1) : i \in ends <=> len <= i
  <2> SUFFICES ASSUME NEW i \in 0..(top - 1) PROVE i \in ends <=> len <= i
    OBVIOUS
  <2>1. i \in ends <=> buf[i] = NUL
    BY <1>4, <1>5
  <2>2. i < len => buf[i] # NUL
    BY <1>2, <1>3, <1>6
  <2>3. ~(i < len) => buf[i] = NUL
    BY <1>3
  <2> QED
    BY <2>1, <2>2, <2>3
<1>8. Min(ends) = len /\ ends # {}
  <2>1. ends \in SUBSET Int /\ len \in ends /\ \A x \in ends : len <= x
    BY <1>4, <1>5, <1>7
  <2> QED
    BY <2>1, MinIs
<1>9. StringOf(buf) = [i \in 1..len |-> buf[i-1]]
  BY <1>4, <1>8 DEF StringOf
<1>10. \A i \in 1..len : buf[i-1] = out[i]
  <2> SUFFICES ASSUME NEW i \in 1..len PROVE buf[i-1] = out[i]
    OBVIOUS
  <2>1. i - 1 \in 0..(top - 1) /\ i - 1 < len /\ (i - 1) + 1 = i
    BY <1>1
  <2> QED
    BY <1>3, <2>1
<1>11. out = [i \in 1..len |-> out[i]]
  BY <1>1
<1> QED
  BY <1>9, <1>10, <1>11

\* One call of log_printf, whatever the stack left in str_buf.
LEMMA LogCall ==
  ASSUME NEW fmt \in Formats, NEW num \in {-1, 5}, NEW str \in Texts, NEW stack,
         NEW buf, buf = [i \in 0..(LOG_BUF-1) |-> stack]
  PROVE  log_printf(buf, fmt, num, str) = Expansion(fmt, num, str)
<1>1. PICK l \in Nat : fmt \in [1..l -> LineChars] /\ Len(fmt) = l
  <2>1. PICK m \in 0..MaxFmt : fmt \in [1..m -> {"a", "%", "d", "x", "c", "s"}]
    BY DEF Formats, BoundedSeq, SeqOf
  <2>2. m \in Nat
    BY KlibAssumption
  <2>3. \A i \in 1..m : fmt[i] \in LineChars
    BY <2>1 DEF LineChars
  <2>4. fmt \in [1..m -> LineChars] /\ Len(fmt) = m
    BY <2>1, <2>2, <2>3
  <2> QED
    BY <2>2, <2>4
<1>2. num \in Int
  OBVIOUS
<1>3. PICK g : Rests(fmt, num, str, l, 1, g) /\ g \in [1..(l + 2) -> Seq(LineChars)]
  BY <1>1, <1>2, RestsExist
<1>4. Expansion(fmt, num, str) = g[1]
  <2>1. Expansion(fmt, num, str) = (CHOOSE f : Rests(fmt, num, str, Len(fmt), 1, f))[1]
    BY Zenon DEF Expansion, Rests, RestOf, Conv
  <2>2. PICK f : f = CHOOSE h : Rests(fmt, num, str, l, 1, h)
    OBVIOUS
  <2>3. Rests(fmt, num, str, l, 1, f)
    BY <1>3, <2>2, Zenon
  <2>4. f[1] = g[1]
    BY <1>3, <2>3, RestsAgree
  <2> QED
    BY <1>1, <2>1, <2>2, <2>4
<1>5. PICK f : f = CHOOSE h : Turns(fmt, num, str, l, h)
  OBVIOUS
<1>6. Turns(fmt, num, str, l, f)
  BY <1>5, TurnsExist, Zenon
<1>7. PICK out, nul : out = f[l].out /\ nul = f[l].nul
  OBVIOUS
<1>8. out = g[1] /\ out \in Seq(LineChars)
  <2>1. Printed(f, l, g)
    BY <1>1, <1>2, <1>3, <1>6, TurnsPrint
  <2> QED
    BY <1>7, <2>1 DEF Config, Printed
<1>9. PICK clear : clear = kernel_memset(buf, NUL)
  OBVIOUS
<1>10. clear = [i \in 0..(LOG_BUF-1) |-> NUL]
  BY <1>9 DEF kernel_memset
<1>11. kernel_vsprintf(clear, fmt, num, str)
         = [i \in DOMAIN clear |-> IF i < Len(out) THEN out[i + 1]
                                   ELSE IF i = nul THEN NUL ELSE clear[i]]
  <2>1. kernel_vsprintf(clear, fmt, num, str)
          = [i \in DOMAIN clear |->
               IF i < Len((CHOOSE h : Turns(fmt, num, str, Len(fmt), h))[Len(fmt)].out)
               THEN (CHOOSE h : Turns(fmt, num, str, Len(fmt), h))[Len(fmt)].out[i + 1]
               ELSE IF i = (CHOOSE h : Turns(fmt, num, str, Len(fmt), h))[Len(fmt)].nul
               THEN NUL ELSE clear[i]]
    BY Zenon DEF kernel_vsprintf, Turns, Turn, Start, Conv
  <2> QED
    BY <1>1, <1>5, <1>7, <2>1
<1>12. kernel_vsprintf(clear, fmt, num, str)
         = [i \in 0..(LOG_BUF-1) |-> IF i < Len(out) THEN out[i + 1]
                                     ELSE IF i = nul THEN NUL ELSE NUL]
  BY <1>10, <1>11
<1>13. Len(out) < LOG_BUF /\ LOG_BUF \in Nat
  BY <1>4, <1>8, LogAssumption, KlibAssumption
<1>14. StringOf(kernel_vsprintf(clear, fmt, num, str)) = out
  BY <1>8, <1>12, <1>13, ClearedBuffer
<1> QED
  BY <1>4, <1>8, <1>9, <1>14 DEF log_printf

(* log_printf sends what the format stands for, whatever the format and    *)
(* whatever was on the stack, although kernel_vsprintf never ends the      *)
(* line itself, as long as the line and a NUL fit into str_buf.            *)
THEOREM LogSafe == KLSpec => []LogLine
<1>1. KLInit => LogLine
  BY DEF KLInit, None, LogLine
<1>2. LogLine /\ [KLNext]_call => LogLine'
  <2> SUFFICES ASSUME LogLine, [KLNext]_call PROVE LogLine'
    OBVIOUS
  <2>1. CASE call_log
    <3>1. PICK fmt \in Formats, stack \in {NUL, "z"}, num \in {-1, 5}, str \in Texts :
              call' = [f |-> "log", fmt |-> fmt, num |-> num, str |-> str,
                       res |-> log_printf([i \in 0..(LOG_BUF-1) |-> stack], fmt, num, str)]
      BY <2>1, Zenon DEF call_log, Call
    <3>2. PICK buf, res : /\ buf = [i \in 0..(LOG_BUF-1) |-> stack]
                          /\ res = log_printf(buf, fmt, num, str)
      OBVIOUS
    <3>3. call' = [f |-> "log", fmt |-> fmt, num |-> num, str |-> str, res |-> res]
      BY <3>1, <3>2, Zenon
    <3>4. call'.fmt = fmt /\ call'.num = num /\ call'.str = str /\ call'.res = res
      BY <3>3
    <3>5. res = Expansion(fmt, num, str)
      BY <3>2, LogCall
    <3> QED
      BY <3>4, <3>5 DEF LogLine
  <2>2. ASSUME call'.f # "log" PROVE LogLine'
    BY <2>2 DEF LogLine
  <2>3. CASE call_itoa \/ call_strncpy \/ call_strncmp
    <3>1. call'.f # "log"
      BY <2>3 DEF call_itoa, call_strncpy, call_strncmp, Call
    <3> QED
      BY <2>2, <3>1
  <2>4. CASE call_file_name \/ call_memcpy
    <3>1. call'.f # "log"
      BY <2>4 DEF call_file_name, call_memcpy, Call
    <3> QED
      BY <2>2, <3>1
  <2>5. CASE call_list
    <3>1. call'.f # "log"
      BY <2>5 DEF call_list, Call
    <3> QED
      BY <2>2, <3>1
  <2>6. CASE Return
    <3>1. call'.f # "log"
      BY <2>6 DEF Return, None
    <3> QED
      BY <2>2, <3>1
  <2>7. CASE UNCHANGED call
    BY <2>7 DEF LogLine
  <2> QED
    BY <2>1, <2>3, <2>4, <2>5, <2>6, <2>7 DEF KLNext
<1> QED
  BY <1>1, <1>2, PTL DEF KLSpec
=============================================================================
