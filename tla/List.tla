-------------------------------- MODULE List --------------------------------
(***************************************************************************)
(* The doubly linked lists of kernel/tools/list.c.  A list_t is a record   *)
(* [first, last, count]; the list_node_t's a list links are kept in a      *)
(* function k from nodes to records [pre, next], which the lists that link *)
(* the same kind of node share (run_node is on the ready or on the sleep   *)
(* list).  An operation takes the list l and the nodes k and gives both    *)
(* back; its assignments are made in the order of the C code, since l and  *)
(* n may alias.                                                            *)
(***************************************************************************)
EXTENDS Integers, SequencesExt

CONSTANTS Node, NULL

ASSUME NodeAssumption == NULL \notin Node

ListType == [first : Node \union {NULL}, last : Node \union {NULL}, count : Nat]
LinkType == [pre : Node \union {NULL}, next : Node \union {NULL}]

(* Faulty variants of definitions below, used to see that the properties   *)
(* notice such mistakes.                                                   *)

\* The successor keeps its pointer to the removed node.
bad_remove(l, k, n) ==
    [list |-> [first |-> IF n = l.first THEN k[n].next ELSE l.first,
               last  |-> IF n = l.last THEN k[n].pre ELSE l.last,
               count |-> l.count - 1],
     node |-> [m \in DOMAIN k |->
                 IF m = n THEN [pre |-> NULL, next |-> NULL]
                 ELSE IF m = k[n].pre THEN [k[m] EXCEPT !.next = k[n].next]
                 ELSE k[m]]]

list_init == [first |-> NULL, last |-> NULL, count |-> 0]

list_node_init == [pre |-> NULL, next |-> NULL]

list_is_empty(l) == l.count = 0

list_insert_first(l, k, n) ==
    LET k1 == [k EXCEPT ![n] = [pre |-> NULL, next |-> l.first]]
    IN  IF list_is_empty(l)
        THEN [list |-> [first |-> n, last |-> n, count |-> l.count + 1],
              node |-> k1]
        ELSE [list |-> [first |-> n, last |-> l.last, count |-> l.count + 1],
              node |-> [k1 EXCEPT ![l.first].pre = n]]

list_insert_last(l, k, n) ==
    LET k1 == [k EXCEPT ![n] = [pre |-> l.last, next |-> NULL]]
    IN  IF list_is_empty(l)
        THEN [list |-> [first |-> n, last |-> n, count |-> l.count + 1],
              node |-> k1]
        ELSE [list |-> [first |-> l.first, last |-> n, count |-> l.count + 1],
              node |-> [k1 EXCEPT ![l.last].next = n]]

(* On a list that is not empty; the node taken off is l.first.             *)
list_remove_first(l, k) ==
    LET n  == l.first
        f  == k[n].next
        k1 == IF f = NULL THEN k ELSE [k EXCEPT ![f].pre = NULL]
    IN  [list |-> [first |-> f,
                   last  |-> IF f = NULL THEN NULL ELSE l.last,
                   count |-> l.count - 1],
         node |-> [k1 EXCEPT ![n] = list_node_init]]

list_remove(l, k, n) ==
    LET k1 == IF k[n].pre = NULL THEN k
              ELSE [k EXCEPT ![k[n].pre].next = k[n].next]
        k2 == IF k1[n].next = NULL THEN k1
              ELSE [k1 EXCEPT ![k1[n].next].pre = k1[n].pre]
    IN  [list |-> [first |-> IF n = l.first THEN k[n].next ELSE l.first,
                   last  |-> IF n = l.last THEN k[n].pre ELSE l.last,
                   count |-> l.count - 1],
         node |-> [k2 EXCEPT ![n] = list_node_init]]

(* List l, with its nodes in k, links exactly the nodes of s in the order  *)
(* of s, from first to last and from last to first.                        *)
Represents(l, k, s) ==
    /\ IsInjective(s)
    /\ l.count = Len(s)
    /\ l.first = (IF s = << >> THEN NULL ELSE s[1])
    /\ l.last = (IF s = << >> THEN NULL ELSE s[Len(s)])
    /\ \A i \in 1..Len(s) :
          /\ k[s[i]].pre = (IF i = 1 THEN NULL ELSE s[i-1])
          /\ k[s[i]].next = (IF i = Len(s) THEN NULL ELSE s[i+1])
=============================================================================
