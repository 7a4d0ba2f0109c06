------------------------------- MODULE SList -------------------------------
(***************************************************************************)
(* The singly-linked list macros of server/queue.h that the server uses,   *)
(* pointer by pointer: the head's slh_first and the sle_next of every      *)
(* element.  TRASHIT does nothing in this build.  The memory of an element *)
(* that is not in use reads as Garbage.                                    *)
(***************************************************************************)
EXTENDS Integers, FiniteSets

CONSTANTS
  Elem,      \* the elements
  NULL,      \* the end of the list
  Garbage    \* what a read of freed or uninitialised memory gives

SLIST_INIT == [slh_first |-> NULL, sle_next |-> [e \in Elem |-> Garbage]]

SLIST_EMPTY(l) == l.slh_first = NULL

SLIST_INSERT_HEAD(l, elm) ==
  [slh_first |-> elm, sle_next |-> [l.sle_next EXCEPT ![elm] = l.slh_first]]

SLIST_REMOVE_HEAD(l) == [l EXCEPT !.slh_first = l.sle_next[l.slh_first]]

SLIST_REMOVE_AFTER(l, elm) ==
  [l EXCEPT !.sle_next = [@ EXCEPT ![elm] = l.sle_next[l.sle_next[elm]]]]

(* The loop looks for the element in front of elm.                         *)
SLIST_REMOVE(l, elm) ==
  IF l.slh_first = elm
  THEN SLIST_REMOVE_HEAD(l)
  ELSE SLIST_REMOVE_AFTER(l, CHOOSE e \in Elem : l.sle_next[e] = elm)

(* Faulty variant: SLIST_FOREACH, which looks at an element after the body *)
(* has freed it.                                                           *)
NextAfterBody(before, after, var) == after.sle_next[var]

(* The element SLIST_FOREACH_SAFE visits after var: it has been read       *)
(* before the body ran.                                                    *)
NextVisited(before, after, var) == before.sle_next[var]

(* free(elm).                                                              *)
FreeElem(l, elm) == [l EXCEPT !.sle_next = [@ EXCEPT ![elm] = Garbage]]

(* The elements in use, and those a walk from the head meets.              *)
Linked(l) == {e \in Elem : l.sle_next[e] # Garbage}

Visited(l) ==
  LET walk[n \in 0..Cardinality(Elem)] ==
        IF n = 0 THEN l.slh_first
        ELSE IF walk[n - 1] \in Elem THEN l.sle_next[walk[n - 1]]
        ELSE walk[n - 1]
  IN {walk[n] : n \in 0..Cardinality(Elem)}

=============================================================================
