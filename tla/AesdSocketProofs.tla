------------------------- MODULE AesdSocketProofs --------------------------
(***************************************************************************)
(* Theorems about the control of the server (AesdSocket): the main loop,   *)
(* the thread list, the descriptors, the mutex and the exit.  They hold    *)
(* for any number of clients and for both builds.  What is in the buffers  *)
(* and in the file is the subject of AesdSocketDataProofs.                 *)
(*                                                                         *)
(* IInv is the inductive invariant.  The list macros are looked at first:  *)
(* a heap of pointers is a list when some sequence of different items runs *)
(* through it from the head to the end, and inserting or removing an item  *)
(* keeps it one.  Then come the types, one lemma for each other part of    *)
(* IInv with one step for each action, and the theorems.                   *)
(***************************************************************************)
EXTENDS AesdSocket, Induction, FiniteSetTheorems, SequenceTheorems

(* s is the list l, from its head on, n elements long.                     *)
ListOf(l, n, s) ==
  /\ \A i, j \in 1..n : s[i] = s[j] => i = j
  /\ l.slh_first = IF n = 0 THEN NoOne ELSE s[1]
  /\ \A i \in 1..n : l.sle_next[s[i]] = IF i = n THEN NoOne ELSE s[i + 1]
  /\ \A e \in Conn : l.sle_next[e] # Garbage => \E i \in 1..n : e = s[i]

(* The pointers of l make a list.                                          *)
IsList(l) == \E n \in Nat : \E s \in [1..n -> Conn] : ListOf(l, n, s)

(* The head and the pointers of a list, whatever they make.                *)
ListType == [slh_first : Conn \cup {NoOne}, sle_next : [Conn -> Conn \cup {NoOne, Garbage}]]

(* The end of a list and freed memory are no items.                        *)
Outside == NoOne \notin Conn /\ Garbage \notin Conn /\ NoOne # Garbage

-----------------------------------------------------------------------------
(* The list of threads is a list, and join_threads stands on it.           *)
ListShape == IsList(linked_list)
CursorOnList == main_pc = "join" => cursor \in Linked(linked_list) \cup {NoOne}

(* What the state of the loop is at each of its places.  The loop ends     *)
(* only after a look at an empty list with the signal caught.              *)
MainPlace ==
  /\ main_pc \in {"create", "insert"} => current_state = "CreatingThread"
  /\ main_pc \in {"startup", "join", "gate", "accept", "shutdown", "exited"} =>
       current_state = "Waiting"
  /\ main_pc \in {"startup", "shutdown", "exited"} => linked_list.slh_first = NoOne
  /\ ~keep_looping =>
       /\ main_pc \in {"gate", "top", "shutdown", "exited", "killed"}
       /\ current_state = "Waiting" /\ linked_list.slh_first = NoOne /\ caught_signal

(* Who has a descriptor and no thread, and whose it is.                    *)
FdPlace ==
  main_pc # "killed" =>
    /\ current_state = "CreatingThread" =>
         client_fd \in Conn /\ fd[client_fd] = IF main_pc = "insert" THEN "open" ELSE "pending"
    /\ main_pc = "insert" => client_fd \notin Linked(linked_list)
    /\ \A c \in Conn : fd[c] \in {"none", "backlog", "pending", "leaked"} => thread[c] = "none"
    /\ \A c \in Conn : peer[c] = "none" => fd[c] = "none"

(* After a late accept the main loop does not come back to accept.         *)
LateKnown == late # {} => caught_signal /\ main_pc # "accept"

(* The char device build leaves the mutex alone.                           *)
MutexUnused == USE_AESD_CHAR_DEVICE => file_mutex = NoOne

(* The inductive invariant.                                                *)
IInv ==
  /\ TypeOK /\ ListShape /\ CursorOnList /\ MainPlace /\ FdPlace /\ FdDiscipline
  /\ MutexDiscipline /\ MutexUnused /\ LateKnown /\ OneLateAccept

-----------------------------------------------------------------------------
(* The three values that are not connections.                              *)
LEMMA OutsideConn == Outside
BY SocketAssumption DEF Outside

(* An element put at the head of a list makes a list.                      *)
LEMMA InsertHead ==
  ASSUME NEW l \in ListType, IsList(l), NEW e \in Conn, e \notin Linked(l)
  PROVE  /\ SLIST_INSERT_HEAD(l, e) \in ListType
         /\ IsList(SLIST_INSERT_HEAD(l, e))
         /\ Linked(SLIST_INSERT_HEAD(l, e)) = Linked(l) \cup {e}
<1> DEFINE k == SLIST_INSERT_HEAD(l, e)
<1>0. PICK n \in Nat : \E s \in [1..n -> Conn] : ListOf(l, n, s)
  BY DEF IsList
<1>1. PICK s \in [1..n -> Conn] : ListOf(l, n, s)
  BY <1>0
<1> DEFINE t == [i \in 1..n + 1 |-> IF i = 1 THEN e ELSE s[i - 1]]
<1>2. /\ k \in ListType /\ k.slh_first = e /\ k.sle_next[e] = l.slh_first
      /\ \A f \in Conn : f # e => k.sle_next[f] = l.sle_next[f]
  BY DEF ListType, SLIST_INSERT_HEAD
<1>3. \A i \in 1..n : s[i] # e /\ s[i] \in Conn
  BY <1>1, OutsideConn DEF Linked, ListOf, Outside
<1>4. t \in [1..n + 1 -> Conn] /\ n + 1 \in Nat
  OBVIOUS
<1>5. ListOf(k, n + 1, t)
  <2> HIDE DEF k
  <2>1. \A i, j \in 1..n + 1 : t[i] = t[j] => i = j
    BY <1>1, <1>3 DEF ListOf
  <2>2. k.slh_first = t[1]
    BY <1>2
  <2>3. ASSUME NEW i \in 1..n + 1
        PROVE  k.sle_next[t[i]] = IF i = n + 1 THEN NoOne ELSE t[i + 1]
    <3>1. CASE i = 1
      <4>1. t[i] = e /\ (n # 0 => t[i + 1] = s[1])
        BY <3>1
      <4>. QED
        BY <1>1, <1>2, <3>1, <4>1 DEF ListOf
    <3>2. CASE i # 1
      <4>1. i - 1 \in 1..n /\ t[i] = s[i - 1] /\ (i # n + 1 => t[i + 1] = s[i])
        BY <3>2
      <4>2. k.sle_next[t[i]] = l.sle_next[s[i - 1]]
        BY <1>2, <1>3, <4>1
      <4>. QED
        BY <1>1, <4>1, <4>2 DEF ListOf
    <3>. QED
      BY <3>1, <3>2
  <2>4. ASSUME NEW f \in Conn, k.sle_next[f] # Garbage PROVE \E i \in 1..n + 1 : f = t[i]
    <3>1. CASE f = e
      BY <3>1
    <3>2. CASE f # e
      <4>1. PICK i \in 1..n : f = s[i]
        BY <1>1, <1>2, <2>4, <3>2 DEF ListOf
      <4>. QED
        BY <4>1
    <3>. QED
      BY <3>1, <3>2
  <2>. QED
    BY <2>1, <2>2, <2>3, <2>4 DEF ListOf
<1>6. Linked(k) = Linked(l) \cup {e}
  <2> HIDE DEF k
  <2>1. k.sle_next[e] # Garbage
    BY <1>2, OutsideConn DEF ListType, Outside
  <2>. QED
    BY <1>2, <2>1 DEF Linked
<1>. QED
  BY <1>2, <1>4, <1>5, <1>6 DEF IsList

(* A list without its element e, freed, is a list; the element behind e is *)
(* another one, and is still there.                                        *)
LEMMA RemoveElement ==
  ASSUME NEW l \in ListType, IsList(l), NEW e \in Linked(l)
  PROVE  LET k == FreeElem(SLIST_REMOVE(l, e), e) IN
         /\ k \in ListType
         /\ IsList(k)
         /\ Linked(k) = Linked(l) \ {e}
         /\ l.sle_next[e] \in Linked(k) \cup {NoOne}
<1> DEFINE k == FreeElem(SLIST_REMOVE(l, e), e)
<1>0. PICK n \in Nat : \E s \in [1..n -> Conn] : ListOf(l, n, s)
  BY DEF IsList
<1>1. PICK s \in [1..n -> Conn] : ListOf(l, n, s)
  BY <1>0
<1>2. PICK m \in 1..n : e = s[m]
  BY <1>1 DEF Linked, ListOf
<1>3. e \in Conn
  BY DEF Linked
<1>4. ASSUME NEW f \in Conn, l.sle_next[f] = e
      PROVE  m # 1 /\ f = s[m - 1]
  <2>1. PICK i \in 1..n : f = s[i]
    BY <1>1, <1>3, <1>4, OutsideConn DEF ListOf, Outside
  <2>2. i # n /\ s[i + 1] = e
    BY <1>1, <1>3, <1>4, <2>1, OutsideConn DEF ListOf, Outside
  <2>3. i + 1 \in 1..n
    BY <2>2
  <2>4. i + 1 = m
    BY <1>1, <1>2, <2>2, <2>3 DEF ListOf
  <2>. QED
    BY <2>1, <2>4
<1>5. m # 1 => s[m - 1] \in Conn /\ s[m - 1] # e /\ l.sle_next[s[m - 1]] = e
  BY <1>1, <1>2 DEF ListOf
<1>6. m # 1 => (CHOOSE f \in Conn : l.sle_next[f] = e) = s[m - 1]
  BY <1>4, <1>5
<1>7. l.slh_first = e <=> m = 1
  BY <1>1, <1>2 DEF ListOf
<1>8. /\ k \in ListType
      /\ k.slh_first = IF m = 1 THEN l.sle_next[e] ELSE l.slh_first
      /\ k.sle_next[e] = Garbage
      /\ m # 1 => k.sle_next[s[m - 1]] = l.sle_next[e]
      /\ \A f \in Conn : f # e /\ (m # 1 => f # s[m - 1]) => k.sle_next[f] = l.sle_next[f]
  <2>0. l.sle_next[e] \in Conn \cup {NoOne}
    BY <1>1, <1>2, <1>3 DEF ListOf
  <2> DEFINE r == SLIST_REMOVE(l, e)
  <2>1. /\ r \in ListType
        /\ r.slh_first = IF m = 1 THEN l.sle_next[e] ELSE l.slh_first
        /\ r.sle_next[e] \in Conn \cup {NoOne, Garbage}
        /\ m # 1 => r.sle_next[s[m - 1]] = l.sle_next[e]
        /\ \A f \in Conn : (m # 1 => f # s[m - 1]) => r.sle_next[f] = l.sle_next[f]
    <3>1. CASE m = 1
      <4>1. r = [l EXCEPT !.slh_first = l.sle_next[e]]
        BY <1>7, <3>1 DEF SLIST_REMOVE, SLIST_REMOVE_HEAD
      <4>. QED
        BY <1>3, <2>0, <3>1, <4>1 DEF ListType
    <3>2. CASE m # 1
      <4>1. r = SLIST_REMOVE_AFTER(l, s[m - 1])
        BY <1>6, <1>7, <3>2 DEF SLIST_REMOVE
      <4>2. r = [l EXCEPT !.sle_next = [@ EXCEPT ![s[m - 1]] = l.sle_next[e]]]
        BY <1>5, <3>2, <4>1 DEF SLIST_REMOVE_AFTER
      <4> HIDE DEF r
      <4> DEFINE g == [l.sle_next EXCEPT ![s[m - 1]] = l.sle_next[e]]
      <4>3. /\ g \in [Conn -> Conn \cup {NoOne, Garbage}]
            /\ g[s[m - 1]] = l.sle_next[e]
            /\ \A f \in Conn : f # s[m - 1] => g[f] = l.sle_next[f]
        BY <1>5, <2>0, <3>2 DEF ListType
      <4>4. r \in ListType /\ r.slh_first = l.slh_first /\ r.sle_next = g
        BY <4>2, <4>3 DEF ListType
      <4> HIDE DEF g
      <4>. QED
        BY <1>3, <3>2, <4>3, <4>4
    <3>. QED
      BY <3>1, <3>2
  <2>2. k = [r EXCEPT !.sle_next = [@ EXCEPT ![e] = Garbage]]
    BY DEF FreeElem
  <2> HIDE DEF r, k
  <2>. QED
    BY <1>3, <1>5, <2>0, <2>1, <2>2 DEF ListType
<1> HIDE DEF k
<1> DEFINE t == [i \in 1..n - 1 |-> IF i < m THEN s[i] ELSE s[i + 1]]
<1>9. n - 1 \in Nat /\ t \in [1..n - 1 -> Conn]
  OBVIOUS
<1>10. ListOf(k, n - 1, t)
  <2>1. \A i, j \in 1..n - 1 : t[i] = t[j] => i = j
    BY <1>1 DEF ListOf
  <2>2. k.slh_first = IF n - 1 = 0 THEN NoOne ELSE t[1]
    BY <1>1, <1>2, <1>8 DEF ListOf
  <2>3. ASSUME NEW i \in 1..n - 1
        PROVE  k.sle_next[t[i]] = IF i = n - 1 THEN NoOne ELSE t[i + 1]
    <3>1. CASE i < m - 1
      <4>1. t[i] = s[i] /\ t[i + 1] = s[i + 1] /\ i # n - 1 /\ i # n
        BY <3>1
      <4>2. s[i] # e /\ s[i] # s[m - 1] /\ s[i] \in Conn
        BY <1>1, <1>2, <3>1 DEF ListOf
      <4>. QED
        BY <1>1, <1>8, <4>1, <4>2 DEF ListOf
    <3>2. CASE i = m - 1
      <4>1. m # 1 /\ t[i] = s[m - 1] /\ (i # n - 1 => t[i + 1] = s[m + 1])
        BY <3>2
      <4>2. l.sle_next[e] = IF m = n THEN NoOne ELSE s[m + 1]
        BY <1>1, <1>2 DEF ListOf
      <4>. QED
        BY <1>8, <3>2, <4>1, <4>2
    <3>3. CASE i >= m
      <4>1. t[i] = s[i + 1] /\ (i # n - 1 => t[i + 1] = s[i + 2]) /\ i + 1 \in 1..n
        BY <3>3
      <4>2. s[i + 1] # e /\ (m # 1 => s[i + 1] # s[m - 1]) /\ s[i + 1] \in Conn
        BY <1>1, <1>2, <3>3, <4>1 DEF ListOf
      <4>. QED
        BY <1>1, <1>8, <4>1, <4>2 DEF ListOf
    <3>. QED
      BY <3>1, <3>2, <3>3
  <2>4. ASSUME NEW f \in Conn, k.sle_next[f] # Garbage PROVE \E i \in 1..n - 1 : f = t[i]
    <3>1. f # e
      BY <1>8, <2>4
    <3>2. l.sle_next[f] # Garbage
      <4>1. CASE m # 1 /\ f = s[m - 1]
        BY <1>3, <1>5, <4>1, OutsideConn DEF Outside
      <4>2. CASE ~(m # 1 /\ f = s[m - 1])
        BY <1>8, <2>4, <3>1, <4>2
      <4>. QED
        BY <4>1, <4>2
    <3>3. PICK i \in 1..n : f = s[i]
      BY <1>1, <3>2 DEF ListOf
    <3>4. CASE i < m
      BY <3>3, <3>4
    <3>5. CASE i > m
      <4>1. i - 1 \in 1..n - 1 /\ t[i - 1] = s[i]
        BY <3>5
      <4>. QED
        BY <3>3, <4>1
    <3>. QED
      BY <1>2, <3>1, <3>3, <3>4, <3>5
  <2>. QED
    BY <2>1, <2>2, <2>3, <2>4 DEF ListOf
<1>11. Linked(k) = Linked(l) \ {e}
  <2>1. ASSUME NEW f \in Conn, f # e PROVE k.sle_next[f] # Garbage <=> l.sle_next[f] # Garbage
    <3>1. CASE m # 1 /\ f = s[m - 1]
      <4>1. l.sle_next[e] # Garbage /\ l.sle_next[f] = e
        BY <1>1, <1>5, <3>1 DEF Linked
      <4>. QED
        BY <1>3, <1>8, <3>1, <4>1, OutsideConn DEF Outside
    <3>2. CASE ~(m # 1 /\ f = s[m - 1])
      BY <1>8, <2>1, <3>2
    <3>. QED
      BY <3>1, <3>2
  <2>. QED
    BY <1>8, <2>1 DEF Linked
<1>12. l.sle_next[e] \in Linked(k) \cup {NoOne}
  <2>1. CASE m = n
    BY <1>1, <1>2, <2>1 DEF ListOf
  <2>2. CASE m # n
    <3>1. m + 1 \in 1..n /\ l.sle_next[e] = s[m + 1] /\ s[m + 1] # e /\ s[m + 1] \in Conn
      BY <1>1, <1>2, <2>2 DEF ListOf
    <3>2. l.sle_next[s[m + 1]] # Garbage
      BY <1>1, <3>1, OutsideConn DEF ListOf, Outside
    <3>. QED
      BY <1>11, <3>1, <3>2 DEF Linked
  <2>. QED
    BY <2>1, <2>2
<1>. QED
  BY <1>8, <1>9, <1>10, <1>11, <1>12 DEF IsList, k

(* A list without a first element has none.                                *)
LEMMA EmptyList ==
  ASSUME NEW l \in ListType, IsList(l), l.slh_first = NoOne
  PROVE  Linked(l) = {}
<1>0. PICK n \in Nat : \E s \in [1..n -> Conn] : ListOf(l, n, s)
  BY DEF IsList
<1>1. PICK s \in [1..n -> Conn] : ListOf(l, n, s)
  BY <1>0
<1>2. n = 0
  <2> SUFFICES ASSUME n # 0 PROVE FALSE
    OBVIOUS
  <2>1. s[1] \in Conn /\ l.slh_first = s[1]
    BY <1>1 DEF ListOf
  <2>. QED
    BY <2>1, OutsideConn DEF Outside
<1>. QED
  BY <1>1, <1>2 DEF ListOf, Linked

(* The element behind an element of a list is one too, or the end.         *)
LEMMA NextOnList ==
  ASSUME NEW l \in ListType, IsList(l)
  PROVE  /\ l.slh_first \in Linked(l) \cup {NoOne}
         /\ \A e \in Linked(l) : l.sle_next[e] \in Linked(l) \cup {NoOne}
<1>0. PICK n \in Nat : \E s \in [1..n -> Conn] : ListOf(l, n, s)
  BY DEF IsList
<1>1. PICK s \in [1..n -> Conn] : ListOf(l, n, s)
  BY <1>0
<1>2. \A i \in 1..n : s[i] \in Linked(l)
  BY <1>1, OutsideConn DEF ListOf, Linked, Outside
<1>3. l.slh_first \in Linked(l) \cup {NoOne}
  BY <1>1, <1>2 DEF ListOf
<1>4. ASSUME NEW e \in Linked(l) PROVE l.sle_next[e] \in Linked(l) \cup {NoOne}
  <2>1. PICK i \in 1..n : e = s[i]
    BY <1>1 DEF Linked, ListOf
  <2>2. CASE i = n
    BY <1>1, <2>1, <2>2 DEF ListOf
  <2>3. CASE i # n
    <3>1. i + 1 \in 1..n /\ l.sle_next[e] = s[i + 1]
      BY <1>1, <2>1, <2>3 DEF ListOf
    <3>. QED
      BY <1>2, <3>1
  <2>. QED
    BY <2>2, <2>3
<1>. QED
  BY <1>3, <1>4

(* A walk over a list meets its elements, and the end.                     *)
LEMMA WalkVisits ==
  ASSUME NEW l \in ListType, IsList(l)
  PROVE  Visited(l) = Linked(l) \cup {NoOne}
<1>0. PICK n \in Nat : \E s \in [1..n -> Conn] : ListOf(l, n, s)
  BY DEF IsList
<1>1. PICK s \in [1..n -> Conn] : ListOf(l, n, s)
  BY <1>0
<1> DEFINE N == Cardinality(Conn)
<1>2. N \in Nat /\ n <= N
  <2>1. s \in Injection(1..n, Conn)
    BY <1>1 DEF ListOf, Injection, IsInjective
  <2>2. Cardinality(1..n) = n
    BY FS_Interval
  <2>. QED
    BY <2>1, <2>2, FS_Injection, FS_CardinalityType, SocketAssumption
<1> HIDE DEF N
<1> DEFINE body(v) == [i \in 0..N |-> IF i = 0 THEN l.slh_first
                                     ELSE IF v[i - 1] \in Conn THEN l.sle_next[v[i - 1]]
                                     ELSE v[i - 1]]
           walk == CHOOSE v : v = body(v)
           w == [i \in 0..N |-> IF i < n THEN s[i + 1] ELSE NoOne]
<1>3. Visited(l) = {walk[i] : i \in 0..N}
  BY DEF Visited, N
<1>4. w = body(w)
  <2>1. ASSUME NEW i \in 0..N PROVE w[i] = body(w)[i]
    <3>1. CASE i = 0
      BY <1>1, <1>2, <3>1 DEF ListOf
    <3>2. CASE i # 0 /\ i - 1 < n
      <4>1. i - 1 \in 0..N /\ w[i - 1] = s[i] /\ s[i] \in Conn
        BY <1>2, <3>2
      <4>2. l.sle_next[s[i]] = IF i = n THEN NoOne ELSE s[i + 1]
        BY <1>1, <3>2 DEF ListOf
      <4>. QED
        BY <3>2, <4>1, <4>2
    <3>3. CASE i # 0 /\ i - 1 >= n
      <4>1. i - 1 \in 0..N /\ w[i - 1] = NoOne /\ w[i] = NoOne /\ NoOne \notin Conn
        BY <1>2, <3>3, OutsideConn DEF Outside
      <4>. QED
        BY <3>3, <4>1
    <3>. QED
      BY <1>2, <3>1, <3>2, <3>3
  <2> DEFINE b == body(w)
  <2>2. \A i \in 0..N : w[i] = b[i]
    BY <2>1
  <2>3. w = [i \in 0..N |-> w[i]] /\ b = [i \in 0..N |-> b[i]]
    OBVIOUS
  <2> HIDE DEF w, b
  <2>4. w = b
    BY <2>2, <2>3
  <2>. QED
    BY <2>4 DEF b
<1>5. walk = body(walk)
  BY <1>4
<1>6. \A i \in 0..N : walk[i] = w[i]
  <2> HIDE DEF walk
  <2> DEFINE T == {i \in 0..N : walk[i] = w[i]}
  <2>1. walk[0] = l.slh_first /\ w[0] = l.slh_first
    <3>1. 0 \in 0..N
      BY <1>2
    <3> HIDE DEF w
    <3>. QED
      BY <1>4, <1>5, <3>1
  <2>2. ASSUME NEW i \in 0..N, i \in T, i < N PROVE i + 1 \in T
    <3>1. i + 1 \in 0..N /\ i + 1 # 0 /\ (i + 1) - 1 = i
      BY <1>2, <2>2
    <3> HIDE DEF w
    <3>2. walk[i + 1] = IF walk[i] \in Conn THEN l.sle_next[walk[i]] ELSE walk[i]
      BY <1>5, <3>1
    <3>3. w[i + 1] = IF w[i] \in Conn THEN l.sle_next[w[i]] ELSE w[i]
      BY <1>4, <3>1
    <3>. QED
      BY <2>2, <3>1, <3>2, <3>3
  <2>3. 0 \in T
    BY <1>2, <2>1
  <2> HIDE DEF T
  <2>4. 0..N \subseteq T
    BY <1>2, <2>2, <2>3, InductionUpTo
  <2>. QED
    BY <2>4 DEF T
<1>7. {walk[i] : i \in 0..N} = {w[i] : i \in 0..N}
  BY <1>6
<1>8. ASSUME NEW x \in Linked(l) \cup {NoOne} PROVE \E i \in 0..N : x = w[i]
  <2>1. CASE x = NoOne
    BY <1>2, <2>1
  <2>2. CASE x # NoOne
    <3>1. PICK i \in 1..n : x = s[i]
      BY <1>1, <1>8, <2>2 DEF ListOf, Linked
    <3>2. i - 1 \in 0..N /\ w[i - 1] = s[i]
      BY <1>2
    <3>. QED
      BY <3>1, <3>2
  <2>. QED
    BY <2>1, <2>2
<1>9. ASSUME NEW i \in 0..N PROVE w[i] \in Linked(l) \cup {NoOne}
  <2>1. CASE i < n
    <3>1. i + 1 \in 1..n /\ w[i] = s[i + 1] /\ s[i + 1] \in Conn
      BY <1>2, <2>1
    <3>2. l.sle_next[s[i + 1]] # Garbage
      BY <1>1, <3>1, OutsideConn DEF ListOf, Outside
    <3>. QED
      BY <3>1, <3>2 DEF Linked
  <2>2. CASE ~(i < n)
    BY <2>2
  <2>. QED
    BY <2>1, <2>2
<1> HIDE DEF w, walk
<1>. QED
  BY <1>3, <1>7, <1>8, <1>9

(* The sizes and bounds are positive numbers.                              *)
LEMMA Bounds ==
  /\ MaxOps \in Nat \ {0} /\ RecvMax \in Nat \ {0} /\ RecvGrow \in Nat \ {0}
  /\ ReadMax \in Nat \ {0} /\ SndCap \in Nat \ {0}
BY SocketAssumption

(* k items missing are made up for by the growth of that many iterations.  *)
LEMMA GrownEnough ==
  ASSUME NEW k \in Nat
  PROVE  LET i == (k + RecvGrow - 1) \div RecvGrow IN
         i \in Nat /\ i * RecvGrow \in Nat /\ i * RecvGrow >= k
<1> DEFINE i == (k + RecvGrow - 1) \div RecvGrow
           r == (k + RecvGrow - 1) % RecvGrow
<1>1. RecvGrow \in Nat /\ RecvGrow > 0 /\ k + RecvGrow - 1 \in Nat
  BY Bounds
<1>2. /\ i \in Int /\ r \in 0..RecvGrow - 1
      /\ k + RecvGrow - 1 = RecvGrow * i + r
  BY <1>1
<1> HIDE DEF i, r
<1>3. RecvGrow * i \in Int /\ RecvGrow * i >= k /\ i * RecvGrow = RecvGrow * i
  BY <1>1, <1>2
<1>4. i >= 0
  BY <1>1, <1>2, <1>3
<1>. QED
  BY <1>1, <1>2, <1>3, <1>4 DEF i

(* A packet ends at its first newline: no earlier item ends it.            *)
LEMMA PacketBytesBound ==
  ASSUME NEW s \in Seq(Item)
  PROVE  /\ PacketBytes(s) \in 0..Len(s)
         /\ Ends(s) = {} => PacketBytes(s) = Len(s)
         /\ Ends(s) # {} => /\ PacketBytes(s) \in Ends(s)
                           /\ \A i \in Ends(s) : PacketBytes(s) <= i
<1>1. Len(s) \in Nat /\ Ends(s) \subseteq 1..Len(s)
  BY DEF Ends
<1>2. CASE Ends(s) = {}
  BY <1>1, <1>2 DEF PacketBytes
<1>3. CASE Ends(s) # {}
  <2>1. \E i \in Ends(s) : \A j \in Ends(s) : i <= j
    <3>1. Ends(s) \subseteq Nat
      BY <1>1
    <3>. QED
      BY <1>3, <3>1, LeastNumber
  <2>2. PacketBytes(s) = CHOOSE i \in Ends(s) : \A j \in Ends(s) : i <= j
    BY <1>3 DEF PacketBytes
  <2>3. PacketBytes(s) \in Ends(s) /\ \A j \in Ends(s) : PacketBytes(s) <= j
    BY <2>1, <2>2
  <2>. QED
    BY <1>1, <1>3, <2>3
<1>. QED
  BY <1>2, <1>3

-----------------------------------------------------------------------------
(* What the steps of one party leave to the others.                        *)

(* The main thread creates threads and leaves the rest of them alone.      *)
LEMMA MainFrame ==
  ASSUME MainStep \/ ClockTick \/ signal_handler
  PROVE  UNCHANGED <<keep, status, buffers, replyvars, sent>>
<1> USE DEF loopvars, clock, filevars, growth, buffers, replyvars, status, threadvars, peervars
<1>1. CASE startup \/ main_loop \/ TimestampLock \/ write_time_stamp \/ TimestampUnlock
  BY <1>1 DEF startup, main_loop, TimestampLock, write_time_stamp, TimestampUnlock
<1>2. CASE join_threads \/ CheckExit \/ AcceptGate \/ AcceptFails
  BY <1>2 DEF join_threads, CheckExit, AcceptGate, AcceptFails
<1>3. CASE \E c \in Conn : check_for_client_connection(c)
  BY <1>3 DEF check_for_client_connection
<1>4. CASE create_thread \/ InsertThread \/ CreateFails \/ shutting_down
  BY <1>4 DEF create_thread, InsertThread, CreateFails, shutting_down
<1>5. CASE ClockTick \/ signal_handler
  BY <1>5 DEF ClockTick, signal_handler
<1>. QED
  BY <1>1, <1>2, <1>3, <1>4, <1>5 DEF MainStep

(* What the step of c's thread does to the main thread: nothing, unless    *)
(* its send kills the process.                                             *)
LEMMA ThreadFrame ==
  ASSUME NEW c \in Conn, ThreadStep(c) \/ Interrupted(c), ~SendKills(c)
  PROVE  ~Dead /\ UNCHANGED <<notthread, sent>>
<1> USE DEF notthread, filevars, growth, buffers, replyvars, status, peervars, At, Goto, GiveUp, SendFails
<1>1. CASE main_loop_thread(c) \/ thread_cleanup(c)
  BY <1>1 DEF main_loop_thread, thread_cleanup
<1>2. CASE waiting_for_data(c) \/ GrowFails(c)
  BY <1>2 DEF waiting_for_data, GrowFails, Received
<1>3. CASE RecvEnds(c) \/ RecvReset(c) \/ RecvInterrupted(c)
  BY <1>3 DEF RecvEnds, RecvReset, RecvInterrupted
<1>4. CASE process_received_data(c) \/ SendLock(c) \/ write_to_file(c) \/ WriteFails(c)
  BY <1>4 DEF process_received_data, SendLock, write_to_file, WriteFails
<1>5. CASE read_from_file(c) \/ ReadEnds(c) \/ ReadFails(c)
  BY <1>5 DEF read_from_file, ReadEnds, ReadFails
<1>6. CASE send(c) \/ SendToClosed(c) \/ SendError(c) \/ SendInterrupted(c)
  BY <1>6 DEF send, SendToClosed, SendError, SendInterrupted, Sent
<1>7. CASE SendUnlock(c)
  BY <1>7 DEF SendUnlock
<1>. QED
  BY <1>1, <1>2, <1>3, <1>4, <1>5, <1>6, <1>7 DEF ThreadStep, Interrupted

(* Clients change their own end of a connection, and whether there is one. *)
LEMMA PeerFrame ==
  ASSUME NEW c \in Conn, PeerStep(c)
  PROVE  ~Dead /\ UNCHANGED notpeer
BY DEF PeerStep, PeerConnect, PeerSend, PeerRead, PeerClose

-----------------------------------------------------------------------------
(* The types of TypeOK, by who writes the variables.                       *)
LoopTypes ==
  /\ main_pc \in MainPCs
  /\ current_state \in {"Waiting", "CreatingThread"}
  /\ client_fd \in Conn \cup {NoOne}
  /\ linked_list \in ListType
  /\ cursor \in Conn \cup {NoOne, Garbage}
  /\ stamps \in 0..MaxStamps
  /\ late \in SUBSET Conn

FlagTypes ==
  /\ keep_looping \in BOOLEAN /\ due \in BOOLEAN /\ caught_signal \in BOOLEAN
  /\ keep \in [Conn -> BOOLEAN] /\ failed \in [Conn -> BOOLEAN]

FileTypes == file_mutex \in Conn \cup {Main, NoOne} /\ file \in Seq(Write)

ThreadTypes ==
  /\ thread \in [Conn -> ThreadPCs]
  /\ thread_state \in [Conn -> {"WaitingForData", "ProcessingData", "SendingData",
                                "ClosedConnection"}]
  /\ rb \in [Conn -> Seq(Item)] /\ rb_new \in [Conn -> Seq(Item)]
  /\ allocated \in [Conn -> Nat] /\ room \in [Conn -> Nat]
  /\ f_pos \in [Conn -> Nat]
  /\ send_buffer \in [Conn -> Seq(Write)]
  /\ reply \in [Conn -> Seq(Write)]

PeerTypes ==
  /\ fd \in [Conn -> {"none", "backlog", "pending", "open", "leaked", "closed"}]
  /\ peer \in [Conn -> {"none", "up", "fin", "gone", "reset"}]
  /\ sent \in [Conn -> Seq(Item)] /\ recv_queue \in [Conn -> Seq(Item)]
  /\ unread \in [Conn -> 0..SndCap]

(* Together they are TypeOK.                                               *)
LEMMA TypeParts == TypeOK <=> LoopTypes /\ FlagTypes /\ FileTypes /\ ThreadTypes /\ PeerTypes
BY DEF TypeOK, LoopTypes, FlagTypes, FileTypes, ThreadTypes, PeerTypes, ListType

(* The main loop's variables keep their types.                             *)
LEMMA LoopTypesStep ==
  ASSUME IInv, [Next]_vars
  PROVE  LoopTypes'
<1> USE DEF loopvars, clock, MainPCs
<1>0. LoopTypes
  BY TypeParts DEF IInv
<1>1. CASE startup
  BY <1>0, <1>1 DEF startup, LoopTypes
<1>2. CASE main_loop
  <2>1. linked_list.slh_first \in Conn \cup {NoOne}
    BY <1>0 DEF LoopTypes, ListType
  <2>. QED
    BY <1>0, <1>2, <2>1 DEF main_loop, Dispatch, LoopTypes
<1>3. CASE TimestampLock
  BY <1>0, <1>3 DEF TimestampLock, LoopTypes
<1>4. CASE write_time_stamp
  BY <1>0, <1>4 DEF write_time_stamp, LoopTypes
<1>5. CASE TimestampUnlock
  <2>1. linked_list.slh_first \in Conn \cup {NoOne}
    BY <1>0 DEF LoopTypes, ListType
  <2>. QED
    BY <1>0, <1>5, <2>1 DEF TimestampUnlock, Dispatch, LoopTypes
<1>6. CASE join_threads
  <2>1. cursor \in Linked(linked_list) /\ linked_list \in ListType /\ IsList(linked_list)
    BY <1>0, <1>6 DEF join_threads, IInv, CursorOnList, ListShape, LoopTypes
  <2>2. linked_list' \in ListType
    BY <1>0, <1>6, <2>1, RemoveElement DEF join_threads, RemoveThenFree, LoopTypes
  <2>3. cursor' \in Conn \cup {NoOne, Garbage}
    BY <1>6, <2>1 DEF join_threads, NextVisited, ListType, Linked
  <2>. QED
    BY <1>0, <1>6, <2>2, <2>3 DEF join_threads, LoopTypes
<1>7. CASE CheckExit
  BY <1>0, <1>7 DEF CheckExit, LoopTypes
<1>8. CASE AcceptGate
  BY <1>0, <1>8 DEF AcceptGate, AfterGate, LoopTypes
<1>9. CASE AcceptFails
  BY <1>0, <1>9 DEF AcceptFails, LoopTypes
<1>10. CASE create_thread
  BY <1>0, <1>10 DEF create_thread, LoopTypes
<1>11. CASE InsertThread
  <2>1. client_fd \in Conn /\ linked_list \in ListType
    BY <1>0, <1>11 DEF InsertThread, IInv, MainPlace, FdPlace, LoopTypes
  <2>2. linked_list' \in ListType
    BY <1>11, <2>1 DEF InsertThread, SLIST_INSERT_HEAD, ListType
  <2>. QED
    BY <1>0, <1>11, <2>2 DEF InsertThread, LoopTypes
<1>12. CASE CreateFails
  BY <1>0, <1>12 DEF CreateFails, LoopTypes
<1>13. CASE shutting_down
  BY <1>0, <1>13 DEF shutting_down, LoopTypes
<1>14. CASE ClockTick
  BY <1>0, <1>14, SocketAssumption DEF ClockTick, LoopTypes
<1>15. CASE signal_handler
  BY <1>0, <1>15 DEF signal_handler, LoopTypes
<1>16. ASSUME NEW c \in Conn, check_for_client_connection(c) PROVE LoopTypes'
  BY <1>0, <1>16 DEF check_for_client_connection, LoopTypes
<1>17. ASSUME NEW c \in Conn, ThreadStep(c) \/ Interrupted(c) PROVE LoopTypes'
  <2>1. CASE SendKills(c)
    BY <1>0, <2>1 DEF SendKills, LoopTypes
  <2>2. CASE ~SendKills(c)
    BY <1>0, <1>17, <2>2, ThreadFrame DEF notthread, LoopTypes
  <2>. QED
    BY <2>1, <2>2
<1>18. ASSUME NEW c \in Conn, PeerStep(c) PROVE LoopTypes'
  BY <1>0, <1>18, PeerFrame DEF notpeer, LoopTypes
<1>19. CASE UNCHANGED vars
  BY <1>0, <1>19 DEF vars, LoopTypes
<1>. QED
  BY <1>1, <1>2, <1>3, <1>4, <1>5, <1>6, <1>7, <1>8, <1>9, <1>10, <1>11, <1>12, <1>13, <1>14, <1>15, <1>16, <1>17, <1>18, <1>19
  DEF Next, MainStep, Terminated

(* Flags stay flags.                                                       *)
LEMMA FlagTypesStep ==
  ASSUME IInv, [Next]_vars
  PROVE  FlagTypes'
<1> USE DEF loopvars, clock
<1>0. FlagTypes
  BY TypeParts DEF IInv
<1>1. ASSUME MainStep \/ ClockTick \/ signal_handler
      PROVE  keep_looping' \in BOOLEAN /\ due' \in BOOLEAN /\ caught_signal' \in BOOLEAN
  <2> USE <1>0 DEF FlagTypes
  <2>1. CASE startup \/ main_loop \/ TimestampLock \/ write_time_stamp \/ TimestampUnlock
    BY <2>1 DEF startup, main_loop, TimestampLock, write_time_stamp, TimestampUnlock
  <2>2. CASE join_threads \/ CheckExit \/ AcceptGate \/ AcceptFails
    BY <2>2 DEF join_threads, CheckExit, AcceptGate, AcceptFails
  <2>3. CASE \E c \in Conn : check_for_client_connection(c)
    BY <2>3 DEF check_for_client_connection
  <2>4. CASE create_thread \/ InsertThread \/ CreateFails \/ shutting_down
    BY <2>4 DEF create_thread, InsertThread, CreateFails, shutting_down
  <2>5. CASE ClockTick \/ signal_handler
    BY <2>5 DEF ClockTick, signal_handler
  <2>. QED
    BY <1>1, <2>1, <2>2, <2>3, <2>4, <2>5 DEF MainStep
<1>2. ASSUME NEW c \in Conn, ThreadStep(c) \/ Interrupted(c)
      PROVE  keep' \in [Conn -> BOOLEAN] /\ failed' \in [Conn -> BOOLEAN]
  <2> USE <1>0 DEF FlagTypes, status, SetState, Fail, GiveUp, SendFails, threadvars
  <2>1. CASE main_loop_thread(c) \/ thread_cleanup(c)
    BY <2>1, Zenon DEF main_loop_thread, thread_cleanup
  <2>2. CASE waiting_for_data(c) \/ GrowFails(c)
    BY <2>2, Zenon DEF waiting_for_data, GrowFails, Received
  <2>3. CASE RecvEnds(c) \/ RecvReset(c) \/ RecvInterrupted(c)
    BY <2>3, Zenon DEF RecvEnds, RecvReset, RecvInterrupted
  <2>4. CASE process_received_data(c) \/ SendLock(c) \/ write_to_file(c) \/ WriteFails(c)
    BY <2>4, Zenon DEF process_received_data, SendLock, write_to_file, WriteFails
  <2>5. CASE read_from_file(c) \/ ReadEnds(c) \/ ReadFails(c)
    BY <2>5, Zenon DEF read_from_file, ReadEnds, ReadFails
  <2>6. CASE send(c) \/ SendToClosed(c) \/ SendError(c) \/ SendInterrupted(c)
    BY <2>6, Zenon DEF send, SendToClosed, SendError, SendInterrupted, Sent
  <2>7. CASE SendUnlock(c) \/ SendKills(c)
    BY <2>7, Zenon DEF SendUnlock, SendKills
  <2>. QED
    BY <1>2, <2>1, <2>2, <2>3, <2>4, <2>5, <2>6, <2>7 DEF ThreadStep, Interrupted
<1>3. CASE MainStep \/ ClockTick \/ signal_handler
  <2>1. UNCHANGED <<keep, failed>>
    BY <1>3, MainFrame DEF status
  <2>. QED
    BY <1>0, <1>1, <1>3, <2>1, Zenon DEF FlagTypes
<1>4. ASSUME NEW c \in Conn, ThreadStep(c) \/ Interrupted(c) PROVE FlagTypes'
  <2>1. UNCHANGED <<keep_looping, due, caught_signal>>
    BY <1>4, ThreadFrame DEF notthread, SendKills
  <2>. QED
    BY <1>0, <1>2, <1>4, <2>1, Zenon DEF FlagTypes
<1>5. ASSUME NEW c \in Conn, PeerStep(c) PROVE FlagTypes'
  <2>1. UNCHANGED <<keep_looping, due, caught_signal, keep, failed>>
    BY <1>5, PeerFrame DEF notpeer, threadvars, status
  <2>. QED
    BY <1>0, <2>1, Zenon DEF FlagTypes
<1>6. CASE UNCHANGED vars
  BY <1>0, <1>6, Zenon DEF FlagTypes, vars
<1>. QED
  BY <1>3, <1>4, <1>5, <1>6 DEF Next, Terminated

(* The mutex has an owner of its kind, the file holds writes.              *)
LEMMA FileTypesStep ==
  ASSUME IInv, [Next]_vars
  PROVE  FileTypes'
<1> USE DEF filevars
<1>0. FileTypes /\ ThreadTypes /\ LoopTypes
  BY TypeParts DEF IInv
<1>1. ASSUME NEW w \in Write PROVE Append(file, w) \in Seq(Write) /\ Stored(w) \in Seq(Write)
  <2>1. Append(file, w) \in Seq(Write) /\ Append(file, w) # <<>>
    BY <1>0, AppendProperties DEF FileTypes
  <2>. QED
    BY <2>1, HeadTailProperties DEF Stored
<1>2. CASE MainStep \/ ClockTick \/ signal_handler
  <2> USE <1>0 DEF FileTypes
  <2>1. CASE TimestampLock \/ TimestampUnlock
    BY <2>1 DEF TimestampLock, TimestampUnlock, get_file_mutex, release_file_mutex
  <2>2. CASE write_time_stamp
    <3>1. Stamp \in Write
      BY DEF Stamp, Write
    <3>. QED
      BY <1>1, <2>2, <3>1 DEF write_time_stamp
  <2>3. CASE shutting_down
    <3>1. file' \in {<<>>, file} /\ UNCHANGED file_mutex
      BY <2>3 DEF shutting_down
    <3>2. <<>> \in Seq(Write)
      BY EmptySeq
    <3>. QED
      BY <3>1, <3>2
  <2>4. CASE startup \/ main_loop \/ join_threads \/ CheckExit \/ AcceptGate \/ AcceptFails
    BY <2>4 DEF startup, main_loop, join_threads, CheckExit, AcceptGate, AcceptFails
  <2>5. CASE create_thread \/ InsertThread \/ CreateFails \/ ClockTick \/ signal_handler
    BY <2>5 DEF create_thread, InsertThread, CreateFails, ClockTick, signal_handler
  <2>6. CASE \E c \in Conn : check_for_client_connection(c)
    BY <2>6 DEF check_for_client_connection
  <2>. QED
    BY <1>2, <2>1, <2>2, <2>3, <2>4, <2>5, <2>6 DEF MainStep
<1>3. ASSUME NEW c \in Conn, ThreadStep(c) \/ Interrupted(c) PROVE FileTypes'
  <2> USE <1>0 DEF FileTypes, GiveUp, SendFails
  <2>1. CASE SendLock(c) \/ SendUnlock(c)
    BY <2>1 DEF SendLock, SendUnlock, get_file_mutex, release_file_mutex
  <2>2. CASE write_to_file(c)
    <3>1. [by |-> c, data |-> rb[c]] \in Write
      BY DEF ThreadTypes, Write
    <3>. QED
      BY <1>1, <2>2, <3>1 DEF write_to_file
  <2>3. CASE WriteFails(c)
    <3>1. ASSUME NEW n \in 1..Len(rb[c]) - 1
          PROVE  [by |-> c, data |-> SubSeq(rb[c], 1, n)] \in Write
      <4>1. rb[c] \in Seq(Item)
        BY DEF ThreadTypes
      <4>2. \A i \in 1..n : rb[c][i] \in Item
        BY <4>1
      <4>3. SubSeq(rb[c], 1, n) \in Seq(Item)
        BY <4>2, SubSeqProperties
      <4>. QED
        BY <4>3 DEF Write
    <3>. QED
      BY <1>1, <2>3, <3>1 DEF WriteFails
  <2>4. CASE main_loop_thread(c) \/ thread_cleanup(c) \/ waiting_for_data(c) \/ GrowFails(c)
    BY <2>4 DEF main_loop_thread, thread_cleanup, waiting_for_data, GrowFails, Received
  <2>5. CASE RecvEnds(c) \/ RecvReset(c) \/ RecvInterrupted(c) \/ process_received_data(c)
    BY <2>5 DEF RecvEnds, RecvReset, RecvInterrupted, process_received_data
  <2>6. CASE read_from_file(c) \/ ReadEnds(c) \/ ReadFails(c)
    BY <2>6 DEF read_from_file, ReadEnds, ReadFails
  <2>7. CASE send(c) \/ SendToClosed(c) \/ SendError(c) \/ SendInterrupted(c) \/ SendKills(c)
    BY <2>7 DEF send, SendToClosed, SendError, SendInterrupted, SendKills, Sent
  <2>. QED
    BY <1>3, <2>1, <2>2, <2>3, <2>4, <2>5, <2>6, <2>7 DEF ThreadStep, Interrupted
<1>4. ASSUME NEW c \in Conn, PeerStep(c) PROVE FileTypes'
  BY <1>0, <1>4, PeerFrame DEF notpeer, FileTypes
<1>5. CASE UNCHANGED vars
  BY <1>0, <1>5 DEF FileTypes, vars
<1>. QED
  BY <1>2, <1>3, <1>4, <1>5 DEF Next, Terminated

(* The variables of the threads keep their types.                          *)
LEMMA ThreadTypesStep ==
  ASSUME IInv, [Next]_vars
  PROVE  ThreadTypes'
<1> USE DEF growth, buffers, replyvars, status, filevars
<1>0. ThreadTypes /\ FileTypes /\ PeerTypes
  BY TypeParts DEF IInv
<1>1. CASE MainStep \/ ClockTick \/ signal_handler
  <2>1. thread' \in [Conn -> ThreadPCs]
    <3> USE <1>0 DEF ThreadTypes, threadvars
    <3>1. CASE create_thread
      BY <3>1 DEF create_thread, ThreadPCs
    <3>2. CASE startup \/ main_loop \/ TimestampLock \/ write_time_stamp \/ TimestampUnlock
      BY <3>2 DEF startup, main_loop, TimestampLock, write_time_stamp, TimestampUnlock
    <3>3. CASE join_threads \/ CheckExit \/ AcceptGate \/ AcceptFails
      BY <3>3 DEF join_threads, CheckExit, AcceptGate, AcceptFails
    <3>4. CASE \E c \in Conn : check_for_client_connection(c)
      BY <3>4 DEF check_for_client_connection
    <3>5. CASE InsertThread \/ CreateFails \/ shutting_down \/ ClockTick \/ signal_handler
      BY <3>5 DEF InsertThread, CreateFails, shutting_down, ClockTick, signal_handler
    <3>. QED
      BY <1>1, <3>1, <3>2, <3>3, <3>4, <3>5 DEF MainStep
  <2>. QED
    BY <1>0, <1>1, <2>1, MainFrame DEF ThreadTypes
<1>2. ASSUME NEW c \in Conn, ThreadStep(c) \/ Interrupted(c) PROVE ThreadTypes'
  <2> USE DEF At, Goto, SetState, Fail, GiveUp, SendFails, ThreadPCs
  <2>1. CASE main_loop_thread(c)
    BY <1>0, <2>1 DEF main_loop_thread, Dest, ThreadTypes
  <2>2. CASE thread_cleanup(c)
    BY <1>0, <2>2 DEF thread_cleanup, ThreadTypes
  <2>3. ASSUME NEW n \in 1..RecvMax, Received(c, n)
        PROVE  /\ n \in Nat /\ Iterations(c, n) \in Nat
               /\ thread' \in [Conn -> ThreadPCs] /\ rb_new' \in [Conn -> Seq(Item)]
               /\ UNCHANGED <<rb, replyvars>>
    <3>1. n \in Nat /\ RecvGrow \in Nat \ {0}
      BY Bounds
    <3>2. rb[c] \in Seq(Item) /\ recv_queue[c] \in Seq(Item) /\ allocated[c] \in Nat
      BY <1>0 DEF ThreadTypes, PeerTypes
    <3>3. Iterations(c, n) \in Nat
      <4> DEFINE k == Len(rb[c]) + n - allocated[c]
      <4>1. CASE allocated[c] >= Len(rb[c]) + n
        BY <4>1 DEF Iterations
      <4>2. CASE ~(allocated[c] >= Len(rb[c]) + n)
        <5>1. k \in Nat /\ Iterations(c, n) = (k + RecvGrow - 1) \div RecvGrow
          BY <3>1, <3>2, <4>2 DEF Iterations
        <5> HIDE DEF k
        <5>. QED
          BY <5>1, GrownEnough
      <4>. QED
        BY <4>1, <4>2
    <3>4. SubSeq(recv_queue[c], 1, n) \in Seq(Item)
      BY <2>3, <3>1, <3>2, SubSeqProperties DEF Received
    <3>. QED
      BY <1>0, <2>3, <3>1, <3>3, <3>4 DEF Received, ThreadTypes
  <2>4. CASE waiting_for_data(c)
    <3>1. PICK n \in 1..RecvMax :
            /\ Received(c, n)
            /\ allocated' = [allocated EXCEPT ![c] = @ + Iterations(c, n) * RecvGrow]
            /\ room' = [room EXCEPT ![c] = allocated'[c]]
            /\ SetState(c, "ProcessingData")
      BY <2>4 DEF waiting_for_data
    <3>2. allocated[c] + Iterations(c, n) * RecvGrow \in Nat
      <4>1. Iterations(c, n) \in Nat /\ RecvGrow \in Nat /\ allocated[c] \in Nat
        BY <1>0, <2>3, <3>1, Bounds DEF ThreadTypes
      <4>2. Iterations(c, n) * RecvGrow \in Nat
        BY <4>1
      <4>. QED
        BY <4>1, <4>2
    <3>3. allocated' \in [Conn -> Nat]
      BY <1>0, <3>1, <3>2 DEF ThreadTypes
    <3>4. room' \in [Conn -> Nat] /\ thread_state' \in [Conn -> {"WaitingForData", "ProcessingData",
                                                        "SendingData", "ClosedConnection"}]
      BY <1>0, <3>1, <3>3 DEF ThreadTypes
    <3>. QED
      BY <1>0, <2>3, <3>1, <3>3, <3>4 DEF ThreadTypes
  <2>5. CASE GrowFails(c)
    <3>1. PICK n \in 1..RecvMax : \E i \in 1..Iterations(c, n) :
            /\ Received(c, n)
            /\ allocated' = [allocated EXCEPT ![c] = @ + i * RecvGrow]
            /\ room' = [room EXCEPT ![c] = allocated[c] + (i - 1) * RecvGrow]
            /\ Fail(c)
      BY <2>5 DEF GrowFails
    <3>2. PICK i \in 1..Iterations(c, n) :
            /\ Received(c, n)
            /\ allocated' = [allocated EXCEPT ![c] = @ + i * RecvGrow]
            /\ room' = [room EXCEPT ![c] = allocated[c] + (i - 1) * RecvGrow]
            /\ Fail(c)
      BY <3>1
    <3>3. i \in Nat /\ i - 1 \in Nat /\ RecvGrow \in Nat /\ allocated[c] \in Nat
      BY <1>0, <2>3, <3>2, Bounds DEF ThreadTypes
    <3>4. i * RecvGrow \in Nat /\ (i - 1) * RecvGrow \in Nat
      BY <3>3
    <3>5. allocated' \in [Conn -> Nat] /\ room' \in [Conn -> Nat]
      <4>1. allocated[c] + i * RecvGrow \in Nat /\ allocated[c] + (i - 1) * RecvGrow \in Nat
        BY <3>3, <3>4
      <4>. QED
        BY <1>0, <3>2, <4>1 DEF ThreadTypes
    <3>6. thread_state' \in [Conn -> {"WaitingForData", "ProcessingData",
                                      "SendingData", "ClosedConnection"}]
      BY <1>0, <3>2 DEF ThreadTypes
    <3>. QED
      BY <1>0, <2>3, <3>2, <3>5, <3>6 DEF ThreadTypes
  <2>6. CASE RecvEnds(c) \/ RecvReset(c) \/ RecvInterrupted(c)
    BY <1>0, <2>6 DEF RecvEnds, RecvReset, RecvInterrupted, ThreadTypes
  <2>7. CASE process_received_data(c)
    <3>1. rb[c] \in Seq(Item) /\ rb_new[c] \in Seq(Item)
      BY <1>0 DEF ThreadTypes
    <3>2. PacketBytes(rb_new[c]) \in 0..Len(rb_new[c])
      BY <3>1, PacketBytesBound
    <3>3. SubSeq(rb_new[c], 1, PacketBytes(rb_new[c])) \in Seq(Item) /\ Rest(rb_new[c]) \in Seq(Item)
      BY <3>1, <3>2, SubSeqProperties DEF Rest
    <3>4. rb[c] \o SubSeq(rb_new[c], 1, PacketBytes(rb_new[c])) \in Seq(Item)
      BY <3>1, <3>3, ConcatProperties
    <3>5. rb' \in [Conn -> Seq(Item)] /\ rb_new' \in [Conn -> Seq(Item)]
      BY <1>0, <2>7, <3>3, <3>4 DEF process_received_data, ThreadTypes
    <3>. QED
      BY <1>0, <2>7, <3>5 DEF process_received_data, ThreadTypes
  <2>8. CASE SendLock(c) \/ ReadEnds(c)
    BY <1>0, <2>8 DEF SendLock, ReadEnds, ThreadTypes
  <2>9. CASE write_to_file(c)
    <3>1. <<>> \in Seq(Item) /\ <<>> \in Seq(Write)
      BY EmptySeq
    <3>. QED
      BY <1>0, <2>9, <3>1 DEF write_to_file, PosAfterSeek, ThreadTypes
  <2>10. CASE WriteFails(c) \/ ReadFails(c) \/ SendError(c) \/ SendInterrupted(c)
    <3>1. SendFails(c)
      BY <2>10 DEF WriteFails, ReadFails, SendError, SendInterrupted
    <3>. QED
      BY <1>0, <3>1 DEF ThreadTypes
  <2>11. CASE read_from_file(c)
    <3>1. PICK n \in 1..ReadMax :
            /\ f_pos[c] + n <= Len(file)
            /\ send_buffer' = [send_buffer EXCEPT ![c] = SubSeq(file, f_pos[c] + 1, f_pos[c] + n)]
            /\ f_pos' = [f_pos EXCEPT ![c] = PosAfterRead(c, n)]
      BY <2>11 DEF read_from_file
    <3>a. n \in Nat /\ f_pos[c] \in Nat /\ file \in Seq(Write)
      BY <1>0, Bounds DEF ThreadTypes, FileTypes
    <3>2. n \in Nat /\ f_pos[c] \in Nat /\ f_pos[c] + n \in Nat /\ file \in Seq(Write)
      BY <3>a
    <3>3. SubSeq(file, f_pos[c] + 1, f_pos[c] + n) \in Seq(Write)
      BY <3>1, <3>2, SubSeqProperties
    <3>4. send_buffer' \in [Conn -> Seq(Write)] /\ f_pos' \in [Conn -> Nat]
      BY <1>0, <3>1, <3>2, <3>3 DEF ThreadTypes, PosAfterRead
    <3>. QED
      BY <1>0, <2>11, <3>4 DEF read_from_file, ThreadTypes
  <2>12. ASSUME NEW n \in 0..Len(send_buffer[c]), Sent(c, n) PROVE ThreadTypes'
    <3>1. reply[c] \in Seq(Write) /\ send_buffer[c] \in Seq(Write)
      BY <1>0 DEF ThreadTypes
    <3>2. SubSeq(send_buffer[c], 1, n) \in Seq(Write)
          /\ SubSeq(send_buffer[c], n + 1, Len(send_buffer[c])) \in Seq(Write)
      BY <3>1, SubSeqProperties
    <3>3. reply[c] \o SubSeq(send_buffer[c], 1, n) \in Seq(Write)
      BY <3>1, <3>2, ConcatProperties
    <3>4. send_buffer' \in [Conn -> Seq(Write)] /\ reply' \in [Conn -> Seq(Write)]
      BY <1>0, <2>12, <3>2, <3>3 DEF Sent, ThreadTypes
    <3>. QED
      BY <1>0, <2>12, <3>4 DEF Sent, ThreadTypes
  <2>13. CASE send(c)
    BY <2>12, <2>13 DEF send
  <2>14. CASE SendToClosed(c)
    <3>1. Len(send_buffer[c]) \in 0..Len(send_buffer[c])
      BY <1>0, <2>14 DEF SendToClosed, ThreadTypes
    <3>. QED
      BY <2>12, <2>14, <3>1 DEF SendToClosed
  <2>15. CASE SendKills(c)
    BY <1>0, <2>15 DEF SendKills, threadvars, ThreadTypes
  <2>16. CASE SendUnlock(c)
    <3>1. <<>> \in Seq(Write)
      BY EmptySeq
    <3>. QED
      BY <1>0, <2>16, <3>1 DEF SendUnlock, NextState, ThreadTypes
  <2>. QED
    BY <1>2, <2>1, <2>2, <2>4, <2>5, <2>6, <2>7, <2>8, <2>9, <2>10, <2>11, <2>13, <2>14,
       <2>15, <2>16 DEF ThreadStep, Interrupted
<1>3. ASSUME NEW c \in Conn, PeerStep(c) PROVE ThreadTypes'
  BY <1>0, <1>3, PeerFrame DEF notpeer, threadvars, ThreadTypes
<1>4. CASE UNCHANGED vars
  BY <1>0, <1>4 DEF ThreadTypes, vars
<1>. QED
  BY <1>1, <1>2, <1>3, <1>4 DEF Next, Terminated

(* The client's end of each connection keeps its types.                    *)
LEMMA PeerTypesStep ==
  ASSUME IInv, [Next]_vars
  PROVE  PeerTypes'
<1> USE DEF peervars
<1>0. PeerTypes /\ ThreadTypes
  BY TypeParts DEF IInv
<1>1. SndCap \in Nat \ {0} /\ <<>> \in Seq(Item)
  BY Bounds, EmptySeq
<1>2. CASE MainStep \/ ClockTick \/ signal_handler
  <2> USE <1>0, <1>1 DEF PeerTypes
  <2>1. CASE join_threads
    <3>1. CASE Joined(cursor)
      <4>1. 0 \in 0..SndCap
        OBVIOUS
      <4>2. /\ fd' = [fd EXCEPT ![cursor] = "closed"] /\ peer' = [peer EXCEPT ![cursor] = "gone"]
            /\ recv_queue' = [recv_queue EXCEPT ![cursor] = <<>>]
            /\ unread' = [unread EXCEPT ![cursor] = 0] /\ UNCHANGED sent
        BY <2>1, <3>1 DEF join_threads
      <4>. QED
        BY <4>1, <4>2
    <3>2. CASE ~Joined(cursor)
      BY <2>1, <3>2 DEF join_threads
    <3>. QED
      BY <3>1, <3>2
  <2>2. CASE startup \/ main_loop \/ TimestampLock \/ write_time_stamp \/ TimestampUnlock
    BY <2>2 DEF startup, main_loop, TimestampLock, write_time_stamp, TimestampUnlock
  <2>3. CASE CheckExit \/ AcceptGate \/ AcceptFails \/ InsertThread \/ shutting_down
    BY <2>3 DEF CheckExit, AcceptGate, AcceptFails, InsertThread, shutting_down
  <2>4. CASE \E c \in Conn : check_for_client_connection(c)
    BY <2>4 DEF check_for_client_connection
  <2>5. CASE create_thread \/ CreateFails \/ ClockTick \/ signal_handler
    BY <2>5 DEF create_thread, CreateFails, ClockTick, signal_handler
  <2>. QED
    BY <1>2, <2>1, <2>2, <2>3, <2>4, <2>5 DEF MainStep
<1>3. ASSUME NEW c \in Conn, ThreadStep(c) \/ Interrupted(c) PROVE PeerTypes'
  <2> USE <1>0 DEF PeerTypes, notthread, GiveUp, SendFails
  <2>1. ASSUME NEW n \in 1..RecvMax, Received(c, n) PROVE PeerTypes'
    <3>1. n \in Nat /\ recv_queue[c] \in Seq(Item)
      BY Bounds
    <3>2. SubSeq(recv_queue[c], n + 1, Len(recv_queue[c])) \in Seq(Item)
      BY <3>1, SubSeqProperties
    <3>. QED
      BY <2>1, <3>2 DEF Received
  <2>2. CASE waiting_for_data(c) \/ GrowFails(c)
    BY <2>1, <2>2 DEF waiting_for_data, GrowFails
  <2>3. CASE send(c)
    <3>1. PICK n \in 1..Len(send_buffer[c]) :
            unread[c] + n <= SndCap /\ unread' = [unread EXCEPT ![c] = @ + n] /\ Sent(c, n)
      BY <2>3 DEF send
    <3>2. unread[c] + n \in 0..SndCap
      BY <1>1, <3>1 DEF ThreadTypes
    <3>. QED
      BY <2>3, <3>1, <3>2 DEF send, Sent
  <2>4. CASE SendToClosed(c)
    BY <2>4 DEF SendToClosed, Sent
  <2>5. CASE main_loop_thread(c) \/ thread_cleanup(c)
    BY <2>5 DEF main_loop_thread, thread_cleanup
  <2>6. CASE RecvEnds(c) \/ RecvReset(c) \/ RecvInterrupted(c)
    BY <2>6 DEF RecvEnds, RecvReset, RecvInterrupted
  <2>7. CASE process_received_data(c) \/ SendLock(c) \/ write_to_file(c) \/ WriteFails(c)
    BY <2>7 DEF process_received_data, SendLock, write_to_file, WriteFails
  <2>8. CASE read_from_file(c) \/ ReadEnds(c) \/ ReadFails(c) \/ SendUnlock(c)
    BY <2>8 DEF read_from_file, ReadEnds, ReadFails, SendUnlock
  <2>9. CASE SendError(c) \/ SendInterrupted(c) \/ SendKills(c)
    BY <2>9 DEF SendError, SendInterrupted, SendKills
  <2>. QED
    BY <1>3, <2>2, <2>3, <2>4, <2>5, <2>6, <2>7, <2>8, <2>9 DEF ThreadStep, Interrupted
<1>4. ASSUME NEW c \in Conn, PeerStep(c) PROVE PeerTypes'
  <2> USE <1>0, <1>1 DEF PeerTypes
  <2>1. CASE PeerConnect(c)
    BY <2>1 DEF PeerConnect
  <2>2. CASE PeerSend(c)
    <3>1. PICK e \in BOOLEAN :
            LET item == [n |-> Len(sent[c]) + 1, end |-> e] IN
            /\ sent' = [sent EXCEPT ![c] = Append(@, item)]
            /\ recv_queue' = [recv_queue EXCEPT ![c] = Append(@, item)]
      BY <2>2 DEF PeerSend
    <3>2. [n |-> Len(sent[c]) + 1, end |-> e] \in Item
      BY DEF Item
    <3>3. /\ Append(sent[c], [n |-> Len(sent[c]) + 1, end |-> e]) \in Seq(Item)
          /\ Append(recv_queue[c], [n |-> Len(sent[c]) + 1, end |-> e]) \in Seq(Item)
      BY <3>2, AppendProperties
    <3>. QED
      BY <2>2, <3>1, <3>3 DEF PeerSend
  <2>3. CASE PeerRead(c)
    BY <2>3 DEF PeerRead
  <2>4. CASE PeerClose(c)
    BY <2>4 DEF PeerClose
  <2>. QED
    BY <1>4, <2>1, <2>2, <2>3, <2>4 DEF PeerStep
<1>5. CASE UNCHANGED vars
  BY <1>0, <1>5 DEF PeerTypes, vars
<1>. QED
  BY <1>2, <1>3, <1>4, <1>5 DEF Next, Terminated

(* Every step keeps the types.                                             *)
LEMMA TypeStep ==
  ASSUME IInv, [Next]_vars
  PROVE  TypeOK'
<1>1. LoopTypes' /\ FlagTypes' /\ FileTypes' /\ ThreadTypes' /\ PeerTypes'
  BY LoopTypesStep, FlagTypesStep, FileTypesStep, ThreadTypesStep, PeerTypesStep
<1>. QED
  BY <1>1 DEF TypeOK, LoopTypes, FlagTypes, FileTypes, ThreadTypes, PeerTypes, ListType

-----------------------------------------------------------------------------
(* The list stays a list, and join_threads on it: what it looks at next it *)
(* has read before the item is freed.                                      *)
LEMMA ListStep ==
  ASSUME IInv, [Next]_vars
  PROVE  (ListShape /\ CursorOnList)'
<1> USE DEF loopvars
<1>0. /\ linked_list \in ListType /\ IsList(linked_list)
      /\ main_pc = "join" => cursor \in Linked(linked_list) \cup {NoOne}
  BY TypeParts DEF IInv, LoopTypes, ListShape, CursorOnList
<1>1. CASE join_threads
  <2>1. cursor \in Linked(linked_list) /\ cursor' = linked_list.sle_next[cursor]
    BY <1>0, <1>1 DEF join_threads, NextVisited
  <2>2. CASE Joined(cursor)
    <3>1. linked_list' = FreeElem(SLIST_REMOVE(linked_list, cursor), cursor)
      BY <1>1, <2>2 DEF join_threads, RemoveThenFree
    <3>. QED
      BY <1>0, <1>1, <2>1, <3>1, RemoveElement DEF join_threads, ListShape, CursorOnList
  <2>3. CASE ~Joined(cursor)
    <3>1. UNCHANGED linked_list
      BY <1>1, <2>3 DEF join_threads
    <3>. QED
      BY <1>0, <2>1, <3>1, NextOnList DEF ListShape, CursorOnList
  <2>. QED
    BY <2>2, <2>3
<1>2. CASE InsertThread
  <2>1. client_fd \in Conn /\ client_fd \notin Linked(linked_list)
    BY <1>2 DEF InsertThread, IInv, MainPlace, FdPlace
  <2>. QED
    BY <1>0, <1>2, <2>1, InsertHead DEF InsertThread, ListShape, CursorOnList
<1>3. CASE main_loop \/ TimestampUnlock
  <2>1. UNCHANGED linked_list /\ (main_pc' = "join" => cursor' = linked_list.slh_first)
    BY <1>3 DEF main_loop, TimestampUnlock, Dispatch
  <2>. QED
    BY <1>0, <2>1, NextOnList DEF ListShape, CursorOnList
<1>4. ASSUME UNCHANGED <<linked_list, cursor>>, main_pc' = "join" => main_pc = "join"
      PROVE  (ListShape /\ CursorOnList)'
  BY <1>0, <1>4 DEF ListShape, CursorOnList
<1>5. CASE startup \/ TimestampLock \/ write_time_stamp \/ CheckExit \/ AcceptGate \/ AcceptFails
  BY <1>4, <1>5 DEF startup, TimestampLock, write_time_stamp, CheckExit, AcceptGate, AfterGate,
     AcceptFails
<1>6. CASE create_thread \/ CreateFails \/ shutting_down \/ ClockTick \/ signal_handler
  BY <1>4, <1>6 DEF create_thread, CreateFails, shutting_down, ClockTick, signal_handler
<1>7. ASSUME NEW c \in Conn, check_for_client_connection(c) PROVE (ListShape /\ CursorOnList)'
  BY <1>4, <1>7 DEF check_for_client_connection
<1>8. ASSUME NEW c \in Conn, ThreadStep(c) \/ Interrupted(c) PROVE (ListShape /\ CursorOnList)'
  BY <1>4, <1>8, ThreadFrame DEF notthread, SendKills
<1>9. ASSUME NEW c \in Conn, PeerStep(c) PROVE (ListShape /\ CursorOnList)'
  BY <1>4, <1>9, PeerFrame DEF notpeer
<1>10. CASE UNCHANGED vars
  BY <1>4, <1>10 DEF vars
<1>. QED
  BY <1>1, <1>2, <1>3, <1>5, <1>6, <1>7, <1>8, <1>9, <1>10 DEF Next, MainStep, Terminated

(* The state of the loop fits its place.                                   *)
LEMMA PlaceStep ==
  ASSUME IInv, [Next]_vars
  PROVE  MainPlace'
<1> USE DEF loopvars, clock
<1>0. /\ MainPlace /\ linked_list \in ListType /\ main_pc \in MainPCs /\ keep_looping \in BOOLEAN
      /\ current_state \in {"Waiting", "CreatingThread"}
  BY TypeParts DEF IInv, LoopTypes, FlagTypes
<1>1. CASE startup \/ TimestampLock \/ write_time_stamp
  BY <1>0, <1>1 DEF startup, TimestampLock, write_time_stamp, MainPlace
<1>2. CASE main_loop
  BY <1>0, <1>2 DEF main_loop, Dispatch, MainPlace
<1>3. CASE TimestampUnlock
  BY <1>0, <1>3 DEF TimestampUnlock, Dispatch, MainPlace
<1>4. CASE join_threads
  BY <1>0, <1>4 DEF join_threads, MainPlace
<1>5. CASE CheckExit
  BY <1>0, <1>5 DEF CheckExit, LoopEnds, all_threads_closed, SLIST_EMPTY, MainPlace
<1>6. CASE AcceptGate \/ AcceptFails
  BY <1>0, <1>6 DEF AcceptGate, AfterGate, AcceptFails, MainPlace
<1>7. ASSUME NEW c \in Conn, check_for_client_connection(c) PROVE MainPlace'
  BY <1>0, <1>7 DEF check_for_client_connection, MainPlace
<1>8. CASE create_thread \/ CreateFails
  BY <1>0, <1>8 DEF create_thread, CreateFails, MainPlace
<1>9. CASE InsertThread
  BY <1>0, <1>9 DEF InsertThread, MainPlace
<1>10. CASE shutting_down \/ ClockTick
  BY <1>0, <1>10 DEF shutting_down, ClockTick, MainPlace
<1>11. CASE signal_handler
  BY <1>0, <1>11 DEF signal_handler, MainPlace
<1>12. ASSUME NEW c \in Conn, ThreadStep(c) \/ Interrupted(c) PROVE MainPlace'
  <2>1. CASE SendKills(c)
    BY <1>0, <2>1 DEF SendKills, MainPlace
  <2>2. CASE ~SendKills(c)
    BY <1>0, <1>12, <2>2, ThreadFrame DEF notthread, MainPlace
  <2>. QED
    BY <2>1, <2>2
<1>13. ASSUME NEW c \in Conn, PeerStep(c) PROVE MainPlace'
  BY <1>0, <1>13, PeerFrame DEF notpeer, MainPlace
<1>14. CASE UNCHANGED vars
  BY <1>0, <1>14 DEF vars, MainPlace
<1>. QED
  BY <1>1, <1>2, <1>3, <1>4, <1>5, <1>6, <1>7, <1>8, <1>9, <1>10, <1>11, <1>12, <1>13, <1>14
  DEF Next, MainStep, Terminated

(* At most one connection is accepted after the signal.                    *)
LEMMA LateStep ==
  ASSUME IInv, [Next]_vars
  PROVE  (LateKnown /\ OneLateAccept)'
<1> USE DEF loopvars, clock
<1>0. LateKnown /\ OneLateAccept
  BY DEF IInv
<1>1. ASSUME NEW c \in Conn, check_for_client_connection(c) PROVE (LateKnown /\ OneLateAccept)'
  <2>1. late = {}
    BY <1>0, <1>1 DEF check_for_client_connection, LateKnown
  <2>. QED
    BY <1>1, <2>1 DEF check_for_client_connection, LateKnown, OneLateAccept
<1>2. ASSUME UNCHANGED late, caught_signal => caught_signal',
             main_pc' = "accept" => main_pc = "accept" \/ late = {}
      PROVE  (LateKnown /\ OneLateAccept)'
  BY <1>0, <1>2 DEF LateKnown, OneLateAccept
<1>3. CASE AcceptGate
  <2>1. main_pc' = "accept" => late = {}
    BY <1>0, <1>3 DEF AcceptGate, AfterGate, LateKnown
  <2>. QED
    BY <1>2, <1>3, <2>1 DEF AcceptGate
<1>4. CASE startup \/ main_loop \/ TimestampLock \/ write_time_stamp \/ TimestampUnlock
  BY <1>2, <1>4 DEF startup, main_loop, TimestampLock, write_time_stamp, TimestampUnlock, Dispatch
<1>5. CASE join_threads \/ CheckExit \/ AcceptFails
  BY <1>2, <1>5 DEF join_threads, CheckExit, AcceptFails
<1>6. CASE create_thread \/ InsertThread \/ CreateFails \/ shutting_down
  BY <1>2, <1>6 DEF create_thread, InsertThread, CreateFails, shutting_down
<1>7. CASE ClockTick \/ signal_handler
  BY <1>2, <1>7 DEF ClockTick, signal_handler
<1>8. ASSUME NEW c \in Conn, ThreadStep(c) \/ Interrupted(c) PROVE (LateKnown /\ OneLateAccept)'
  BY <1>2, <1>8, ThreadFrame DEF notthread, SendKills
<1>9. ASSUME NEW c \in Conn, PeerStep(c) PROVE (LateKnown /\ OneLateAccept)'
  BY <1>2, <1>9, PeerFrame DEF notpeer
<1>10. CASE UNCHANGED vars
  BY <1>2, <1>10 DEF vars
<1>. QED
  BY <1>1, <1>3, <1>4, <1>5, <1>6, <1>7, <1>8, <1>9, <1>10 DEF Next, MainStep, Terminated

(* A step of c's thread is taken by a thread that runs, moves no other and *)
(* keeps a connection a connection.                                        *)
LEMMA ThreadMoves ==
  ASSUME NEW c \in Conn, TypeOK, ThreadStep(c) \/ Interrupted(c), ~SendKills(c)
  PROVE  /\ thread[c] \notin {"none", "exited"} /\ thread'[c] # "none"
         /\ \A d \in Conn : d # c => thread'[d] = thread[d]
         /\ \A d \in Conn : peer'[d] = "none" => peer[d] = "none"
<1> USE DEF At, Goto, GiveUp, SendFails, peervars
<1>0. ThreadTypes /\ PeerTypes
  BY TypeParts
<1>1. CASE main_loop_thread(c)
  BY <1>0, <1>1 DEF main_loop_thread, Dest, ThreadTypes
<1>2. CASE thread_cleanup(c)
  BY <1>0, <1>2 DEF thread_cleanup, ThreadTypes
<1>3. CASE waiting_for_data(c) \/ GrowFails(c)
  BY <1>0, <1>3 DEF waiting_for_data, GrowFails, Received, ThreadTypes
<1>4. CASE RecvEnds(c) \/ RecvReset(c) \/ RecvInterrupted(c)
  BY <1>0, <1>4 DEF RecvEnds, RecvReset, RecvInterrupted, ThreadTypes
<1>5. CASE process_received_data(c) \/ SendLock(c) \/ write_to_file(c) \/ WriteFails(c)
  BY <1>0, <1>5 DEF process_received_data, SendLock, write_to_file, WriteFails, ThreadTypes
<1>6. CASE read_from_file(c) \/ ReadEnds(c) \/ ReadFails(c)
  BY <1>0, <1>6 DEF read_from_file, ReadEnds, ReadFails, ThreadTypes
<1>7. CASE send(c) \/ SendError(c) \/ SendInterrupted(c)
  BY <1>0, <1>7 DEF send, SendError, SendInterrupted, Sent, ThreadTypes
<1>8. CASE SendToClosed(c)
  <2>1. thread[c] = "send" /\ thread' = [thread EXCEPT ![c] = thread'[c]] /\ thread'[c] \in {"read", "send"}
    BY <1>0, <1>8 DEF SendToClosed, Sent, ThreadTypes
  <2>2. peer' \in {peer, [peer EXCEPT ![c] = "gone"]}
    BY <1>8 DEF SendToClosed
  <2>. QED
    BY <1>0, <2>1, <2>2 DEF ThreadTypes, PeerTypes
<1>9. CASE SendUnlock(c)
  BY <1>0, <1>9 DEF SendUnlock, ThreadTypes
<1>. QED
  BY <1>1, <1>2, <1>3, <1>4, <1>5, <1>6, <1>7, <1>8, <1>9 DEF ThreadStep, Interrupted

(* A descriptor is open while its thread is on the list or about to be,    *)
(* and closed once.                                                        *)
LEMMA FdStep ==
  ASSUME IInv, [Next]_vars
  PROVE  (FdPlace /\ FdDiscipline)'
<1> USE DEF loopvars, clock
<1> DEFINE P == (FdPlace /\ FdDiscipline)'
<1>0. /\ FdPlace /\ FdDiscipline /\ MainPlace /\ LoopTypes /\ ThreadTypes /\ PeerTypes
      /\ linked_list \in ListType /\ IsList(linked_list)
  BY TypeParts DEF IInv, LoopTypes, ListShape
<1>1. CASE join_threads
  <2>1. cursor \in Linked(linked_list) /\ cursor \in Conn /\ main_pc = "join" /\ main_pc' = main_pc
        /\ UNCHANGED <<current_state, client_fd, thread>>
    BY <1>1 DEF IInv, CursorOnList, join_threads, Linked, threadvars
  <2>2. CASE Joined(cursor)
    <3>1. Linked(linked_list') = Linked(linked_list) \ {cursor}
      BY <1>0, <1>1, <2>1, <2>2, RemoveElement DEF join_threads, RemoveThenFree
    <3>2. /\ fd' = [fd EXCEPT ![cursor] = "closed"] /\ peer' = [peer EXCEPT ![cursor] = "gone"]
          /\ thread[cursor] = "exited"
      BY <1>1, <2>2 DEF join_threads, Joined
    <3>. QED
      BY <1>0, <2>1, <3>1, <3>2 DEF FdPlace, FdDiscipline, MainPlace, PeerTypes
  <2>3. CASE ~Joined(cursor)
    <3>1. UNCHANGED <<linked_list, fd, peer>>
      BY <1>1, <2>3 DEF join_threads
    <3>. QED
      BY <1>0, <2>1, <3>1 DEF FdPlace, FdDiscipline
  <2>. QED
    BY <2>2, <2>3
<1>2. ASSUME NEW c \in Conn, check_for_client_connection(c) PROVE P
  <2>1. /\ main_pc = "accept" /\ main_pc' = "top" /\ fd[c] = "backlog"
        /\ fd' = [fd EXCEPT ![c] = "pending"] /\ client_fd' = c /\ current_state' = "CreatingThread"
        /\ UNCHANGED <<linked_list, thread, peer>>
    BY <1>2 DEF check_for_client_connection, threadvars, peervars
  <2>2. current_state = "Waiting" /\ peer[c] # "none"
    BY <1>0, <2>1 DEF MainPlace, FdPlace
  <2>. QED
    BY <1>0, <2>1, <2>2 DEF FdPlace, FdDiscipline, PeerTypes
<1>3. CASE create_thread \/ CreateFails
  <2>1. client_fd \in Conn /\ fd[client_fd] = "pending" /\ main_pc = "create"
    BY <1>0, <1>3 DEF create_thread, CreateFails, MainPlace, FdPlace
  <2>2. client_fd \notin Linked(linked_list) /\ peer[client_fd] # "none" /\ thread[client_fd] = "none"
    BY <1>0, <2>1 DEF FdPlace, FdDiscipline
  <2>3. CASE create_thread
    <3>1. /\ thread' = [thread EXCEPT ![client_fd] = "top"] /\ fd' = [fd EXCEPT ![client_fd] = "open"]
          /\ main_pc' = "insert" /\ UNCHANGED <<current_state, client_fd, linked_list, peer>>
      BY <2>3 DEF create_thread, peervars
    <3>. QED
      BY <1>0, <2>1, <2>2, <3>1, SMTT(30) DEF FdPlace, FdDiscipline, MainPlace, PeerTypes, ThreadTypes
  <2>4. CASE CreateFails
    <3>1. /\ fd' = [fd EXCEPT ![client_fd] = "leaked"] /\ current_state' = "Waiting"
          /\ main_pc' = "top" /\ UNCHANGED <<client_fd, linked_list, thread, peer>>
      BY <2>4 DEF CreateFails, threadvars, peervars
    <3>. QED
      BY <1>0, <2>1, <2>2, <3>1 DEF FdPlace, FdDiscipline, PeerTypes
  <2>. QED
    BY <1>3, <2>3, <2>4
<1>4. CASE InsertThread
  <2>1. client_fd \in Conn /\ client_fd \notin Linked(linked_list) /\ main_pc = "insert"
    BY <1>0, <1>4 DEF InsertThread, MainPlace, FdPlace
  <2>2. Linked(linked_list') = Linked(linked_list) \cup {client_fd}
    BY <1>0, <1>4, <2>1, InsertHead DEF InsertThread
  <2>3. main_pc' = "top" /\ current_state' = "Waiting" /\ UNCHANGED <<client_fd, fd, thread, peer>>
    BY <1>4 DEF InsertThread, threadvars, peervars
  <2>. QED
    BY <1>0, <2>1, <2>2, <2>3 DEF FdPlace, FdDiscipline, MainPlace
<1>5. ASSUME main_pc # "killed", main_pc' = "insert" <=> main_pc = "insert",
             UNCHANGED <<current_state, linked_list, fd, thread, peer>>,
             current_state = "CreatingThread" => UNCHANGED client_fd,
             main_pc # "insert"
      PROVE  P
  BY <1>0, <1>5 DEF FdPlace, FdDiscipline
<1>6. CASE startup \/ main_loop \/ TimestampLock \/ write_time_stamp \/ TimestampUnlock
  BY <1>5, <1>6 DEF startup, main_loop, TimestampLock, write_time_stamp, TimestampUnlock, Dispatch,
     threadvars, peervars
<1>7. CASE CheckExit \/ AcceptGate \/ shutting_down
  BY <1>5, <1>7 DEF CheckExit, AcceptGate, AfterGate, shutting_down, threadvars, peervars
<1>8. CASE AcceptFails
  <2>1. current_state = "Waiting"
    BY <1>0, <1>8 DEF AcceptFails, MainPlace
  <2>. QED
    BY <1>5, <1>8, <2>1 DEF AcceptFails, threadvars, peervars
<1>9. CASE ClockTick \/ signal_handler
  <2>1. UNCHANGED <<main_pc, current_state, client_fd, linked_list, fd, thread, peer>>
    BY <1>9 DEF ClockTick, signal_handler, threadvars, peervars
  <2>. QED
    BY <1>0, <2>1 DEF FdPlace, FdDiscipline
<1>10. ASSUME NEW c \in Conn, ThreadStep(c) \/ Interrupted(c) PROVE P
  <2>1. CASE SendKills(c)
    BY <2>1 DEF SendKills, FdPlace, FdDiscipline
  <2>2. CASE ~SendKills(c)
    <3>1. UNCHANGED <<main_pc, current_state, client_fd, linked_list, fd>> /\ main_pc # "killed"
      BY <1>10, <2>2, ThreadFrame DEF notthread, Dead
    <3>2. /\ thread[c] \notin {"none", "exited"} /\ thread'[c] # "none"
          /\ \A d \in Conn : d # c => thread'[d] = thread[d]
          /\ \A d \in Conn : peer'[d] = "none" => peer[d] = "none"
      BY <1>10, <2>2, ThreadMoves DEF IInv
    <3>3. fd[c] = "open"
      BY <1>0, <3>1, <3>2 DEF FdDiscipline
    <3>. QED
      BY <1>0, <3>1, <3>2, <3>3 DEF FdPlace, FdDiscipline
  <2>. QED
    BY <2>1, <2>2
<1>11. ASSUME NEW c \in Conn, PeerStep(c) PROVE P
  <2>1. UNCHANGED <<main_pc, current_state, client_fd, linked_list, thread>> /\ main_pc # "killed"
    BY <1>11, PeerFrame DEF notpeer, threadvars, Dead
  <2>2. CASE PeerConnect(c)
    <3>1. fd[c] = "none" /\ fd' = [fd EXCEPT ![c] = "backlog"] /\ peer' = [peer EXCEPT ![c] = "up"]
      BY <1>0, <2>1, <2>2 DEF PeerConnect, FdPlace
    <3>. QED
      BY <1>0, <2>1, <3>1 DEF FdPlace, FdDiscipline, PeerTypes, LoopTypes
  <2>3. CASE ~PeerConnect(c)
    <3>1. UNCHANGED fd /\ \A d \in Conn : peer'[d] = "none" => peer[d] = "none"
      BY <1>0, <1>11, <2>3 DEF PeerStep, PeerSend, PeerRead, PeerClose, PeerTypes
    <3>. QED
      BY <1>0, <2>1, <3>1 DEF FdPlace, FdDiscipline
  <2>. QED
    BY <2>2, <2>3
<1>12. CASE UNCHANGED vars
  BY <1>0, <1>12 DEF vars, FdPlace, FdDiscipline
<1>. QED
  BY <1>1, <1>2, <1>3, <1>4, <1>6, <1>7, <1>8, <1>9, <1>10, <1>11, <1>12
  DEF Next, MainStep, Terminated

(* The mutex is held between get_file_mutex and release_file_mutex, and    *)
(* only there.                                                             *)
LEMMA MutexStep ==
  ASSUME IInv, [Next]_vars
  PROVE  MutexDiscipline'
<1> SUFFICES ASSUME ~USE_AESD_CHAR_DEVICE PROVE MutexDiscipline'
  BY DEF MutexDiscipline
<1> DEFINE Crit == {"write", "read", "send", "unlock"}
           Held == /\ \A c \in Conn : file_mutex = c <=> thread[c] \in Crit
                   /\ file_mutex = Main <=> main_pc \in {"ts_write", "ts_unlock"}
<1>0. Held /\ ThreadTypes /\ FileTypes
  BY TypeParts DEF IInv, MutexDiscipline
<1>1. Main \notin Conn /\ NoOne \notin Conn /\ Main # NoOne
  BY SocketAssumption
<1>2. SUFFICES Held'
  BY DEF MutexDiscipline
<1>3. CASE create_thread
  <2>1. client_fd \in Conn /\ thread[client_fd] = "none"
    BY <1>3 DEF create_thread, IInv, MainPlace, FdPlace
  <2>. QED
    BY <1>0, <1>3, <2>1 DEF create_thread, filevars, ThreadTypes
<1>4. CASE TimestampLock
  BY <1>0, <1>1, <1>4 DEF TimestampLock, get_file_mutex, threadvars
<1>5. CASE TimestampUnlock
  BY <1>0, <1>1, <1>5 DEF TimestampUnlock, release_file_mutex, Dispatch, threadvars
<1>6. ASSUME UNCHANGED <<file_mutex, thread>>,
             main_pc' \in {"ts_write", "ts_unlock"} <=> main_pc \in {"ts_write", "ts_unlock"}
      PROVE  Held'
  BY <1>0, <1>6
<1>7. CASE startup \/ main_loop \/ write_time_stamp \/ join_threads \/ CheckExit
  BY <1>6, <1>7 DEF startup, main_loop, Dispatch, write_time_stamp, join_threads, CheckExit,
     threadvars, filevars
<1>8. CASE AcceptGate \/ AcceptFails \/ InsertThread \/ CreateFails \/ shutting_down
  BY <1>6, <1>8 DEF AcceptGate, AfterGate, AcceptFails, InsertThread, CreateFails, shutting_down,
     threadvars, filevars
<1>9. ASSUME NEW c \in Conn, check_for_client_connection(c) PROVE Held'
  BY <1>6, <1>9 DEF check_for_client_connection, threadvars, filevars
<1>10. CASE ClockTick \/ signal_handler
  BY <1>6, <1>10 DEF ClockTick, signal_handler, threadvars, filevars
<1>11. ASSUME NEW c \in Conn, ThreadStep(c) \/ Interrupted(c) PROVE Held'
  <2>1. CASE SendKills(c)
    <3>1. file_mutex = c /\ UNCHANGED <<thread, file_mutex>> /\ main_pc' = "killed"
      BY <1>0, <2>1 DEF SendKills, At, threadvars, filevars
    <3>. QED
      BY <1>0, <1>1, <3>1
  <2>2. ASSUME ~SendKills(c)
        PROVE  /\ UNCHANGED main_pc
               /\ \A d \in Conn : d # c => thread'[d] = thread[d]
    BY <1>11, <2>2, ThreadFrame, ThreadMoves DEF notthread, IInv
  <2>3. CASE SendLock(c)
    <3>1. file_mutex = NoOne /\ file_mutex' = c /\ thread'[c] = "write"
      BY <1>0, <2>3 DEF SendLock, get_file_mutex, Goto, ThreadTypes
    <3>2. ~SendKills(c)
      BY <2>3 DEF SendLock, SendKills, At
    <3>. QED
      BY <1>0, <1>1, <2>2, <3>1, <3>2
  <2>4. CASE SendUnlock(c)
    <3>1. file_mutex = c /\ file_mutex' = NoOne /\ thread'[c] = "top"
      BY <1>0, <2>4 DEF SendUnlock, release_file_mutex, Goto, At, ThreadTypes
    <3>2. ~SendKills(c)
      BY <2>4 DEF SendUnlock, SendKills, At
    <3>. QED
      BY <1>0, <1>1, <2>2, <3>1, <3>2
  <2>5. ASSUME ~SendKills(c), ~SendLock(c), ~SendUnlock(c) PROVE Held'
    <3> USE DEF At, Goto, GiveUp, SendFails, notthread, filevars
    <3>1. UNCHANGED file_mutex /\ (thread'[c] \in Crit <=> thread[c] \in Crit)
      <4> USE <1>0 DEF ThreadTypes
      <4>1. CASE main_loop_thread(c)
        BY <4>1 DEF main_loop_thread, Dest
      <4>2. CASE thread_cleanup(c)
        BY <4>2 DEF thread_cleanup
      <4>3. CASE waiting_for_data(c) \/ GrowFails(c)
        BY <4>3 DEF waiting_for_data, GrowFails, Received
      <4>4. CASE RecvEnds(c) \/ RecvReset(c) \/ RecvInterrupted(c) \/ process_received_data(c)
        BY <4>4 DEF RecvEnds, RecvReset, RecvInterrupted, process_received_data
      <4>5. CASE write_to_file(c) \/ WriteFails(c) \/ read_from_file(c) \/ ReadEnds(c) \/ ReadFails(c)
        BY <4>5 DEF write_to_file, WriteFails, read_from_file, ReadEnds, ReadFails
      <4>6. CASE send(c) \/ SendToClosed(c) \/ SendError(c) \/ SendInterrupted(c)
        BY <4>6 DEF send, SendToClosed, SendError, SendInterrupted, Sent
      <4>. QED
        BY <1>11, <2>5, <4>1, <4>2, <4>3, <4>4, <4>5, <4>6 DEF ThreadStep, Interrupted
    <3>. QED
      BY <1>0, <2>2, <2>5, <3>1
  <2>. QED
    BY <2>1, <2>3, <2>4, <2>5
<1>12. ASSUME NEW c \in Conn, PeerStep(c) PROVE Held'
  BY <1>6, <1>12, PeerFrame DEF notpeer, threadvars, filevars
<1>13. CASE UNCHANGED vars
  BY <1>6, <1>13 DEF vars
<1>. QED
  BY <1>3, <1>4, <1>5, <1>7, <1>8, <1>9, <1>10, <1>11, <1>12, <1>13
  DEF Next, MainStep, Terminated

(* Nothing locks the mutex in the char device build.                       *)
LEMMA UnusedStep ==
  ASSUME IInv, [Next]_vars
  PROVE  MutexUnused'
<1> SUFFICES ASSUME USE_AESD_CHAR_DEVICE PROVE UNCHANGED file_mutex
  BY DEF IInv, MutexUnused
<1> USE DEF filevars
<1>1. CASE MainStep \/ ClockTick \/ signal_handler
  <2>1. CASE TimestampLock \/ TimestampUnlock \/ write_time_stamp \/ shutting_down
    BY <2>1 DEF TimestampLock, TimestampUnlock, write_time_stamp, shutting_down, get_file_mutex,
       release_file_mutex
  <2>2. CASE startup \/ main_loop \/ join_threads \/ CheckExit \/ AcceptGate \/ AcceptFails
    BY <2>2 DEF startup, main_loop, join_threads, CheckExit, AcceptGate, AcceptFails
  <2>3. CASE create_thread \/ InsertThread \/ CreateFails \/ ClockTick \/ signal_handler
    BY <2>3 DEF create_thread, InsertThread, CreateFails, ClockTick, signal_handler
  <2>4. CASE \E c \in Conn : check_for_client_connection(c)
    BY <2>4 DEF check_for_client_connection
  <2>. QED
    BY <1>1, <2>1, <2>2, <2>3, <2>4 DEF MainStep
<1>2. ASSUME NEW c \in Conn, ThreadStep(c) \/ Interrupted(c) PROVE UNCHANGED file_mutex
  <2> USE DEF GiveUp, SendFails
  <2>1. CASE SendLock(c) \/ SendUnlock(c) \/ write_to_file(c) \/ WriteFails(c)
    BY <2>1 DEF SendLock, SendUnlock, get_file_mutex, release_file_mutex, write_to_file, WriteFails
  <2>2. CASE main_loop_thread(c) \/ thread_cleanup(c) \/ waiting_for_data(c) \/ GrowFails(c)
    BY <2>2 DEF main_loop_thread, thread_cleanup, waiting_for_data, GrowFails, Received
  <2>3. CASE RecvEnds(c) \/ RecvReset(c) \/ RecvInterrupted(c) \/ process_received_data(c)
    BY <2>3 DEF RecvEnds, RecvReset, RecvInterrupted, process_received_data
  <2>4. CASE read_from_file(c) \/ ReadEnds(c) \/ ReadFails(c)
    BY <2>4 DEF read_from_file, ReadEnds, ReadFails
  <2>5. CASE send(c) \/ SendToClosed(c) \/ SendError(c) \/ SendInterrupted(c) \/ SendKills(c)
    BY <2>5 DEF send, SendToClosed, SendError, SendInterrupted, SendKills, Sent
  <2>. QED
    BY <1>2, <2>1, <2>2, <2>3, <2>4, <2>5 DEF ThreadStep, Interrupted
<1>3. ASSUME NEW c \in Conn, PeerStep(c) PROVE UNCHANGED file_mutex
  BY <1>3, PeerFrame DEF notpeer
<1>4. CASE UNCHANGED vars
  BY <1>4 DEF vars
<1>. QED
  BY <1>1, <1>2, <1>3, <1>4 DEF Next, Terminated

-----------------------------------------------------------------------------
(* The server starts with an empty list, no thread and the mutex free.     *)
LEMMA InitIInv == Init => IInv
<1> SUFFICES ASSUME Init PROVE IInv
  OBVIOUS
<1> USE DEF Init
<1>1. linked_list \in ListType /\ Linked(linked_list) = {} /\ linked_list.slh_first = NoOne
      /\ linked_list.sle_next = [c \in Conn |-> Garbage]
  BY DEF SLIST_INIT, ListType, Linked
<1>2. IsList(linked_list)
  <2> DEFINE s == [i \in 1..0 |-> Main]
  <2>1. s \in [1..0 -> Conn]
    OBVIOUS
  <2>2. ListOf(linked_list, 0, s)
    BY <1>1 DEF ListOf
  <2>. QED
    BY <2>1, <2>2 DEF IsList
<1>3. file \in Seq(Write)
  <2>1. OldWrites \in Nat
    BY SocketAssumption
  <2>2. ASSUME NEW i \in 1..OldWrites
        PROVE  [by |-> NoOne, data |-> <<[n |-> i, end |-> TRUE]>>] \in Write
    <3>1. [n |-> i, end |-> TRUE] \in Item
      BY <2>1 DEF Item
    <3>2. <<[n |-> i, end |-> TRUE]>> \in Seq(Item)
      BY <3>1
    <3>. QED
      BY <3>2 DEF Write
  <2>3. file \in [1..OldWrites -> Write]
    BY <2>2
  <2>. QED
    BY <2>1, <2>3, SeqDef
<1>4. LoopTypes
  BY <1>1, SocketAssumption DEF LoopTypes, MainPCs
<1>5. FlagTypes
  BY Zenon DEF FlagTypes
<1>6. FileTypes
  BY <1>3 DEF FileTypes
<1>7. ThreadTypes
  <2>1. <<>> \in Seq(Item) /\ <<>> \in Seq(Write)
    BY EmptySeq
  <2>. QED
    BY <2>1 DEF ThreadTypes, ThreadPCs
<1>8. PeerTypes
  <2>1. <<>> \in Seq(Item) /\ 0 \in 0..SndCap
    BY EmptySeq, Bounds
  <2>. QED
    BY <2>1 DEF PeerTypes
<1>9. TypeOK
  BY <1>4, <1>5, <1>6, <1>7, <1>8, TypeParts
<1>10. MutexDiscipline
  BY SocketAssumption DEF MutexDiscipline
<1>11. FdPlace /\ FdDiscipline
  BY <1>1 DEF FdPlace, FdDiscipline
<1>. QED
  BY <1>1, <1>2, <1>9, <1>10, <1>11
  DEF IInv, ListShape, CursorOnList, MainPlace, MutexUnused, LateKnown, OneLateAccept

(* The inductive invariant holds in every reachable state, for any number  *)
(* of clients, packets and timestamps, whatever fails and whenever the     *)
(* signal comes.                                                           *)
THEOREM SocketInvariance == Spec => []IInv
<1>1. IInv /\ [Next]_vars => IInv'
  BY TypeStep, ListStep, PlaceStep, FdStep, MutexStep, UnusedStep, LateStep DEF IInv
<1>. QED
  BY <1>1, InitIInv, PTL DEF Spec

(* Every variable of server, threads and clients keeps its type.           *)
THEOREM SocketTypes == Spec => []TypeOK
<1>1. IInv => TypeOK
  BY DEF IInv
<1>. QED
  BY <1>1, SocketInvariance, PTL

(* The mutex is held by the thread between lock and unlock, on every path  *)
(* through sending_data and write_time_stamp, and by nobody else.          *)
THEOREM MutexSafety == Spec => []MutexDiscipline
<1>1. IInv => MutexDiscipline
  BY DEF IInv
<1>. QED
  BY <1>1, SocketInvariance, PTL

(* No descriptor is closed under a running thread, none twice, and none is *)
(* open without an item on the list or about to be put there.              *)
THEOREM DescriptorSafety == Spec => []FdDiscipline
<1>1. IInv => FdDiscipline
  BY DEF IInv
<1>. QED
  BY <1>1, SocketInvariance, PTL

(* A walk over the list meets every item in use and no freed one, and      *)
(* join_threads never stands on a freed one.                               *)
THEOREM ListSafety == Spec => []ListIntact
<1>1. IInv => ListIntact
  <2> SUFFICES ASSUME IInv PROVE ListIntact
    OBVIOUS
  <2>1. linked_list \in ListType /\ IsList(linked_list)
    BY TypeParts DEF IInv, LoopTypes, ListShape
  <2>. QED
    BY <2>1, WalkVisits DEF IInv, CursorOnList, ListIntact
<1>. QED
  BY <1>1, SocketInvariance, PTL

(* main_loop is left only with every thread joined, no accepted connection *)
(* in hand and the mutex free.                                             *)
THEOREM ExitIsClean == Spec => []CleanExit
<1>1. IInv => CleanExit
  <2> SUFFICES ASSUME IInv, main_pc \in {"shutdown", "exited"}
               PROVE  /\ Linked(linked_list) = {} /\ file_mutex = NoOne
                      /\ \A c \in Conn : /\ thread[c] \in {"none", "exited"}
                                         /\ fd[c] \notin {"pending", "open"}
    BY DEF CleanExit
  <2>1. linked_list \in ListType /\ IsList(linked_list) /\ file_mutex \in Conn \cup {Main, NoOne}
    BY TypeParts DEF IInv, LoopTypes, FileTypes, ListShape
  <2>2. linked_list.slh_first = NoOne /\ current_state = "Waiting"
    BY DEF IInv, MainPlace
  <2>3. Linked(linked_list) = {}
    BY <2>1, <2>2, EmptyList
  <2>4. ASSUME NEW c \in Conn
        PROVE  thread[c] \in {"none", "exited"} /\ fd[c] \notin {"pending", "open"}
    BY <2>2, <2>3 DEF IInv, FdDiscipline
  <2>5. file_mutex = NoOne
    BY <2>1, <2>4 DEF IInv, MutexDiscipline, MutexUnused
  <2>. QED
    BY <2>3, <2>4, <2>5
<1>. QED
  BY <1>1, SocketInvariance, PTL

(* However the signal falls between the tests of the flag, at most one     *)
(* connection is accepted after it.                                        *)
THEOREM LateAccepts == Spec => []OneLateAccept
<1>1. IInv => OneLateAccept
  BY DEF IInv
<1>. QED
  BY <1>1, SocketInvariance, PTL

=============================================================================
