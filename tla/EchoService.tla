---------------------------- MODULE EchoService ----------------------------
(***************************************************************************)
(* What the server promises its clients in the temp file build, without    *)
(* threads, mutex, buffers or file positions: it stores one packet at a    *)
(* time and answers it with all that is stored, in order, before anything  *)
(* else is stored.  An answer that stays incomplete costs the connection.  *)
(***************************************************************************)
EXTENDS Integers, Sequences

CONSTANTS
  Conn,        \* the connections
  Main, NoOne  \* the author of timestamps; nobody

VARIABLES
  store,       \* the writes stored so far
  answering,   \* the connection being answered, or NoOne
  answer,      \* what it has been sent
  closed       \* the connections on which something has failed

vars == <<store, answering, answer, closed>>

Idle == answering = NoOne /\ UNCHANGED <<answering, answer>>

(* One more write is stored, by w, after those that are there.             *)
Stored(w) ==
  /\ Len(store') = Len(store) + 1
  /\ SubSeq(store', 1, Len(store)) = store
  /\ store'[Len(store')].by = w

Init ==
  /\ \A i \in 1..Len(store) : store[i].by = NoOne
  /\ answering = NoOne /\ answer = <<>>
  /\ closed = [c \in Conn |-> FALSE]

(* A packet of c is stored and its answer begins.                          *)
Store(c) ==
  /\ answering = NoOne /\ ~closed[c]
  /\ Stored(c)
  /\ answering' = c /\ answer' = <<>>
  /\ UNCHANGED closed

(* Some more of the store is sent.                                         *)
Answer ==
  /\ answering # NoOne
  /\ \E n \in 1..Len(store) - Len(answer) : answer' = SubSeq(store, 1, Len(answer) + n)
  /\ UNCHANGED <<store, answering, closed>>

(* All has been sent.                                                      *)
Finish ==
  /\ answering # NoOne /\ answer = store
  /\ answering' = NoOne /\ answer' = <<>>
  /\ UNCHANGED <<store, closed>>

(* The answer breaks off, and with it the connection.                      *)
BreakOff(c) ==
  /\ answering = c
  /\ closed' = [closed EXCEPT ![c] = TRUE]
  /\ answering' = NoOne /\ answer' = <<>>
  /\ UNCHANGED store

(* A connection fails between two answers; of its packet, the file may     *)
(* hold a part.                                                            *)
Close(c) ==
  /\ answering # c /\ ~closed[c]
  /\ closed' = [closed EXCEPT ![c] = TRUE]
  /\ \/ UNCHANGED store
     \/ answering = NoOne /\ Stored(c)
  /\ UNCHANGED <<answering, answer>>

Timestamp ==
  /\ Idle
  /\ Stored(Main)
  /\ UNCHANGED closed

(* The server exits and removes its file.                                  *)
Remove == Idle /\ store' = <<>> /\ UNCHANGED closed

Next ==
  \/ \E c \in Conn : Store(c) \/ BreakOff(c) \/ Close(c)
  \/ Answer \/ Finish \/ Timestamp \/ Remove

Spec == Init /\ [][Next]_vars

=============================================================================
