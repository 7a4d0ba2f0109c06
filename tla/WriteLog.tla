------------------------------ MODULE WriteLog ------------------------------
(***************************************************************************)
(* What the AESD char device promises its users, without locks, blocks or  *)
(* ring offsets: it keeps the last MaxOps newline-terminated entries and   *)
(* one unfinished entry.  A write appends its bytes in one step; a read    *)
(* moves the file's position over the concatenation of the entries, where  *)
(* position 0 is always the first byte of the oldest entry still kept.     *)
(***************************************************************************)
EXTENDS Integers, Sequences, SequencesExt

CONSTANTS
  Proc,     \* the callers, one open file each
  MaxOps,   \* how many complete entries are kept
  NL,       \* the byte that completes an entry
  Chunks,   \* the byte sequences a write may pass
  Counts    \* the counts a read may ask for

VARIABLES
  log,      \* the complete entries, oldest first
  partial,  \* the bytes of the unfinished entry
  pos       \* the position of each open file

vars == <<log, partial, pos>>

Contents == FlattenSeq(log)

(* The last MaxOps entries of a log.                                       *)
Newest(s) == IF Len(s) <= MaxOps THEN s
             ELSE SubSeq(s, Len(s) - MaxOps + 1, Len(s))

Init == log = <<>> /\ partial = <<>> /\ pos = [p \in Proc |-> 0]

Write(chunk) ==
  LET bytes == partial \o chunk IN
  /\ bytes # <<>>
  /\ IF Last(bytes) = NL
     THEN log' = Newest(Append(log, bytes)) /\ partial' = <<>>
     ELSE partial' = bytes /\ UNCHANGED log
  /\ UNCHANGED pos

Read(p, count) ==
  LET left == IF pos[p] < Len(Contents) THEN Len(Contents) - pos[p] ELSE 0 IN
  /\ pos' = [pos EXCEPT ![p] = @ + IF count < left THEN count ELSE left]
  /\ UNCHANGED <<log, partial>>

Open(p) == pos' = [pos EXCEPT ![p] = 0] /\ UNCHANGED <<log, partial>>

(* Unloading the module forgets everything.                                *)
Reset == log' = <<>> /\ partial' = <<>> /\ UNCHANGED pos

Next ==
  \/ \E chunk \in Chunks : Write(chunk)
  \/ \E p \in Proc, count \in Counts : Read(p, count)
  \/ \E p \in Proc : Open(p)
  \/ Reset

Spec == Init /\ [][Next]_vars

=============================================================================
