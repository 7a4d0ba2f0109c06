------------------------- MODULE AesdCircularBuffer -------------------------
(***************************************************************************)
(* The circular buffer of aesd-char-driver/aesd-circular-buffer.c: the     *)
(* struct as a record, every function as an operator on that record.  The  *)
(* functions take no lock; their callers do (see AesdChar).                *)
(***************************************************************************)
EXTENDS Integers, Sequences

CONSTANTS
  MaxOps,   \* AESDCHAR_MAX_WRITE_OPERATIONS_SUPPORTED, the number of slots
  NULL      \* the null pointer

(* The offsets are uint8_t and run over 0..MaxOps-1, so up to 256 slots    *)
(* they do not wrap; the shipped value is 10.                              *)
ASSUME MaxOpsAssumption == MaxOps \in 1..256

Slot == 0 .. MaxOps - 1

NoEntry == [buffptr |-> NULL, size |-> 0]

(* memset(buffer, 0, ...): NULL pointers, zero sizes, and both flags false. *)
aesd_circular_buffer_init ==
  [entry    |-> [i \in Slot |-> NoEntry],
   in_offs  |-> 0,
   out_offs |-> 0,
   full     |-> FALSE,
   empty    |-> FALSE]

(* The wrap-around that every function below writes out.                   *)
Advance(offs) == IF offs = MaxOps - 1 THEN 0 ELSE offs + 1

-----------------------------------------------------------------------------
(* aesd_circular_buffer_add_entry.                                         *)

(* Faulty variant: reports the slot it overwrites only when it is the      *)
(* first, so other overwritten blocks are never freed.                     *)
OverwrittenFirst(b) ==
  IF b.full /\ b.in_offs = 0 THEN b.entry[b.in_offs].buffptr ELSE NULL

(* Faulty variant: reports the slot after the one it overwrites.           *)
OverwrittenNext(b) == IF b.full THEN b.entry[Advance(b.in_offs)].buffptr ELSE NULL

(* Its return value: the block of the entry it overwrites, or NULL.        *)
Overwritten(b) == IF b.full THEN b.entry[b.in_offs].buffptr ELSE NULL

(* Faulty variant: the oldest entry is overwritten but the read offset     *)
(* stays behind.                                                           *)
AddEntryKeepOut(b, e) ==
  [entry    |-> [b.entry EXCEPT ![b.in_offs] = e],
   in_offs  |-> Advance(b.in_offs),
   out_offs |-> b.out_offs,
   full     |-> b.full \/ Advance(b.in_offs) = b.out_offs,
   empty    |-> FALSE]

(* Its effect.  The fullness test compares the advanced in_offs with the   *)
(* old out_offs, and only when the buffer was not full already.            *)
aesd_circular_buffer_add_entry(b, e) ==
  [entry    |-> [b.entry EXCEPT ![b.in_offs] = e],
   in_offs  |-> Advance(b.in_offs),
   out_offs |-> IF b.full THEN Advance(b.out_offs) ELSE b.out_offs,
   full     |-> b.full \/ Advance(b.in_offs) = b.out_offs,
   empty    |-> FALSE]

-----------------------------------------------------------------------------
(* aesd_circular_buffer_remove_entry: the buffer it leaves and the entry   *)
(* it returns.  The early return tests empty == false, as the code does.   *)
aesd_circular_buffer_remove_entry(b) ==
  IF b.empty = FALSE
  THEN [buffer |-> b, rtn |-> NULL]
  ELSE LET out == Advance(b.out_offs)
       IN [buffer |-> [entry    |-> b.entry,
                       in_offs  |-> b.in_offs,
                       out_offs |-> out,
                       full     |-> b.full,
                       empty    |-> b.empty \/ b.in_offs = out],
           rtn    |-> b.entry[b.out_offs]]

-----------------------------------------------------------------------------
(* aesd_circular_buffer_find_entry_offset_for_fpos: the slot that holds    *)
(* byte char_offset and that byte's offset in the entry, or NULL.          *)

(* One iteration of its loop: index and char_offset_left afterwards, and   *)
(* whether it has returned, with the slot it returned and the offset.      *)
FindStep(b, at) ==
  LET size == b.entry[at.index].size IN
  IF at.found \/ at.left < size
  THEN [index |-> at.index, left |-> at.left, found |-> TRUE]
  ELSE [index |-> Advance(at.index), left |-> at.left - size, found |-> FALSE]

(* Faulty variant: visits one slot too few.                                *)
FindSkipsLast(b, char_offset) ==
  LET loop[n \in 0..MaxOps] ==
        IF n = 0 THEN [index |-> b.out_offs, left |-> char_offset, found |-> FALSE]
        ELSE FindStep(b, loop[n - 1])
      r == loop[MaxOps - 1]
  IN IF r.found THEN [index |-> r.index, offset |-> r.left] ELSE NULL

(* loop[n] is the state after n iterations of the MaxOps there are, from   *)
(* out_offs on.                                                            *)
aesd_circular_buffer_find_entry_offset_for_fpos(b, char_offset) ==
  LET loop[n \in 0..MaxOps] ==
        IF n = 0 THEN [index |-> b.out_offs, left |-> char_offset, found |-> FALSE]
        ELSE FindStep(b, loop[n - 1])
      r == loop[MaxOps]
  IN IF r.found THEN [index |-> r.index, offset |-> r.left] ELSE NULL

-----------------------------------------------------------------------------
(* The reader's view of the struct: how many entries it holds and the      *)
(* slots that hold them, oldest first.                                     *)
Count(b) == IF b.full THEN MaxOps
            ELSE IF b.out_offs <= b.in_offs THEN b.in_offs - b.out_offs
            ELSE b.in_offs - b.out_offs + MaxOps

SlotAt(b, k) == LET i == b.out_offs + k - 1 IN IF i < MaxOps THEN i ELSE i - MaxOps

=============================================================================
