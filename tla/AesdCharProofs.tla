--------------------------- MODULE AesdCharProofs ---------------------------
(***************************************************************************)
(* Proofs about the AESD char driver, for every number of processes, slots *)
(* and blocks and every set of write buffers.                              *)
(***************************************************************************)
EXTENDS AesdChar, TLAPS

(* The wrap-around stays inside the ring, and moves.                       *)
LEMMA AdvanceType ==
  ASSUME NEW i \in Slot
  PROVE  /\ Advance(i) \in Slot
         /\ Advance(i) = 0 \/ Advance(i) = i + 1
         /\ i # MaxOps - 1 => Advance(i) = i + 1
         /\ i = MaxOps - 1 => Advance(i) = 0
  BY MaxOpsAssumption DEF Advance, Slot

(* Slots are natural numbers from 0 on.                                    *)
LEMMA SlotZero == 0 \in Slot /\ Slot \subseteq Nat
  BY MaxOpsAssumption DEF Slot

(* The initial state satisfies the inductive invariant.                    *)
LEMMA InitIInv == Init => IInv
  <1> SUFFICES ASSUME Init PROVE IInv
    OBVIOUS
  <1> USE ConstAssumption, SlotZero DEF Init, aesd_circular_buffer_init, NoEntry
  <1>1. DeviceTypeOK
    BY DEF DeviceTypeOK, InCall
  <1>2. LockDiscipline
    BY DEF LockDiscipline, Critical
  <1>3. RingShape
    BY DEF RingShape
  <1>4. SingleOwner /\ NoLeakWhileLive
    BY DEF SingleOwner, NoLeakWhileLive, Owned
  <1>5. SizesAgree
    BY DEF SizesAgree, Partial
  <1>6. Bookkeeping
    BY DEF Bookkeeping
  <1>7. QED
    BY <1>1, <1>2, <1>3, <1>4, <1>5, <1>6 DEF IInv

(* Steps that touch neither the device, nor the heap, nor a new_buffer,    *)
(* nor the arguments of a writer that is past its allocation: they only    *)
(* move one process between program points outside of the critical section *)
(* of a write.                                                             *)
LEMMA QuietStep ==
  ASSUME IInv, NEW p \in Proc,
         UNCHANGED <<modst, dev, heap, new_buffer>>,
         DeviceTypeOK', LockDiscipline',
         module # "live" => pc'[p] \in {"closed", "oops"},
         \A r \in Proc : r # p => pc'[r] = pc[r] /\ arg'[r] = arg[r],
         pc[p] \notin {"w_copy", "w_commit", "w_fault"},
         pc'[p] \notin {"w_copy", "w_commit", "w_fault"}
  PROVE  IInv'
  <1> USE DEF modst, dev, heap, IInv
  <1>1. RingShape'
    BY DEF RingShape
  <1>2. SingleOwner' /\ NoLeakWhileLive'
    BY DEF SingleOwner, NoLeakWhileLive, Owned
  <1>3. SizesAgree'
    BY DEF SizesAgree, Partial
  <1>4. Bookkeeping'
    BY DEF Bookkeeping, AllocSize, NewBytes, Partial
  <1>5. QED
    BY <1>1, <1>2, <1>3, <1>4

-----------------------------------------------------------------------------
(* Loading and unloading.                                                  *)

(* Loading the module, or failing to, keeps the invariant.                 *)
LEMMA InitModuleIInv == IInv /\ (aesd_init_module \/ aesd_init_module_fails) => IInv'
  <1> SUFFICES ASSUME IInv, aesd_init_module \/ aesd_init_module_fails PROVE IInv'
    OBVIOUS
  <1> USE DEF aesd_init_module, aesd_init_module_fails, heap, dev, local, IInv
  <1>0. /\ buffer' = buffer /\ entry_temp' = entry_temp
        /\ alloc' = alloc /\ mem' = mem /\ leaked' = leaked
        /\ pc' = pc /\ arg' = arg /\ count' = count /\ new_buffer' = new_buffer
        /\ buffer_lock' \in {buffer_lock, NoProc}
        /\ module' \in {"live", "unloaded"} /\ loads' \in Nat
        /\ module = "unloaded"
        /\ \A p \in Proc : pc[p] \in {"closed", "oops"}
    BY DEF Bookkeeping, DeviceTypeOK
  <1>1. DeviceTypeOK'
    BY <1>0 DEF DeviceTypeOK
  <1>2. LockDiscipline'
    BY <1>0 DEF LockDiscipline, Critical
  <1>3. RingShape'
    BY <1>0 DEF RingShape
  <1>4. SingleOwner' /\ NoLeakWhileLive'
    BY <1>0 DEF SingleOwner, NoLeakWhileLive, Owned
  <1>5. SizesAgree'
    BY <1>0 DEF SizesAgree, Partial
  <1>6. Bookkeeping'
    BY <1>0 DEF Bookkeeping
  <1>7. QED
    BY <1>1, <1>2, <1>3, <1>4, <1>5, <1>6

(* So does the start of unloading, which only takes the device away.       *)
LEMMA CleanupIInv == IInv /\ aesd_cleanup_module => IInv'
  <1> SUFFICES ASSUME IInv, aesd_cleanup_module PROVE IInv'
    OBVIOUS
  <1> USE DEF aesd_cleanup_module, heap, dev, local, IInv
  <1>1. DeviceTypeOK'
    BY DEF DeviceTypeOK
  <1>2. LockDiscipline'
    BY DEF LockDiscipline
  <1>3. RingShape'
    BY DEF RingShape
  <1>4. SingleOwner' /\ NoLeakWhileLive'
    BY DEF SingleOwner, NoLeakWhileLive, Owned
  <1>5. SizesAgree'
    BY DEF SizesAgree, Partial
  <1>6. Bookkeeping'
    BY DEF Bookkeeping, AllocSize, NewBytes, Partial
  <1>7. QED
    BY <1>1, <1>2, <1>3, <1>4, <1>5, <1>6

(* The loop over the entries ends at once: empty is false, so the removal  *)
(* returns NULL.  What the ring still held counts as leaked from here on.  *)
LEMMA DrainIInv == IInv /\ DrainStep => IInv'
  <1> SUFFICES ASSUME IInv, DrainStep PROVE IInv'
    OBVIOUS
  <1> USE DEF IInv
  <1>0. /\ buffer' = aesd_circular_buffer_init
        /\ entry_temp' = NoEntry
        /\ alloc' = alloc \ {entry_temp.buffptr}
        /\ mem' = [q \in Ptr |-> IF q = entry_temp.buffptr THEN <<>> ELSE mem[q]]
        /\ leaked' = leaked \cup (Blocks(buffer) \cap alloc')
        /\ module = "draining" /\ module' = "unloaded"
        /\ loads' = loads /\ buffer_lock' = buffer_lock /\ pc' = pc
        /\ arg' = arg /\ count' = count /\ new_buffer' = new_buffer
    <2>1. buffer.empty = FALSE
      BY DEF Bookkeeping
    <2>2. aesd_circular_buffer_remove_entry(buffer) = [buffer |-> buffer, rtn |-> NULL]
      BY <2>1 DEF aesd_circular_buffer_remove_entry
    <2>3. QED
      BY <2>2 DEF DrainStep, FreeAll, local
  <1>a. \A p \in Proc : pc[p] \in {"closed", "oops"} /\ new_buffer[p] = NULL
    BY <1>0 DEF Bookkeeping
  <1>1. DeviceTypeOK'
    <2>1. buffer' \in [entry : [Slot -> [buffptr : Ptr \cup {NULL}, size : Nat]],
                       in_offs : Slot, out_offs : Slot,
                       full : BOOLEAN, empty : BOOLEAN]
      BY <1>0, SlotZero DEF aesd_circular_buffer_init, NoEntry
    <2>2. mem' \in [Ptr -> Seq(Byte)]
      BY <1>0 DEF DeviceTypeOK
    <2>3. alloc' \in SUBSET Ptr /\ leaked' \in SUBSET Ptr
      BY <1>0 DEF DeviceTypeOK
    <2>4. entry_temp' \in [buffptr : Ptr \cup {NULL, ZERO_SIZE_PTR}, size : Nat]
      BY <1>0 DEF NoEntry
    <2>5. QED
      BY <1>0, <2>1, <2>2, <2>3, <2>4 DEF DeviceTypeOK
  <1>2. LockDiscipline'
    BY <1>0 DEF LockDiscipline
  <1>3. RingShape'
    BY <1>0, SlotZero DEF RingShape, aesd_circular_buffer_init
  <1>4. SingleOwner'
    BY <1>0, <1>a, ConstAssumption
    DEF SingleOwner, Owned, aesd_circular_buffer_init, NoEntry
  <1>5. NoLeakWhileLive'
    <2>1. SUFFICES ASSUME NEW q \in alloc' PROVE q \in leaked'
      BY DEF NoLeakWhileLive
    <2>2. q \in alloc /\ q # entry_temp.buffptr /\ q \in Ptr
      BY <1>0, <2>1 DEF DeviceTypeOK
    <2>3. CASE \E i \in Slot : buffer.entry[i].buffptr = q
      <3>1. q \in Blocks(buffer)
        BY <2>2, <2>3, ConstAssumption DEF Blocks
      <3>2. QED
        BY <1>0, <2>1, <3>1
    <2>4. CASE q \in leaked
      BY <1>0, <2>4
    <2>5. QED
      BY <1>a, <2>2, <2>3, <2>4, ConstAssumption DEF NoLeakWhileLive, Owned
  <1>6. SizesAgree'
    BY <1>0, ConstAssumption DEF SizesAgree, Partial, aesd_circular_buffer_init, NoEntry
  <1>7. Bookkeeping'
    <2>1. leaked' \subseteq alloc'
      BY <1>0 DEF Bookkeeping, SingleOwner, Owned, DeviceTypeOK
    <2>2. QED
      BY <1>0, <1>a, <2>1 DEF Bookkeeping, aesd_circular_buffer_init
  <1>8. QED
    BY <1>1, <1>2, <1>3, <1>4, <1>5, <1>6, <1>7

-----------------------------------------------------------------------------
(* open, release, the starts of calls, the lock, and all of read: none of  *)
(* them touches what the invariant is about, except the lock.              *)

(* Opening, releasing, starting a call, and giving up the wait for a lock. *)
LEMMA FileIInv ==
  ASSUME IInv, NEW p \in Proc,
         \/ aesd_open(p) \/ aesd_release(p) \/ WriteCall(p) \/ ReadCall(p)
         \/ get_lock_interrupted(p)
  PROVE  IInv'
  <1> USE DEF IInv
  <1>1. /\ UNCHANGED <<modst, dev, heap, new_buffer>>
        /\ buffer_lock' = buffer_lock
        /\ pc[p] \in {"closed", "open", "w_lock", "r_lock"}
        /\ \E to \in {"closed", "open", "w_lock", "r_lock"} : pc' = [pc EXCEPT ![p] = to]
        /\ arg' \in [Proc -> Seq(Byte)]
        /\ \A r \in Proc : r # p => arg'[r] = arg[r]
        /\ count' \in [Proc -> Nat]
        /\ module = "live"
    <2>1. CASE aesd_open(p)
      BY <2>1 DEF aesd_open, DeviceTypeOK, Bookkeeping, modst, dev, heap
    <2>2. CASE aesd_release(p)
      BY <2>2 DEF aesd_release, DeviceTypeOK, Bookkeeping, modst, dev, heap, local
    <2>3. CASE WriteCall(p)
      <3>1. PICK chunk \in Seq(Byte) : arg' = [arg EXCEPT ![p] = chunk]
        BY <2>3, ConstAssumption DEF WriteCall
      <3>2. arg' \in [Proc -> Seq(Byte)] /\ \A r \in Proc : r # p => arg'[r] = arg[r]
        BY <3>1 DEF DeviceTypeOK
      <3>3. pc[p] = "open" /\ module = "live"
        BY <2>3 DEF WriteCall, Bookkeeping
      <3>4. QED
        BY <2>3, <3>2, <3>3 DEF WriteCall, DeviceTypeOK, modst, dev, heap
    <2>4. CASE ReadCall(p)
      <3>1. PICK n \in Nat : count' = [count EXCEPT ![p] = n]
        BY <2>4, ConstAssumption DEF ReadCall
      <3>2. count' \in [Proc -> Nat]
        BY <3>1 DEF DeviceTypeOK
      <3>3. pc[p] = "open" /\ module = "live"
        BY <2>4 DEF ReadCall, Bookkeeping
      <3>4. QED
        BY <2>4, <3>2, <3>3 DEF ReadCall, DeviceTypeOK, modst, dev, heap
    <2>5. CASE get_lock_interrupted(p)
      BY <2>5 DEF get_lock_interrupted, DeviceTypeOK, Bookkeeping, modst, dev, heap
    <2>6. QED
      BY <2>1, <2>2, <2>3, <2>4, <2>5
  <1>2. DeviceTypeOK'
    <2>1. pc' \in [Proc -> InCall \cup {"closed", "open", "oops"}]
      BY <1>1 DEF DeviceTypeOK, InCall
    <2>2. QED
      BY <1>1, <2>1 DEF DeviceTypeOK, modst, dev, heap
  <1>3. LockDiscipline'
    BY <1>1 DEF LockDiscipline, Critical, DeviceTypeOK
  <1>4. QED
    BY <1>1, <1>2, <1>3, QuietStep, ZenonT(60) DEF DeviceTypeOK

(* Entering the critical section.                                          *)
LEMMA LockIInv ==
  ASSUME IInv, NEW p \in Proc, WriteLock(p) \/ ReadLock(p)
  PROVE  IInv'
  <1> USE DEF IInv
  <1>1. /\ UNCHANGED <<modst, dev, heap, new_buffer, arg, count>>
        /\ buffer_lock = NoProc /\ buffer_lock' = p
        /\ pc[p] \in {"w_lock", "r_lock"}
        /\ \E to \in {"w_alloc", "r_loop"} : pc' = [pc EXCEPT ![p] = to]
    BY DEF WriteLock, ReadLock, get_lock, modst, dev, heap, local
  <1>2. DeviceTypeOK'
    BY <1>1 DEF DeviceTypeOK, InCall, Critical, modst, dev, heap
  <1>3. LockDiscipline'
    BY <1>1, ConstAssumption DEF LockDiscipline, Critical, DeviceTypeOK
  <1>4. QED
    BY <1>1, <1>2, <1>3, QuietStep, ZenonT(60) DEF DeviceTypeOK, Bookkeeping

(* The loop of aesd_read and its two ways out.                             *)
LEMMA ReadIInv ==
  ASSUME IInv, NEW p \in Proc, ReadStep(p) \/ ReadFault(p) \/ ReadDone(p)
  PROVE  IInv'
  <1> USE DEF IInv
  <1>1. /\ UNCHANGED <<modst, dev, heap, new_buffer, arg>>
        /\ count' \in [Proc -> Nat]
        /\ pc[p] = "r_loop"
        /\ \/ pc' = pc /\ buffer_lock' = buffer_lock
           \/ pc' = [pc EXCEPT ![p] = "open"] /\ buffer_lock' = NoProc
    <2>1. CASE ReadStep(p)
      BY <2>1 DEF ReadStep, modst, dev, heap, DeviceTypeOK
    <2>2. CASE EndRead(p) /\ pc[p] = "r_loop"
      BY <2>2 DEF EndRead, release_lock, modst, dev, heap, DeviceTypeOK
    <2>3. QED
      BY <2>1, <2>2 DEF ReadFault, ReadDone
  <1>2. DeviceTypeOK'
    BY <1>1 DEF DeviceTypeOK, InCall, modst, dev, heap
  <1>3. LockDiscipline'
    BY <1>1, ConstAssumption DEF LockDiscipline, Critical, DeviceTypeOK
  <1>4. QED
    BY <1>1, <1>2, <1>3, QuietStep DEF DeviceTypeOK, Bookkeeping

-----------------------------------------------------------------------------
(* The write steps.                                                        *)

(* The -ENOMEM return.                                                     *)
LEMMA WriteNoMemoryIInv ==
  ASSUME IInv, NEW p \in Proc, WriteNoMemory(p)
  PROVE  IInv'
  <1> USE DEF IInv
  <1>1. /\ UNCHANGED <<modst, dev, heap, new_buffer, count>>
        /\ pc[p] = "w_alloc" /\ pc' = [pc EXCEPT ![p] = "open"]
        /\ buffer_lock' = NoProc
        /\ arg' = [arg EXCEPT ![p] = <<>>]
    BY DEF WriteNoMemory, release_lock, modst, dev, heap
  <1>2. DeviceTypeOK'
    BY <1>1 DEF DeviceTypeOK, InCall, modst, dev, heap
  <1>3. LockDiscipline'
    BY <1>1, ConstAssumption DEF LockDiscipline, Critical, DeviceTypeOK
  <1>4. QED
    BY <1>1, <1>2, <1>3, QuietStep DEF DeviceTypeOK, Bookkeeping

(* Only the holder of the lock is past its allocation.                     *)
LEMMA OneWriter ==
  ASSUME IInv, NEW p \in Proc, pc[p] \in Critical
  PROVE  /\ buffer_lock = p
         /\ module = "live"
         /\ \A r \in Proc : r # p => pc[r] \notin Critical
  BY DEF IInv, LockDiscipline, Bookkeeping, Critical

(* ALLOC: the writer becomes the one owner of a block nobody owned.        *)
LEMMA WriteAllocIInv ==
  ASSUME IInv, NEW p \in Proc, WriteAlloc(p)
  PROVE  IInv'
  <1> USE DEF IInv
  <1>1. /\ UNCHANGED <<modst, dev, buffer_lock, mem, leaked, arg, count>>
        /\ pc[p] = "w_alloc" /\ pc' = [pc EXCEPT ![p] = "w_copy"]
    BY DEF WriteAlloc, modst, dev
  <1>2. \A r \in Proc : r # p => pc[r] \notin Critical
    BY <1>1, OneWriter DEF Critical
  <1>3. PICK q \in Ptr \cup {ZERO_SIZE_PTR} :
          /\ q \notin alloc
          /\ new_buffer' = [new_buffer EXCEPT ![p] = q]
          /\ IF AllocSize(p) = 0 THEN q = ZERO_SIZE_PTR /\ alloc' = alloc
                                 ELSE q \in Ptr /\ alloc' = alloc \cup {q}
    BY ConstAssumption DEF WriteAlloc, DeviceTypeOK
  <1>4. DeviceTypeOK'
    BY <1>1, <1>3 DEF DeviceTypeOK, InCall, Critical, modst, dev
  <1>5. LockDiscipline'
    BY <1>1 DEF LockDiscipline, Critical, DeviceTypeOK
  <1>6. RingShape'
    BY <1>1 DEF RingShape, dev
  <1>7. SingleOwner'
    <2>1. ~Owned(q) \/ q \notin Ptr
      BY <1>3 DEF SingleOwner
    <2>2. q \in Ptr => q \notin leaked
      BY <1>3 DEF Bookkeeping
    <2>3. new_buffer'[p] = q /\ \A r \in Proc : r # p => new_buffer'[r] = new_buffer[r]
      BY <1>3 DEF DeviceTypeOK
    <2>4. alloc \subseteq alloc' /\ (q \in Ptr => q \in alloc')
      BY <1>3, ConstAssumption
    <2>5. QED
      BY <1>1, <2>1, <2>2, <2>3, <2>4 DEF SingleOwner, Owned, dev
  <1>8. NoLeakWhileLive'
    <2>1. new_buffer'[p] = q /\ \A r \in Proc : r # p => new_buffer'[r] = new_buffer[r]
      BY <1>3 DEF DeviceTypeOK
    <2>2. new_buffer[p] = NULL
      BY <1>1 DEF Bookkeeping
    <2>3. \A b \in Ptr : Owned(b) => Owned(b)'
      BY <1>1, <2>1, <2>2, ConstAssumption DEF Owned, dev
    <2>4. q \in Ptr => Owned(q)'
      BY <2>1 DEF Owned
    <2>5. alloc' \subseteq alloc \cup {q} /\ (q \notin Ptr => alloc' = alloc)
      BY <1>3, ConstAssumption
    <2>6. QED
      BY <1>1, <2>3, <2>4, <2>5 DEF NoLeakWhileLive, DeviceTypeOK
  <1>9. SizesAgree'
    BY <1>1 DEF SizesAgree, Partial, dev
  <1>10. Bookkeeping'
    <2>1. AllocSize(p)' = AllocSize(p)
      BY <1>1 DEF AllocSize, dev
    <2>2. \A r \in Proc : r # p => pc'[r] = pc[r] /\ new_buffer'[r] = new_buffer[r]
      BY <1>1, <1>3 DEF DeviceTypeOK
    <2>3. pc'[p] = "w_copy" /\ new_buffer'[p] = q
      BY <1>1, <1>3 DEF DeviceTypeOK
    <2>4. leaked' \subseteq alloc'
      BY <1>1, <1>3 DEF Bookkeeping
    <2>5. \A r \in Proc : r # p => pc[r] \notin {"w_copy", "w_commit"}
      BY <1>2 DEF Critical
    <2>6. module' = "live"
      BY <1>1, OneWriter DEF Critical, modst
    <2>7. buffer' = buffer /\ buffer.empty = FALSE
      BY <1>1, Zenon DEF Bookkeeping, dev
    <2>8. ASSUME NEW r \in Proc
          PROVE  /\ pc'[r] \notin {"w_copy", "w_commit", "w_fault"} => new_buffer'[r] = NULL
                 /\ pc'[r] \in {"w_copy", "w_commit"} =>
                      IF AllocSize(r)' = 0 THEN new_buffer'[r] = ZERO_SIZE_PTR
                                           ELSE new_buffer'[r] \in Ptr
                 /\ pc'[r] # "w_commit"
      <3>1. CASE r = p
        BY <1>3, <2>1, <2>3, <3>1
      <3>2. CASE r # p
        BY <2>2, <2>5, <3>2 DEF Bookkeeping
      <3>3. QED
        BY <3>1, <3>2
    <2>9. QED
      BY <2>4, <2>6, <2>7, <2>8 DEF Bookkeeping
  <1>11. QED
    BY <1>4, <1>5, <1>6, <1>7, <1>8, <1>9, <1>10

(* The copy changes only the new block, which nobody else owns.            *)
LEMMA WriteCopyIInv ==
  ASSUME IInv, NEW p \in Proc, WriteCopy(p)
  PROVE  IInv'
  <1> USE DEF IInv
  <1>1. /\ UNCHANGED <<modst, dev, buffer_lock, alloc, leaked, arg, count, new_buffer>>
        /\ pc[p] = "w_copy" /\ pc' = [pc EXCEPT ![p] = "w_commit"]
        /\ mem' = [q \in Ptr |-> IF q = new_buffer[p] THEN NewBytes(p) ELSE mem[q]]
    BY DEF WriteCopy, modst, dev, local
  <1>2. \A r \in Proc : r # p => pc[r] \notin {"w_copy", "w_commit"}
    BY <1>1, OneWriter DEF Critical
  <1>3. Partial \in Seq(Byte) /\ NewBytes(p) \in Seq(Byte)
    BY DEF Partial, NewBytes, DeviceTypeOK
  <1>4. Partial' = Partial /\ NewBytes(p)' = NewBytes(p) /\ AllocSize(p)' = AllocSize(p)
    <2>1. entry_temp.buffptr \in Ptr => mem'[entry_temp.buffptr] = mem[entry_temp.buffptr]
      BY <1>1 DEF SingleOwner
    <2>2. Partial' = Partial
      BY <1>1, <2>1 DEF Partial, dev
    <2>3. QED
      BY <1>1, <2>2 DEF NewBytes, AllocSize, dev
  <1>5. DeviceTypeOK'
    <2>1. mem' \in [Ptr -> Seq(Byte)]
      BY <1>1, <1>3 DEF DeviceTypeOK
    <2>2. QED
      BY <1>1, <2>1 DEF DeviceTypeOK, InCall, Critical, modst, dev
  <1>6. LockDiscipline'
    BY <1>1 DEF LockDiscipline, Critical, DeviceTypeOK
  <1>7. RingShape' /\ SingleOwner' /\ NoLeakWhileLive'
    BY <1>1 DEF RingShape, SingleOwner, NoLeakWhileLive, Owned, dev
  <1>8. SizesAgree'
    <2>1. \A i \in Slot : buffer.entry[i].buffptr # NULL =>
            mem'[buffer.entry[i].buffptr] = mem[buffer.entry[i].buffptr]
      BY <1>1 DEF SingleOwner, DeviceTypeOK
    <2>2. QED
      BY <1>1, <1>4, <2>1 DEF SizesAgree, dev
  <1>9. Bookkeeping'
    <2>1. pc'[p] = "w_commit" /\ \A r \in Proc : r # p => pc'[r] = pc[r]
      BY <1>1 DEF DeviceTypeOK
    <2>2. new_buffer[p] \in Ptr => mem'[new_buffer[p]] = NewBytes(p)
      BY <1>1
    <2>3. module' = "live"
      BY <1>1, OneWriter DEF Critical, modst
    <2>4. QED
      BY <1>1, <1>2, <1>4, <2>1, <2>2, <2>3 DEF Bookkeeping, dev, modst
  <1>10. QED
    BY <1>5, <1>6, <1>7, <1>8, <1>9

(* The -EFAULT return up to release_lock: the block is still the writer's. *)
LEMMA WriteFaultIInv ==
  ASSUME IInv, NEW p \in Proc, WriteFault(p)
  PROVE  IInv'
  <1> USE DEF IInv
  <1>1. /\ UNCHANGED <<modst, dev, heap, new_buffer, arg, count>>
        /\ pc[p] = "w_copy" /\ pc' = [pc EXCEPT ![p] = "w_fault"]
        /\ buffer_lock' = NoProc
    BY DEF WriteFault, release_lock, modst, dev, heap, local
  <1>2. pc'[p] = "w_fault" /\ \A r \in Proc : r # p => pc'[r] = pc[r]
    BY <1>1 DEF DeviceTypeOK
  <1>3. DeviceTypeOK'
    BY <1>1 DEF DeviceTypeOK, InCall, modst, dev, heap
  <1>4. LockDiscipline'
    BY <1>1, <1>2, OneWriter DEF LockDiscipline, Critical
  <1>5. RingShape' /\ SingleOwner' /\ NoLeakWhileLive'
    BY <1>1 DEF RingShape, SingleOwner, NoLeakWhileLive, Owned, dev, heap
  <1>6. SizesAgree'
    BY <1>1 DEF SizesAgree, Partial, dev, heap
  <1>7. Bookkeeping'
    <2>1. module = "live"
      BY <1>1, OneWriter DEF Critical
    <2>2. QED
      BY <1>1, <1>2, <2>1 DEF Bookkeeping, AllocSize, NewBytes, Partial, modst, dev, heap
  <1>8. QED
    BY <1>3, <1>4, <1>5, <1>6, <1>7

(* FREE leaves the bytes of every other block alone.                       *)
LEMMA FreeAllFrame ==
  ASSUME DeviceTypeOK, NEW S, FreeAll(S)
  PROVE  /\ alloc' = alloc \ S
         /\ alloc' \in SUBSET Ptr
         /\ mem' \in [Ptr -> Seq(Byte)]
         /\ \A q \in Ptr : q \notin S => mem'[q] = mem[q]
  BY DEF DeviceTypeOK, FreeAll

(* FREE after release_lock: another writer may be anywhere, but the block  *)
(* is still owned by this one alone.                                       *)
LEMMA WriteFaultFreeIInv ==
  ASSUME IInv, NEW p \in Proc, WriteFaultFree(p)
  PROVE  IInv'
  <1> USE DEF IInv
  <1> DEFINE b == new_buffer[p]
  <1>1. /\ UNCHANGED <<modst, dev, buffer_lock, leaked, count>>
        /\ pc[p] = "w_fault" /\ pc' = [pc EXCEPT ![p] = "open"]
        /\ new_buffer' = [new_buffer EXCEPT ![p] = NULL]
        /\ arg' = [arg EXCEPT ![p] = <<>>]
        /\ FreeAll({b})
    BY DEF WriteFaultFree, modst, dev
  <1>2. /\ pc'[p] = "open" /\ new_buffer'[p] = NULL
        /\ \A r \in Proc : r # p => /\ pc'[r] = pc[r]
                                    /\ new_buffer'[r] = new_buffer[r]
                                    /\ arg'[r] = arg[r]
    BY <1>1 DEF DeviceTypeOK
  <1>3. /\ alloc' = alloc \ {b} /\ alloc' \in SUBSET Ptr
        /\ mem' \in [Ptr -> Seq(Byte)]
        /\ \A q \in Ptr : q # b => mem'[q] = mem[q]
    BY <1>1, FreeAllFrame
  <1> HIDE DEF b
  <1>4. \A q \in Ptr : Owned(q)' <=> Owned(q) /\ q # b
    BY <1>1, <1>2, ConstAssumption DEF Owned, SingleOwner, dev, b
  <1>5. DeviceTypeOK'
    BY <1>1, <1>3 DEF DeviceTypeOK, InCall, modst, dev
  <1>6. LockDiscipline'
    BY <1>1, <1>2, ConstAssumption DEF LockDiscipline, Critical, DeviceTypeOK
  <1>7. RingShape'
    BY <1>1 DEF RingShape, dev
  <1>8. SingleOwner'
    <2>1. \A q \in Ptr : Owned(q)' => q \in alloc' /\ q \notin leaked'
      BY <1>1, <1>3, <1>4 DEF SingleOwner
    <2>2. QED
      BY <1>1, <1>2, <2>1, ConstAssumption DEF SingleOwner, dev
  <1>9. NoLeakWhileLive'
    BY <1>1, <1>3, <1>4 DEF NoLeakWhileLive, DeviceTypeOK
  <1>10. Partial' = Partial
    BY <1>1, <1>3 DEF Partial, SingleOwner, dev, b
  <1>11. SizesAgree'
    <2>1. \A i \in Slot : buffer.entry[i].buffptr # NULL =>
            mem'[buffer.entry[i].buffptr] = mem[buffer.entry[i].buffptr]
      BY <1>3 DEF SingleOwner, DeviceTypeOK, b
    <2>2. QED
      BY <1>1, <1>10, <2>1 DEF SizesAgree, dev
  <1>12. Bookkeeping'
    <2>1. leaked' \subseteq alloc'
      BY <1>1, <1>3 DEF Bookkeeping, SingleOwner, Owned, DeviceTypeOK, b
    <2>2. module = "live"
      BY <1>1 DEF Bookkeeping
    <2>3. ASSUME NEW r \in Proc, r # p, new_buffer[r] \in Ptr
          PROVE  mem'[new_buffer[r]] = mem[new_buffer[r]]
      BY <1>3, <2>3 DEF SingleOwner, b
    <2>4. \A r \in Proc : r # p => AllocSize(r)' = AllocSize(r) /\ NewBytes(r)' = NewBytes(r)
      BY <1>1, <1>2, <1>10 DEF AllocSize, NewBytes, dev
    <2>5. QED
      BY <1>1, <1>2, <2>1, <2>2, <2>3, <2>4 DEF Bookkeeping, modst, dev
  <1>13. QED
    BY <1>5, <1>6, <1>7, <1>8, <1>9, <1>11, <1>12

(* A writer at its commit: the block it is about to install holds exactly  *)
(* as many bytes as the size it is about to store, unless both are empty.  *)
LEMMA CommitFacts ==
  ASSUME IInv, NEW p \in Proc, pc[p] = "w_commit"
  PROVE  /\ Grown(p).buffptr = new_buffer[p]
         /\ Grown(p).size = entry_temp.size + Len(arg[p])
         /\ Grown(p) \in [buffptr : Ptr \cup {ZERO_SIZE_PTR}, size : Nat]
         /\ Grown(p).size > 0 =>
              /\ new_buffer[p] \in Ptr
              /\ mem[new_buffer[p]] \in Seq(Byte)
              /\ Len(mem[new_buffer[p]]) = Grown(p).size
         /\ Grown(p).size = 0 => new_buffer[p] = ZERO_SIZE_PTR /\ arg[p] = <<>>
  <1> USE DEF IInv
  <1>1. Grown(p).buffptr = new_buffer[p] /\ Grown(p).size = entry_temp.size + Len(arg[p])
    BY DEF Grown
  <1>2. /\ Partial \in Seq(Byte) /\ entry_temp.size = Len(Partial)
        /\ arg[p] \in Seq(Byte) /\ entry_temp.size \in Nat
    BY DEF Partial, SizesAgree, DeviceTypeOK
  <1>3. AllocSize(p) = Grown(p).size
    <2>1. entry_temp.buffptr = NULL => Partial = <<>>
      BY ConstAssumption DEF Partial
    <2>2. entry_temp.buffptr = NULL => entry_temp.size = 0
      BY <1>2, <2>1
    <2>3. Len(arg[p]) \in Nat
      BY <1>2
    <2>4. QED
      BY <1>1, <1>2, <2>2, <2>3 DEF AllocSize
  <1>4. IF Grown(p).size = 0 THEN new_buffer[p] = ZERO_SIZE_PTR
                             ELSE new_buffer[p] \in Ptr
    BY <1>3 DEF Bookkeeping
  <1>5. Grown(p).size \in Nat
    BY <1>1, <1>2
  <1>6. Grown(p) \in [buffptr : Ptr \cup {ZERO_SIZE_PTR}, size : Nat]
    BY <1>1, <1>4, <1>5 DEF Grown
  <1>7. new_buffer[p] \in Ptr => /\ mem[new_buffer[p]] \in Seq(Byte)
                                 /\ Len(mem[new_buffer[p]]) = Grown(p).size
    <2>1. new_buffer[p] \in Ptr => mem[new_buffer[p]] = Partial \o arg[p]
      BY DEF Bookkeeping, NewBytes
    <2>2. /\ Partial \o arg[p] \in Seq(Byte)
          /\ Len(Partial \o arg[p]) = Len(Partial) + Len(arg[p])
      BY <1>2
    <2>3. QED
      BY <1>1, <1>2, <2>1, <2>2
  <1>8. Grown(p).size = 0 => arg[p] = <<>>
    BY <1>1, <1>2
  <1>9. QED
    BY <1>1, <1>4, <1>5, <1>6, <1>7, <1>8

(* The commit that leaves the entry unfinished, and the one that dies.     *)
LEMMA WriteTempIInv ==
  ASSUME IInv, NEW p \in Proc, WritePartial(p) \/ WriteOops(p)
  PROVE  IInv'
  <1> USE DEF IInv
  <1> DEFINE old == entry_temp.buffptr
             b   == new_buffer[p]
  <1>1. /\ UNCHANGED <<modst, buffer, leaked, count>>
        /\ pc[p] = "w_commit"
        /\ entry_temp' = Grown(p)
        /\ FreeAll({old})
        /\ new_buffer' = [new_buffer EXCEPT ![p] = NULL]
        /\ arg' = [arg EXCEPT ![p] = <<>>]
        /\ \/ pc' = [pc EXCEPT ![p] = "open"] /\ buffer_lock' = NoProc
           \/ pc' = [pc EXCEPT ![p] = "oops"] /\ buffer_lock' = buffer_lock
    BY DEF WritePartial, WriteOops, EndWrite, release_lock, modst
  <1>2. /\ pc'[p] \in {"open", "oops"} /\ new_buffer'[p] = NULL
        /\ \A r \in Proc : r # p => /\ pc'[r] = pc[r]
                                    /\ new_buffer'[r] = new_buffer[r]
                                    /\ arg'[r] = arg[r]
    BY <1>1 DEF DeviceTypeOK
  <1>3. /\ alloc' = alloc \ {old} /\ alloc' \in SUBSET Ptr
        /\ mem' \in [Ptr -> Seq(Byte)]
        /\ \A q \in Ptr : q # old => mem'[q] = mem[q]
    BY <1>1, FreeAllFrame
  <1>a. \A r \in Proc : r # p => pc[r] \notin Critical
    BY <1>1, OneWriter DEF Critical
  <1>b. buffer_lock = p /\ module = "live"
    BY <1>1, OneWriter DEF Critical
  <1>c. b \in Ptr => b # old
    BY DEF SingleOwner
  <1>d. /\ entry_temp'.buffptr = b
        /\ entry_temp' \in [buffptr : Ptr \cup {ZERO_SIZE_PTR}, size : Nat]
        /\ IF b \in Ptr THEN Len(mem[b]) = entry_temp'.size ELSE entry_temp'.size = 0
    BY <1>1, CommitFacts, ConstAssumption
  <1> HIDE DEF old, b
  <1>4. \A q \in Ptr : Owned(q)' <=> Owned(q) /\ q # old
    <2>1. \A q \in Ptr, i \in Slot : buffer.entry[i].buffptr = q => q # old
      BY DEF SingleOwner, old
    <2>2. \A q \in Ptr, r \in Proc : new_buffer[r] = q => q # old
      BY DEF SingleOwner, old
    <2>3. QED
      BY <1>1, <1>2, <1>d, <2>1, <2>2, ConstAssumption DEF Owned, old, b
  <1>5. DeviceTypeOK'
    <2>1. pc' \in [Proc -> InCall \cup {"closed", "open", "oops"}]
      BY <1>1 DEF DeviceTypeOK
    <2>2. QED
      BY <1>1, <1>3, <1>d, <2>1, SMTT(30) DEF DeviceTypeOK, modst
  <1>6. LockDiscipline'
    BY <1>1, <1>2, <1>a, <1>b, ConstAssumption DEF LockDiscipline, Critical, DeviceTypeOK
  <1>7. RingShape'
    BY <1>1 DEF RingShape
  <1>8. SingleOwner'
    <2>1. \A q \in Ptr : Owned(q)' => q \in alloc' /\ q \notin leaked'
      BY <1>1, <1>3, <1>4 DEF SingleOwner
    <2>2. QED
      BY <1>1, <1>2, <1>d, <2>1, ConstAssumption DEF SingleOwner, b
  <1>9. NoLeakWhileLive'
    BY <1>1, <1>3, <1>4 DEF NoLeakWhileLive, DeviceTypeOK
  <1>10. SizesAgree'
    <2>1. \A i \in Slot : buffer.entry[i].buffptr # NULL =>
            mem'[buffer.entry[i].buffptr] = mem[buffer.entry[i].buffptr]
      BY <1>3 DEF SingleOwner, DeviceTypeOK, old
    <2>2. entry_temp'.size = Len(Partial')
      BY <1>3, <1>c, <1>d DEF Partial
    <2>3. QED
      BY <1>1, <2>1, <2>2 DEF SizesAgree
  <1>11. Bookkeeping'
    <2>1. leaked' \subseteq alloc'
      BY <1>1, <1>3 DEF Bookkeeping, SingleOwner, Owned, DeviceTypeOK, old
    <2>2. ASSUME NEW r \in Proc
          PROVE  /\ pc'[r] \notin {"w_copy", "w_commit"}
                 /\ pc'[r] # "w_fault" => new_buffer'[r] = NULL
      BY <1>2, <1>a DEF Bookkeeping, Critical
    <2>3. QED
      BY <1>1, <1>b, <2>1, <2>2 DEF Bookkeeping, modst
  <1>12. QED
    BY <1>5, <1>6, <1>7, <1>8, <1>9, <1>10, <1>11

(* The commit that completes an entry: the ring takes over the new block   *)
(* and the overwritten one, if any, is freed with the old working block.   *)
LEMMA WriteEntryIInv ==
  ASSUME IInv, NEW p \in Proc, WriteEntry(p)
  PROVE  IInv'
  <1> USE DEF IInv
  <1> DEFINE old == entry_temp.buffptr
             gone == Overwritten(buffer)
             b == new_buffer[p]
             at == buffer.in_offs
  <1>1. /\ UNCHANGED <<modst, leaked, count>>
        /\ pc[p] = "w_commit"
        /\ Grown(p).size > 0
        /\ mem[b][Grown(p).size] = NL
        /\ entry_temp' = NoEntry
        /\ buffer' = aesd_circular_buffer_add_entry(buffer, Grown(p))
        /\ FreeAll({old, gone})
        /\ new_buffer' = [new_buffer EXCEPT ![p] = NULL]
        /\ arg' = [arg EXCEPT ![p] = <<>>]
        /\ pc' = [pc EXCEPT ![p] = "open"] /\ buffer_lock' = NoProc
    BY CommitFacts DEF WriteEntry, EndWrite, release_lock, modst, TempAfterAdd
  <1>2. /\ pc'[p] = "open" /\ new_buffer'[p] = NULL
        /\ \A r \in Proc : r # p => /\ pc'[r] = pc[r]
                                    /\ new_buffer'[r] = new_buffer[r]
                                    /\ arg'[r] = arg[r]
    BY <1>1 DEF DeviceTypeOK
  <1>3. /\ alloc' = alloc \ {old, gone} /\ alloc' \in SUBSET Ptr
        /\ mem' \in [Ptr -> Seq(Byte)]
        /\ \A q \in Ptr : q # old /\ q # gone => mem'[q] = mem[q]
    BY <1>1, FreeAllFrame
  <1>a. \A r \in Proc : r # p => pc[r] \notin Critical
    BY <1>1, OneWriter DEF Critical
  <1>b. buffer_lock = p /\ module = "live"
    BY <1>1, OneWriter DEF Critical
  <1>c. b \in Ptr /\ Len(mem[b]) = Grown(p).size /\ b # old
    BY <1>1, CommitFacts DEF SingleOwner
  <1>d. Grown(p) \in [buffptr : Ptr, size : Nat] /\ Grown(p).buffptr = b
    BY <1>1, <1>c, CommitFacts DEF Grown
  <1>e. /\ at \in Slot
        /\ buffer'.entry = [buffer.entry EXCEPT ![at] = Grown(p)]
        /\ buffer'.entry[at] = Grown(p)
        /\ \A i \in Slot : i # at => buffer'.entry[i] = buffer.entry[i]
        /\ buffer'.in_offs = Advance(at)
        /\ buffer'.out_offs = IF buffer.full THEN Advance(buffer.out_offs) ELSE buffer.out_offs
        /\ buffer'.full = (buffer.full \/ Advance(at) = buffer.out_offs)
        /\ buffer'.empty = FALSE
    BY <1>1 DEF aesd_circular_buffer_add_entry, DeviceTypeOK
  <1>f. gone = buffer.entry[at].buffptr
    <2>1. ~buffer.full => buffer.entry[at] = NoEntry
      <3>1. SUFFICES ASSUME ~buffer.full PROVE buffer.entry[at] = NoEntry
        OBVIOUS
      <3>2. at \in Slot /\ at \in Nat
        BY <1>e, SlotZero
      <3>3. ~(buffer.full \/ at < buffer.in_offs)
        BY <3>1, <3>2
      <3>4. QED
        BY <3>2, <3>3 DEF RingShape
    <2>2. QED
      BY <2>1 DEF Overwritten, NoEntry
  <1> HIDE DEF old, b, gone, at
  <1>4. \A q \in Ptr : Owned(q)' <=> Owned(q) /\ q # old /\ q # gone
    <2>1. \A q \in Ptr, i \in Slot : buffer.entry[i].buffptr = q /\ i # at
                                       => q # old /\ q # gone
      BY <1>e, <1>f DEF SingleOwner, old
    <2>2. \A q \in Ptr, r \in Proc : new_buffer[r] = q => q # old /\ q # gone
      BY <1>e, <1>f DEF SingleOwner, old
    <2>3. entry_temp'.buffptr = NULL
      BY <1>1 DEF NoEntry
    <2>4. \A q \in Ptr : Owned(q)' => Owned(q) /\ q # old /\ q # gone
      BY <1>2, <1>d, <1>e, <2>1, <2>2, <2>3, ConstAssumption DEF Owned, b
    <2>5. ASSUME NEW q \in Ptr, Owned(q), q # old, q # gone PROVE Owned(q)'
      <3>1. CASE \E i \in Slot : buffer.entry[i].buffptr = q
        BY <1>e, <1>f, <2>5, <3>1 DEF Owned
      <3>2. CASE \E r \in Proc : new_buffer[r] = q
        BY <1>2, <1>d, <1>e, <3>2 DEF Owned, b
      <3>3. QED
        BY <2>5, <3>1, <3>2 DEF Owned, old
    <2>6. QED
      BY <2>4, <2>5
  <1>5. DeviceTypeOK'
    <2>1. buffer' \in [entry : [Slot -> [buffptr : Ptr \cup {NULL}, size : Nat]],
                       in_offs : Slot, out_offs : Slot,
                       full : BOOLEAN, empty : BOOLEAN]
      <3>1. buffer'.entry \in [Slot -> [buffptr : Ptr \cup {NULL}, size : Nat]]
        BY <1>d, <1>e DEF DeviceTypeOK
      <3>2. buffer'.in_offs \in Slot /\ buffer'.out_offs \in Slot
        BY <1>e, AdvanceType DEF DeviceTypeOK
      <3>3. QED
        BY <1>1, <3>1, <3>2 DEF aesd_circular_buffer_add_entry, DeviceTypeOK
    <2>2. pc' \in [Proc -> InCall \cup {"closed", "open", "oops"}]
      BY <1>1 DEF DeviceTypeOK
    <2>3. entry_temp' \in [buffptr : Ptr \cup {NULL, ZERO_SIZE_PTR}, size : Nat]
      BY <1>1 DEF NoEntry
    <2>4. new_buffer' \in [Proc -> Ptr \cup {NULL, ZERO_SIZE_PTR}]
      BY <1>1 DEF DeviceTypeOK
    <2>5. arg' \in [Proc -> Seq(Byte)]
      BY <1>1 DEF DeviceTypeOK
    <2>6. QED
      BY <1>1, <1>3, <2>1, <2>2, <2>3, <2>4, <2>5 DEF DeviceTypeOK, modst
  <1>6. LockDiscipline'
    BY <1>1, <1>2, <1>a, <1>b, ConstAssumption DEF LockDiscipline, Critical, DeviceTypeOK
  <1>7. RingShape'
    <2>1. Grown(p).buffptr # NULL /\ Grown(p).size > 0
      BY <1>1, <1>c, <1>d, ConstAssumption
    <2>2. CASE buffer.full
      BY <1>e, <2>1, <2>2, ZenonT(60) DEF RingShape, at
    <2>3. CASE ~buffer.full
      <3>1. buffer.out_offs = 0 /\ buffer'.out_offs = 0
        BY <1>e, <2>3 DEF RingShape
      <3>2. \A i \in Slot : IF i < at THEN buffer.entry[i].buffptr # NULL /\ buffer.entry[i].size > 0
                                      ELSE buffer.entry[i] = NoEntry
        BY <2>3 DEF RingShape, at
      <3>3. CASE at = MaxOps - 1
        <4>1. Advance(at) = 0
          BY <1>e, <3>3, AdvanceType
        <4>2. buffer'.full = TRUE /\ buffer'.in_offs = 0
          BY <1>e, <3>1, <4>1
        <4>3. \A i \in Slot : i # at => i < at
          BY <3>3, MaxOpsAssumption DEF Slot
        <4>4. \A i \in Slot : buffer'.entry[i].buffptr # NULL /\ buffer'.entry[i].size > 0
          BY <1>e, <2>1, <3>2, <4>3
        <4>5. QED
          BY <3>1, <4>2, <4>4 DEF RingShape
      <3>4. CASE at # MaxOps - 1
        <4>1. Advance(at) = at + 1 /\ at \in Nat
          BY <1>e, <3>4, AdvanceType, SlotZero
        <4>2. ~buffer'.full /\ buffer'.in_offs = at + 1
          <5>1. Advance(at) # buffer.out_offs
            BY <3>1, <4>1
          <5>2. QED
            BY <1>e, <2>3, <4>1, <5>1, Zenon
        <4>3. \A i \in Slot : i \in Nat /\ (i < at + 1 <=> i < at \/ i = at)
          BY <4>1, SlotZero
        <4>4. \A i \in Slot : IF i < at + 1
                              THEN buffer'.entry[i].buffptr # NULL /\ buffer'.entry[i].size > 0
                              ELSE buffer'.entry[i] = NoEntry
          BY <1>e, <2>1, <3>2, <4>3
        <4>5. \A i \in Slot : (buffer'.full \/ i < buffer'.in_offs) <=> i < at + 1
          BY <4>2
        <4>6. \A i \in Slot : IF buffer'.full \/ i < buffer'.in_offs
                              THEN buffer'.entry[i].buffptr # NULL /\ buffer'.entry[i].size > 0
                              ELSE buffer'.entry[i] = NoEntry
          BY <4>4, <4>5
        <4>7. QED
          BY <3>1, <4>2, <4>6, Zenon DEF RingShape
      <3>5. QED
        BY <3>3, <3>4
    <2>4. QED
      BY <2>2, <2>3
  <1>8. SingleOwner'
    <2>1. \A q \in Ptr : Owned(q)' => q \in alloc' /\ q \notin leaked'
      BY <1>1, <1>3, <1>4 DEF SingleOwner
    <2>2. \A i, j \in Slot : buffer'.entry[i].buffptr \in Ptr /\ i # j
                               => buffer'.entry[i].buffptr # buffer'.entry[j].buffptr
      BY <1>c, <1>d, <1>e DEF SingleOwner, b
    <2>3. entry_temp'.buffptr \notin Ptr
      BY <1>1, ConstAssumption DEF NoEntry
    <2>4. ASSUME NEW r \in Proc, new_buffer'[r] \in Ptr
          PROVE  /\ r # p
                 /\ new_buffer'[r] = new_buffer[r]
                 /\ \A i \in Slot : new_buffer[r] # buffer'.entry[i].buffptr
      BY <1>2, <1>c, <1>d, <1>e, <2>4, ConstAssumption DEF SingleOwner, b
    <2>5. QED
      BY <1>2, <2>1, <2>2, <2>3, <2>4, ConstAssumption DEF SingleOwner
  <1>9. NoLeakWhileLive'
    BY <1>1, <1>3, <1>4 DEF NoLeakWhileLive, DeviceTypeOK
  <1>10. SizesAgree'
    <2>1. Partial' = <<>> /\ entry_temp'.size = 0
      BY <1>1, ConstAssumption DEF Partial, NoEntry
    <2>2. b # gone
      BY <1>c, <1>e, <1>f DEF SingleOwner, b
    <2>3. mem'[b] = mem[b]
      BY <1>3, <1>c, <2>2
    <2>4. ASSUME NEW i \in Slot, buffer'.entry[i].buffptr # NULL
          PROVE  /\ buffer'.entry[i].size = Len(mem'[buffer'.entry[i].buffptr])
                 /\ mem'[buffer'.entry[i].buffptr][buffer'.entry[i].size] = NL
      <3>1. CASE i = at
        BY <1>1, <1>c, <1>d, <1>e, <2>3, <3>1 DEF b
      <3>2. CASE i # at
        <4>1. buffer'.entry[i] = buffer.entry[i] /\ buffer.entry[i].buffptr \in Ptr
          BY <1>e, <2>4, <3>2 DEF DeviceTypeOK
        <4>2. mem'[buffer.entry[i].buffptr] = mem[buffer.entry[i].buffptr]
          BY <1>3, <1>e, <1>f, <3>2, <4>1 DEF SingleOwner, old
        <4>3. QED
          BY <2>4, <4>1, <4>2 DEF SizesAgree
      <3>3. QED
        BY <3>1, <3>2
    <2>5. QED
      BY <2>1, <2>4 DEF SizesAgree
  <1>11. Bookkeeping'
    <2>1. leaked' \subseteq alloc'
      BY <1>1, <1>3, <1>e, <1>f DEF Bookkeeping, SingleOwner, Owned, DeviceTypeOK, old
    <2>2. ASSUME NEW r \in Proc
          PROVE  /\ pc'[r] \notin {"w_copy", "w_commit"}
                 /\ pc'[r] # "w_fault" => new_buffer'[r] = NULL
      BY <1>2, <1>a DEF Bookkeeping, Critical
    <2>3. QED
      BY <1>1, <1>b, <1>e, <2>1, <2>2 DEF Bookkeeping, modst
  <1>12. QED
    BY <1>5, <1>6, <1>7, <1>8, <1>9, <1>10, <1>11

-----------------------------------------------------------------------------
(* Every step preserves the inductive invariant.                           *)
LEMMA NextIInv == IInv /\ [Next]_vars => IInv'
  <1> SUFFICES ASSUME IInv, [Next]_vars PROVE IInv'
    OBVIOUS
  <1>1. CASE aesd_init_module \/ aesd_init_module_fails
    BY <1>1, InitModuleIInv
  <1>2. CASE aesd_cleanup_module
    BY <1>2, CleanupIInv
  <1>3. CASE DrainStep
    BY <1>3, DrainIInv
  <1>4. ASSUME NEW p \in Proc,
               \/ aesd_open(p) \/ aesd_release(p) \/ WriteCall(p) \/ ReadCall(p)
               \/ get_lock_interrupted(p)
        PROVE  IInv'
    BY <1>4, FileIInv
  <1>5. ASSUME NEW p \in Proc, WriteSteps(p)
        PROVE  IInv'
    BY <1>5, LockIInv, WriteAllocIInv, WriteNoMemoryIInv, WriteCopyIInv, WriteFaultIInv,
       WriteFaultFreeIInv, WriteTempIInv, WriteEntryIInv DEF WriteSteps
  <1>6. ASSUME NEW p \in Proc, ReadSteps(p)
        PROVE  IInv'
    BY <1>6, LockIInv, ReadIInv DEF ReadSteps
  <1>7. CASE UNCHANGED vars
    <2> USE <1>7 DEF vars, IInv
    <2>1. DeviceTypeOK'
      BY DEF DeviceTypeOK
    <2>2. LockDiscipline' /\ RingShape'
      BY DEF LockDiscipline, RingShape
    <2>3. SingleOwner' /\ NoLeakWhileLive'
      BY DEF SingleOwner, NoLeakWhileLive, Owned
    <2>4. SizesAgree'
      BY DEF SizesAgree, Partial
    <2>5. Bookkeeping'
      BY DEF Bookkeeping, AllocSize, NewBytes, Partial
    <2>6. QED
      BY <2>1, <2>2, <2>3, <2>4, <2>5
  <1>8. QED
    BY <1>1, <1>2, <1>3, <1>4, <1>5, <1>6, <1>7 DEF Next

(* The inductive invariant holds in every reachable state.                 *)
THEOREM Invariance == Spec => []IInv
  BY InitIInv, NextIInv, PTL DEF Spec

(* The device, the heap and the calls in progress keep their types: the    *)
(* offsets stay inside the ring, for every ring size.                      *)
THEOREM TypeSafety == Spec => []DeviceTypeOK
  <1>1. IInv => DeviceTypeOK
    BY DEF IInv
  <1>2. QED
    BY <1>1, Invariance, PTL

(* aesd_read and aesd_write hold buffer_lock exactly inside their critical *)
(* sections: no return path keeps it, none releases it twice.              *)
THEOREM LockSafety == Spec => []LockDiscipline
  <1>1. IInv => LockDiscipline
    BY DEF IInv
  <1>2. QED
    BY <1>1, Invariance, PTL

(* add_entry keeps in_offs, out_offs and full in agreement with the slots  *)
(* it has filled, for every ring size.                                     *)
THEOREM RingSafety == Spec => []RingShape
  <1>1. IInv => RingShape
    BY DEF IInv
  <1>2. QED
    BY <1>1, Invariance, PTL

(* No double free and no use after free: every block the driver can reach  *)
(* is live and has one owner.                                              *)
THEOREM HeapSafety == Spec => []SingleOwner
  <1>1. IInv => SingleOwner
    BY DEF IInv
  <1>2. QED
    BY <1>1, Invariance, PTL

(* No block is lost while the module is loaded: what aesd_write replaces,  *)
(* overwrites or gives up, on every return path, is freed.  The unload is  *)
(* the only place where a block can stay behind.                           *)
THEOREM NothingLost == Spec => []NoLeakWhileLive
  <1>1. IInv => NoLeakWhileLive
    BY DEF IInv
  <1>2. QED
    BY <1>1, Invariance, PTL

(* Every size field is the length of the block behind its pointer, so that *)
(* no memcpy of the driver reads or writes outside a block, and ring       *)
(* entries end with END_WRITE_CHAR.                                        *)
THEOREM SizeSafety == Spec => []SizesAgree
  <1>1. IInv => SizesAgree
    BY DEF IInv
  <1>2. QED
    BY <1>1, Invariance, PTL

(* buffptr[size - 1] is evaluated with size = 0 only for a zero-byte write *)
(* on an empty working entry.                                              *)
THEOREM OopsCause == Spec => []OopsOnlyOnEmptyWrite
  <1>1. IInv => OopsOnlyOnEmptyWrite
    BY CommitFacts DEF OopsOnlyOnEmptyWrite
  <1>2. QED
    BY <1>1, Invariance, PTL

=============================================================================
