------------------------------ MODULE AesdChar ------------------------------
(***************************************************************************)
(* The AESD character driver, aesd-char-driver/main.c: the file operations *)
(* open, release, read and write as run by several processes at once, and  *)
(* the loading and unloading of the module.                                *)
(*                                                                         *)
(* A call is a sequence of steps, one for each place where it can block,   *)
(* fail or be overtaken: taking buffer_lock, ALLOC, the copies from and to *)
(* user space, and the commit.  Kernel memory is explicit: alloc is the    *)
(* set of live blocks and mem their bytes, so that a leak, a double free   *)
(* or a use after free is a state.                                         *)
(***************************************************************************)
EXTENDS AesdCircularBuffer, FiniteSets, SequencesExt

CONSTANTS
  Proc,          \* the processes, one open file (struct file) each
  NoProc,        \* the holder of a free mutex
  Ptr,           \* the addresses kmalloc can return for a size above 0
  ZERO_SIZE_PTR, \* what kmalloc(0) returns: not NULL, not to be dereferenced
  Text, NL,      \* the bytes: Text and END_WRITE_CHAR
  Chunks,        \* the buffers a write may pass
  Counts,        \* the counts a read may pass
  MaxEntry,      \* KMALLOC_MAX_SIZE: a larger ALLOC returns NULL
  MaxLoads       \* bound on the number of module loads

Byte == Text \cup {NL}

ASSUME ConstAssumption ==
  /\ NoProc \notin Proc
  /\ NULL \notin Ptr /\ ZERO_SIZE_PTR \notin Ptr /\ ZERO_SIZE_PTR # NULL
  /\ NULL \notin [index : Slot, offset : Nat]
  /\ Chunks \subseteq Seq(Byte)
  /\ Counts \subseteq Nat
  /\ MaxEntry \in Nat
  /\ MaxLoads \in Nat

VARIABLES
  module,      \* "unloaded", "live" or, inside aesd_cleanup_module, "draining"
  loads,       \* how often the module was loaded
  buffer,      \* aesd_device.buffer
  entry_temp,  \* aesd_device.entry_temp
  buffer_lock, \* the holder of aesd_device.buffer_lock
  alloc, mem,  \* the live kmalloc blocks and the bytes in each block
  leaked,      \* history: live blocks to which the module lost every pointer
  pc,          \* where each process is
  f_pos,       \* the position of its open file
  arg, count,  \* the arguments of its call: a write's bytes, a read's count
  new_buffer,  \* aesd_write's new_buffer
  got          \* the bytes its read has copied to user space so far

dev   == <<buffer, entry_temp>>
heap  == <<alloc, mem, leaked>>
modst == <<module, loads>>
local == <<f_pos, arg, count, new_buffer, got>>
vars  == <<module, loads, buffer, entry_temp, buffer_lock, alloc, mem, leaked,
           pc, f_pos, arg, count, new_buffer, got>>

(* Program points inside the critical section, and inside a call.          *)
Critical == {"w_alloc", "w_copy", "w_commit", "r_loop"}
InCall   == Critical \cup {"w_lock", "w_fault", "r_lock"}

(* The types, but for what a read computes from the lookup.                *)
DeviceTypeOK ==
  /\ module \in {"unloaded", "live", "draining"}
  /\ loads \in Nat
  /\ buffer \in [entry    : [Slot -> [buffptr : Ptr \cup {NULL}, size : Nat]],
                 in_offs  : Slot,
                 out_offs : Slot,
                 full     : BOOLEAN,
                 empty    : BOOLEAN]
  /\ entry_temp \in [buffptr : Ptr \cup {NULL, ZERO_SIZE_PTR}, size : Nat]
  /\ buffer_lock \in Proc \cup {NoProc}
  /\ alloc \in SUBSET Ptr
  /\ mem \in [Ptr -> Seq(Byte)]
  /\ leaked \in SUBSET Ptr
  /\ pc \in [Proc -> InCall \cup {"closed", "open", "oops"}]
  /\ arg \in [Proc -> Seq(Byte)]
  /\ count \in [Proc -> Nat]
  /\ new_buffer \in [Proc -> Ptr \cup {NULL, ZERO_SIZE_PTR}]

Init ==
  /\ module = "unloaded"
  /\ loads = 0
  /\ buffer = aesd_circular_buffer_init
  /\ entry_temp = NoEntry
  /\ buffer_lock = NoProc
  /\ alloc = {}
  /\ mem = [q \in Ptr |-> <<>>]
  /\ leaked = {}
  /\ pc = [p \in Proc |-> "closed"]
  /\ f_pos = [p \in Proc |-> 0]
  /\ arg = [p \in Proc |-> <<>>]
  /\ count = [p \in Proc |-> 0]
  /\ new_buffer = [p \in Proc |-> NULL]
  /\ got = [p \in Proc |-> <<>>]

-----------------------------------------------------------------------------
(* Loading and unloading.                                                  *)

(* aesd_init_module: the device is reset before cdev_add makes it visible. *)
aesd_init_module ==
  /\ module = "unloaded"
  /\ loads < MaxLoads
  /\ loads' = loads + 1
  /\ buffer' = aesd_circular_buffer_init
  /\ entry_temp' = NoEntry
  /\ buffer_lock' = NoProc
  /\ module' = "live"
  /\ UNCHANGED <<heap, pc, local>>

(* alloc_chrdev_region or cdev_add fails: nothing stays registered.        *)
aesd_init_module_fails ==
  /\ module = "unloaded"
  /\ loads < MaxLoads
  /\ loads' = loads + 1
  /\ UNCHANGED <<module, dev, buffer_lock, heap, pc, local>>

(* aesd_cleanup_module starts with cdev_del.  The kernel runs it only when *)
(* no file of the module is open; a process killed by an oops has had its  *)
(* file closed.                                                            *)
aesd_cleanup_module ==
  /\ module = "live"
  /\ \A p \in Proc : pc[p] \in {"closed", "oops"}
  /\ module' = "draining"
  /\ UNCHANGED <<loads, dev, buffer_lock, heap, pc, local>>

FreeAll(S) ==
  /\ alloc' = alloc \ S
  /\ mem' = [q \in Ptr |-> IF q \in S THEN <<>> ELSE mem[q]]

Blocks(b) == {b.entry[i].buffptr : i \in Slot} \ {NULL}

(* One iteration of its loop over the entries, and once that ends the rest *)
(* of the function: reset the buffer and free the working entry.           *)
DrainStep ==
  LET r == aesd_circular_buffer_remove_entry(buffer) IN
  /\ module = "draining"
  /\ IF buffer.empty \/ r.rtn = NULL
     THEN /\ buffer' = aesd_circular_buffer_init
          /\ entry_temp' = NoEntry
          /\ FreeAll({entry_temp.buffptr})
          /\ leaked' = leaked \cup (Blocks(r.buffer) \cap alloc')
          /\ module' = "unloaded"
     ELSE /\ buffer' = r.buffer
          /\ FreeAll({r.rtn.buffptr})
          /\ UNCHANGED <<entry_temp, leaked, module>>
  /\ UNCHANGED <<loads, buffer_lock, pc, local>>

-----------------------------------------------------------------------------
(* open and release.                                                       *)

aesd_open(p) ==
  /\ module = "live"
  /\ pc[p] = "closed"
  /\ pc' = [pc EXCEPT ![p] = "open"]
  /\ f_pos' = [f_pos EXCEPT ![p] = 0]
  /\ UNCHANGED <<modst, dev, buffer_lock, heap, arg, count, new_buffer, got>>

aesd_release(p) ==
  /\ pc[p] = "open"
  /\ pc' = [pc EXCEPT ![p] = "closed"]
  /\ UNCHANGED <<modst, dev, buffer_lock, heap, local>>

-----------------------------------------------------------------------------
(* The lock.                                                               *)

(* get_lock succeeds: the caller enters its critical section.              *)
get_lock(p, from, to) ==
  /\ pc[p] = from
  /\ buffer_lock = NoProc
  /\ buffer_lock' = p
  /\ pc' = [pc EXCEPT ![p] = to]

(* A signal ends the wait in mutex_lock_interruptible: -ERESTARTSYS.       *)
get_lock_interrupted(p) ==
  /\ pc[p] \in {"w_lock", "r_lock"}
  /\ buffer_lock # NoProc
  /\ pc' = [pc EXCEPT ![p] = "open"]
  /\ arg' = [arg EXCEPT ![p] = <<>>]
  /\ count' = [count EXCEPT ![p] = 0]
  /\ UNCHANGED <<modst, dev, buffer_lock, heap, f_pos, new_buffer, got>>

(* release_lock, and the call goes on at to.                               *)
release_lock(p, to) ==
  /\ buffer_lock' = NoProc
  /\ pc' = [pc EXCEPT ![p] = to]

-----------------------------------------------------------------------------
(* aesd_write.                                                             *)

WriteCall(p) ==
  /\ pc[p] = "open"
  /\ \E chunk \in Chunks : arg' = [arg EXCEPT ![p] = chunk]
  /\ pc' = [pc EXCEPT ![p] = "w_lock"]
  /\ UNCHANGED <<modst, dev, buffer_lock, heap, f_pos, count, new_buffer, got>>

WriteLock(p) ==
  /\ get_lock(p, "w_lock", "w_alloc")
  /\ UNCHANGED <<modst, dev, heap, local>>

(* The size passed to ALLOC.                                               *)
AllocSize(p) ==
  IF entry_temp.buffptr = NULL THEN Len(arg[p])
  ELSE entry_temp.size + Len(arg[p])

WriteAlloc(p) ==
  /\ pc[p] = "w_alloc"
  /\ AllocSize(p) <= MaxEntry
  /\ IF AllocSize(p) = 0
     THEN /\ new_buffer' = [new_buffer EXCEPT ![p] = ZERO_SIZE_PTR]
          /\ UNCHANGED alloc
     ELSE \E q \in Ptr \ alloc : /\ new_buffer' = [new_buffer EXCEPT ![p] = q]
                                 /\ alloc' = alloc \cup {q}
  /\ pc' = [pc EXCEPT ![p] = "w_copy"]
  /\ UNCHANGED <<modst, dev, buffer_lock, mem, leaked, f_pos, arg, count, got>>

(* Faulty variant: the early return forgets the lock.                      *)
WriteNoMemoryKeepsLock(p) ==
  /\ pc[p] = "w_alloc"
  /\ pc' = [pc EXCEPT ![p] = "open"]
  /\ arg' = [arg EXCEPT ![p] = <<>>]
  /\ UNCHANGED <<modst, dev, buffer_lock, heap, f_pos, count, new_buffer, got>>

(* ALLOC returns NULL: -ENOMEM.                                            *)
WriteNoMemory(p) ==
  /\ pc[p] = "w_alloc"
  /\ release_lock(p, "open")
  /\ arg' = [arg EXCEPT ![p] = <<>>]
  /\ UNCHANGED <<modst, dev, heap, f_pos, count, new_buffer, got>>

(* The bytes of the unfinished entry.                                      *)
Partial == IF entry_temp.buffptr \in Ptr THEN mem[entry_temp.buffptr] ELSE <<>>

(* Faulty variant: the new bytes are put in front of the old ones.         *)
NewBytesSwapped(p) == arg[p] \o Partial

(* What the memcpy and the copy_from_user put into the new block.          *)
NewBytes(p) == Partial \o arg[p]

WriteCopy(p) ==
  /\ pc[p] = "w_copy"
  /\ mem' = [q \in Ptr |-> IF q = new_buffer[p] THEN NewBytes(p) ELSE mem[q]]
  /\ pc' = [pc EXCEPT ![p] = "w_commit"]
  /\ UNCHANGED <<modst, dev, buffer_lock, alloc, leaked, local>>

(* copy_from_user fails: the lock is released, and only then FREE runs.    *)
WriteFault(p) ==
  /\ pc[p] = "w_copy"
  /\ arg[p] # <<>>
  /\ release_lock(p, "w_fault")
  /\ UNCHANGED <<modst, dev, heap, local>>

WriteFaultFree(p) ==
  /\ pc[p] = "w_fault"
  /\ FreeAll({new_buffer[p]})
  /\ new_buffer' = [new_buffer EXCEPT ![p] = NULL]
  /\ arg' = [arg EXCEPT ![p] = <<>>]
  /\ pc' = [pc EXCEPT ![p] = "open"]
  /\ UNCHANGED <<modst, dev, buffer_lock, leaked, f_pos, count, got>>

(* Faulty variant: the size is not increased.                              *)
GrownNoCount(p) == [buffptr |-> new_buffer[p], size |-> entry_temp.size]

(* entry_temp with the new block in place of the old one.                  *)
Grown(p) == [buffptr |-> new_buffer[p], size |-> entry_temp.size + Len(arg[p])]

(* Faulty variant: the size survives the reset of the working entry.       *)
TempAfterAddKeepsSize(p) == [buffptr |-> NULL, size |-> Grown(p).size]

(* The working entry once its block has moved into the ring.               *)
TempAfterAdd(p) == NoEntry

EndWrite(p) ==
  /\ new_buffer' = [new_buffer EXCEPT ![p] = NULL]
  /\ arg' = [arg EXCEPT ![p] = <<>>]
  /\ UNCHANGED <<modst, leaked, f_pos, count, got>>

(* The last byte is not END_WRITE_CHAR: the entry stays unfinished.        *)
WritePartial(p) ==
  /\ pc[p] = "w_commit"
  /\ Grown(p).size > 0
  /\ mem[Grown(p).buffptr][Grown(p).size] # NL
  /\ FreeAll({entry_temp.buffptr})
  /\ entry_temp' = Grown(p)
  /\ UNCHANGED buffer
  /\ release_lock(p, "open")
  /\ EndWrite(p)

(* It is: the entry enters the buffer and the overwritten one is freed.    *)
WriteEntry(p) ==
  /\ pc[p] = "w_commit"
  /\ Grown(p).size > 0
  /\ mem[Grown(p).buffptr][Grown(p).size] = NL
  /\ FreeAll({entry_temp.buffptr, Overwritten(buffer)})
  /\ buffer' = aesd_circular_buffer_add_entry(buffer, Grown(p))
  /\ entry_temp' = TempAfterAdd(p)
  /\ release_lock(p, "open")
  /\ EndWrite(p)

(* The size is still 0, so buffptr[size - 1] is an address just below      *)
(* ZERO_SIZE_PTR: the kernel oopses and kills the writer, which never      *)
(* reaches release_lock.                                                   *)
WriteOops(p) ==
  /\ pc[p] = "w_commit"
  /\ Grown(p).size = 0
  /\ FreeAll({entry_temp.buffptr})
  /\ entry_temp' = Grown(p)
  /\ pc' = [pc EXCEPT ![p] = "oops"]
  /\ EndWrite(p)
  /\ UNCHANGED <<buffer, buffer_lock>>

-----------------------------------------------------------------------------
(* aesd_read.                                                              *)

ReadCall(p) ==
  /\ pc[p] = "open"
  /\ \E n \in Counts : count' = [count EXCEPT ![p] = n]
  /\ pc' = [pc EXCEPT ![p] = "r_lock"]
  /\ UNCHANGED <<modst, dev, buffer_lock, heap, f_pos, arg, new_buffer, got>>

ReadLock(p) ==
  /\ get_lock(p, "r_lock", "r_loop")
  /\ UNCHANGED <<modst, dev, heap, local>>

(* The lookup of one loop iteration: NULL, or a slot and an offset in it.  *)
Found(p) == aesd_circular_buffer_find_entry_offset_for_fpos(buffer,
                                                    f_pos[p] + Len(got[p]))

LoopGoesOn(p) == Len(got[p]) < count[p] /\ Found(p) # NULL

(* Faulty variant: copies the rest of the entry whatever was asked for.    *)
BytesToCopyAll(p, entry_bytes) == entry_bytes

bytes_to_copy(p, entry_bytes) ==
  IF entry_bytes >= count[p] - Len(got[p]) THEN count[p] - Len(got[p])
  ELSE entry_bytes

ReadStep(p) ==
  LET e == buffer.entry[Found(p).index]
      n == bytes_to_copy(p, e.size - Found(p).offset)
  IN
  /\ pc[p] = "r_loop"
  /\ LoopGoesOn(p)
  /\ got' = [got EXCEPT ![p] = @ \o SubSeq(mem[e.buffptr], Found(p).offset + 1,
                                           Found(p).offset + n)]
  /\ UNCHANGED <<modst, dev, buffer_lock, heap, pc, f_pos, arg, count, new_buffer>>

EndRead(p) ==
  /\ release_lock(p, "open")
  /\ count' = [count EXCEPT ![p] = 0]
  /\ got' = [got EXCEPT ![p] = <<>>]
  /\ UNCHANGED <<modst, dev, heap, arg, new_buffer>>

(* copy_to_user fails: -EFAULT, and the position stays.                    *)
ReadFault(p) ==
  /\ pc[p] = "r_loop"
  /\ LoopGoesOn(p)
  /\ UNCHANGED f_pos
  /\ EndRead(p)

ReadDone(p) ==
  /\ pc[p] = "r_loop"
  /\ ~LoopGoesOn(p)
  /\ f_pos' = [f_pos EXCEPT ![p] = @ + Len(got[p])]
  /\ EndRead(p)

-----------------------------------------------------------------------------
WriteSteps(p) ==
  \/ WriteLock(p) \/ WriteAlloc(p) \/ WriteNoMemory(p) \/ WriteCopy(p)
  \/ WriteFault(p) \/ WriteFaultFree(p) \/ WritePartial(p) \/ WriteEntry(p)
  \/ WriteOops(p)

ReadSteps(p) == ReadLock(p) \/ ReadStep(p) \/ ReadFault(p) \/ ReadDone(p)

Next ==
  \/ aesd_init_module \/ aesd_init_module_fails
  \/ aesd_cleanup_module \/ DrainStep
  \/ \E p \in Proc : \/ aesd_open(p) \/ aesd_release(p)
                     \/ WriteCall(p) \/ ReadCall(p) \/ get_lock_interrupted(p)
                     \/ WriteSteps(p) \/ ReadSteps(p)

Spec == Init /\ [][Next]_vars

(* A call in progress runs on: the kernel schedules every runnable task,   *)
(* and a kernel mutex is handed to a waiter after a bounded spin, so a     *)
(* lock that is released again and again is obtained in the end.  Nothing  *)
(* makes a process start or stop a call.                                   *)
Fairness ==
  \A p \in Proc : /\ WF_vars(WriteSteps(p) \/ ReadSteps(p))
                  /\ SF_vars(WriteLock(p) \/ ReadLock(p))

FairSpec == Spec /\ Fairness

-----------------------------------------------------------------------------
(* What the driver has to keep.                                            *)

(* buffer_lock is held by a process inside its critical section, by nobody *)
(* else, and only a process that died there keeps it: every error return   *)
(* of aesd_read and aesd_write releases it exactly once.                   *)
LockDiscipline ==
  /\ \A p \in Proc : pc[p] \in Critical => buffer_lock = p
  /\ buffer_lock # NoProc => pc[buffer_lock] \in Critical \cup {"oops"}

(* The offsets and the full flag describe which slots hold an entry: until *)
(* the ring is full the used slots are 0..in_offs-1 and out_offs is 0;     *)
(* once it is full it stays full, with in_offs and out_offs in step.       *)
RingShape ==
  /\ IF buffer.full
     THEN buffer.in_offs = buffer.out_offs
     ELSE buffer.out_offs = 0
  /\ \A i \in Slot :
       IF buffer.full \/ i < buffer.in_offs
       THEN buffer.entry[i].buffptr # NULL /\ buffer.entry[i].size > 0
       ELSE buffer.entry[i] = NoEntry

(* A block is owned by a slot of the ring, by the working entry or by the  *)
(* new_buffer of a writer.                                                 *)
Owned(q) ==
  \/ \E i \in Slot : buffer.entry[i].buffptr = q
  \/ entry_temp.buffptr = q
  \/ \E p \in Proc : new_buffer[p] = q

(* No block has two owners and every owned block is live, so FREE never    *)
(* runs twice on a block and neither read nor write touches a freed one,   *)
(* whatever the interleaving of calls, errors and overwrites.              *)
SingleOwner ==
  /\ \A q \in Ptr : Owned(q) => q \in alloc /\ q \notin leaked
  /\ \A i, j \in Slot : buffer.entry[i].buffptr \in Ptr /\ i # j
                          => buffer.entry[i].buffptr # buffer.entry[j].buffptr
  /\ \A i \in Slot : entry_temp.buffptr \in Ptr
                       => buffer.entry[i].buffptr # entry_temp.buffptr
  /\ \A p \in Proc : new_buffer[p] \in Ptr =>
       /\ new_buffer[p] # entry_temp.buffptr
       /\ \A i \in Slot : new_buffer[p] # buffer.entry[i].buffptr
       /\ \A r \in Proc : p # r => new_buffer[p] # new_buffer[r]

(* No block is lost: whatever is allocated still has an owner, apart from  *)
(* what unloading the module left behind.  With SingleOwner, the driver    *)
(* never holds more blocks than it has owners.                             *)
NoLeakWhileLive == \A q \in alloc : q \in leaked \/ Owned(q)

(* Every size field is the number of bytes behind its pointer, so the      *)
(* memcpy of the old bytes and the reader's copies stay inside the block,  *)
(* and every entry in the ring ends with END_WRITE_CHAR.                   *)
SizesAgree ==
  /\ entry_temp.size = Len(Partial)
  /\ \A i \in Slot :
       LET e == buffer.entry[i] IN
       e.buffptr # NULL => /\ e.size = Len(mem[e.buffptr])
                           /\ mem[e.buffptr][e.size] = NL

(* A writer dies with the lock only in a write of zero bytes made while    *)
(* there is no unfinished entry: the index size - 1 underflows nowhere     *)
(* else.                                                                   *)
OopsOnlyOnEmptyWrite ==
  \A p \in Proc : pc[p] = "w_commit" /\ Grown(p).size = 0
                    => arg[p] = <<>> /\ new_buffer[p] = ZERO_SIZE_PTR

(* What ties the pieces together from one step to the next: the empty flag *)
(* is never set, a leaked block is never freed, nobody is in a call unless *)
(* the module is live, an unloaded module owns nothing, and new_buffer     *)
(* follows the writer's pc.                                                *)
Bookkeeping ==
  /\ buffer.empty = FALSE
  /\ leaked \subseteq alloc
  /\ module # "live" => \A p \in Proc : pc[p] \in {"closed", "oops"}
  /\ module = "unloaded" => /\ buffer = aesd_circular_buffer_init
                            /\ entry_temp = NoEntry
  /\ \A p \in Proc :
       /\ pc[p] \notin {"w_copy", "w_commit", "w_fault"} => new_buffer[p] = NULL
       /\ pc[p] \in {"w_copy", "w_commit"} =>
            IF AllocSize(p) = 0 THEN new_buffer[p] = ZERO_SIZE_PTR
                                ELSE new_buffer[p] \in Ptr
       /\ pc[p] = "w_commit" /\ new_buffer[p] \in Ptr
            => mem[new_buffer[p]] = NewBytes(p)

(* The inductive invariant of AesdCharProofs.                              *)
IInv ==
  /\ DeviceTypeOK /\ LockDiscipline /\ RingShape /\ SingleOwner
  /\ NoLeakWhileLive /\ SizesAgree /\ Bookkeeping

(* The entries in reading order, and their bytes end to end.               *)
LogView == [k \in 1..Count(buffer) |-> mem[buffer.entry[SlotAt(buffer, k)].buffptr]]

Contents == FlattenSeq(LogView)

(* The lookup agrees with its specification, "the zero referenced          *)
(* character index if all buffer strings were concatenated end to end",    *)
(* at every offset up to and just beyond the end.                          *)
FindIsConcatenation ==
  \A off \in 0..Len(Contents) + 1 :
    LET r == aesd_circular_buffer_find_entry_offset_for_fpos(buffer, off) IN
    IF off >= Len(Contents)
    THEN r = NULL
    ELSE /\ r # NULL
         /\ mem[buffer.entry[r.index].buffptr][r.offset + 1] = Contents[off + 1]

(* A read gets consecutive bytes of the concatenation, from its position   *)
(* on, across entry borders and the wrap of the ring, and stops short of   *)
(* the count it asked for only at the end of the data.                     *)
ReadIsSlice ==
  \A p \in Proc : pc[p] = "r_loop" =>
    LET n == Len(got[p]) IN
    /\ got[p] = SubSeq(Contents, f_pos[p] + 1, f_pos[p] + n)
    /\ n <= count[p]
    /\ ~LoopGoesOn(p) => n = count[p] \/ f_pos[p] + n >= Len(Contents)

(* Every call, however many steps it takes and whatever else is going on,  *)
(* looks like one atomic operation on a log of the newest entries; a call  *)
(* that fails has no effect at all.                                        *)
Log == INSTANCE WriteLog WITH log <- LogView, partial <- Partial, pos <- f_pos
ImplementsWriteLog == Log!Spec

(* Every call returns, unless some writer has died with the lock.          *)
CallsReturn ==
  \A p \in Proc : pc[p] \in InCall ~> (pc[p] = "open" \/ \E q \in Proc : pc[q] = "oops")

(* "De-allocate all the entrys in the buffer": unloading frees every block *)
(* of the module.                                                          *)
UnloadFreesAll == module = "unloaded" => alloc = {}

=============================================================================
