------------------------- MODULE AesdCharLogProofs -------------------------
(***************************************************************************)
(* Proofs about what users of the AESD char device see, for every number   *)
(* of processes, slots and blocks and every set of write buffers: the      *)
(* lookup finds the byte of the concatenation, a read returns a slice of   *)
(* it, and the calls of the driver implement WriteLog.                     *)
(***************************************************************************)
EXTENDS AesdCharProofs, Induction

(* The slots in reading order: those that are counted hold a block with    *)
(* as many bytes as the entry says, the others nothing.                    *)
LEMMA SlotOrder ==
  ASSUME NEW b, b.full \in BOOLEAN, b.in_offs \in Slot, b.out_offs \in Slot,
         IF b.full THEN b.in_offs = b.out_offs ELSE b.out_offs = 0
  PROVE  /\ Count(b) \in 0..MaxOps
         /\ \A k \in 1..MaxOps :
              /\ SlotAt(b, k) \in Slot
              /\ k <= Count(b) <=> b.full \/ SlotAt(b, k) < b.in_offs
         /\ SlotAt(b, 1) = b.out_offs
         /\ \A k \in 1..MaxOps : k < MaxOps => SlotAt(b, k + 1) = Advance(SlotAt(b, k))
<1> USE MaxOpsAssumption DEF Slot
<1>1. MaxOps \in Nat /\ MaxOps >= 1
  OBVIOUS
<1>2. CASE b.full
  BY <1>1, <1>2 DEF Count, SlotAt, Advance
<1>3. CASE ~b.full
  BY <1>1, <1>3 DEF Count, SlotAt, Advance
<1>. QED
  BY <1>2, <1>3

(* The same for the ring of the device.                                    *)
LEMMA RingOrder ==
  ASSUME IInv
  PROVE  /\ Count(buffer) \in 0..MaxOps
         /\ \A k \in 1..MaxOps :
              /\ SlotAt(buffer, k) \in Slot
              /\ k <= Count(buffer) =>
                   /\ buffer.entry[SlotAt(buffer, k)].buffptr \in Ptr
                   /\ buffer.entry[SlotAt(buffer, k)].size
                        = Len(mem[buffer.entry[SlotAt(buffer, k)].buffptr])
              /\ k > Count(buffer) => buffer.entry[SlotAt(buffer, k)].size = 0
<1>1. /\ buffer.full \in BOOLEAN /\ buffer.in_offs \in Slot /\ buffer.out_offs \in Slot
      /\ IF buffer.full THEN buffer.in_offs = buffer.out_offs ELSE buffer.out_offs = 0
  BY DEF IInv, DeviceTypeOK, RingShape
<1>2. /\ Count(buffer) \in 0..MaxOps
      /\ \A k \in 1..MaxOps : SlotAt(buffer, k) \in Slot
      /\ \A k \in 1..MaxOps :
           k <= Count(buffer) <=> buffer.full \/ SlotAt(buffer, k) < buffer.in_offs
  BY <1>1, SlotOrder
<1>3. ASSUME NEW k \in 1..MaxOps, k <= Count(buffer)
      PROVE  /\ buffer.entry[SlotAt(buffer, k)].buffptr \in Ptr
             /\ buffer.entry[SlotAt(buffer, k)].size
                  = Len(mem[buffer.entry[SlotAt(buffer, k)].buffptr])
  <2>1. buffer.entry[SlotAt(buffer, k)].buffptr # NULL
    BY <1>2, <1>3 DEF IInv, RingShape
  <2>. QED
    BY <2>1, <1>2 DEF IInv, DeviceTypeOK, SizesAgree
<1>4. ASSUME NEW k \in 1..MaxOps, k > Count(buffer)
      PROVE  buffer.entry[SlotAt(buffer, k)].size = 0
  <2>1. ~(k <= Count(buffer))
    BY <1>2, <1>4, MaxOpsAssumption
  <2>2. buffer.entry[SlotAt(buffer, k)] = NoEntry
    BY <1>2, <2>1 DEF IInv, RingShape
  <2>. QED
    BY <2>2 DEF NoEntry
<1>. QED
  BY <1>2, <1>3, <1>4

(* The first slot, and how the loop comes from one to the next.            *)
LEMMA RingWalk ==
  ASSUME IInv
  PROVE  /\ SlotAt(buffer, 1) = buffer.out_offs
         /\ \A k \in 1..MaxOps : k < MaxOps => SlotAt(buffer, k + 1) = Advance(SlotAt(buffer, k))
<1>1. /\ buffer.full \in BOOLEAN /\ buffer.in_offs \in Slot /\ buffer.out_offs \in Slot
      /\ IF buffer.full THEN buffer.in_offs = buffer.out_offs ELSE buffer.out_offs = 0
  BY DEF IInv, DeviceTypeOK, RingShape
<1>. QED
  BY <1>1, SlotOrder

(* The log is a sequence of entries.                                       *)
LEMMA LogType ==
  ASSUME IInv
  PROVE  LogView \in Seq(Seq(Byte)) /\ Len(LogView) = Count(buffer)
<1>1. Count(buffer) \in Nat /\ Count(buffer) \in 0..MaxOps /\ MaxOps \in Nat
  BY RingOrder, MaxOpsAssumption
<1>2. \A k \in 1..Count(buffer) : mem[buffer.entry[SlotAt(buffer, k)].buffptr] \in Seq(Byte)
  BY <1>1, RingOrder DEF IInv, DeviceTypeOK
<1>. QED
  BY <1>1, <1>2 DEF LogView

-----------------------------------------------------------------------------
(* The lookup.                                                             *)

(* What the loop's variables range over.                                   *)
LoopState == [index : Slot, left : Nat, found : BOOLEAN]

(* g is the recursive function behind the lookup of byte off.              *)
Scanning(off, g) ==
  g = [n \in 0..MaxOps |->
         IF n = 0 THEN [index |-> buffer.out_offs, left |-> off, found |-> FALSE]
         ELSE FindStep(buffer, g[n - 1])]

(* An iteration of the loop keeps its variables in range: what it takes    *)
(* from left is never more than left.                                      *)
LEMMA FindStepType ==
  ASSUME IInv, NEW at \in LoopState
  PROVE  FindStep(buffer, at) \in LoopState
<1>1. buffer.entry[at.index].size \in Nat /\ Advance(at.index) \in Slot /\ at.index \in Slot
  BY AdvanceType DEF IInv, DeviceTypeOK, LoopState
<1>2. at.left \in Nat
  BY DEF LoopState
<1>3. CASE at.found \/ at.left < buffer.entry[at.index].size
  <2>1. FindStep(buffer, at) = [index |-> at.index, left |-> at.left, found |-> TRUE]
    BY <1>3 DEF FindStep
  <2>. QED
    BY <2>1, <1>1, <1>2 DEF LoopState
<1>4. CASE ~(at.found \/ at.left < buffer.entry[at.index].size)
  <2>1. FindStep(buffer, at) = [index |-> Advance(at.index),
                                left  |-> at.left - buffer.entry[at.index].size,
                                found |-> FALSE]
    BY <1>4 DEF FindStep
  <2>2. at.left - buffer.entry[at.index].size \in Nat
    BY <1>1, <1>2, <1>4
  <2>. QED
    BY <2>1, <2>2, <1>1 DEF LoopState
<1>. QED
  BY <1>3, <1>4

(* There is such a function.                                               *)
LEMMA ScanningExists ==
  ASSUME IInv, NEW off \in Nat
  PROVE  \E g : Scanning(off, g)
<1> DEFINE start == [index |-> buffer.out_offs, left |-> off, found |-> FALSE]
           Upto(k, g) == \A n \in 0..k : g[n] = IF n = 0 THEN start ELSE FindStep(buffer, g[n - 1])
           T == {k \in 0..MaxOps : \E g : g = [n \in 0..k |-> g[n]] /\ Upto(k, g)}
<1>0. MaxOps \in Nat
  BY MaxOpsAssumption
<1>1. 0 \in T
  <2> DEFINE h == [n \in 0..0 |-> start]
  <2>1. h = [n \in 0..0 |-> h[n]] /\ Upto(0, h)
    OBVIOUS
  <2>2. 0 \in 0..MaxOps
    BY <1>0
  <2> HIDE DEF h, Upto
  <2>. QED
    BY <2>1, <2>2
<1>2. ASSUME NEW k \in 0..MaxOps, k \in T, k < MaxOps PROVE k + 1 \in T
  <2>1. PICK g : g = [n \in 0..k |-> g[n]] /\ Upto(k, g)
    BY <1>2
  <2> DEFINE h == [n \in 0..k + 1 |-> IF n = k + 1 THEN FindStep(buffer, g[k]) ELSE g[n]]
  <2>2. h = [n \in 0..k + 1 |-> h[n]]
    OBVIOUS
  <2>3. ASSUME NEW n \in 0..k + 1 PROVE h[n] = IF n = 0 THEN start ELSE FindStep(buffer, h[n - 1])
    <3> HIDE DEF start
    <3>1. CASE n = k + 1
      <4>1. n # 0 /\ n - 1 = k /\ n - 1 \in 0..k + 1 /\ n - 1 # k + 1
        BY <3>1
      <4>2. h[n] = FindStep(buffer, g[k]) /\ h[n - 1] = g[k]
        BY <3>1, <4>1
      <4>. QED
        BY <4>1, <4>2
    <3>2. CASE n # k + 1
      <4>1. n \in 0..k /\ (n # 0 => n - 1 \in 0..k + 1 /\ n - 1 # k + 1)
        BY <3>2
      <4>2. h[n] = g[n] /\ (n # 0 => h[n - 1] = g[n - 1])
        BY <3>2, <4>1
      <4>. QED
        BY <4>1, <4>2, <2>1
    <3>. QED
      BY <3>1, <3>2
  <2>4. Upto(k + 1, h)
    BY <2>3
  <2>5. k + 1 \in 0..MaxOps
    BY <1>0, <1>2
  <2> HIDE DEF h, Upto
  <2>. QED
    BY <2>2, <2>4, <2>5
<1>3. MaxOps \in T
  <2> HIDE DEF T
  <2>1. 0..MaxOps \subseteq T
    BY <1>0, <1>1, <1>2, InductionUpTo
  <2>. QED
    BY <2>1, <1>0
<1>4. PICK g : g = [n \in 0..MaxOps |-> g[n]] /\ Upto(MaxOps, g)
  BY <1>3
<1>5. g = [n \in 0..MaxOps |-> IF n = 0 THEN start ELSE FindStep(buffer, g[n - 1])]
  BY <1>4
<1>. QED
  BY <1>5 DEF Scanning

(* Where the loop is after n iterations, when the entries begin at pre:    *)
(* at the entry with byte off in it, or past entries that end before that  *)
(* byte.                                                                   *)
Visited(n) == IF n <= Count(buffer) THEN n ELSE Count(buffer)

ScanAt(off, pre, n, at) ==
  IF at.found
  THEN \E k \in 1..Count(buffer) : /\ at.index = SlotAt(buffer, k)
                                   /\ at.left + pre[k - 1] = off
                                   /\ at.left < Len(LogView[k])
  ELSE /\ n < MaxOps => at.index = SlotAt(buffer, n + 1)
       /\ at.left + pre[Visited(n)] = off

(* An iteration gets it to the next place.                                 *)
LEMMA ScanStep ==
  ASSUME IInv, NEW off \in Nat, NEW pre, Layout(LogView, pre),
         NEW n \in 0..MaxOps, n < MaxOps, NEW at \in LoopState, ScanAt(off, pre, n, at)
  PROVE  ScanAt(off, pre, n + 1, FindStep(buffer, at))
<1> DEFINE c == Count(buffer)
           slot == SlotAt(buffer, n + 1)
           size == buffer.entry[at.index].size
<1>1. MaxOps \in Nat /\ c \in Nat /\ c <= MaxOps /\ n \in Nat /\ n + 1 \in 1..MaxOps
  BY RingOrder, MaxOpsAssumption
<1>2. at.left \in Nat /\ at.found \in BOOLEAN
  BY DEF LoopState
<1>3. pre \in [0..c -> Nat] /\ \A k \in 1..c : pre[k] = pre[k - 1] + Len(LogView[k])
  BY LogType DEF Layout
<1>4. CASE at.found
  <2>1. FindStep(buffer, at) = [index |-> at.index, left |-> at.left, found |-> TRUE]
    BY <1>4 DEF FindStep
  <2>. QED
    BY <2>1, <1>4 DEF ScanAt
<1>5. CASE ~at.found
  <2>1. at.index = slot /\ at.left + pre[Visited(n)] = off
    BY <1>5 DEF ScanAt
  <2>2. CASE n + 1 <= c
    <3>1. size = Len(LogView[n + 1]) /\ n + 1 \in 1..c
      <4>1. size = Len(mem[buffer.entry[slot].buffptr]) /\ n + 1 \in 1..c
        BY <2>1, <2>2, <1>1, RingOrder
      <4>. QED
        BY <4>1 DEF LogView
    <3>2. Visited(n) = n /\ Visited(n + 1) = n + 1
      BY <2>2, <1>1 DEF Visited
    <3>3. pre[n + 1] = pre[n] + size /\ pre[n] \in Nat /\ pre[n + 1] \in Nat /\ size \in Nat
      <4>1. n + 1 - 1 = n /\ n \in 0..c /\ n + 1 \in 0..c
        BY <2>2, <1>1
      <4>2. size \in Nat
        BY DEF IInv, DeviceTypeOK, LoopState
      <4>. QED
        BY <4>1, <4>2, <3>1, <1>3
    <3>4. CASE at.left < size
      <4>1. FindStep(buffer, at) = [index |-> at.index, left |-> at.left, found |-> TRUE]
        BY <3>4 DEF FindStep
      <4>2. n + 1 - 1 = n
        BY <1>1
      <4>. QED
        BY <4>1, <4>2, <3>1, <3>2, <3>4, <2>1 DEF ScanAt
    <3>5. CASE ~(at.left < size)
      <4>1. FindStep(buffer, at) = [index |-> Advance(at.index), left |-> at.left - size,
                                    found |-> FALSE]
        BY <3>5, <1>5 DEF FindStep
      <4>2. at.left - size + pre[Visited(n + 1)] = off
        BY <3>2, <3>3, <2>1, <1>2
      <4>3. n + 1 < MaxOps => Advance(at.index) = SlotAt(buffer, n + 1 + 1)
        BY <2>1, <1>1, RingWalk
      <4>. QED
        BY <4>1, <4>2, <4>3 DEF ScanAt
    <3>. QED
      BY <3>4, <3>5
  <2>3. CASE ~(n + 1 <= c)
    <3>1. size = 0
      BY <2>1, <2>3, <1>1, RingOrder
    <3>2. Visited(n) = c /\ Visited(n + 1) = c
      BY <2>3, <1>1 DEF Visited
    <3>3. FindStep(buffer, at) = [index |-> Advance(at.index), left |-> at.left - size,
                                  found |-> FALSE]
      BY <3>1, <1>2, <1>5 DEF FindStep
    <3>4. at.left - size + pre[Visited(n + 1)] = off
      BY <3>1, <3>2, <2>1, <1>2
    <3>5. n + 1 < MaxOps => Advance(at.index) = SlotAt(buffer, n + 1 + 1)
      BY <2>1, <1>1, RingWalk
    <3>. QED
      BY <3>3, <3>4, <3>5 DEF ScanAt
  <2>. QED
    BY <2>2, <2>3
<1>. QED
  BY <1>4, <1>5

(* The lookup agrees with its specification at every offset: NULL beyond   *)
(* the end, else an entry, and from the offset in it on the bytes of that  *)
(* entry are those of the concatenation from off on.                       *)
FoundAt(off, r) ==
  LET e == buffer.entry[r.index] IN
  /\ r \in [index : Slot, offset : Nat]
  /\ e.buffptr \in Ptr /\ e.size = Len(mem[e.buffptr]) /\ r.offset < e.size
  /\ off + e.size - r.offset <= Len(Contents)
  /\ \A j \in 1..e.size - r.offset : Contents[off + j] = mem[e.buffptr][r.offset + j]

(* This is what the lookup returns in every state of the driver.           *)
LEMMA FindByte ==
  ASSUME IInv, NEW off \in Nat
  PROVE  LET r == aesd_circular_buffer_find_entry_offset_for_fpos(buffer, off) IN
         IF off >= Len(Contents) THEN r = NULL ELSE FoundAt(off, r)
<1>5. MaxOps \in Nat /\ Count(buffer) \in 0..MaxOps /\ MaxOps >= 1
  <2>1. Count(buffer) \in 0..MaxOps
    BY RingOrder
  <2>2. MaxOps \in Nat /\ MaxOps >= 1
    BY MaxOpsAssumption
  <2>. QED
    BY <2>1, <2>2
<1> DEFINE g == CHOOSE f : Scanning(off, f)
           at == g[MaxOps]
           r == aesd_circular_buffer_find_entry_offset_for_fpos(buffer, off)
<1>1. Scanning(off, g)
  BY ScanningExists, Zenon
<1>2. r = IF at.found THEN [index |-> at.index, offset |-> at.left] ELSE NULL
  BY DEF aesd_circular_buffer_find_entry_offset_for_fpos, Scanning
<1> HIDE DEF g, r
<1>3. \A n \in 0..MaxOps : g[n] = IF n = 0 THEN [index |-> buffer.out_offs, left |-> off, found |-> FALSE]
                                  ELSE FindStep(buffer, g[n - 1])
  BY <1>1 DEF Scanning
<1>4. PICK pre : Layout(LogView, pre)
  BY LogType, FlattenLayout
<1> DEFINE T == {n \in 0..MaxOps : g[n] \in LoopState /\ ScanAt(off, pre, n, g[n])}
<1>6. 0 \in T
  <2>0. 0 \in 0..MaxOps
    BY <1>5
  <2>1. g[0] = [index |-> buffer.out_offs, left |-> off, found |-> FALSE]
    BY <2>0, <1>3
  <2>2. Visited(0) = 0 /\ pre[0] = 0
    BY <1>4, <1>5 DEF Visited, Layout
  <2>3. SlotAt(buffer, 0 + 1) = buffer.out_offs
    BY RingWalk
  <2>4. ScanAt(off, pre, 0, g[0])
    BY <2>1, <2>2, <2>3 DEF ScanAt
  <2>5. g[0] \in LoopState
    BY <2>1 DEF LoopState, IInv, DeviceTypeOK
  <2>. QED
    BY <2>0, <2>4, <2>5
<1>7. ASSUME NEW n \in 0..MaxOps, n \in T, n < MaxOps PROVE n + 1 \in T
  <2>1. n + 1 \in 0..MaxOps /\ n + 1 # 0 /\ n + 1 - 1 = n
    BY <1>5, <1>7
  <2>2. g[n + 1] = FindStep(buffer, g[n])
    BY <2>1, <1>3
  <2>3. g[n + 1] \in LoopState
    BY <2>2, <1>7, FindStepType
  <2>4. ScanAt(off, pre, n + 1, g[n + 1])
    BY <2>2, <1>4, <1>7, ScanStep
  <2>. QED
    BY <2>1, <2>3, <2>4
<1>8. at \in LoopState /\ ScanAt(off, pre, MaxOps, at)
  <2>1. 0..MaxOps \subseteq T
    <3> HIDE DEF T
    <3>. QED
      BY <1>5, <1>6, <1>7, InductionUpTo
  <2>. QED
    BY <2>1, <1>5
<1> HIDE DEF at
<1>9. /\ LogView \in Seq(Seq(Byte)) /\ Len(LogView) = Count(buffer)
      /\ Len(Contents) = pre[Count(buffer)] /\ pre \in [0..Count(buffer) -> Nat]
  BY <1>4, LogType DEF Layout, Contents
<1>10. CASE ~at.found
  <2>1. Visited(MaxOps) = Count(buffer)
    BY <1>5 DEF Visited
  <2>2. at.left + pre[Count(buffer)] = off /\ at.left \in Nat
    BY <2>1, <1>8, <1>10 DEF ScanAt, LoopState
  <2>3. off >= Len(Contents)
    BY <2>2, <1>9, <1>5
  <2>. QED
    BY <2>3, <1>2, <1>10 DEF r
<1>11. CASE at.found
  <2>1. PICK k \in 1..Count(buffer) : /\ at.index = SlotAt(buffer, k)
                                      /\ at.left + pre[k - 1] = off
                                      /\ at.left < Len(LogView[k])
    BY <1>8, <1>11 DEF ScanAt
  <2> DEFINE e == buffer.entry[at.index]
  <2>2. /\ e.buffptr \in Ptr /\ e.size = Len(mem[e.buffptr]) /\ LogView[k] = mem[e.buffptr]
        /\ e.size \in Nat
    <3>1. k \in 1..MaxOps /\ k <= Count(buffer)
      BY <1>5
    <3>2. e.buffptr \in Ptr /\ e.size = Len(mem[e.buffptr])
      BY <3>1, <2>1, RingOrder
    <3>3. LogView[k] = mem[e.buffptr]
      BY <2>1 DEF LogView
    <3>4. e.size \in Nat
      BY <1>8 DEF IInv, DeviceTypeOK, LoopState
    <3>. QED
      BY <3>2, <3>3, <3>4
  <2>3. /\ pre[k] = pre[k - 1] + e.size /\ pre[k] <= pre[Count(buffer)]
        /\ \A j \in 1..e.size : Contents[pre[k - 1] + j] = mem[e.buffptr][j]
    <3>1. k \in 1..Len(LogView)
      BY <1>9
    <3>2. pre[k] = pre[k - 1] + Len(LogView[k]) /\ pre[k] <= pre[Len(LogView)]
      BY <3>1, <1>4 DEF Layout
    <3>3. \A j \in 1..Len(LogView[k]) : Contents[pre[k - 1] + j] = LogView[k][j]
      BY <3>1, <1>4 DEF Layout, Contents
    <3>. QED
      BY <3>2, <3>3, <2>2, <1>9
  <2>4. pre[k] \in Nat /\ pre[k - 1] \in Nat /\ pre[Count(buffer)] \in Nat /\ at.left \in Nat
    <3>1. k \in 0..Count(buffer) /\ k - 1 \in 0..Count(buffer) /\ Count(buffer) \in 0..Count(buffer)
      BY <1>5
    <3>. QED
      BY <3>1, <1>8, <1>9 DEF LoopState
  <2> DEFINE left == at.left
             size == e.size
             before == pre[k - 1]
             all == Len(Contents)
  <2>a. /\ left \in Nat /\ size \in Nat /\ before \in Nat /\ all \in Nat
        /\ left < size /\ left + before = off /\ before + size <= all
    BY <2>1, <2>2, <2>3, <2>4, <1>9
  <2> HIDE DEF left, size, before, all
  <2>b. off + size - left <= all /\ ~(off >= all)
    BY <2>a
  <2>5. off + e.size - at.left <= Len(Contents) /\ at.left < e.size
    BY <2>a, <2>b DEF left, size, all
  <2>6. ASSUME NEW j \in 1..size - left PROVE Contents[off + j] = mem[e.buffptr][left + j]
    <3>1. left + j \in 1..size /\ off + j = before + (left + j)
      BY <2>a
    <3>. QED
      BY <3>1, <2>3 DEF before, size
  <2>7. r = [index |-> at.index, offset |-> at.left]
    BY <1>2, <1>11
  <2>8. FoundAt(off, r)
    BY <2>2, <2>4, <2>5, <2>6, <2>7, <1>8 DEF FoundAt, LoopState, left, size
  <2>9. ~(off >= Len(Contents))
    BY <2>b DEF all
  <2>. QED
    BY <2>8, <2>9 DEF r
<1>. QED
  BY <1>10, <1>11

(* The lookup of the code is the lookup in the concatenation, as its       *)
(* comment says, whatever the state of the ring.                           *)
THEOREM FindIsExact == Spec => []FindIsConcatenation
<1>1. IInv => FindIsConcatenation
  <2> SUFFICES ASSUME IInv, NEW off \in 0..Len(Contents) + 1
               PROVE  LET r == aesd_circular_buffer_find_entry_offset_for_fpos(buffer, off) IN
                      IF off >= Len(Contents) THEN r = NULL
                      ELSE /\ r # NULL
                           /\ mem[buffer.entry[r.index].buffptr][r.offset + 1] = Contents[off + 1]
    BY DEF FindIsConcatenation
  <2> DEFINE r == aesd_circular_buffer_find_entry_offset_for_fpos(buffer, off)
  <2>1. off \in Nat
    BY LogType, FlattenLayout DEF Contents
  <2>2. IF off >= Len(Contents) THEN r = NULL ELSE FoundAt(off, r)
    BY <2>1, FindByte
  <2> HIDE DEF r
  <2>3. ASSUME FoundAt(off, r)
        PROVE  r # NULL /\ mem[buffer.entry[r.index].buffptr][r.offset + 1] = Contents[off + 1]
    <3>1. r # NULL
      BY <2>3, ConstAssumption DEF FoundAt
    <3>2. r.offset \in Nat /\ buffer.entry[r.index].size \in Nat
          /\ r.offset < buffer.entry[r.index].size
      BY <2>3 DEF FoundAt, IInv, DeviceTypeOK
    <3>3. 1 \in 1..buffer.entry[r.index].size - r.offset
      BY <3>2
    <3>. QED
      BY <3>1, <3>3, <2>3 DEF FoundAt
  <2>. QED
    BY <2>2, <2>3 DEF r
<1>. QED
  BY <1>1, Invariance, PTL

-----------------------------------------------------------------------------
(* What leaves the log and the unfinished entry alone.                     *)

(* The log is in the ring and in the blocks of the ring.                   *)
LEMMA LogFrame ==
  ASSUME IInv, buffer' = buffer,
         \A i \in Slot : buffer.entry[i].buffptr \in Ptr =>
                           mem'[buffer.entry[i].buffptr] = mem[buffer.entry[i].buffptr]
  PROVE  LogView' = LogView
<1>1. Count(buffer) \in 0..MaxOps /\ MaxOps \in Nat
  BY RingOrder, MaxOpsAssumption
<1>2. ASSUME NEW k \in 1..Count(buffer)
      PROVE  mem'[buffer.entry[SlotAt(buffer, k)].buffptr] = mem[buffer.entry[SlotAt(buffer, k)].buffptr]
  <2>1. k \in 1..MaxOps /\ k <= Count(buffer)
    BY <1>1
  <2>2. SlotAt(buffer, k) \in Slot /\ buffer.entry[SlotAt(buffer, k)].buffptr \in Ptr
    BY <2>1, RingOrder
  <2>. QED
    BY <2>2
<1>3. LogView' = [k \in 1..Count(buffer) |-> mem'[buffer.entry[SlotAt(buffer, k)].buffptr]]
  BY DEF LogView, Count, SlotAt
<1>. QED
  BY <1>2, <1>3 DEF LogView

(* Steps that leave log and unfinished entry alone.                        *)
Aside == LogView' = LogView /\ Partial' = Partial

(* A step that changes neither the device nor the memory does.             *)
LEMMA NoDeviceStep ==
  ASSUME IInv, UNCHANGED <<dev, mem>>
  PROVE  Aside
<1>1. buffer' = buffer /\ entry_temp' = entry_temp /\ mem' = mem
  BY DEF dev
<1>. QED
  BY <1>1, LogFrame DEF Aside, Partial

(* So does one that changes memory only in a writer's new block: nothing   *)
(* else points there.                                                      *)
LEMMA NewBlockStep ==
  ASSUME IInv, UNCHANGED dev, NEW p \in Proc,
         \A q \in Ptr : q # new_buffer[p] => mem'[q] = mem[q]
  PROVE  Aside
<1>1. buffer' = buffer /\ entry_temp' = entry_temp
  BY DEF dev
<1>2. \A i \in Slot : buffer.entry[i].buffptr \in Ptr =>
        mem'[buffer.entry[i].buffptr] = mem[buffer.entry[i].buffptr]
  BY DEF IInv, SingleOwner
<1>3. entry_temp.buffptr \in Ptr => mem'[entry_temp.buffptr] = mem[entry_temp.buffptr]
  BY DEF IInv, SingleOwner
<1>4. LogView' = LogView
  BY <1>1, <1>2, LogFrame
<1>5. Partial' = Partial
  BY <1>1, <1>3 DEF Partial
<1>. QED
  BY <1>4, <1>5 DEF Aside

(* The module comes up with the empty ring it went down with.              *)
LEMMA LoadAside ==
  ASSUME IInv, aesd_init_module \/ aesd_init_module_fails \/ aesd_cleanup_module
  PROVE  Aside
<1>1. UNCHANGED <<dev, mem>>
  BY DEF IInv, Bookkeeping, aesd_init_module, aesd_init_module_fails, aesd_cleanup_module, dev, heap
<1>. QED
  BY <1>1, NoDeviceStep

(* Of all steps of a process only the commits of a write are different,    *)
(* and of those not the one that oopses.                                   *)
LEMMA CallAside ==
  ASSUME IInv, NEW p \in Proc,
         \/ aesd_open(p) \/ aesd_release(p) \/ WriteCall(p) \/ ReadCall(p)
         \/ get_lock_interrupted(p) \/ ReadSteps(p)
         \/ WriteLock(p) \/ WriteAlloc(p) \/ WriteNoMemory(p) \/ WriteFault(p)
  PROVE  Aside
<1>1. UNCHANGED <<dev, mem>>
  BY DEF aesd_open, aesd_release, WriteCall, ReadCall, get_lock_interrupted, ReadSteps, ReadLock,
     ReadStep, ReadFault, ReadDone, EndRead, WriteLock, WriteAlloc, WriteNoMemory, WriteFault, heap
<1>. QED
  BY <1>1, NoDeviceStep

(* A write fills or frees its own new block.                               *)
LEMMA CopyAside ==
  ASSUME IInv, NEW p \in Proc, WriteCopy(p) \/ WriteFaultFree(p)
  PROVE  Aside
<1>1. UNCHANGED dev /\ \A q \in Ptr : q # new_buffer[p] => mem'[q] = mem[q]
  BY DEF WriteCopy, WriteFaultFree, FreeAll
<1>. QED
  BY <1>1, NewBlockStep

(* A commit of no bytes leaves an unfinished entry of no bytes.            *)
LEMMA OopsAside ==
  ASSUME IInv, NEW p \in Proc, WriteOops(p)
  PROVE  Aside
<1>1. /\ buffer' = buffer /\ entry_temp'.buffptr = new_buffer[p]
      /\ \A q \in Ptr : q # entry_temp.buffptr => mem'[q] = mem[q]
      /\ pc[p] = "w_commit" /\ entry_temp.size + Len(arg[p]) = 0
  BY DEF WriteOops, Grown, FreeAll
<1>2. /\ entry_temp.size \in Nat /\ Len(arg[p]) \in Nat
      /\ entry_temp.size = Len(Partial) /\ Partial \in Seq(Byte)
  BY DEF IInv, DeviceTypeOK, SizesAgree, Partial
<1>3. Partial = <<>> /\ AllocSize(p) = 0
  BY <1>1, <1>2 DEF AllocSize
<1>4. new_buffer[p] = ZERO_SIZE_PTR
  BY <1>1, <1>3 DEF IInv, Bookkeeping
<1>5. Partial' = <<>>
  BY <1>1, <1>4, ConstAssumption DEF Partial
<1>6. \A i \in Slot : buffer.entry[i].buffptr \in Ptr =>
        mem'[buffer.entry[i].buffptr] = mem[buffer.entry[i].buffptr]
  BY <1>1 DEF IInv, SingleOwner
<1>. QED
  BY <1>1, <1>3, <1>5, <1>6, LogFrame DEF Aside

-----------------------------------------------------------------------------
(* What a read has copied.                                                 *)

(* The arguments of a call are its caller's until the call ends.           *)
Arguments ==
  \A p \in Proc :
    /\ pc[p] \in {"w_lock", "w_alloc", "w_copy", "w_commit", "w_fault"} => arg[p] \in Chunks
    /\ pc[p] \in {"r_lock", "r_loop"} => count[p] \in Counts

(* The types that a read adds to those of DeviceTypeOK.                    *)
ReadTypes == f_pos \in [Proc -> Nat] /\ got \in [Proc -> Seq(Byte)]

(* Outside its loop a read has copied nothing; in the loop it has copied   *)
(* what follows its position, and if that is anything it is there.         *)
Slice(p) ==
  LET n == Len(got[p]) IN
  /\ n <= count[p]
  /\ got[p] = SubSeq(Contents, f_pos[p] + 1, f_pos[p] + n)
  /\ n # 0 => f_pos[p] + n <= Len(Contents)

Reading == \A p \in Proc : IF pc[p] = "r_loop" THEN Slice(p) ELSE got[p] = <<>>

(* The inductive invariant: that of the driver, and what reads rely on.    *)
RInv == IInv /\ Arguments /\ ReadTypes /\ Reading

(* In the beginning there is no call.                                      *)
LEMMA InitRInv == Init => RInv
<1> SUFFICES ASSUME Init PROVE RInv
  OBVIOUS
<1>1. IInv
  BY InitIInv
<1>2. Arguments /\ Reading
  BY DEF Init, Arguments, Reading
<1>3. ReadTypes
  BY DEF Init, ReadTypes
<1>. QED
  BY <1>1, <1>2, <1>3 DEF RInv

(* A step keeps the slice of a process that stays in its loop, if that     *)
(* process and the log stay as they are.                                   *)
LEMMA SliceKept ==
  ASSUME NEW p \in Proc, Slice(p), LogView' = LogView,
         got'[p] = got[p], f_pos'[p] = f_pos[p], count'[p] = count[p]
  PROVE  Slice(p)'
<1>1. Contents' = Contents
  BY DEF Contents
<1>. QED
  BY <1>1 DEF Slice

(* A SubSeq by its positions.                                              *)
CutAt(t, u, a, n) == t \in Seq(Byte) /\ Len(t) = n /\ \A j \in 1..n : t[j] = u[a + j]

LEMMA SubSeqAt ==
  ASSUME NEW u \in Seq(Byte), NEW a \in Nat, NEW n \in Nat, a + n <= Len(u),
         NEW t, t = SubSeq(u, a + 1, a + n)
  PROVE  CutAt(t, u, a, n)
<1>1. Len(u) \in Nat /\ \A j \in 1..n : a + j \in 1..Len(u)
  OBVIOUS
<1>2. t = [j \in 1..n |-> u[a + j]]
  OBVIOUS
<1>3. \A j \in 1..n : u[a + j] \in Byte
  BY <1>1
<1>. QED
  BY <1>2, <1>3 DEF CutAt

(* A SubSeq continued.                                                     *)
Follows(s, a, u, t) ==
  /\ u = SubSeq(s, a + 1, a + Len(u)) /\ (Len(u) # 0 => a + Len(u) <= Len(s))
  /\ Len(t) # 0 /\ a + Len(u) + Len(t) <= Len(s)
  /\ \A j \in 1..Len(t) : s[a + Len(u) + j] = t[j]

(* So one SubSeq continued by the bytes that follow is the longer SubSeq.  *)
LEMMA Continued ==
  ASSUME NEW s \in Seq(Byte), NEW a \in Nat, NEW u \in Seq(Byte), NEW t \in Seq(Byte),
         Follows(s, a, u, t)
  PROVE  u \o t = SubSeq(s, a + 1, a + Len(u \o t))
<1> USE DEF Follows
<1> DEFINE m == Len(u)  n == Len(t)  v == SubSeq(s, a + 1, a + (m + n))  w == u \o t
<1>1. m \in Nat /\ n \in Nat /\ n # 0 /\ Len(s) \in Nat /\ a + m + n <= Len(s)
  OBVIOUS
<1>2. w \in Seq(Byte) /\ Len(w) = m + n
  OBVIOUS
<1>3. v \in Seq(Byte) /\ Len(v) = m + n /\ \A i \in 1..m + n : v[i] = s[a + i]
  BY <1>1
<1>4. \A i \in 1..m : u[i] = s[a + i]
  BY <1>1
<1>5. ASSUME NEW i \in 1..m + n PROVE w[i] = v[i]
  <2>1. CASE i <= m
    BY <2>1, <1>3, <1>4, <1>1
  <2>2. CASE i > m
    <3>1. i - m \in 1..n /\ a + m + (i - m) = a + i
      BY <2>2, <1>1
    <3>2. w[i] = t[i - m] /\ s[a + m + (i - m)] = t[i - m]
      BY <3>1, <2>2, <1>1
    <3>. QED
      BY <3>1, <3>2, <1>3
  <2>. QED
    BY <2>1, <2>2, <1>1
<1>6. w = v
  <2> HIDE DEF w, v, m, n
  <2>1. DOMAIN w = 1..m + n /\ DOMAIN v = 1..m + n
    BY <1>2, <1>3
  <2>. QED
    BY <1>2, <1>3, <1>5, <2>1
<1>. QED
  BY <1>2, <1>6

(* One iteration copies bytes that follow in the concatenation, at least   *)
(* one, and no more than are asked for.                                    *)
LEMMA CopyFollows ==
  ASSUME RInv, NEW p \in Proc, ReadStep(p)
  PROVE  \E t \in Seq(Byte) :
           /\ got' = [got EXCEPT ![p] = @ \o t]
           /\ Len(t) # 0 /\ Len(got[p]) + Len(t) <= count[p]
           /\ f_pos[p] + Len(got[p]) + Len(t) <= Len(Contents)
           /\ \A j \in 1..Len(t) : Contents[f_pos[p] + Len(got[p]) + j] = t[j]
<1> DEFINE off == f_pos[p] + Len(got[p])
           r == Found(p)
           e == buffer.entry[r.index]
           n == bytes_to_copy(p, e.size - r.offset)
           t == SubSeq(mem[e.buffptr], r.offset + 1, r.offset + n)
           had == Len(got[p])
<1>1. IInv /\ f_pos[p] \in Nat /\ got[p] \in Seq(Byte) /\ count[p] \in Nat
  BY DEF RInv, ReadTypes, IInv, DeviceTypeOK
<1>2. had \in Nat /\ off \in Nat
  BY <1>1
<1>3. got' = [got EXCEPT ![p] = @ \o t] /\ had < count[p] /\ r # NULL
  BY DEF ReadStep, LoopGoesOn
<1>4. FoundAt(off, r)
  <2>1. r = aesd_circular_buffer_find_entry_offset_for_fpos(buffer, off)
    BY DEF Found
  <2>. QED
    BY <2>1, <1>1, <1>2, <1>3, FindByte
<1>5. n = IF e.size - r.offset >= count[p] - had THEN count[p] - had ELSE e.size - r.offset
  BY DEF bytes_to_copy
<1>6. r.offset \in Nat /\ e.size \in Nat /\ r.offset < e.size /\ off + e.size - r.offset <= Len(Contents)
  BY <1>1, <1>4 DEF FoundAt, IInv, DeviceTypeOK
<1>7. mem[e.buffptr] \in Seq(Byte) /\ Len(mem[e.buffptr]) = e.size
  BY <1>1, <1>4 DEF FoundAt, IInv, DeviceTypeOK
<1>a. Len(Contents) \in Nat
  BY <1>1, LogType, FlattenLayout DEF Contents
<1> DEFINE size == e.size  at == r.offset  all == Len(Contents)  want == count[p]
<1> HIDE DEF n, r, off, had, size, at, all, want
<1>b. /\ n = IF size - at >= want - had THEN want - had ELSE size - at
      /\ size \in Nat /\ at \in Nat /\ all \in Nat /\ want \in Nat /\ had \in Nat /\ off \in Nat
      /\ at < size /\ off + size - at <= all /\ had < want
  BY <1>1, <1>2, <1>3, <1>5, <1>6, <1>a DEF size, at, all, want
<1>8. n \in Nat /\ n # 0 /\ n <= size - at /\ had + n <= want /\ off + n <= all /\ at + n <= size
  BY <1>b
<1>9. t \in Seq(Byte) /\ Len(t) = n /\ \A j \in 1..n : t[j] = mem[e.buffptr][at + j]
  <2>1. mem[e.buffptr] \in Seq(Byte) /\ Len(mem[e.buffptr]) = size
    BY <1>7 DEF size
  <2>2. t = SubSeq(mem[e.buffptr], at + 1, at + n)
    BY DEF at
  <2> DEFINE u == mem[e.buffptr]
  <2>3. u \in Seq(Byte) /\ at + n <= Len(u) /\ t = SubSeq(u, at + 1, at + n)
    BY <2>1, <2>2, <1>8
  <2> HIDE DEF u, t
  <2>4. CutAt(t, u, at, n)
    BY <2>3, <1>8, <1>b, SubSeqAt
  <2>. QED
    BY <2>4 DEF u, CutAt
<1>10. \A j \in 1..n : Contents[off + j] = t[j]
  <2>1. \A j \in 1..size - at : Contents[off + j] = mem[e.buffptr][at + j]
    BY <1>4 DEF FoundAt, size, at
  <2>2. \A j \in 1..n : j \in 1..size - at
    BY <1>8, <1>b
  <2> HIDE DEF t
  <2>. QED
    BY <2>1, <2>2, <1>9
<1> HIDE DEF t
<1>11. /\ Len(t) # 0 /\ had + Len(t) <= want /\ off + Len(t) <= all
       /\ \A j \in 1..Len(t) : Contents[off + j] = t[j]
  BY <1>8, <1>9, <1>10
<1>. QED
  BY <1>3, <1>9, <1>11 DEF off, had, all, want

(* So the loop of a read stays a slice.                                    *)
LEMMA ReadStepSlice ==
  ASSUME RInv, NEW p \in Proc, ReadStep(p)
  PROVE  got' \in [Proc -> Seq(Byte)] /\ Slice(p)' /\ \A r \in Proc : r # p => got'[r] = got[r]
<1>1. PICK t \in Seq(Byte) :
        /\ got' = [got EXCEPT ![p] = @ \o t]
        /\ Len(t) # 0 /\ Len(got[p]) + Len(t) <= count[p]
        /\ f_pos[p] + Len(got[p]) + Len(t) <= Len(Contents)
        /\ \A j \in 1..Len(t) : Contents[f_pos[p] + Len(got[p]) + j] = t[j]
  BY CopyFollows
<1>2. got \in [Proc -> Seq(Byte)] /\ got[p] \in Seq(Byte) /\ f_pos[p] \in Nat
  BY DEF RInv, ReadTypes
<1>3. Slice(p)
  BY DEF RInv, Reading, ReadStep
<1>4. Contents \in Seq(Byte)
  BY LogType, FlattenLayout DEF RInv, Contents
<1>5. got'[p] = got[p] \o t /\ got[p] \o t \in Seq(Byte) /\ Len(got[p] \o t) = Len(got[p]) + Len(t)
  BY <1>1, <1>2
<1>6. got' \in [Proc -> Seq(Byte)] /\ \A r \in Proc : r # p => got'[r] = got[r]
  BY <1>1, <1>2, <1>5
<1>7. got[p] \o t = SubSeq(Contents, f_pos[p] + 1, f_pos[p] + Len(got[p] \o t))
  <2>1. Follows(Contents, f_pos[p], got[p], t)
    BY <1>1, <1>3 DEF Slice, Follows
  <2>. QED
    BY <2>1, <1>2, <1>4, Continued
<1>8. LogView' = LogView /\ f_pos' = f_pos /\ count' = count
  BY CallAside DEF RInv, ReadSteps, Aside, ReadStep
<1>9. Contents' = Contents
  BY <1>8 DEF Contents
<1>10. Len(got'[p]) = Len(got[p]) + Len(t) /\ Len(got[p]) \in Nat /\ Len(t) \in Nat
  BY <1>5, <1>2, <1>1
<1>11. f_pos[p] + Len(got'[p]) <= Len(Contents)
  BY <1>10, <1>1, <1>2, <1>4
<1>12. Slice(p)'
  BY <1>1, <1>5, <1>7, <1>8, <1>9, <1>10, <1>11 DEF Slice
<1>. QED
  BY <1>6, <1>12

(* A read that is in its loop holds the lock of a live module.  So no      *)
(* other process commits, and nobody unloads.                              *)
LEMMA ReaderHoldsLog ==
  ASSUME IInv, [Next]_vars, NEW p \in Proc, pc[p] = "r_loop"
  PROVE  LogView' = LogView
<1>1. module = "live" /\ \A r \in Proc : r # p => pc[r] \notin Critical
  BY OneWriter DEF Critical
<1>2. ~DrainStep /\ \A r \in Proc : ~WritePartial(r) /\ ~WriteEntry(r)
  BY <1>1 DEF DrainStep, WritePartial, WriteEntry, Critical
<1>3. CASE UNCHANGED vars
  BY <1>3, NoDeviceStep DEF vars, dev, Aside
<1>4. CASE aesd_init_module \/ aesd_init_module_fails \/ aesd_cleanup_module
  BY <1>4, LoadAside DEF Aside
<1>5. ASSUME NEW r \in Proc,
             \/ aesd_open(r) \/ aesd_release(r) \/ WriteCall(r) \/ ReadCall(r)
             \/ get_lock_interrupted(r) \/ WriteSteps(r) \/ ReadSteps(r)
      PROVE  LogView' = LogView
  BY <1>2, <1>5, CallAside, CopyAside, OopsAside DEF WriteSteps, Aside
<1>. QED
  BY <1>2, <1>3, <1>4, <1>5 DEF Next

(* What a step of one process does to the others, and what steps of nobody *)
(* do: nothing that a read looks at.                                       *)
Idle(p) ==
  /\ pc'[p] = pc[p] /\ arg'[p] = arg[p] /\ count'[p] = count[p]
  /\ f_pos'[p] = f_pos[p] /\ got'[p] = got[p]

(* Loading and unloading touch no call.                                    *)
LEMMA ModuleIdle ==
  ASSUME aesd_init_module \/ aesd_init_module_fails \/ aesd_cleanup_module \/ DrainStep
         \/ UNCHANGED vars
  PROVE  UNCHANGED <<pc, arg, count, f_pos, got>>
BY DEF aesd_init_module, aesd_init_module_fails, aesd_cleanup_module, DrainStep, vars, local

(* The steps of a write move neither positions nor what reads have copied. *)
LEMMA WriteMoves ==
  ASSUME RInv, NEW p \in Proc, WriteCall(p) \/ WriteSteps(p)
  PROVE  /\ UNCHANGED <<f_pos, got, count>>
         /\ \A r \in Proc : r # p => pc'[r] = pc[r] /\ arg'[r] = arg[r]
         /\ pc[p] # "r_loop" /\ pc'[p] \notin {"r_loop", "r_lock"}
         /\ pc'[p] \in {"w_lock", "w_alloc", "w_copy", "w_commit", "w_fault"} => arg'[p] \in Chunks
<1> USE DEF RInv, IInv, DeviceTypeOK, Arguments
<1>1. CASE WriteCall(p)
  <2>1. PICK chunk \in Chunks : arg' = [arg EXCEPT ![p] = chunk]
    BY <1>1 DEF WriteCall
  <2>2. arg'[p] \in Chunks /\ \A r \in Proc : r # p => arg'[r] = arg[r]
    BY <2>1
  <2>. QED
    BY <2>2, <1>1 DEF WriteCall
<1>2. CASE WriteLock(p)
  BY <1>2 DEF WriteLock, get_lock, local
<1>3. CASE WriteAlloc(p)
  BY <1>3 DEF WriteAlloc
<1>4. CASE WriteNoMemory(p)
  BY <1>4 DEF WriteNoMemory, release_lock
<1>5. CASE WriteCopy(p)
  BY <1>5 DEF WriteCopy, local
<1>6. CASE WriteFault(p)
  BY <1>6 DEF WriteFault, release_lock, local
<1>7. CASE WriteFaultFree(p)
  BY <1>7 DEF WriteFaultFree
<1>8. CASE WritePartial(p)
  BY <1>8 DEF WritePartial, release_lock, EndWrite
<1>9. CASE WriteEntry(p)
  BY <1>9 DEF WriteEntry, release_lock, EndWrite
<1>10. CASE WriteOops(p)
  BY <1>10 DEF WriteOops, EndWrite
<1>. QED
  BY <1>1, <1>2, <1>3, <1>4, <1>5, <1>6, <1>7, <1>8, <1>9, <1>10 DEF WriteSteps

(* The other steps of a process outside the loop of a read.                *)
LEMMA FileMoves ==
  ASSUME RInv, NEW p \in Proc,
         aesd_open(p) \/ aesd_release(p) \/ ReadCall(p) \/ get_lock_interrupted(p) \/ ReadLock(p)
  PROVE  /\ \A r \in Proc : r # p => Idle(r)
         /\ UNCHANGED got /\ f_pos' \in [Proc -> Nat]
         /\ pc[p] # "r_loop" /\ pc'[p] \in {"closed", "open", "r_lock", "r_loop"}
         /\ pc'[p] \in {"r_loop", "r_lock"} => count'[p] \in Counts
<1> USE DEF RInv, IInv, DeviceTypeOK, Arguments, ReadTypes, Idle
<1>1. CASE aesd_open(p)
  BY <1>1 DEF aesd_open
<1>2. CASE aesd_release(p)
  BY <1>2 DEF aesd_release, local
<1>3. CASE ReadCall(p)
  <2>1. PICK n \in Counts : count' = [count EXCEPT ![p] = n]
    BY <1>3 DEF ReadCall
  <2>2. count'[p] \in Counts /\ \A r \in Proc : r # p => count'[r] = count[r]
    BY <2>1
  <2>. QED
    BY <2>2, <1>3 DEF ReadCall
<1>4. CASE get_lock_interrupted(p)
  BY <1>4 DEF get_lock_interrupted
<1>5. CASE ReadLock(p)
  BY <1>5 DEF ReadLock, get_lock, local
<1>. QED
  BY <1>1, <1>2, <1>3, <1>4, <1>5

(* The end of a read.                                                      *)
LEMMA ReadEnds ==
  ASSUME RInv, NEW p \in Proc, ReadFault(p) \/ ReadDone(p)
  PROVE  /\ \A r \in Proc : r # p => Idle(r)
         /\ got' \in [Proc -> Seq(Byte)] /\ got'[p] = <<>> /\ f_pos' \in [Proc -> Nat]
         /\ pc[p] = "r_loop" /\ pc'[p] = "open"
<1>1. /\ pc' = [pc EXCEPT ![p] = "open"] /\ pc[p] = "r_loop" /\ UNCHANGED arg
      /\ count' = [count EXCEPT ![p] = 0] /\ got' = [got EXCEPT ![p] = <<>>]
      /\ f_pos' = f_pos \/ f_pos' = [f_pos EXCEPT ![p] = @ + Len(got[p])]
  BY DEF ReadFault, ReadDone, EndRead, release_lock
<1>2. f_pos \in [Proc -> Nat] /\ got \in [Proc -> Seq(Byte)] /\ Len(got[p]) \in Nat
  BY DEF RInv, ReadTypes
<1>3. f_pos' \in [Proc -> Nat] /\ \A r \in Proc : r # p => f_pos'[r] = f_pos[r]
  <2>1. CASE f_pos' = f_pos
    BY <2>1, <1>2
  <2>2. CASE f_pos' = [f_pos EXCEPT ![p] = @ + Len(got[p])]
    BY <2>2, <1>2
  <2>. QED
    BY <2>1, <2>2, <1>1
<1>4. <<>> \in Seq(Byte)
  OBVIOUS
<1>5. got' \in [Proc -> Seq(Byte)] /\ got'[p] = <<>> /\ \A r \in Proc : r # p => got'[r] = got[r]
  BY <1>1, <1>2, <1>4
<1>6. /\ pc'[p] = "open"
      /\ \A r \in Proc : r # p => pc'[r] = pc[r] /\ count'[r] = count[r] /\ arg'[r] = arg[r]
  BY <1>1 DEF RInv, IInv, DeviceTypeOK
<1>. QED
  BY <1>1, <1>3, <1>5, <1>6 DEF Idle

(* A step keeps what reads have copied, for the process that takes it and  *)
(* for the others.                                                         *)
LEMMA OthersRead ==
  ASSUME RInv, [Next]_vars, NEW r \in Proc, Idle(r)
  PROVE  /\ IF pc'[r] = "r_loop" THEN Slice(r)' ELSE got'[r] = <<>>
         /\ pc'[r] \in {"w_lock", "w_alloc", "w_copy", "w_commit", "w_fault"} => arg'[r] \in Chunks
         /\ pc'[r] \in {"r_lock", "r_loop"} => count'[r] \in Counts
<1>1. CASE pc[r] = "r_loop"
  <2>1. LogView' = LogView
    BY <1>1, ReaderHoldsLog DEF RInv
  <2>2. Slice(r)
    BY <1>1 DEF RInv, Reading
  <2>. QED
    BY <2>1, <2>2, <1>1, SliceKept DEF Idle, RInv, Arguments
<1>2. CASE pc[r] # "r_loop"
  BY <1>2 DEF RInv, Reading, Arguments, Idle
<1>. QED
  BY <1>1, <1>2

(* Every step keeps the invariant.                                         *)
LEMMA NextRInv == RInv /\ [Next]_vars => RInv'
<1> SUFFICES ASSUME RInv, [Next]_vars PROVE RInv'
  OBVIOUS
<1>0. IInv'
  BY NextIInv DEF RInv
<1> DEFINE Good(r) ==
      /\ IF pc'[r] = "r_loop" THEN Slice(r)' ELSE got'[r] = <<>>
      /\ pc'[r] \in {"w_lock", "w_alloc", "w_copy", "w_commit", "w_fault"} => arg'[r] \in Chunks
      /\ pc'[r] \in {"r_lock", "r_loop"} => count'[r] \in Counts
<1>a. \A r \in Proc : Idle(r) => Good(r)
  BY OthersRead
<1> SUFFICES (\A r \in Proc : Good(r)) /\ ReadTypes'
  BY <1>0 DEF RInv, Reading, Arguments
<1> HIDE DEF Good
<1>1. CASE UNCHANGED <<pc, arg, count, f_pos, got>>
  <2>1. \A r \in Proc : Idle(r)
    BY <1>1 DEF Idle
  <2>2. ReadTypes'
    BY <1>1 DEF RInv, ReadTypes
  <2>. QED
    BY <2>1, <2>2, <1>a
<1>2. ASSUME NEW p \in Proc, WriteCall(p) \/ WriteSteps(p)
      PROVE  (\A r \in Proc : Good(r)) /\ ReadTypes'
  <2>1. \A r \in Proc : r # p => Idle(r)
    BY <1>2, WriteMoves DEF Idle
  <2>2. Good(p)
    BY <1>2, WriteMoves DEF Good, RInv, Reading
  <2>3. ReadTypes'
    BY <1>2, WriteMoves DEF RInv, ReadTypes
  <2>. QED
    BY <2>1, <2>2, <2>3, <1>a
<1>3. ASSUME NEW p \in Proc,
             aesd_open(p) \/ aesd_release(p) \/ ReadCall(p) \/ get_lock_interrupted(p) \/ ReadLock(p)
      PROVE  (\A r \in Proc : Good(r)) /\ ReadTypes'
  <2>1. \A r \in Proc : r # p => Idle(r)
    BY <1>3, FileMoves
  <2>2. got' = got /\ got[p] = <<>> /\ f_pos' \in [Proc -> Nat] /\ got \in [Proc -> Seq(Byte)]
    BY <1>3, FileMoves DEF RInv, Reading, ReadTypes
  <2>3. ReadTypes'
    BY <2>2 DEF ReadTypes
  <2>4. pc'[p] = "r_loop" => Slice(p)'
    <3> SUFFICES ASSUME pc'[p] = "r_loop" PROVE Slice(p)'
      OBVIOUS
    <3>1. count'[p] \in Nat
      BY <1>0 DEF IInv, DeviceTypeOK
    <3>2. f_pos'[p] \in Nat /\ got'[p] = <<>> /\ Len(got'[p]) = 0
      BY <2>2
    <3>3. SubSeq(Contents', f_pos'[p] + 1, f_pos'[p] + 0) = <<>>
      <4>1. Contents' \in Seq(Byte)
        <5>1. LogView' = LogView /\ LogView \in Seq(Seq(Byte))
          BY <1>3, CallAside, LogType DEF RInv, Aside, ReadSteps
        <5>. QED
          BY <5>1, FlattenLayout DEF Contents
      <4> DEFINE c == Contents'  a == f_pos'[p]
      <4> HIDE DEF c, a
      <4>2. c \in Seq(Byte) /\ a \in Nat
        BY <4>1, <3>2 DEF c, a
      <4>3. SubSeq(c, a + 1, a + 0) = <<>>
        BY <4>2
      <4>. QED
        BY <4>3 DEF c, a
    <3>. QED
      BY <3>1, <3>2, <3>3 DEF Slice
  <2>5. Good(p)
    BY <2>2, <2>4, <1>3, FileMoves DEF Good
  <2>. QED
    BY <2>1, <2>3, <2>5, <1>a
<1>4. ASSUME NEW p \in Proc, ReadStep(p)
      PROVE  (\A r \in Proc : Good(r)) /\ ReadTypes'
  <2>1. /\ got' \in [Proc -> Seq(Byte)] /\ Slice(p)'
        /\ \A r \in Proc : r # p => got'[r] = got[r]
    BY <1>4, ReadStepSlice
  <2>2. UNCHANGED <<pc, arg, count, f_pos>> /\ pc[p] = "r_loop"
    BY <1>4 DEF ReadStep
  <2>3. \A r \in Proc : r # p => Idle(r)
    BY <2>1, <2>2 DEF Idle
  <2>4. Good(p)
    BY <2>1, <2>2 DEF Good, RInv, Arguments
  <2>5. ReadTypes'
    BY <2>1, <2>2 DEF RInv, ReadTypes
  <2>. QED
    BY <2>3, <2>4, <2>5, <1>a
<1>5. ASSUME NEW p \in Proc, ReadFault(p) \/ ReadDone(p)
      PROVE  (\A r \in Proc : Good(r)) /\ ReadTypes'
  <2>1. Good(p) /\ ReadTypes' /\ \A r \in Proc : r # p => Idle(r)
    BY <1>5, ReadEnds DEF Good, ReadTypes
  <2>. QED
    BY <2>1, <1>a
<1>. QED
  BY <1>1, <1>2, <1>3, <1>4, <1>5, ModuleIdle DEF Next, ReadSteps

(* Types, arguments and slices hold in every reachable state.              *)
THEOREM ReadInvariance == Spec => []RInv
<1>1. RInv /\ [Next]_vars => RInv'
  BY NextRInv
<1>. QED
  BY <1>1, InitRInv, PTL DEF Spec

(* A read that stops has all it asked for or has reached the end.          *)
LEMMA StopsAtEnd ==
  ASSUME RInv, NEW p \in Proc, pc[p] = "r_loop", ~LoopGoesOn(p)
  PROVE  Len(got[p]) = count[p] \/ f_pos[p] + Len(got[p]) >= Len(Contents)
<1>0. f_pos[p] \in Nat /\ Len(got[p]) \in Nat /\ count[p] \in Nat
  BY DEF RInv, ReadTypes, IInv, DeviceTypeOK
<1>1. IInv /\ f_pos[p] + Len(got[p]) \in Nat /\ Len(got[p]) \in Nat /\ count[p] \in Nat
  BY <1>0 DEF RInv
<1>2. Len(got[p]) <= count[p]
  BY DEF RInv, Reading, Slice
<1>3. CASE Len(got[p]) < count[p]
  <2> DEFINE r == Found(p)
  <2>1. r = NULL
    BY <1>3 DEF LoopGoesOn
  <2>2. r = aesd_circular_buffer_find_entry_offset_for_fpos(buffer, f_pos[p] + Len(got[p]))
    BY DEF Found
  <2>3. ~FoundAt(f_pos[p] + Len(got[p]), r)
    BY <2>1, ConstAssumption DEF FoundAt
  <2>. QED
    BY <2>2, <2>3, <1>1, FindByte
<1>. QED
  BY <1>1, <1>2, <1>3

(* A read returns a slice of the concatenation, whatever the other         *)
(* processes do meanwhile, and a short one only at the end of the data.    *)
THEOREM ReadsAreSlices == Spec => []ReadIsSlice
<1>1. RInv => ReadIsSlice
  <2> SUFFICES ASSUME RInv, NEW p \in Proc, pc[p] = "r_loop"
               PROVE  LET n == Len(got[p]) IN
                      /\ got[p] = SubSeq(Contents, f_pos[p] + 1, f_pos[p] + n)
                      /\ n <= count[p]
                      /\ ~LoopGoesOn(p) => n = count[p] \/ f_pos[p] + n >= Len(Contents)
    BY DEF ReadIsSlice
  <2>1. Slice(p)
    BY DEF RInv, Reading
  <2>. QED
    BY <2>1, StopsAtEnd DEF Slice
<1>. QED
  BY <1>1, ReadInvariance, PTL

-----------------------------------------------------------------------------
(* The refinement of WriteLog.                                             *)

(* Where add_entry leaves the slots in reading order: one more, or one     *)
(* further on.                                                             *)
LEMMA PushOrder ==
  ASSUME NEW b, NEW c, b.full \in BOOLEAN, b.in_offs \in Slot, b.out_offs \in Slot,
         IF b.full THEN b.in_offs = b.out_offs ELSE b.out_offs = 0,
         c.in_offs = Advance(b.in_offs),
         c.out_offs = IF b.full THEN Advance(b.out_offs) ELSE b.out_offs,
         c.full = (b.full \/ Advance(b.in_offs) = b.out_offs)
  PROVE  /\ Count(c) = IF b.full THEN MaxOps ELSE Count(b) + 1
         /\ SlotAt(c, Count(c)) = b.in_offs
         /\ ~b.full => \A k \in 1..Count(b) :
                         SlotAt(c, k) = SlotAt(b, k) /\ SlotAt(b, k) # b.in_offs
         /\ b.full => \A k \in 1..MaxOps - 1 :
                         SlotAt(c, k) = SlotAt(b, k + 1) /\ SlotAt(b, k + 1) # b.in_offs
<1> USE MaxOpsAssumption DEF Slot
<1>1. MaxOps \in Nat /\ MaxOps >= 1 /\ b.in_offs \in Nat /\ b.in_offs < MaxOps
  OBVIOUS
<1>2. CASE b.full
  <2>1. c.full /\ c.out_offs = IF b.in_offs = MaxOps - 1 THEN 0 ELSE b.in_offs + 1
    BY <1>2 DEF Advance
  <2>2. Count(c) = MaxOps
    BY <2>1 DEF Count
  <2>. QED
    BY <2>1, <2>2, <1>1, <1>2 DEF SlotAt
<1>3. CASE ~b.full
  <2>1. b.out_offs = 0 /\ c.out_offs = 0 /\ Count(b) = b.in_offs
    BY <1>1, <1>3 DEF Count
  <2>2. Count(c) = b.in_offs + 1
    <3>1. CASE b.in_offs = MaxOps - 1
      <4>1. c.full
        BY <3>1, <2>1 DEF Advance
      <4>. QED
        BY <4>1, <3>1, <1>1 DEF Count
    <3>2. CASE b.in_offs # MaxOps - 1
      <4>1. c.in_offs = b.in_offs + 1 /\ ~c.full
        BY <3>2, <2>1, <1>1, <1>3 DEF Advance
      <4>. QED
        BY <4>1, <2>1, <1>1 DEF Count
    <3>. QED
      BY <3>1, <3>2
  <2>. QED
    BY <2>1, <2>2, <1>1, <1>3 DEF SlotAt
<1>. QED
  BY <1>2, <1>3

(* What a complete write does to the ring and to the memory behind it.     *)
LEMMA EntryFacts ==
  ASSUME IInv, NEW p \in Proc, WriteEntry(p)
  PROVE  /\ buffer'.entry[buffer.in_offs].buffptr = new_buffer[p]
         /\ \A i \in Slot : i # buffer.in_offs => buffer'.entry[i] = buffer.entry[i]
         /\ buffer'.in_offs = Advance(buffer.in_offs)
         /\ buffer'.out_offs = IF buffer.full THEN Advance(buffer.out_offs) ELSE buffer.out_offs
         /\ buffer'.full = (buffer.full \/ Advance(buffer.in_offs) = buffer.out_offs)
         /\ mem'[new_buffer[p]] = mem[new_buffer[p]]
         /\ \A i \in Slot : i # buffer.in_offs /\ buffer.entry[i].buffptr \in Ptr =>
              mem'[buffer.entry[i].buffptr] = mem[buffer.entry[i].buffptr]
<1>1. /\ pc[p] = "w_commit" /\ Grown(p).size > 0
      /\ buffer' = aesd_circular_buffer_add_entry(buffer, Grown(p))
      /\ FreeAll({entry_temp.buffptr, Overwritten(buffer)})
  BY DEF WriteEntry
<1>2. new_buffer[p] \in Ptr /\ Grown(p).buffptr = new_buffer[p]
  BY <1>1, CommitFacts
<1>3. buffer.in_offs \in Slot /\ buffer.entry \in [Slot -> [buffptr : Ptr \cup {NULL}, size : Nat]]
  BY DEF IInv, DeviceTypeOK
<1>4. \A q \in Ptr : q # entry_temp.buffptr /\ q # Overwritten(buffer) => mem'[q] = mem[q]
  BY <1>1 DEF FreeAll
<1>5. mem'[new_buffer[p]] = mem[new_buffer[p]]
  <2>1. new_buffer[p] # entry_temp.buffptr /\ new_buffer[p] # buffer.entry[buffer.in_offs].buffptr
    BY <1>2, <1>3 DEF IInv, SingleOwner
  <2>2. new_buffer[p] # Overwritten(buffer)
    BY <2>1, <1>2, ConstAssumption DEF Overwritten
  <2>. QED
    BY <2>1, <2>2, <1>2, <1>4
<1>6. ASSUME NEW i \in Slot, i # buffer.in_offs, buffer.entry[i].buffptr \in Ptr
      PROVE  mem'[buffer.entry[i].buffptr] = mem[buffer.entry[i].buffptr]
  <2>1. /\ buffer.entry[i].buffptr # entry_temp.buffptr
        /\ buffer.entry[i].buffptr # buffer.entry[buffer.in_offs].buffptr
    BY <1>3, <1>6 DEF IInv, SingleOwner
  <2>2. buffer.entry[i].buffptr # Overwritten(buffer)
    BY <2>1, <1>6, ConstAssumption DEF Overwritten
  <2>. QED
    BY <2>1, <2>2, <1>4, <1>6
<1>. QED
  BY <1>1, <1>2, <1>3, <1>5, <1>6 DEF aesd_circular_buffer_add_entry

(* The ring after a complete write is the log with the new entry at its    *)
(* end and, if it was full, without the oldest.                            *)
LEMMA EntryIsLogged ==
  ASSUME IInv, NEW p \in Proc, WriteEntry(p)
  PROVE  LogView' = Log!Newest(Append(LogView, mem[new_buffer[p]]))
<1> DEFINE e == mem[new_buffer[p]]
           c == Count(buffer)
           d == Count(buffer')
           at == buffer.in_offs
           Was(k) == mem[buffer.entry[SlotAt(buffer, k)].buffptr]
           Now(k) == mem'[buffer'.entry[SlotAt(buffer', k)].buffptr]
<1>1. /\ buffer.full \in BOOLEAN /\ at \in Slot /\ buffer.out_offs \in Slot
      /\ IF buffer.full THEN at = buffer.out_offs ELSE buffer.out_offs = 0
  BY DEF IInv, DeviceTypeOK, RingShape
<1>2. /\ d = IF buffer.full THEN MaxOps ELSE c + 1
      /\ SlotAt(buffer', d) = at
      /\ ~buffer.full => \A k \in 1..c :
           SlotAt(buffer', k) = SlotAt(buffer, k) /\ SlotAt(buffer, k) # at
      /\ buffer.full => \A k \in 1..MaxOps - 1 :
           SlotAt(buffer', k) = SlotAt(buffer, k + 1) /\ SlotAt(buffer, k + 1) # at
  BY <1>1, EntryFacts, PushOrder
<1>3. MaxOps \in Nat /\ MaxOps >= 1 /\ c \in Nat /\ c <= MaxOps
  <2>1. c \in 0..MaxOps
    BY RingOrder
  <2>. QED
    BY <2>1, MaxOpsAssumption
<1>4. LogView \in Seq(Seq(Byte)) /\ Len(LogView) = c /\ e \in Seq(Byte)
  BY LogType, CommitFacts DEF WriteEntry
<1>5. \A k \in 1..c : LogView[k] = Was(k)
  BY DEF LogView
<1>6. LogView' = [k \in 1..d |-> Now(k)]
  BY DEF LogView
<1>7. Now(d) = e
  BY <1>2, EntryFacts
<1>8. ASSUME NEW k \in 1..c, NEW j, SlotAt(buffer', j) = SlotAt(buffer, k), SlotAt(buffer, k) # at
      PROVE  Now(j) = Was(k)
  <2>1. k \in 1..MaxOps /\ k <= c
    BY <1>3
  <2>2. SlotAt(buffer, k) \in Slot /\ buffer.entry[SlotAt(buffer, k)].buffptr \in Ptr
    BY <2>1, RingOrder
  <2>. QED
    BY <2>2, <1>8, EntryFacts
<1> HIDE DEF Was, Now, c, d, e, at
<1> DEFINE s == Append(LogView, e)
<1>9. s \in Seq(Seq(Byte)) /\ Len(s) = c + 1 /\ (\A k \in 1..c : s[k] = Was(k)) /\ s[c + 1] = e
  BY <1>3, <1>4, <1>5
<1>10. CASE ~buffer.full
  <2>1. d = c + 1 /\ c + 1 <= MaxOps
    <3>1. d = c + 1
      BY <1>2, <1>10
    <3>2. c < MaxOps
      BY <1>1, <1>3, <1>10, MaxOpsAssumption DEF Count, c, Slot, at
    <3>. QED
      BY <3>1, <3>2, <1>3
  <2>2. \A k \in 1..c : Now(k) = Was(k)
    BY <1>2, <1>8, <1>10
  <2>3. ASSUME NEW k \in 1..c + 1 PROVE Now(k) = s[k]
    <3>1. CASE k = c + 1
      BY <3>1, <2>1, <1>7, <1>9
    <3>2. CASE k # c + 1
      <4>1. k \in 1..c
        BY <3>2, <1>3
      <4>. QED
        BY <4>1, <2>2, <1>9
    <3>. QED
      BY <3>1, <3>2
  <2> HIDE DEF s
  <2>4. s = [k \in 1..c + 1 |-> s[k]]
    BY <1>9
  <2>5. LogView' = s
    BY <2>1, <2>3, <2>4, <1>6
  <2>. QED
    BY <2>5, <2>1, <1>9 DEF Log!Newest, s, e
<1>11. CASE buffer.full
  <2>1. d = MaxOps /\ c = MaxOps
    BY <1>2, <1>11 DEF Count, c
  <2> DEFINE u == SubSeq(s, 2, MaxOps + 1)
  <2>2. u \in Seq(Seq(Byte)) /\ Len(u) = MaxOps /\ \A k \in 1..MaxOps : u[k] = s[k + 1]
    <3> HIDE DEF s
    <3>. QED
      BY <2>1, <1>9, <1>3
  <2>3. ASSUME NEW k \in 1..MaxOps PROVE Now(k) = u[k]
    <3> HIDE DEF u, s
    <3>1. CASE k = MaxOps
      BY <3>1, <2>1, <2>2, <1>7, <1>9
    <3>2. CASE k # MaxOps
      <4>1. k \in 1..MaxOps - 1 /\ k + 1 \in 1..c
        BY <3>2, <2>1, <1>3
      <4>2. Now(k) = Was(k + 1)
        BY <4>1, <1>2, <1>8, <1>11
      <4>. QED
        BY <4>1, <4>2, <2>2, <1>9
    <3>. QED
      BY <3>1, <3>2
  <2>4. Log!Newest(s) = u
    <3>1. ~(Len(s) <= MaxOps) /\ Len(s) - MaxOps + 1 = 2 /\ Len(s) = MaxOps + 1
      BY <1>9, <2>1, <1>3
    <3> HIDE DEF s
    <3>. QED
      BY <3>1 DEF Log!Newest
  <2> HIDE DEF u
  <2>5. u = [k \in 1..MaxOps |-> u[k]]
    BY <2>2
  <2>6. LogView' = u
    BY <2>1, <2>3, <2>5, <1>6
  <2>. QED
    BY <2>4, <2>6 DEF e
<1>. QED
  BY <1>10, <1>11, <1>1


(* The bytes of a commit are those of the unfinished entry and the         *)
(* caller's, and the byte the driver looks at is their last.               *)
LEMMA CommitBytes ==
  ASSUME RInv, NEW p \in Proc, pc[p] = "w_commit", Grown(p).size > 0
  PROVE  /\ mem[new_buffer[p]] = Partial \o arg[p] /\ arg[p] \in Chunks
         /\ mem[new_buffer[p]] # <<>>
         /\ Last(mem[new_buffer[p]]) = mem[Grown(p).buffptr][Grown(p).size]
<1>1. IInv /\ arg[p] \in Chunks
  BY DEF RInv, Arguments
<1>2. /\ Grown(p).buffptr = new_buffer[p] /\ new_buffer[p] \in Ptr
      /\ mem[new_buffer[p]] \in Seq(Byte) /\ Len(mem[new_buffer[p]]) = Grown(p).size
  BY <1>1, CommitFacts
<1>3. mem[new_buffer[p]] = Partial \o arg[p]
  BY <1>1, <1>2 DEF IInv, Bookkeeping, NewBytes
<1>4. mem[new_buffer[p]] # <<>>
  <2>1. Len(<<>>) = 0
    OBVIOUS
  <2>. QED
    BY <2>1, <1>2
<1>. QED
  BY <1>1, <1>2, <1>3, <1>4 DEF Last

(* A write whose bytes do not end the entry is the log's write: the ring   *)
(* keeps its blocks, as the only block freed is the old unfinished entry.  *)
LEMMA PartialIsWrite ==
  ASSUME RInv, NEW p \in Proc, WritePartial(p)
  PROVE  Log!Write(arg[p]) /\ arg[p] \in Chunks
<1>1. /\ pc[p] = "w_commit" /\ Grown(p).size > 0
      /\ mem[Grown(p).buffptr][Grown(p).size] # NL
      /\ FreeAll({entry_temp.buffptr}) /\ entry_temp' = Grown(p)
      /\ buffer' = buffer /\ f_pos' = f_pos
  BY DEF WritePartial, EndWrite
<1>2. IInv /\ Grown(p).buffptr = new_buffer[p] /\ new_buffer[p] \in Ptr
  BY <1>1, CommitFacts DEF RInv
<1>3. \A q \in Ptr : q # entry_temp.buffptr => mem'[q] = mem[q]
  BY <1>1 DEF FreeAll
<1>4. \A i \in Slot : buffer.entry[i].buffptr \in Ptr =>
        mem'[buffer.entry[i].buffptr] = mem[buffer.entry[i].buffptr]
  BY <1>2, <1>3 DEF IInv, SingleOwner
<1>5. LogView' = LogView
  BY <1>1, <1>2, <1>4, LogFrame
<1>6. Partial' = mem[new_buffer[p]]
  <2>1. mem'[new_buffer[p]] = mem[new_buffer[p]]
    BY <1>2, <1>3 DEF IInv, SingleOwner
  <2>. QED
    BY <2>1, <1>1, <1>2 DEF Partial
<1>. QED
  BY <1>1, <1>5, <1>6, CommitBytes DEF Log!Write, Log!Last, Last

(* One that does is the log's write too, the overwritten entry included.   *)
LEMMA EntryIsWrite ==
  ASSUME RInv, NEW p \in Proc, WriteEntry(p)
  PROVE  Log!Write(arg[p]) /\ arg[p] \in Chunks
<1>1. /\ pc[p] = "w_commit" /\ Grown(p).size > 0
      /\ mem[Grown(p).buffptr][Grown(p).size] = NL
      /\ entry_temp' = NoEntry /\ f_pos' = f_pos
  BY DEF WriteEntry, EndWrite, TempAfterAdd
<1>2. LogView' = Log!Newest(Append(LogView, mem[new_buffer[p]]))
  BY EntryIsLogged DEF RInv
<1>3. Partial' = <<>>
  BY <1>1, ConstAssumption DEF Partial, NoEntry
<1>. QED
  BY <1>1, <1>2, <1>3, CommitBytes DEF Log!Write, Log!Last, Last

(* A read that returns has moved its position as far as the log's read.    *)
LEMMA DoneIsRead ==
  ASSUME RInv, NEW p \in Proc, ReadDone(p)
  PROVE  Log!Read(p, count[p]) /\ count[p] \in Counts
<1>1. /\ pc[p] = "r_loop" /\ ~LoopGoesOn(p)
      /\ f_pos' = [f_pos EXCEPT ![p] = @ + Len(got[p])]
  BY DEF ReadDone
<1>2. Aside /\ count[p] \in Counts /\ Slice(p)
  BY <1>1, CallAside DEF RInv, Arguments, Reading, ReadSteps
<1> DEFINE n == Len(got[p])  all == Len(Contents)  a == f_pos[p]  want == count[p]
           left == IF a < all THEN all - a ELSE 0
<1>3. n \in Nat /\ a \in Nat /\ want \in Nat /\ all \in Nat
  <2>1. IInv /\ n \in Nat /\ a \in Nat /\ want \in Nat
    BY DEF RInv, ReadTypes, IInv, DeviceTypeOK
  <2>. QED
    BY <2>1, LogType, FlattenLayout DEF Contents
<1>4. n <= want /\ (n # 0 => a + n <= all) /\ (n = want \/ a + n >= all)
  BY <1>1, <1>2, StopsAtEnd DEF Slice
<1>5. n = IF want < left THEN want ELSE left
  <2> HIDE DEF n, a, all, want
  <2>. QED
    BY <1>3, <1>4
<1>6. Contents = Log!Contents
  BY Zenon DEF Contents, Log!Contents, FlattenSeq, Log!FlattenSeq
<1>7. f_pos' = [f_pos EXCEPT ![p] = @ + IF want < left THEN want ELSE left]
  BY <1>1, <1>5
<1>. QED
  BY <1>2, <1>6, <1>7 DEF Log!Read, Aside

(* Unloading forgets the log and the unfinished entry in one step: the     *)
(* loop over the entries ends at once.                                     *)
LEMMA DrainIsReset ==
  ASSUME RInv, DrainStep
  PROVE  Log!Reset
<1>1. buffer.empty = FALSE
  BY DEF RInv, IInv, Bookkeeping
<1>2. aesd_circular_buffer_remove_entry(buffer) = [buffer |-> buffer, rtn |-> NULL]
  BY <1>1 DEF aesd_circular_buffer_remove_entry
<1>3. buffer' = aesd_circular_buffer_init /\ entry_temp' = NoEntry /\ f_pos' = f_pos
  BY <1>2 DEF DrainStep, local
<1>4. Count(buffer') = 0
  BY <1>3, MaxOpsAssumption DEF Count, aesd_circular_buffer_init
<1>5. LogView' = <<>>
  BY <1>4 DEF LogView
<1>6. Partial' = <<>>
  BY <1>3, ConstAssumption DEF Partial, NoEntry
<1>. QED
  BY <1>3, <1>5, <1>6 DEF Log!Reset

(* The device comes up as an empty log.                                    *)
LEMMA InitIsEmpty == Init => Log!Init
<1> SUFFICES ASSUME Init PROVE Log!Init
  OBVIOUS
<1>1. Count(buffer) = 0
  BY MaxOpsAssumption DEF Init, Count, aesd_circular_buffer_init
<1>2. LogView = <<>>
  BY <1>1 DEF LogView
<1>3. Partial = <<>>
  BY ConstAssumption DEF Init, Partial, NoEntry
<1>. QED
  BY <1>2, <1>3 DEF Init, Log!Init

(* Every step of the driver is a step of the log or leaves it alone.  The  *)
(* commits of a write, the return of a read, open and the end of an unload *)
(* are the points at which the operations take effect; a call that fails   *)
(* or is interrupted has none.                                             *)
LEMMA StepIsLogStep ==
  ASSUME RInv, [Next]_vars
  PROVE  [Log!Next]_(Log!vars)
<1>0. IInv
  BY DEF RInv
<1>1. Aside /\ UNCHANGED f_pos => UNCHANGED Log!vars
  BY DEF Aside, Log!vars
<1>2. CASE UNCHANGED vars
  BY <1>0, <1>1, <1>2, NoDeviceStep DEF vars, dev
<1>3. CASE aesd_init_module \/ aesd_init_module_fails \/ aesd_cleanup_module
  BY <1>0, <1>1, <1>3, LoadAside, ModuleIdle
<1>4. CASE DrainStep
  BY <1>4, DrainIsReset DEF Log!Next
<1>5. ASSUME NEW p \in Proc,
             \/ aesd_open(p) \/ aesd_release(p) \/ WriteCall(p) \/ ReadCall(p)
             \/ get_lock_interrupted(p) \/ WriteSteps(p) \/ ReadSteps(p)
      PROVE  [Log!Next]_(Log!vars)
  <2>1. CASE aesd_open(p)
    <3>1. Aside /\ f_pos' = [f_pos EXCEPT ![p] = 0]
      BY <1>0, <2>1, CallAside DEF aesd_open
    <3>. QED
      BY <3>1 DEF Aside, Log!Open, Log!Next
  <2>2. CASE aesd_release(p) \/ WriteCall(p) \/ ReadCall(p) \/ get_lock_interrupted(p)
    <3>1. f_pos' = f_pos
      BY <2>2 DEF aesd_release, WriteCall, ReadCall, get_lock_interrupted, local
    <3>. QED
      BY <3>1, <2>2, <1>0, <1>1, CallAside
  <2>3. CASE WritePartial(p) \/ WriteEntry(p)
    BY <2>3, PartialIsWrite, EntryIsWrite DEF Log!Next
  <2>4. CASE WriteSteps(p) /\ ~WritePartial(p) /\ ~WriteEntry(p)
    <3>1. f_pos' = f_pos
      BY <2>4, WriteMoves
    <3>2. Aside
      BY <2>4, <1>0, CallAside, CopyAside, OopsAside DEF WriteSteps
    <3>. QED
      BY <3>1, <3>2, <1>1
  <2>5. CASE ReadDone(p)
    BY <2>5, DoneIsRead DEF Log!Next
  <2>6. CASE ReadLock(p) \/ ReadStep(p) \/ ReadFault(p)
    <3>1. f_pos' = f_pos
      BY <2>6 DEF ReadLock, ReadStep, ReadFault, local
    <3>. QED
      BY <3>1, <2>6, <1>0, <1>1, CallAside DEF ReadSteps
  <2>. QED
    BY <1>5, <2>1, <2>2, <2>3, <2>4, <2>5, <2>6 DEF ReadSteps
<1>. QED
  BY <1>2, <1>3, <1>4, <1>5 DEF Next

(* The driver, with its locks, blocks and ring, is the write log: whatever *)
(* interleaves, fails or is overwritten, each call of aesd_open, aesd_read *)
(* and aesd_write takes effect at once or not at all.                      *)
THEOREM DeviceIsLog == Spec => ImplementsWriteLog
<1>1. RInv /\ [Next]_vars => [Log!Next]_(Log!vars)
  BY StepIsLogStep
<1>. QED
  BY <1>1, InitIsEmpty, ReadInvariance, PTL DEF Spec, ImplementsWriteLog, Log!Spec

=============================================================================
