# AESD char driver and socket server: a TLA+ verification project

The repository is a course project for embedded Linux. Two programs carry its
logic: a character driver that keeps the last ten newline-terminated writes in
a circular buffer (`aesd-char-driver/`), and a threaded TCP server that stores
the packets of its clients in a file, or in that device, and answers each
packet with everything stored so far (`server/`). Around them are a start
script, a program that writes a string to a file, and two examples, of threads
with a mutex and of running commands. This directory holds TLA+ models of all of
these, the TLC runs that check them on small instances, and TLAPS proofs that
the safety properties that hold there hold for every value of the constants, in
the driver, inside the server, between its processes and in both examples.

## Inventory

| component | state | operations | interacts with |
|---|---|---|---|
| circular buffer, `aesd-circular-buffer.c` | slots, `in_offs`, `out_offs`, `full`, `empty` | `init`, `add_entry`, `remove_entry`, `find_entry_offset_for_fpos` | called by the driver under its lock |
| char driver, `main.c` | the buffer, the working entry `entry_temp`, `buffer_lock`, kernel blocks, each file's `f_pos` | load, unload, `open`, `release`, `read`, `write` | processes that call it at once; kernel memory |
| socket server, `aesdsocket.c`, inside a process | main loop state, thread list, `caught_signal`, `file_mutex`, the file; in each thread its state, buffers and file position | startup, accept, create and join threads, timestamps, receive, packetise, store and reply, shutdown, signal handler | clients over TCP; the file or the driver |
| socket server, between processes | handlers, `caught_signal` and `socket_fd` of each process; the port and the temp file they share | `startup` call by call, `main_loop_fork`, exit of the parent, `shutting_down` | other instances; signals; the start script |
| `aesdsocket-start-stop` | which process it waits for or has still to signal | start, stop | the processes of the server |
| `queue.h` | the pointers of a list | list macros | used by the server for the thread list |
| threading example | one mutex, `thread_data` | wait, lock, wait, unlock; start a thread | its caller, which may hold the mutex and joins |
| system call example | the caller's output buffer, the child's descriptors | `system`, fork/exec/wait, with redirection | the commands it runs |
| finder app | files | `writer.c` writes a string to a file, `finder.sh` counts files and matches | run by the system call example's caller, or by a shell |
| other scripts, build files, tests | none of the program's | | |

What is hard in it, and what makes each component correct:

* **Circular buffer.** Offsets wrap and a flag, not a count, says whether the
  ring is full. Correct: offsets and flag always describe the slots that are
  filled, and a lookup finds the byte the concatenation of the entries has at
  that offset.
* **Char driver.** Several processes; an interruptible lock; four early
  returns that must release it; an entry that grows over several writes of
  several processes; memory handed from the writer to the working entry to the
  ring and, on overwrite, back to `FREE`; one path that frees after releasing
  the lock. Correct: the lock is held exactly in the critical sections, every
  block has one owner and none is lost, sizes are lengths, and each call looks
  atomic.
* **Server.** A main loop that polls a flag set by a signal handler, threads
  that end while the list is walked, a thread that runs before it is in the
  list, `recv` that cuts the stream anywhere, a receive buffer that is grown in
  one function and filled in another, `send` that blocks, fails or kills, short
  writes, and a mutex that exists in one build only. Correct: no byte of a client
  is lost or misplaced on its way to the file, a reply is the file, copies stay
  inside the buffer, descriptors are closed once and not under a running
  thread, the list stays a list, the mutex is released on every path, and the
  server exits when it has no work left.
* **Processes of the server.** A fork after `listen`, so that two processes hold
  the port; signals before `sigaction`, before and after the fork; every call of
  startup may fail and leads to `shutting_down`, which unlinks a file that may be
  somebody else's; a stop that signals one process after the other. Correct: one
  serves at a time, a server does not lose its file, a stop misses nobody.
* **Examples and writer.** A fork that copies unwritten output, children that
  must not return into the caller's code, waits that are interrupted; a sleep
  that fails under a mutex, memory that changes its owner three times. Correct:
  the result is the child's, output comes out once, the mutex is given back,
  memory is freed once.

`PROJECT.json` lists every component, including those not modelled, and under
`hazards` the places where these things can go wrong, with the properties that
look at them.

## Modules

| module | contents |
|---|---|
| `AesdCircularBuffer` | the struct as a record, its functions as operators |
| `WriteLog` | the abstract specification of the device: a log of the newest `MaxOps` entries, one unfinished entry, a position for each file |
| `AesdChar` | the driver: load, unload, and every file operation as a sequence of steps |
| `AesdCharProofs` | theorems about `AesdChar`: lock, ring, memory |
| `AesdCharLogProofs` | theorems about `AesdChar`: lookup, reads, refinement of `WriteLog` |
| `SList` | the `SLIST` macros of `queue.h` on an explicit heap of pointers |
| `EchoService` | the abstract specification of the server: one packet at a time is stored and answered with the whole store |
| `AesdSocket` | the server with its main thread, connection threads and clients; instantiates `SList`, refines `EchoService` |
| `AesdSocketProofs` | theorems about the control of `AesdSocket`: list, descriptors, mutex, exit |
| `AesdSocketDataProofs` | theorems about its data: buffers, packets, file, replies, refinement of `EchoService` |
| `AesdLifecycle` | the processes of the server, from the start script to `shutting_down` |
| `AesdLifecycleProofs` | theorems about `AesdLifecycle` |
| `Writer` | `writer.c`, one process |
| `SystemCalls` | the system call example with its children, which run `Writer` |
| `SystemCallsProofs` | theorems about `SystemCalls` |
| `Threading` | the threading example with a caller |
| `ThreadingProofs` | theorems about `Threading` |
| `Induction` | lemmas that the proofs share: induction over numbers in set form, what `FlattenSeq` computes |
| `MCAesdChar`, `MCAesdSocket`, `MCSystemCalls` | constants and symmetry sets for TLC |

Definitions whose comment begins with "Faulty variant" are plausible bugs of
the definition after them. No specification uses them; they are there to see
that the properties notice such a bug.

### The driver

A call is cut where it can block, fail or be overtaken: waiting for
`buffer_lock` (`get_lock`, `get_lock_interrupted`), `ALLOC` (`WriteAlloc`,
`WriteNoMemory`), the copies (`WriteCopy`, `WriteFault`, `ReadStep`,
`ReadFault`), the commit (`WritePartial`, `WriteEntry`, `WriteOops`) and, on the
`-EFAULT` path of `aesd_write`, the `FREE` that comes after the unlock
(`WriteFaultFree`). `pc` says where a process is. Kernel memory is explicit:
`alloc` holds the live blocks, `mem` their bytes and `leaked` the live blocks
the module has no pointer to any more. Bytes are a text byte and the newline.
`kmalloc(0)` returns `ZERO_SIZE_PTR`; a write of zero bytes on an empty working
entry then indexes `buffptr[size - 1]` with `size` 0, which the model takes as an
oops that kills the writer with the lock held (`WriteOops`). Unloading runs only
when no file is open, as the kernel's module reference count ensures.

`AesdChar!ImplementsWriteLog` is the refinement: the log is the ring from
`out_offs` on, the unfinished entry is what `entry_temp` points to. A write takes
effect at its commit, a read when it moves `f_pos`, every failure and every other
step is a stutter.

### The server

The main thread's program points are the places where another thread can change
what it has read: the test of the flag, the walk over the list (one element a
step), the second test, `accept`, `pthread_create`, the insertion. A connection
thread is at the head of its loop, in `recv`, in `process_received_data`, or at
one of the stages of `sending_data`. `Interrupted` is the signal handler running
in a thread that blocks in `recv` or `send` (`EINTR`).

A client's stream is a sequence of numbered items, each some bytes without a
newline or some bytes that end with one; the file is a sequence of writes. That
is all the properties tell apart: what is stored, in which order, in which
pieces. `recv` takes any number of items up to `RecvMax`, `read` any number of
writes up to `ReadMax`, `send` what fits in `SndCap`. `peer` follows TCP as far
as the server can see: a client is up, has closed (`fin`), has closed and its
reset has come back (`gone`: the next `send` raises `SIGPIPE`), or has reset
(`send` and `recv` return -1).

The thread list is the one of `SList`: `slh_first` and the `sle_next` of every
item, with `Garbage` for the memory of an item that is not in use.
`join_threads` keeps its cursor as `SLIST_FOREACH_SAFE` does, so an order of
remove, free and step that the macro forbids would read `Garbage`.

The receive buffer has three sizes: what it holds (`rb`), what the code believes
is allocated (`allocated`) and what is (`room`). They differ after a `realloc`
that failed, since the code adds to `allocated` first.

`AesdSocket!ImplementsEcho` is the refinement of the temp file build to
`EchoService`: the store is the file, the connection being answered is the
thread at "read" or "send", the answer what that has sent. A packet is stored by
its `write`; the mutex is what makes the answer end before the next write.

`USE_AESD_CHAR_DEVICE` is the build switch: with it there is no mutex and no
timestamp, and the file is the device, of which `AesdSocket` keeps what
`WriteLog` promises: the newest `MaxOps` writes, positions counted from the
oldest. `file` starts with `OldWrites` writes, since the file is opened without
`O_TRUNC` and a killed server leaves it behind.

### The processes of the server

`AesdLifecycle` takes `main_loop` from outside: a process at "loop" stores
packets and ends some time after a signal, which `SignalEndsServer` of
`AesdSocket` shows of the inside. The rest is call by call: `sigaction` for the
one signal and the other, `socket`, `bind`, `listen`, the fork, the parent's
`exit`, the child's `setsid` and redirections, and `shutting_down` in its two
steps, `close` and `unlink`. A process that is signalled before its `sigaction`
is killed. `socket_fd` starts as 0, so a startup that fails early closes the
standard input; the model says so (`"stdin"`), and nothing follows from it.
Copies of a listening socket hold the port. `file` is who wrote each packet in
the temp file, which is all that can be asked of it between processes. The
script's `start` waits for the process it started, that is for the parent;
its `stop` collects the processes of that name and signals them one by one.
`StartByHand` and `Crash` are what a user and the system may do besides.

### Examples and writer

`SystemCalls` makes one call after the other; call `p` forks process `p`, which
goes through the redirection, `execv` and the program, here the writer, and ends
as a zombie with a wait status. Standard output is buffered in the caller's
memory and copied by the fork, so that `exit` instead of `_exit` would put
lines out twice. A wait that is interrupted leaves its child running beside
those of later calls (`lingering`); one that fails because nobody kept the status
of a child that has ended leaves nothing behind. In `Writer` the file is opened without
`O_TRUNC`: what a write does to a file is `Overlay`.

`Threading` counts microseconds: `Tick` lets one go by for everybody who sleeps,
`usleep` is asked for the product of milliseconds and 1000 modulo 2^32
(`PerMilli` and `UInt` are the scale of this). The caller starts threads, may
hold the mutex meanwhile, joins and frees.

## Runs

| run | module | result |
|---|---|---|
| `char_concurrent` | `MCAesdChar` | two processes, three slots: ring shape, sizes, lookup, cause of the oops, lock, ownership, no lost block, reads are slices, refinement of `WriteLog`: hold |
| `char_returns` | `MCAesdChar` | every call returns, also after a reload: holds |
| `char_unload` | `MCAesdChar` | unloading frees every block: **violated** |
| `socket_clients` | `MCAesdSocket` | two clients: types, mutex, descriptors, thread list, clean exit, at most one late accept, refinement of `EchoService`: hold |
| `socket_stream` | `MCAesdSocket` | one client with pieces of packets: the stream reaches the file and comes back intact, one packet per write, copies stay in the buffer, a clean close loses no packet; replies end, descriptors are closed, and the signal ends the server once the clients have gone: hold |
| `socket_sigpipe` | `MCAesdSocket` | a departing client does not end the server: **violated** |
| `socket_device_reply` | `MCAesdSocket` | char device build: the reply contains the client's own packets: **violated** |
| `socket_late_accept` | `MCAesdSocket` | nobody is accepted after the signal: **violated** |
| `lifecycle` | `AesdLifecycle` | one server at a time, history kept, cause of stale packets, a stop misses nobody, a signal ends parent and child: hold |
| `exec` | `MCSystemCalls` | the result is the child's, the writer's file, the redirected output, output once, every call returns: hold |
| `writer_content` | `MCSystemCalls` | after a writer that returned 0 the file holds its string: **violated** |
| `threading` | `Threading` | nobody returns with the mutex, success means slept and held, thread data freed once, every thread returns: hold |

### What the violations show

* `char_unload`. `aesd_circular_buffer_init` clears `empty`, `add_entry` only
  ever clears it, and `aesd_circular_buffer_remove_entry` returns early while it
  is false. So `empty` never becomes true, and the loop of
  `aesd_cleanup_module`, announced as "De-allocate all the entrys in the buffer",
  stops at its first call. Load, one complete write, unload: the block stays
  allocated for good. (`NoLeakWhileLive` holds: this is the only leak.)
* `socket_sigpipe`. `send` is called without `MSG_NOSIGNAL` and `SIGPIPE` is not
  handled: a client that sends a packet and closes without reading can end the
  whole server, where the code expects -1 and the end of that connection.
* `socket_device_reply`. Without the mutex two clients write and read the device
  at once. Device positions count from the oldest entry, so when a write drops
  one between two reads the reader skips one, possibly its own packet. It takes a
  reply that needs more than one `read`, which in the code means more than 1023
  bytes on the device (`ReadMax` = 1 in the run).
* `socket_late_accept`. The flag is tested, then `accept` is called; a signal in
  between lets a connection in, although `aesdsocket.h` says "No more client
  connections are accepted after catching exit signals" and the comment on the
  test says the same. What remains true is `OneLateAccept`: there is never more
  than one, since the flag is tested again before every `accept`; and by
  `CleanExit` that connection is joined and closed before the exit.
* `writer_content`. `writer.c` says of itself that it creates the file "with
  content writestr, overwriting any existing file", but opens it without
  `O_TRUNC`: a longer old content keeps its end behind the string, and the writer
  returns 0. What the file does hold, in this case and in every failure, is
  `FileAfterCall`.

### Observations without a run of their own

* A thread that waits in `recv` is not woken by the signal, which the kernel
  delivers to the main thread; the comment "Exit all threads if signal received"
  is then not reached, nor is the exit of the server, until the client goes.
  That is why `SignalEndsServer` has a hypothesis.
* A client that does not read its reply blocks `send` with `file_mutex` held, and
  then the main thread waits for the mutex in `write_time_stamp`: `SendsEnd` and
  `SignalEndsServer` are stated under the assumption that clients read.
* A packet that has been received when the signal arrives, or when another call
  of its connection fails, is dropped without an answer. `CleanCloseStored` says
  that nothing else costs a packet.
* If `pthread_create` fails, the accepted descriptor is never closed (`fd` is
  "leaked"). `DescriptorsClosed` and `FdDiscipline` say that it is the only one.
* A second instance started by hand fails in `bind` and then unlinks the temp
  file of the server that is running; and a server that shuts down gives up the
  port before it unlinks, so that a quick successor may lose its first packets.
  `HistoryKept` says that the start script alone leads to neither, because
  it starts nothing while a process of that name lives.
* What a killed server leaves in the temp file is served by the next one, since
  `O_TRUNC` is missing; `StaleFileCause` lists the causes.
* A signal that comes between the fork and the parent's exit is caught by the
  parent only, which exits anyway: the daemon goes on. `SignalEndsFamily` covers
  the other cases. The script's stop is not exposed to this: it runs after start
  has returned, and then the parent is gone.
* A wait of 2^32 microseconds or more is shorter than asked, since `usleep` takes
  an `unsigned int`, and reported as a success; `threading.h` knows no such limit.
  `SuccessMeansHeld` is stated below it.

### Bounds, and why they are enough

* Driver: three slots make the ring partly filled, just full, wrapped and wrapped
  again, and keep "next to full" apart from "wrapped"; `MaxEntry` = 2 bytes allows
  an entry of two writes and an allocation that is too large; `Chunks` holds the
  empty write, a piece, a newline alone or at the end of an entry, and a newline in
  the middle; a read of three bytes spans entries and stops inside one. Five blocks
  are what a full ring, the working entry and one writer own; a second writer
  then gets none, which is the failure of `ALLOC`. Block addresses and processes
  are interchangeable, hence the symmetry. `char_returns`, where symmetry would be
  unsound, has one slot, and loads the module twice; what else a second load could
  break is excluded by the theorems, which put no bound on loads.
* Server: two clients are enough for one to act while the other is in any stage
  of its thread, and for an item to be taken out of the head, the middle or the
  end of a walk; one packet each with an old write in the file makes a reply
  longer than one `read` and than one `send`. `socket_stream` gives one client
  two items that may arrive together: a packet in two pieces, two packets
  in one `recv`, a packet and the beginning of the next, a rest without an end;
  `RecvGrow` = 1 makes the buffer grow each time. Splitting is the affair of
  one thread, and a timestamp competes for the mutex. `socket_clients` has no
  timestamp: that the mutex is right with several clients and timestamps is the
  theorem `MutexSafety`. The char device build has the run `socket_device_reply`;
  that a reply never repeats a write is the theorem `NothingSentTwice`, which TLC
  does not check. The run `socket_late_accept` needs one client.
* Processes: four are a daemon's parent and child, a process started by hand
  beside them, and its child or a start after all have gone. One packet each shows whose
  packets the file holds; the proofs below need no bound. Process ids are given
  out in order, which loses nothing, as no step compares them.
* Examples: two calls let the child of an interrupted first wait meet every step
  of the second. The strings are shorter and longer than the old content.
  With `PerMilli` = 2 and `UInt` = 4 the waits 0, 1 and 2 ms are zero, within
  the range of `usleep` and just beyond it.
* `MaxItems`, `MaxStamps`, `MaxLoads`, `MaxProcs`, `MaxByHand`, `MaxPackets`,
  `MaxCalls` and `MaxLocks` cap what the environment does and appear in the
  guards of those actions only; that no process id is left makes a fork fail, which
  it may do anyway.

### Fairness

`AesdChar!Fairness`: a process inside a call is scheduled (weak fairness on its
steps), and the kernel hands a contended mutex to a waiter after a bounded spin,
so a lock released again and again is obtained in the end (strong fairness on
taking it). Nothing makes a process start a call. `CallsReturn` excepts a writer
that died with the lock; `char_returns` leaves the empty write out, so that the
exception is not what makes it true.

`AesdSocket!ServerFairness`: the threads of the process are scheduled (weak
fairness on the main thread and on each connection thread). There is no
fairness on a signal being sent or delivered to a particular thread, on the
clock, or on clients. `ReadingSpec` adds that a client reads what it is sent;
`SendsEnd` needs it, as explained above. `SignalEndsServer` assumes in its own
statement that every client with a running thread leaves in the end.

`AesdLifecycle!FairSpec`: every process is scheduled (weak fairness on its
steps). That includes leaving the loop after a signal, which is
`SignalEndsServer`. Nothing makes anybody start, stop, signal or kill, or a
client send.

`SystemCalls!FairSpec`: the caller and each child are scheduled; the writer waits
for nobody. A failed wait (`WaitpidFails`) and a killed child are possible but never
fair, so a call returns because its own child ends, by itself. `Threading!FairSpec`: time passes, the caller gives the mutex back,
and weak fairness on the successful steps of a thread, so that no failing call
is what ends it. The number of times the caller takes the mutex is bounded, so a
fair mutex is not needed.

Deadlock is checked in the server runs: a process that has exited or was killed
takes the step `Terminated`, any other state without a step would be an error. In
`lifecycle` it is checked too; a stop may be called whenever the script is idle,
so what it excludes is a script that waits for ever. In the driver, `exec` and
`threading` runs it is off, because the bounds let the system stop; there the
liveness properties say that nobody is stuck in the middle.

## Proofs

Every invariant that a passing run checks, and both refinements, are theorems,
and so is `NeverSentTwice`, for every value of the constants that the assumptions of the modules allow. What
is left to TLC alone is at the end of this section. A proof has one lemma per
part of its inductive invariant with one step per action (in `AesdCharProofs` one
lemma per action with one step per part), before it the facts about the
operators it needs, after it the theorems.

### The driver

`AesdCharProofs` and `AesdCharLogProofs` prove about `AesdChar`, for every ring
size from 1 to 256, any number of processes, any set of addresses, chunks, counts,
and any limit on sizes and loads:

| theorem | statement |
|---|---|
| `Invariance` | `Spec => []IInv` |
| `TypeSafety` | `Spec => []DeviceTypeOK` |
| `LockSafety` | `Spec => []LockDiscipline` |
| `RingSafety` | `Spec => []RingShape` |
| `HeapSafety` | `Spec => []SingleOwner` |
| `NothingLost` | `Spec => []NoLeakWhileLive` |
| `SizeSafety` | `Spec => []SizesAgree` |
| `OopsCause` | `Spec => []OopsOnlyOnEmptyWrite` |
| `FindIsExact` | `Spec => []FindIsConcatenation` |
| `ReadInvariance` | `Spec => []RInv` |
| `ReadsAreSlices` | `Spec => []ReadIsSlice` |
| `DeviceIsLog` | `Spec => ImplementsWriteLog` |

The assumptions are those of the modules: `MaxOpsAssumption` (1 to 256 slots, so
that the `uint8_t` offsets do not wrap; the code has 10) and `ConstAssumption`
(the null pointer, `ZERO_SIZE_PTR`, the addresses and the results of a lookup
differ, chunks are byte sequences).

The first half is one inductive invariant, `IInv`. Its parts lean on each other:
that an overwritten block is live needs `RingShape` (a full ring has no empty
slot) and `SingleOwner`; that `WriteEntry` keeps `SizesAgree` needs to know what
the writer's block holds, while the only thing that keeps another process from
changing `entry_temp` in the meantime is `LockDiscipline`. `Bookkeeping` ties
them across steps: `new_buffer` is set exactly between `WriteAlloc` and the
end of the call, what it points to has the size that `AllocSize` gave it and,
after the copy, the old bytes followed by the new ones; `leaked` blocks are
never freed; `empty` is false, so the loop of the unload removes nothing; an
unloaded module has an empty ring.

`FindIsExact` is about a loop, that is a recursive function. The prover cannot
instantiate the induction theorems of its library, which have an operator as a
parameter. `Induction` has them for sets instead: from the fact that `<` is
well-founded, a non-empty set of numbers has a least element, and a set with 0
and with the successors of its members is everything. With that the
recursive functions behind the lookup and behind `FlattenSeq` are shown to exist
and to satisfy their equations, and then, by induction again, that after `k`
iterations the loop has taken off the sizes of the first `k` entries (or has
stopped in one of them), and that these are where the entries begin in the
concatenation.

`RInv` adds to `IInv` what a read relies on: its arguments, and that in its loop
it has copied the bytes that follow its position (`Reading`). This is kept because
the read has the lock, so that nobody changes the log under it. For the refinement,
the commit of a write appends to the log, and drops its head exactly when the
ring was full, since `SlotAt` then moves by one; every other step leaves
the log and the unfinished entry as they are.

### The processes of the server

`AesdLifecycleProofs` proves about `AesdLifecycle`, for any number of processes,
of starts by hand and of packets (`LifecycleAssumption` says that the bounds
are natural numbers, nothing more):

| theorem | statement |
|---|---|
| `LifecycleInvariance` | `Spec => []IInv` |
| `LifecycleTypes` | `Spec => []TypeOK` |
| `SingleServer` | `Spec => []OneServer` |
| `HistoryIsKept` | `Spec => []HistoryKept` |
| `StaleFile` | `Spec => []StaleFileCause` |
| `StopIsComplete` | `Spec => []StopReachesAll` |

None of the four properties is inductive. `OneServer` speaks of processes in
the loop, while the port is taken earlier and given up later: `SocketAt` says
what `socket_fd` names at each place, and `OnePort` that two processes hold the
port only if one is a parent about to exit, which is the state after the fork.
`StaleFileCause` needs `FileOwned`: whoever wrote a packet in the file has been
killed, has failed to unlink, still holds the port, or is between close and
unlink; a server that finds a packet of another holds the port itself, so by
`OnePort` the third case is out. `StopReachesAll` needs `ScriptKnows`: while the
script alone starts processes, a process that may still fork is the one the
script waits for, so none forks while a stop is under way and every child is
among the stop's targets. `HistoryKept` needs `OneFamily`: under the same
condition two live processes are a parent about to exit and its child, so nobody
but the server itself gets to the unlink; and `NothingStored`, that a process
that has not served has no packet in the file. The parent exits without an
unlink.

### The inside of the server

`AesdSocketProofs` and `AesdSocketDataProofs` prove about `AesdSocket`, for any
finite set of connections, both builds, any number of packets and timestamps and
any sizes of the buffers and of the device (`SocketAssumption`: the main thread,
the null pointer and the garbage pointer are no connections; the sizes are at
least one):

| theorem | statement |
|---|---|
| `SocketInvariance` | `Spec => []IInv` |
| `SocketTypes` | `Spec => []TypeOK` |
| `MutexSafety` | `Spec => []MutexDiscipline` |
| `DescriptorSafety` | `Spec => []FdDiscipline` |
| `ListSafety` | `Spec => []ListIntact` |
| `ExitIsClean` | `Spec => []CleanExit` |
| `LateAccepts` | `Spec => []OneLateAccept` |
| `SocketDataInvariance` | `Spec => []DInv` |
| `BufferNeverOverrun` | `Spec => []BufferBound` |
| `WritesArePackets` | `Spec => []OnePacketPerWrite` |
| `RepliesAreTheFile` | `Spec => []ReplyIsFile` |
| `ServerEchoes` | `Spec => ImplementsEcho`, assuming `~USE_AESD_CHAR_DEVICE` |
| `StreamInvariance` | `Spec => []SInv` |
| `StreamStaysIntact` | `Spec => []StreamIntact` |
| `CleanClosesLoseNothing` | `Spec => []CleanCloseStored` |
| `NothingSentTwice` | `Spec => []NeverSentTwice` |

*Control.* `ListIntact` speaks of the items that a walk from the head meets. The
proof works with `IsList`: some sequence of different items runs through the
pointers from the head to the end, and every item that is not garbage is on it.
`SLIST_INSERT_HEAD` and `SLIST_REMOVE` with the free keep it, and the cursor
is on it or at its end (`CursorOnList`), which is what the order of
`SLIST_FOREACH_SAFE` is for. `CleanExit` is not inductive: `MainPlace` says that
`keep_looping` is cleared only with an empty list after the signal, and that
nothing is inserted between there and the exit, because a connection in hand
(`current_state`) is dealt with before the loop looks at the list again. `FdPlace` says
which connections have no thread yet, so that `create_thread` does not start a
second one. `OneLateAccept` follows from `LateKnown`: after a late accept
the second look at the flag keeps the loop away from `accept`.

*Data.* `BufferRoom` is why a copy stays inside the buffer although `allocated`
is wrong after a failed `realloc`: the two sizes differ only when the connection
has failed, and then nothing is copied any more. `PacketInBuffer` says that the
buffer holds a piece without a newline until it holds exactly one packet, and
`FileOfPackets` carries that to the file, where only a short write leaves a
piece, whose thread has given up. `ReplySoFar` says that what was sent and
what is left to send are together the file up to the reader's position, and
that the file ends with the packet being answered: the mutex keeps the file
as it is meanwhile. The refinement of `EchoService` follows: the thread at
"read" or "send" is the only one by the mutex, a write stores, a send continues
the answer, an unlock or a failure ends it, everything else is a stutter.

*Streams.* What a client has sent is what the file holds of it, followed by the
thread's two buffers and the socket's queue (`StreamIntact`, by associativity
of concatenation at every cut of `recv` and of `process_received_data`); what
`FlattenSeq` makes of a longer file is in `Induction`. `SInv` adds that
the temporary buffer is empty whenever more is received (`NothingNew`, without
which a `recv` would overwrite what had not been processed), that a thread leaves
its loop only because its connection is over or the signal has come
(`LeavesLoop`), and that a connection that is over without a failure has nothing
left but a piece without a newline (`Finished`).

*The device.* `NeverSentTwice` needs the identity of writes: the items of a
client are numbered, and no write that the device holds or somebody has read goes
beyond what the connection has written (`WrittenBefore`), so a packet about to be
written is new. `AheadOfReader` is what is kept: the writes on the device are
different from each other, and those ahead of a reader's position are different
from those it has read. A write that drops the oldest moves the others
down by one: what was ahead may now be behind the position, which loses it, and
nothing comes the other way.

### The examples

`ThreadingProofs` proves about `Threading`, for any finite set of threads, any
waits, any scale and any limit of `usleep` (`ThreadingAssumption`):

| theorem | statement |
|---|---|
| `ThreadingInvariance` | `Spec => []Inv` |
| `MutexGivenBack` | `Spec => []ReturnsUnlocked` |
| `SuccessIsTrue` | `Spec => []SuccessMeansHeld` |
| `DataFreedOnce` | `Spec => []DataOwned` |

The invariant says who owns the data at each place (`Ownership`), that the mutex
is a thread's from its lock to its unlock or for good after a failed unlock
(`Holding`), and that slept time and time left make up the argument of `usleep`
(`Clock`), which is the wait itself below the limit.

`SystemCallsProofs` proves about `SystemCalls`, for any number of calls, any
characters, strings and old contents (`SystemCallsAssumption`: strings are
sequences of characters, and the missing file is none):

| theorem | statement |
|---|---|
| `CallsInvariance` | `Spec => []Inv` |
| `ResultIsOwn` | `Spec => []ResultIsChilds` |
| `FileIsAsReported` | `Spec => []FileAfterCall` |
| `RedirectIsComplete` | `Spec => []RedirectComplete` |
| `LinesComeOnce` | `Spec => []OutputOnce` |

The invariant ties the process number to the call (`OwnProcess`), the wait status
to what the writer did (`StatusTells`), the file to the place of its writer
(`DiskPlace`), and says that a line is printed by the call it is about, when that
returns, and that the buffer a child inherits is never put out by it (`Once`).

### Only model-checked

Liveness, which the prover cannot handle: `CallsReturn` of the driver and of the
system call example, `SendsEnd`, `SignalEndsServer`, `DescriptorsClosed`,
`SignalEndsFamily`, `ThreadsReturn`. And the five violations, of which TLC
shows the counterexamples. That `AesdLifecycle` lets `main_loop` end after a
signal is `SignalEndsServer` of `AesdSocket`, carried over by hand; that the
file of the char device build is the newest `MaxOps` writes is what `WriteLog`
says, likewise.

## Not modelled

In the server: failures of `pthread_mutex_lock`, of `strftime` and of the first
`malloc`s of a thread, whose results are not looked at, a client that shuts down
only one direction, and sizes in bytes (an item stands for some bytes).
Between processes: the waiting time of a closed port, because `bind` may fail
anyway, and a start script run twice at once. In the driver: logging, and anything about `struct
inode`. In the examples: a null pointer as the first argument of `do_exec`,
which is dereferenced before it is looked at; the shell that `system` puts
between caller and command. In `queue.h`: the kinds of lists nobody uses.

`finder.sh`, `writer.sh` and the load scripts of the driver are sequences of
commands without state of their own; what `insmod` and `rmmod` do to the
driver is in `AesdChar`. The build and emulator scripts and the checks of the
assignments say nothing about a running program.

## Plan

Done, in this order: the circular buffer and the driver, its abstract
specification, its proofs; the server with its clients, both builds, its list
and its receive buffer, its abstract specification; the processes of the server
with the start script, and their proofs; the examples and the writer; the proofs
about lookup and reads, the server, both refinements and the examples.

What is left:

1. The device as the server uses it: that `Stored` of `AesdSocket` is a write of
   `WriteLog`, shown as a refinement and not by comparison.
2. What `EchoService` promises by itself (an answer is a prefix of the store and
   the store only grows while it is given), as theorems that the refinement carries
   over to the server.
3. Shorter proofs where one lemma can serve several steps.
