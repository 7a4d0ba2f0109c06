----------------------------- MODULE AesdSocket -----------------------------
(***************************************************************************)
(* The server, server/aesdsocket.c: the main loop that accepts, starts and *)
(* joins threads and writes timestamps, one thread for each connection,    *)
(* the signal flag, the file mutex and the file (or the AESD char device)  *)
(* behind them, and the clients at the other end of the sockets.           *)
(*                                                                         *)
(* A client sends items: some bytes that hold no newline, or some bytes    *)
(* that end a packet with one.  Items are numbered, so that a lost, a      *)
(* repeated or a displaced one is seen.  The file is the sequence of the   *)
(* writes made to it, a reply the sequence of those sent back.             *)
(***************************************************************************)
EXTENDS Integers, Sequences, FiniteSets, SequencesExt

CONSTANTS
  Conn,                 \* the connections, one client each
  Main, NoOne, Garbage, \* the main thread; nobody, the null pointer; freed memory
  USE_AESD_CHAR_DEVICE, \* the build: char device (TRUE) or temp file (FALSE)
  MaxOps,               \* how many writes the char device keeps
  OldWrites,            \* writes that an earlier run left behind
  MaxItems,             \* bound on what a client sends
  MaxStamps,            \* bound on the timestamps that fall due
  RecvMax,              \* RECV_BUFFER_TEMP_SIZE, in items
  RecvGrow,             \* RECV_BUFFER_GROW_SIZE, in items
  ReadMax,              \* writes that fit in the send buffer
  SndCap                \* writes the socket buffers hold before send blocks

ASSUME SocketAssumption ==
  /\ {Main, NoOne, Garbage} \cap Conn = {}
  /\ Main # NoOne /\ Garbage # NoOne
  /\ IsFiniteSet(Conn)
  /\ USE_AESD_CHAR_DEVICE \in BOOLEAN
  /\ OldWrites \in Nat /\ MaxItems \in Nat /\ MaxStamps \in Nat
  /\ {MaxOps, RecvMax, RecvGrow, ReadMax, SndCap} \subseteq Nat \ {0}

(* A list item belongs to the thread of one connection.                    *)
INSTANCE SList WITH Elem <- Conn, NULL <- NoOne

VARIABLES
  main_pc,       \* where the main thread is
  keep_looping,
  current_state, \* "Waiting" or "CreatingThread"
  client_fd,     \* the main loop's client_fd: a connection, or NoOne for -1
  linked_list,   \* the list of threads
  cursor,        \* join_threads' linked_list_item_ptr
  due, stamps,   \* ten seconds have passed; how often that happened
  caught_signal,
  file_mutex,    \* its holder, or NoOne
  file,          \* the writes the file or the device holds, oldest first
  thread,        \* where the thread of each connection is
  keep,          \* its keep_looping_thread
  thread_state,  \* its thread_state
  rb, rb_new,    \* its receive buffer and its temporary receive buffer
  allocated,     \* the receive buffer's allocated field
  room,          \* the size of the block behind it
  f_pos,         \* the position of its f_fd
  send_buffer,   \* what is left to send of its last read
  reply,         \* history: what sending_data has sent of the file
  failed,        \* history: a call made for the connection has failed
  fd,            \* history: what has become of the connection's descriptor
  late,          \* history: connections accepted after the signal
  peer,          \* the client's end of the connection
  sent,          \* history: the items the client has sent
  recv_queue,    \* the items the server has not received yet
  unread         \* how many writes sent to the client it has not read yet

loopvars   == <<keep_looping, current_state, client_fd, linked_list, cursor>>
clock      == <<due, stamps>>
filevars   == <<file_mutex, file>>
growth     == <<allocated, room>>
buffers    == <<rb, rb_new, growth>>
replyvars  == <<f_pos, send_buffer, reply>>
status     == <<thread_state, failed>>
threadvars == <<thread, keep, status, buffers, replyvars>>
peervars   == <<peer, sent, recv_queue, unread>>
vars == <<main_pc, keep_looping, current_state, client_fd, linked_list, cursor, due,
          stamps, caught_signal, file_mutex, file, thread, keep, thread_state, rb,
          rb_new, allocated, room, f_pos, send_buffer, reply, failed, fd, late, peer, sent, recv_queue, unread>>

Item  == [n : Nat, end : BOOLEAN]
Write == [by : Conn \cup {Main, NoOne}, data : Seq(Item)]

MainPCs == {"startup", "top", "ts_lock", "ts_write", "ts_unlock", "join", "gate",
            "accept", "create", "insert", "shutdown", "exited", "killed"}
ThreadPCs == {"none", "top", "recv", "process", "lock", "write", "read", "send",
              "unlock", "exited"}

Dead == main_pc \in {"exited", "killed"}

(* The type of every variable.                                             *)
TypeOK ==
  /\ main_pc \in MainPCs
  /\ keep_looping \in BOOLEAN
  /\ current_state \in {"Waiting", "CreatingThread"}
  /\ client_fd \in Conn \cup {NoOne}
  /\ linked_list \in [slh_first : Conn \cup {NoOne},
                     sle_next : [Conn -> Conn \cup {NoOne, Garbage}]]
  /\ cursor \in Conn \cup {NoOne, Garbage}
  /\ due \in BOOLEAN /\ stamps \in 0..MaxStamps
  /\ caught_signal \in BOOLEAN
  /\ file_mutex \in Conn \cup {Main, NoOne}
  /\ file \in Seq(Write)
  /\ thread \in [Conn -> ThreadPCs]
  /\ keep \in [Conn -> BOOLEAN]
  /\ thread_state \in [Conn -> {"WaitingForData", "ProcessingData", "SendingData",
                                "ClosedConnection"}]
  /\ rb \in [Conn -> Seq(Item)] /\ rb_new \in [Conn -> Seq(Item)]
  /\ allocated \in [Conn -> Nat] /\ room \in [Conn -> Nat]
  /\ failed \in [Conn -> BOOLEAN]
  /\ f_pos \in [Conn -> Nat]
  /\ send_buffer \in [Conn -> Seq(Write)]
  /\ reply \in [Conn -> Seq(Write)]
  /\ fd \in [Conn -> {"none", "backlog", "pending", "open", "leaked", "closed"}]
  /\ late \in SUBSET Conn
  /\ peer \in [Conn -> {"none", "up", "fin", "gone", "reset"}]
  /\ sent \in [Conn -> Seq(Item)] /\ recv_queue \in [Conn -> Seq(Item)]
  /\ unread \in [Conn -> 0..SndCap]

(* The file is opened with O_APPEND and without O_TRUNC: what a run that   *)
(* was killed left in it stays, as does what is on the device.             *)
Init ==
  /\ main_pc = "startup"
  /\ keep_looping = TRUE
  /\ current_state = "Waiting"
  /\ client_fd = NoOne
  /\ linked_list = SLIST_INIT /\ cursor = NoOne
  /\ due = FALSE /\ stamps = 0
  /\ caught_signal = FALSE
  /\ file_mutex = NoOne
  /\ file = [i \in 1..OldWrites |-> [by |-> NoOne, data |-> <<[n |-> i, end |-> TRUE]>>]]
  /\ thread = [c \in Conn |-> "none"]
  /\ keep = [c \in Conn |-> TRUE]
  /\ thread_state = [c \in Conn |-> "WaitingForData"]
  /\ rb = [c \in Conn |-> <<>>] /\ rb_new = [c \in Conn |-> <<>>]
  /\ allocated = [c \in Conn |-> 0] /\ room = [c \in Conn |-> 0]
  /\ failed = [c \in Conn |-> FALSE]
  /\ f_pos = [c \in Conn |-> 0]
  /\ send_buffer = [c \in Conn |-> <<>>]
  /\ reply = [c \in Conn |-> <<>>]
  /\ fd = [c \in Conn |-> "none"]
  /\ late = {}
  /\ peer = [c \in Conn |-> "none"]
  /\ sent = [c \in Conn |-> <<>>] /\ recv_queue = [c \in Conn |-> <<>>]
  /\ unread = [c \in Conn |-> 0]

-----------------------------------------------------------------------------
(* The main thread, up to its exit.                                        *)

(* startup succeeds, or any of its calls fails.                            *)
startup ==
  /\ main_pc = "startup"
  /\ main_pc' \in {"top", "shutdown"}
  /\ UNCHANGED <<loopvars, clock, caught_signal, filevars, threadvars, fd, late,
                 peervars>>

(* The rest of an iteration once the timestamp is dealt with.              *)
Dispatch ==
  IF current_state = "Waiting"
  THEN main_pc' = "join" /\ cursor' = linked_list.slh_first
  ELSE main_pc' = "create" /\ UNCHANGED cursor

(* The head of the loop, and the test for a timestamp.                     *)
main_loop ==
  /\ main_pc = "top"
  /\ due' = (due /\ ~keep_looping)
  /\ IF ~keep_looping THEN main_pc' = "shutdown" /\ UNCHANGED cursor
     ELSE IF due /\ ~USE_AESD_CHAR_DEVICE THEN main_pc' = "ts_lock" /\ UNCHANGED cursor
     ELSE Dispatch
  /\ UNCHANGED <<keep_looping, current_state, client_fd, linked_list, stamps,
                 caught_signal, filevars, threadvars, fd, late, peervars>>

(* get_file_mutex and release_file_mutex: nothing is locked in the char    *)
(* device build.                                                           *)
get_file_mutex(t) ==
  IF USE_AESD_CHAR_DEVICE THEN UNCHANGED file_mutex
  ELSE file_mutex = NoOne /\ file_mutex' = t

(* Faulty variant: an error path without the release.                      *)
ReleaseForgotten == UNCHANGED file_mutex

release_file_mutex ==
  file_mutex' = IF USE_AESD_CHAR_DEVICE THEN file_mutex ELSE NoOne

TimestampLock ==
  /\ main_pc = "ts_lock"
  /\ get_file_mutex(Main)
  /\ main_pc' = "ts_write"
  /\ UNCHANGED <<loopvars, clock, caught_signal, file, threadvars, fd, late,
                 peervars>>

Stamp == [by |-> Main, data |-> <<>>]

(* open, write_to_file and close: the file gets the timestamp (or, from a  *)
(* short write, a piece of it), or one of the calls fails before that.     *)
write_time_stamp ==
  /\ main_pc = "ts_write"
  /\ file' \in {file, Append(file, Stamp)}
  /\ main_pc' = "ts_unlock"
  /\ UNCHANGED <<loopvars, clock, caught_signal, file_mutex, threadvars, fd, late,
                 peervars>>

TimestampUnlock ==
  /\ main_pc = "ts_unlock"
  /\ release_file_mutex
  /\ Dispatch
  /\ UNCHANGED <<keep_looping, current_state, client_fd, linked_list, clock,
                 caught_signal, file, threadvars, fd, late, peervars>>

(* Faulty variants: the result of the join is not looked at; threads are   *)
(* joined at the end only.                                                 *)
JoinedAlways(c) == TRUE
JoinedAfterSignal(c) == thread[c] = "exited" /\ caught_signal

(* pthread_tryjoin_np returns 0.                                           *)
Joined(c) == thread[c] = "exited"

(* Faulty variant: frees the item before it is taken out.                  *)
FreeThenRemove(c) == SLIST_REMOVE(FreeElem(linked_list, c), c)

RemoveThenFree(c) == FreeElem(SLIST_REMOVE(linked_list, c), c)

(* One iteration of SLIST_FOREACH_SAFE: a thread that has ended is taken   *)
(* off the list and its item freed; its descriptor is closed, and with it  *)
(* all that the socket still held.                                         *)
join_threads ==
  /\ main_pc = "join"
  /\ cursor # NoOne
  /\ IF Joined(cursor)
     THEN /\ linked_list' = RemoveThenFree(cursor)
          /\ fd' = [fd EXCEPT ![cursor] = "closed"]
          /\ peer' = [peer EXCEPT ![cursor] = "gone"]
          /\ recv_queue' = [recv_queue EXCEPT ![cursor] = <<>>]
          /\ unread' = [unread EXCEPT ![cursor] = 0]
     ELSE UNCHANGED <<linked_list, fd, peer, recv_queue, unread>>
  /\ cursor' = NextVisited(linked_list, linked_list', cursor)
  /\ UNCHANGED <<main_pc, keep_looping, current_state, client_fd, clock,
                 caught_signal, filevars, threadvars, late, sent>>

all_threads_closed == SLIST_EMPTY(linked_list)

(* Faulty variants: the list is not looked at; the loop never ends.        *)
LoopEndsOnSignal == caught_signal
LoopEndsNever == FALSE

LoopEnds == all_threads_closed /\ caught_signal

(* After the last of them, the test for the end of the loop.               *)
CheckExit ==
  /\ main_pc = "join"
  /\ cursor = NoOne
  /\ keep_looping' = (keep_looping /\ ~LoopEnds)
  /\ main_pc' = "gate"
  /\ UNCHANGED <<current_state, client_fd, linked_list, cursor, clock,
                 caught_signal, filevars, threadvars, fd, late, peervars>>

(* Faulty variant: no second look at the flag.                             *)
AfterGateAccept == "accept"

AfterGate == IF caught_signal THEN "top" ELSE "accept"

(* The second look at the flag: a signal may have come in between, and one *)
(* may still come before accept.                                           *)
AcceptGate ==
  /\ main_pc = "gate"
  /\ main_pc' = AfterGate
  /\ UNCHANGED <<loopvars, clock, caught_signal, filevars, threadvars, fd, late,
                 peervars>>

check_for_client_connection(c) ==
  /\ main_pc = "accept"
  /\ fd[c] = "backlog"
  /\ fd' = [fd EXCEPT ![c] = "pending"]
  /\ late' = IF caught_signal THEN late \cup {c} ELSE late
  /\ client_fd' = c
  /\ current_state' = "CreatingThread"
  /\ main_pc' = "top"
  /\ UNCHANGED <<keep_looping, linked_list, cursor, clock, caught_signal, filevars,
                 threadvars, peervars>>

(* The socket does not block: nobody is waiting, or accept fails.          *)
AcceptFails ==
  /\ main_pc = "accept"
  /\ client_fd' = NoOne
  /\ main_pc' = "top"
  /\ UNCHANGED <<keep_looping, current_state, linked_list, cursor, clock,
                 caught_signal, filevars, threadvars, fd, late, peervars>>

(* create_thread: the thread runs before it is in the list.                *)
create_thread ==
  /\ main_pc = "create"
  /\ thread' = [thread EXCEPT ![client_fd] = "top"]
  /\ fd' = [fd EXCEPT ![client_fd] = "open"]
  /\ main_pc' = "insert"
  /\ UNCHANGED <<loopvars, clock, caught_signal, filevars, keep, status,
                 buffers, replyvars, late, peervars>>

InsertThread ==
  /\ main_pc = "insert"
  /\ linked_list' = SLIST_INSERT_HEAD(linked_list, client_fd)
  /\ current_state' = "Waiting"
  /\ main_pc' = "top"
  /\ UNCHANGED <<keep_looping, client_fd, cursor, clock, caught_signal, filevars,
                 threadvars, fd, late, peervars>>

(* malloc or pthread_create fails; nobody closes the descriptor.           *)
CreateFails ==
  /\ main_pc = "create"
  /\ fd' = [fd EXCEPT ![client_fd] = "leaked"]
  /\ current_state' = "Waiting"
  /\ main_pc' = "top"
  /\ UNCHANGED <<keep_looping, client_fd, linked_list, cursor, clock, caught_signal,
                 filevars, threadvars, late, peervars>>

(* shutting_down, and the process exits: the listening socket closes and   *)
(* the temp file goes, unless unlink fails.                                *)
shutting_down ==
  /\ main_pc = "shutdown"
  /\ \/ ~USE_AESD_CHAR_DEVICE /\ file' = <<>>
     \/ UNCHANGED file
  /\ main_pc' = "exited"
  /\ UNCHANGED <<loopvars, clock, caught_signal, file_mutex, threadvars, fd, late,
                 peervars>>

(* Ten seconds are over.                                                   *)
ClockTick ==
  /\ ~Dead
  /\ ~due /\ stamps < MaxStamps
  /\ due' = TRUE /\ stamps' = stamps + 1
  /\ UNCHANGED <<main_pc, loopvars, caught_signal, filevars, threadvars, fd, late,
                 peervars>>

(* SIGINT or SIGTERM, once startup has called sigaction.                   *)
signal_handler ==
  /\ ~Dead
  /\ ~caught_signal
  /\ caught_signal' = TRUE
  /\ UNCHANGED <<main_pc, loopvars, clock, filevars, threadvars, fd, late,
                 peervars>>

-----------------------------------------------------------------------------
(* The thread of connection c.                                             *)

At(c, place) == ~Dead /\ thread[c] = place

Goto(c, place) == thread' = [thread EXCEPT ![c] = place]

SetState(c, state) ==
  /\ thread_state' = [thread_state EXCEPT ![c] = state]
  /\ UNCHANGED failed

(* A call has returned -1.                                                 *)
Fail(c) ==
  /\ thread_state' = [thread_state EXCEPT ![c] = "ClosedConnection"]
  /\ failed' = [failed EXCEPT ![c] = TRUE]

(* What no thread step changes.                                            *)
notthread == <<main_pc, loopvars, clock, caught_signal, fd, late>>

Dest(state) == CASE state = "WaitingForData" -> "recv"
                 [] state = "ProcessingData" -> "process"
                 [] state = "SendingData"    -> "lock"

(* The head of the loop: the flag ends it only after one more iteration.   *)
main_loop_thread(c) ==
  /\ At(c, "top")
  /\ keep[c]
  /\ IF thread_state[c] = "ClosedConnection"
     THEN keep' = [keep EXCEPT ![c] = FALSE] /\ UNCHANGED thread
     ELSE /\ keep' = [keep EXCEPT ![c] = ~caught_signal]
          /\ Goto(c, Dest(thread_state[c]))
  /\ UNCHANGED <<notthread, filevars, status, buffers, replyvars, peervars>>

thread_cleanup(c) ==
  /\ At(c, "top")
  /\ ~keep[c]
  /\ rb' = [rb EXCEPT ![c] = <<>>]
  /\ rb_new' = [rb_new EXCEPT ![c] = <<>>]
  /\ allocated' = [allocated EXCEPT ![c] = 0]
  /\ room' = [room EXCEPT ![c] = 0]
  /\ Goto(c, "exited")
  /\ UNCHANGED <<notthread, filevars, keep, status, replyvars, peervars>>

(* Faulty variant: the test counts only the bytes just received.           *)
IterationsNewOnly(c, n) ==
  IF allocated[c] >= n THEN 0
  ELSE (n - allocated[c] + RecvGrow - 1) \div RecvGrow

(* How often the loop that grows the receive buffer runs when n items more *)
(* have come.                                                              *)
Iterations(c, n) ==
  IF allocated[c] >= Len(rb[c]) + n THEN 0
  ELSE (Len(rb[c]) + n - allocated[c] + RecvGrow - 1) \div RecvGrow

(* recv returns some of what has arrived.                                  *)
Received(c, n) ==
  /\ At(c, "recv")
  /\ n <= Len(recv_queue[c])
  /\ rb_new' = [rb_new EXCEPT ![c] = SubSeq(recv_queue[c], 1, n)]
  /\ recv_queue' = [recv_queue EXCEPT ![c] = SubSeq(@, n + 1, Len(@))]
  /\ Goto(c, "top")
  /\ UNCHANGED <<notthread, filevars, keep, rb, replyvars, peer, sent, unread>>

waiting_for_data(c) ==
  \E n \in 1..RecvMax :
    /\ Received(c, n)
    /\ allocated' = [allocated EXCEPT ![c] = @ + Iterations(c, n) * RecvGrow]
    /\ room' = [room EXCEPT ![c] = allocated'[c]]
    /\ SetState(c, "ProcessingData")

(* realloc fails in iteration i: allocated has been raised already, the    *)
(* block has kept its size.                                                *)
GrowFails(c) ==
  \E n \in 1..RecvMax : \E i \in 1..Iterations(c, n) :
    /\ Received(c, n)
    /\ allocated' = [allocated EXCEPT ![c] = @ + i * RecvGrow]
    /\ room' = [room EXCEPT ![c] = allocated[c] + (i - 1) * RecvGrow]
    /\ Fail(c)

GiveUp(c) ==
  /\ Goto(c, "top")
  /\ UNCHANGED <<notthread, filevars, keep, buffers, replyvars, peervars>>

(* recv returns 0: all that came before the client's FIN has been read.    *)
RecvEnds(c) ==
  /\ At(c, "recv")
  /\ recv_queue[c] = <<>> /\ peer[c] \in {"fin", "gone"}
  /\ SetState(c, "ClosedConnection")
  /\ GiveUp(c)

(* recv returns -1: the client has reset the connection, or the signal is  *)
(* delivered to this thread, blocked in recv (EINTR).  The kernel prefers  *)
(* the main thread, so nothing makes the latter happen.                    *)
RecvReset(c) ==
  /\ At(c, "recv")
  /\ peer[c] = "reset"
  /\ Fail(c)
  /\ GiveUp(c)

RecvInterrupted(c) ==
  /\ At(c, "recv")
  /\ recv_queue[c] = <<>> /\ caught_signal
  /\ Fail(c)
  /\ GiveUp(c)

Ends(s) == {i \in 1..Len(s) : s[i].end}

(* Faulty variant: looks for the last packet end.                          *)
BytesToLastEnd(s) == IF Ends(s) = {} THEN Len(s)
                     ELSE CHOOSE i \in Ends(s) : \A j \in Ends(s) : i >= j

(* How much of s belongs to the packet at its start.                       *)
PacketBytes(s) == IF Ends(s) = {} THEN Len(s)
                  ELSE CHOOSE i \in Ends(s) : \A j \in Ends(s) : i <= j

(* Faulty variant: what follows the first packet is dropped.               *)
RestDropped(s) == <<>>

(* The memmove.                                                            *)
Rest(s) == SubSeq(s, PacketBytes(s) + 1, Len(s))

(* Moves the bytes up to the first packet end, or all if there is none,    *)
(* behind those of earlier calls.                                          *)
process_received_data(c) ==
  /\ At(c, "process")
  /\ rb' = [rb EXCEPT ![c] = @ \o SubSeq(rb_new[c], 1, PacketBytes(rb_new[c]))]
  /\ rb_new' = [rb_new EXCEPT ![c] = Rest(@)]
  /\ SetState(c, IF Ends(rb_new[c]) = {} THEN "WaitingForData" ELSE "SendingData")
  /\ Goto(c, "top")
  /\ UNCHANGED <<notthread, filevars, keep, growth, replyvars, peervars>>

(* sending_data.                                                           *)

SendLock(c) ==
  /\ At(c, "lock")
  /\ get_file_mutex(c)
  /\ Goto(c, "write")
  /\ UNCHANGED <<notthread, file, keep, status, buffers, replyvars, peervars>>

(* Every failure closes the file, releases the mutex and returns -1, which *)
(* ends the connection.                                                    *)
SendFails(c) ==
  /\ Fail(c)
  /\ Goto(c, "unlock")
  /\ UNCHANGED <<notthread, file_mutex, keep, buffers, replyvars, peervars>>

(* What the file holds after one more write: all of it, or the newest      *)
(* MaxOps writes on the device (see AesdChar).                             *)
Stored(w) ==
  LET all == Append(file, w) IN
  IF USE_AESD_CHAR_DEVICE /\ Len(all) > MaxOps THEN Tail(all) ELSE all

(* Faulty variant: no lseek.                                               *)
PosAtEnd == Len(file')

(* The position after lseek.                                               *)
PosAfterSeek == 0

(* open_file_for_read_write and write_to_file.  O_APPEND moves the         *)
(* position of a file to its end, aesd_write leaves that of the device     *)
(* alone; lseek takes it back to the start.                                *)
write_to_file(c) ==
  /\ At(c, "write")
  /\ file' = Stored([by |-> c, data |-> rb[c]])
  /\ rb' = [rb EXCEPT ![c] = <<>>]
  /\ f_pos' = [f_pos EXCEPT ![c] = PosAfterSeek]
  /\ reply' = [reply EXCEPT ![c] = <<>>]
  /\ Goto(c, "read")
  /\ UNCHANGED <<notthread, file_mutex, keep, status, rb_new, growth,
                 send_buffer, peervars>>

(* open or write fails, or write takes less than it was given: what it     *)
(* took stays in the file.  aesd_write takes all or nothing.               *)
WriteFails(c) ==
  /\ At(c, "write")
  /\ \/ UNCHANGED file
     \/ /\ ~USE_AESD_CHAR_DEVICE
        /\ \E n \in 1..Len(rb[c]) - 1 :
             file' = Stored([by |-> c, data |-> SubSeq(rb[c], 1, n)])
  /\ SendFails(c)

PosAfterRead(c, n) == f_pos[c] + n

read_from_file(c) ==
  /\ At(c, "read")
  /\ \E n \in 1..ReadMax :
       /\ f_pos[c] + n <= Len(file)
       /\ send_buffer' = [send_buffer EXCEPT ![c] = SubSeq(file, f_pos[c] + 1, f_pos[c] + n)]
       /\ f_pos' = [f_pos EXCEPT ![c] = PosAfterRead(c, n)]
  /\ Goto(c, "send")
  /\ UNCHANGED <<notthread, filevars, keep, status, buffers, reply, peervars>>

(* Faulty variant: reads once instead of to the end.                       *)
AtEndOnce(c) == f_pos[c] > 0

AtEnd(c) == f_pos[c] >= Len(file)

(* read returns 0 and the file is closed.                                  *)
ReadEnds(c) ==
  /\ At(c, "read")
  /\ AtEnd(c)
  /\ Goto(c, "unlock")
  /\ UNCHANGED <<notthread, filevars, keep, status, buffers, replyvars,
                 peervars>>

(* read or close fails.                                                    *)
ReadFails(c) ==
  /\ At(c, "read")
  /\ UNCHANGED file
  /\ SendFails(c)

(* Faulty variant: the bytes sent are not taken off those left to send.    *)
SentNotCounted(c, n) ==
  /\ Goto(c, "send")
  /\ UNCHANGED <<notthread, filevars, keep, status, buffers, replyvars, sent,
                 recv_queue>>

(* send takes what fits in the socket buffers; with no room it blocks, the *)
(* mutex held.  A client that has closed still acknowledges what arrives   *)
(* until its reset comes back.                                             *)
Sent(c, n) ==
  /\ reply' = [reply EXCEPT ![c] = @ \o SubSeq(send_buffer[c], 1, n)]
  /\ send_buffer' = [send_buffer EXCEPT ![c] = SubSeq(@, n + 1, Len(@))]
  /\ Goto(c, IF n = Len(send_buffer[c]) THEN "read" ELSE "send")
  /\ UNCHANGED <<notthread, filevars, keep, status, buffers, f_pos, sent,
                 recv_queue>>

send(c) ==
  /\ At(c, "send")
  /\ peer[c] = "up"
  /\ \E n \in 1..Len(send_buffer[c]) :
       /\ unread[c] + n <= SndCap
       /\ unread' = [unread EXCEPT ![c] = @ + n]
       /\ Sent(c, n)
  /\ UNCHANGED peer

SendToClosed(c) ==
  /\ At(c, "send")
  /\ peer[c] = "fin"
  /\ Sent(c, Len(send_buffer[c]))
  /\ peer' \in {peer, [peer EXCEPT ![c] = "gone"]}
  /\ UNCHANGED unread

(* send returns -1: the client has reset the connection.                   *)
SendError(c) ==
  /\ At(c, "send")
  /\ peer[c] = "reset"
  /\ UNCHANGED file
  /\ SendFails(c)

(* The signal is delivered to this thread, blocked in send: EINTR.         *)
SendInterrupted(c) ==
  /\ At(c, "send")
  /\ peer[c] = "up" /\ unread[c] = SndCap /\ caught_signal
  /\ UNCHANGED file
  /\ SendFails(c)

(* A send after the reset of a connection the client had closed raises     *)
(* SIGPIPE, which nobody handles or ignores: the process dies.             *)
SendKills(c) ==
  /\ At(c, "send")
  /\ peer[c] = "gone"
  /\ main_pc' = "killed"
  /\ UNCHANGED <<loopvars, clock, caught_signal, filevars, threadvars, fd, late,
                 peervars>>

(* Faulty variant: one packet for each connection.                         *)
NextStateCloses(c) == "ClosedConnection"

NextState(c) == IF rb_new[c] # <<>> THEN "ProcessingData" ELSE "WaitingForData"

(* release_file_mutex, and the state that sending_data or its caller sets. *)
SendUnlock(c) ==
  /\ At(c, "unlock")
  /\ release_file_mutex
  /\ SetState(c, IF thread_state[c] = "ClosedConnection" THEN "ClosedConnection"
                 ELSE NextState(c))
  /\ send_buffer' = [send_buffer EXCEPT ![c] = <<>>]
  /\ reply' = [reply EXCEPT ![c] = <<>>]
  /\ f_pos' = [f_pos EXCEPT ![c] = 0]
  /\ Goto(c, "top")
  /\ UNCHANGED <<notthread, file, keep, buffers, peervars>>

-----------------------------------------------------------------------------
(* The clients.                                                            *)

notpeer == <<main_pc, loopvars, clock, caught_signal, filevars, threadvars, late>>

PeerConnect(c) ==
  /\ ~Dead /\ main_pc # "startup"
  /\ peer[c] = "none"
  /\ peer' = [peer EXCEPT ![c] = "up"]
  /\ fd' = [fd EXCEPT ![c] = "backlog"]
  /\ UNCHANGED <<notpeer, sent, recv_queue, unread>>

PeerSend(c) ==
  /\ ~Dead
  /\ peer[c] = "up" /\ fd[c] # "leaked"
  /\ Len(sent[c]) < MaxItems
  /\ \E e \in BOOLEAN :
       LET item == [n |-> Len(sent[c]) + 1, end |-> e] IN
       /\ sent' = [sent EXCEPT ![c] = Append(@, item)]
       /\ recv_queue' = [recv_queue EXCEPT ![c] = Append(@, item)]
  /\ UNCHANGED <<notpeer, fd, peer, unread>>

PeerRead(c) ==
  /\ ~Dead
  /\ peer[c] = "up" /\ unread[c] > 0
  /\ unread' = [unread EXCEPT ![c] = @ - 1]
  /\ UNCHANGED <<notpeer, fd, peer, sent, recv_queue>>

(* Closing with unread data resets the connection, closing without sends   *)
(* a FIN.                                                                  *)
PeerClose(c) ==
  /\ ~Dead
  /\ peer[c] = "up" /\ fd[c] # "leaked"
  /\ peer' = [peer EXCEPT ![c] = IF unread[c] > 0 THEN "reset" ELSE "fin"]
  /\ unread' = [unread EXCEPT ![c] = 0]
  /\ UNCHANGED <<notpeer, fd, sent, recv_queue>>

-----------------------------------------------------------------------------
MainStep ==
  \/ startup \/ main_loop \/ TimestampLock \/ write_time_stamp \/ TimestampUnlock
  \/ join_threads \/ CheckExit \/ AcceptGate
  \/ AcceptFails \/ (\E c \in Conn : check_for_client_connection(c))
  \/ create_thread \/ InsertThread \/ CreateFails \/ shutting_down

ThreadStep(c) ==
  \/ main_loop_thread(c) \/ thread_cleanup(c)
  \/ waiting_for_data(c) \/ GrowFails(c) \/ RecvEnds(c) \/ RecvReset(c)
  \/ process_received_data(c)
  \/ SendLock(c) \/ write_to_file(c) \/ WriteFails(c)
  \/ read_from_file(c) \/ ReadEnds(c) \/ ReadFails(c)
  \/ send(c) \/ SendToClosed(c) \/ SendError(c) \/ SendKills(c) \/ SendUnlock(c)

Interrupted(c) == RecvInterrupted(c) \/ SendInterrupted(c)

PeerStep(c) == PeerConnect(c) \/ PeerSend(c) \/ PeerRead(c) \/ PeerClose(c)

(* The process is gone.                                                    *)
Terminated == Dead /\ UNCHANGED vars

Next ==
  \/ MainStep \/ ClockTick \/ signal_handler
  \/ \E c \in Conn : ThreadStep(c) \/ Interrupted(c) \/ PeerStep(c)
  \/ Terminated

Spec == Init /\ [][Next]_vars

(* Every thread of the process is scheduled.  The number of packets and    *)
(* timestamps is bounded, so no more is needed of the mutex than that it   *)
(* goes to somebody when it is free.                                       *)
ServerFairness ==
  /\ WF_vars(MainStep)
  /\ \A c \in Conn : WF_vars(ThreadStep(c))

(* Clients may do as they please.                                          *)
FairSpec == Spec /\ ServerFairness

(* Clients read what they are sent.                                        *)
ReadingSpec == FairSpec /\ \A c \in Conn : WF_vars(PeerRead(c))

-----------------------------------------------------------------------------
(* What the server has to keep.                                            *)

(* Temp file build: file_mutex is held exactly by the thread that is       *)
(* between get_file_mutex and release_file_mutex, on every path through    *)
(* sending_data and write_time_stamp, the failing ones included; a thread  *)
(* that ends, ends without it.                                             *)
MutexDiscipline ==
  ~USE_AESD_CHAR_DEVICE =>
    /\ \A c \in Conn : file_mutex = c <=> thread[c] \in {"write", "read", "send", "unlock"}
    /\ file_mutex = Main <=> main_pc \in {"ts_write", "ts_unlock"}

(* Temp file build: what sending_data sends is the whole file from its     *)
(* first byte on, in order, and it ends with the packet that asked for it, *)
(* however many clients and timestamps write at the same time.             *)
ReplyIsFile ==
  ~USE_AESD_CHAR_DEVICE =>
    \A c \in Conn :
      \/ thread[c] \in {"read", "send"}
      \/ thread[c] = "unlock" /\ thread_state[c] = "SendingData"
      =>
      /\ reply[c] \o send_buffer[c] = SubSeq(file, 1, f_pos[c])
      /\ file # <<>> /\ Last(file).by = c /\ Last(Last(file).data).end
      /\ thread[c] = "unlock" => reply[c] = file

(* Temp file build: however the threads interleave and whatever fails, the *)
(* clients see a service that stores one packet at a time and answers it   *)
(* with the whole store before it stores anything else.                    *)
Answering == {c \in Conn : thread[c] \in {"read", "send"}}
Answered == IF Answering = {} THEN NoOne ELSE CHOOSE c \in Answering : TRUE
Echo == INSTANCE EchoService WITH
          store     <- file,
          answering <- Answered,
          answer    <- IF Answering = {} THEN <<>> ELSE reply[Answered],
          closed    <- failed
ImplementsEcho == Echo!Spec

(* The items of c's client that have reached the file, in file order.      *)
InFile(c) == FlattenSeq([i \in 1..Len(file) |->
                            IF file[i].by = c THEN file[i].data ELSE <<>>])

(* Temp file build: from the client's send to the file no item is lost,    *)
(* repeated or displaced while the connection lives; what a connection     *)
(* that ended has left in the file is a prefix of what its client sent.    *)
StreamIntact ==
  ~USE_AESD_CHAR_DEVICE /\ main_pc # "exited" =>
    \A c \in Conn :
      IF thread_state[c] = "ClosedConnection" \/ thread[c] = "exited"
      THEN IsPrefix(InFile(c), sent[c])
      ELSE InFile(c) \o rb[c] \o rb_new[c] \o recv_queue[c] = sent[c]

(* Temp file build: when a connection has ended because its client closed, *)
(* every complete packet the client sent is in the file.  Only a failed    *)
(* call or the signal, after which a thread leaves its loop with what it   *)
(* has received in hand, costs a packet.                                   *)
CleanCloseStored ==
  ~USE_AESD_CHAR_DEVICE /\ main_pc # "exited" =>
    \A c \in Conn : thread[c] = "exited" /\ ~failed[c] /\ ~caught_signal =>
      \A i \in Ends(sent[c]) : Len(InFile(c)) >= i

(* Every write of a thread is one packet: its only newline is its last     *)
(* byte.  Only a short write leaves less, and ends the connection.         *)
OnePacketPerWrite ==
  \A i \in 1..Len(file) :
    LET w == file[i] IN
    w.by \in Conn =>
      \A j \in 1..Len(w.data) :
        /\ j < Len(w.data) => ~w.data[j].end
        /\ j = Len(w.data) => w.data[j].end \/ thread_state[w.by] = "ClosedConnection"

(* A descriptor is closed once, and never under a running thread: it is    *)
(* open exactly while its thread has an item in the list or is about to be *)
(* inserted, and the accepted one that has no thread yet is the main       *)
(* loop's.                                                                 *)
FdDiscipline ==
  main_pc # "killed" =>
    \A c \in Conn :
      /\ thread[c] \notin {"none", "exited"} => fd[c] = "open"
      /\ fd[c] = "open" <=>
           c \in Linked(linked_list) \/ (main_pc = "insert" /\ client_fd = c)
      /\ fd[c] = "pending" => current_state = "CreatingThread" /\ client_fd = c

(* The list stays a list while join_threads takes items out of the middle  *)
(* of its own walk: a walk from the head meets every item in use, no freed *)
(* one, and ends; and join_threads never stands on a freed item.           *)
ListIntact ==
  /\ Visited(linked_list) = Linked(linked_list) \cup {NoOne}
  /\ main_pc = "join" => cursor \in Linked(linked_list) \cup {NoOne}

(* The server never leaves its loop with work in hand: no thread runs, no  *)
(* accepted connection is waiting for one, and the mutex is free.          *)
CleanExit ==
  main_pc \in {"shutdown", "exited"} =>
    /\ Linked(linked_list) = {} /\ file_mutex = NoOne
    /\ \A c \in Conn : thread[c] \in {"none", "exited"} /\ fd[c] \notin {"pending", "open"}

(* The copies of process_received_data stay inside the receive buffer: the *)
(* buffer was grown for all that came with one recv, and what is left of   *)
(* that is copied later without another test.  allocated may be wrong only *)
(* after a realloc that failed, and then nothing is copied any more.       *)
BufferBound ==
  \A c \in Conn :
    /\ thread_state[c] = "ProcessingData" => Len(rb[c]) + Len(rb_new[c]) <= room[c]
    /\ Len(rb[c]) <= room[c]
    /\ allocated[c] # room[c] => failed[c]

(* "No more client connections are accepted after catching exit signals"   *)
(* and "Don't accept any more connections once the signal is caught":      *)
(* main_loop accepts nobody after the signal.  It does, see OneLateAccept. *)
NoLateAccept == late = {}

(* The flag is read before accept is called, so that NoLateAccept fails;   *)
(* but what it promises is broken by one connection at most, however many  *)
(* are waiting.                                                            *)
OneLateAccept == \A c, d \in late : c = d

(* Char device build: the device drops its oldest write under a reader,    *)
(* which makes the reader miss some but never send one twice (proved; no   *)
(* run checks it).                                                         *)
NeverSentTwice ==
  USE_AESD_CHAR_DEVICE =>
    \A c \in Conn : LET s == reply[c] \o send_buffer[c] IN
                    \A i, j \in 1..Len(s) : s[i] = s[j] => i = j

(* "Failed to send data to client!": a client that has gone away costs the *)
(* server that connection, not the process.                                *)
SurvivesClients == main_pc # "killed"

(* "Read all bytes from file and send back to client": when the read       *)
(* returns 0, the client's own packets that the file or the device still   *)
(* holds have been sent back.                                              *)
RepliesWithOwn ==
  \A c \in Conn :
    At(c, "read") /\ AtEnd(c) =>
      \A w \in ToSet(file) : w.by = c => w \in ToSet(reply[c])

(* Clients that read what they are sent get their reply, or the connection *)
(* is closed.                                                              *)
SendsEnd == \A c \in Conn : thread[c] = "lock" ~> (thread[c] = "top" \/ Dead)

(* Once every client that has a thread has gone for good, the signal ends  *)
(* the server: main_loop joins the threads and leaves.                     *)
SignalEndsServer ==
  <>[](\A c \in Conn : peer[c] = "up" => thread[c] \in {"none", "exited"})
    => (caught_signal ~> Dead)

(* Once a client that is being served has gone, main_loop joins its thread *)
(* and closes its descriptor, signal or not.                               *)
DescriptorsClosed ==
  \A c \in Conn : fd[c] = "open" /\ peer[c] # "up" ~> (fd[c] = "closed" \/ Dead)

=============================================================================
