----------------------- MODULE AesdSocketDataProofs ------------------------
(***************************************************************************)
(* Proofs about the data that the threads of AesdSocket carry, for any     *)
(* number of clients, packets, sizes and timestamps: the receive buffer is *)
(* never overrun, every write is one packet, a reply is the file up to the *)
(* packet that asked for it, the threads together implement EchoService,   *)
(* what a client sends reaches the file whole and in order, and no write   *)
(* on the char device is sent twice.                                       *)
(***************************************************************************)
EXTENDS AesdSocketProofs

(* The state a thread is in at each place of its loop.                     *)
ThreadPlace ==
  \A c \in Conn :
    /\ thread[c] \in {"none", "recv"} => thread_state[c] = "WaitingForData"
    /\ thread[c] = "process" => thread_state[c] = "ProcessingData"
    /\ thread[c] \in {"lock", "write", "read", "send"} => thread_state[c] = "SendingData"
    /\ thread[c] = "unlock" => thread_state[c] \in {"SendingData", "ClosedConnection"}
    /\ failed[c] => thread_state[c] = "ClosedConnection"

(* The receive buffer has room for what is in it and, until the connection *)
(* is given up, for all that came with the last recv.                      *)
BufferRoom ==
  \A c \in Conn :
    /\ Len(rb[c]) <= room[c]
    /\ ~failed[c] => allocated[c] = room[c]
    /\ thread_state[c] # "ClosedConnection" => Len(rb[c]) + Len(rb_new[c]) <= room[c]

(* A piece of a packet holds no newline; a packet holds one, at its end.   *)
Piece(s) == \A i \in 1..Len(s) : ~s[i].end
Packet(s) == s # <<>> /\ \A i \in 1..Len(s) : s[i].end <=> i = Len(s)

(* The receive buffer holds a piece until it holds a packet, and nothing   *)
(* once that is written.                                                   *)
PacketInBuffer ==
  \A c \in Conn :
    /\ thread_state[c] \in {"WaitingForData", "ProcessingData"} => Piece(rb[c])
    /\ thread_state[c] = "SendingData" /\ thread[c] \in {"top", "lock", "write"} => Packet(rb[c])
    /\ thread[c] \in {"read", "send"} => rb[c] = <<>>
    /\ thread[c] = "unlock" /\ thread_state[c] = "SendingData" => rb[c] = <<>>

(* Every write a thread has made is a packet, or the piece of one that a   *)
(* failed write left.                                                      *)
FileOfPackets ==
  \A i \in 1..Len(file) :
    file[i].by \in Conn =>
      \/ Packet(file[i].data)
      \/ Piece(file[i].data) /\ thread_state[file[i].by] = "ClosedConnection"

(* Temp file build: what has been sent and what is left to send are        *)
(* together the file up to the position of the reader, and the file ends   *)
(* with the packet that is being answered.                                 *)
Replying(c) ==
  thread[c] \in {"read", "send"} \/ (thread[c] = "unlock" /\ thread_state[c] = "SendingData")

(* There is something left to send exactly between a read and the end of   *)
(* its sends, or when a send has failed.                                   *)
SendBufferPlace ==
  \A c \in Conn :
    /\ thread[c] \notin {"send", "unlock"} => send_buffer[c] = <<>>
    /\ thread[c] = "unlock" /\ thread_state[c] = "SendingData" => send_buffer[c] = <<>>
    /\ thread[c] = "send" => send_buffer[c] # <<>>

ReplySoFar ==
  ~USE_AESD_CHAR_DEVICE =>
    \A c \in Conn : Replying(c) =>
      /\ f_pos[c] <= Len(file)
      /\ reply[c] \o send_buffer[c] = SubSeq(file, 1, f_pos[c])
      /\ file # <<>> /\ Last(file).by = c /\ Packet(Last(file).data)
      /\ thread[c] = "unlock" => reply[c] = file

(* The inductive invariant: that of the server's control, and the data.    *)
DInv ==
  /\ IInv /\ ThreadPlace /\ BufferRoom /\ PacketInBuffer /\ FileOfPackets /\ SendBufferPlace
  /\ ReplySoFar

-----------------------------------------------------------------------------
(* Concatenation of items, and of writes, is associative.                  *)
Assoc(s, t, u) == (s \o t) \o u = s \o (t \o u)

LEMMA Associative == \A s, t, u \in Seq(Item) : Assoc(s, t, u)
BY ConcatAssociative DEF Assoc

LEMMA WritesAssociate == \A s, t, u \in Seq(Write) : (s \o t) \o u = s \o (t \o u)
BY ConcatAssociative

(* A sequence cut in two.                                                  *)
LEMMA Cut ==
  ASSUME NEW S, NEW s \in Seq(S), NEW b \in 0..Len(s)
  PROVE  LET f == SubSeq(s, 1, b)
             r == SubSeq(s, b + 1, Len(s)) IN
         /\ f \in Seq(S) /\ Len(f) = b /\ (\A i \in 1..b : f[i] = s[i])
         /\ r \in Seq(S) /\ Len(r) = Len(s) - b /\ (\A i \in 1..Len(s) - b : r[i] = s[b + i])
         /\ f \o r = s
<1>1. Len(s) \in Nat /\ b \in Nat /\ b <= Len(s) /\ \A i \in 1..Len(s) : s[i] \in S
  OBVIOUS
<1>2. /\ SubSeq(s, 1, b) \in Seq(S) /\ Len(SubSeq(s, 1, b)) = b
      /\ \A i \in 1..b : SubSeq(s, 1, b)[i] = s[i]
  <2>1. \A i \in 1..b : s[i] \in S
    BY <1>1
  <2>2. /\ SubSeq(s, 1, b) \in Seq(S)
        /\ Len(SubSeq(s, 1, b)) = IF 1 <= b THEN b - 1 + 1 ELSE 0
        /\ \A i \in 1..b - 1 + 1 : SubSeq(s, 1, b)[i] = s[1 + i - 1]
    BY <1>1, <2>1, SubSeqProperties
  <2>. QED
    BY <1>1, <2>2
<1>3. /\ SubSeq(s, b + 1, Len(s)) \in Seq(S) /\ Len(SubSeq(s, b + 1, Len(s))) = Len(s) - b
      /\ \A i \in 1..Len(s) - b : SubSeq(s, b + 1, Len(s))[i] = s[b + i]
  <2>1. \A i \in b + 1..Len(s) : s[i] \in S
    BY <1>1
  <2>2. /\ SubSeq(s, b + 1, Len(s)) \in Seq(S)
        /\ Len(SubSeq(s, b + 1, Len(s))) = IF b + 1 <= Len(s) THEN Len(s) - (b + 1) + 1 ELSE 0
        /\ \A i \in 1..Len(s) - (b + 1) + 1 : SubSeq(s, b + 1, Len(s))[i] = s[b + 1 + i - 1]
    BY <1>1, <2>1, SubSeqProperties
  <2>. QED
    BY <1>1, <2>2
<1>4. SubSeq(s, 1, b) \o SubSeq(s, b + 1, Len(s)) = SubSeq(s, 1, Len(s))
  <2>1. 1 \in 1..Len(s) + 1 /\ b \in 1 - 1..Len(s) /\ Len(s) \in b..Len(s)
    BY <1>1
  <2>. QED
    BY <2>1, ConcatAdjacentSubSeq
<1>5. SubSeq(s, 1, Len(s)) = s
  BY SubSeqFull
<1>. QED
  BY <1>2, <1>3, <1>4, <1>5

(* A slice of a sequence.                                                  *)
LEMMA Slice ==
  ASSUME NEW S, NEW s \in Seq(S), NEW p \in Nat, NEW n \in Nat, p + n <= Len(s)
  PROVE  /\ SubSeq(s, p + 1, p + n) \in Seq(S)
         /\ Len(SubSeq(s, p + 1, p + n)) = n
         /\ \A i \in 1..n : SubSeq(s, p + 1, p + n)[i] = s[p + i]
<1>1. Len(s) \in Nat /\ p + 1 \in Int /\ p + n \in Int
  OBVIOUS
<1>2. \A i \in p + 1..p + n : s[i] \in S
  OBVIOUS
<1>3. /\ SubSeq(s, p + 1, p + n) \in Seq(S)
      /\ Len(SubSeq(s, p + 1, p + n)) = IF p + 1 <= p + n THEN p + n - (p + 1) + 1 ELSE 0
      /\ \A i \in 1..p + n - (p + 1) + 1 : SubSeq(s, p + 1, p + n)[i] = s[p + 1 + i - 1]
  BY <1>1, <1>2, SubSeqProperties
<1>4. /\ (IF p + 1 <= p + n THEN p + n - (p + 1) + 1 ELSE 0) = n
      /\ p + n - (p + 1) + 1 = n /\ \A i \in 1..n : p + 1 + i - 1 = p + i
  OBVIOUS
<1>. QED
  BY <1>3, <1>4

(* A slice and what stands before it.                                      *)
LEMMA Adjacent ==
  ASSUME NEW S, NEW s \in Seq(S), NEW p \in Nat, NEW n \in Nat, p + n <= Len(s)
  PROVE  SubSeq(s, 1, p) \o SubSeq(s, p + 1, p + n) = SubSeq(s, 1, p + n)
<1>1. 1 \in 1..Len(s) + 1 /\ p \in 1 - 1..Len(s) /\ p + n \in p..Len(s)
  OBVIOUS
<1>. QED
  BY <1>1, ConcatAdjacentSubSeq

(* What process_received_data makes of the piece s and the items n.        *)
LEMMA PieceThenPacket ==
  ASSUME NEW s \in Seq(Item), Piece(s), NEW n \in Seq(Item)
  PROVE  LET p == s \o SubSeq(n, 1, PacketBytes(n)) IN
         /\ Ends(n) = {} => Piece(p)
         /\ Ends(n) # {} => Packet(p)
<1> DEFINE b == PacketBytes(n)
           f == SubSeq(n, 1, b)
           p == s \o f
<1>1. /\ b \in 0..Len(n)
      /\ Ends(n) = {} => b = Len(n)
      /\ Ends(n) # {} => b \in Ends(n) /\ \A i \in Ends(n) : b <= i
  BY PacketBytesBound
<1> HIDE DEF b
<1>2. f \in Seq(Item) /\ Len(f) = b /\ \A i \in 1..b : f[i] = n[i]
  BY <1>1, Cut
<1>3. Len(n) \in Nat /\ b \in Nat /\ Len(s) \in Nat
  BY <1>1
<1> HIDE DEF f
<1>4. /\ p \in Seq(Item) /\ Len(p) = Len(s) + b
      /\ \A i \in 1..Len(s) + b : p[i] = IF i <= Len(s) THEN s[i] ELSE f[i - Len(s)]
  BY <1>2, ConcatProperties
<1> HIDE DEF p
<1>5. CASE Ends(n) = {}
  <2>1. ASSUME NEW i \in 1..Len(p) PROVE ~p[i].end
    <3>1. CASE i <= Len(s)
      <4>1. i \in 1..Len(s) /\ p[i] = s[i]
        BY <1>3, <1>4, <3>1
      <4>. QED
        BY <4>1 DEF Piece
    <3>2. CASE ~(i <= Len(s))
      <4>1. i - Len(s) \in 1..b /\ p[i] = f[i - Len(s)]
        BY <1>3, <1>4, <3>2
      <4>2. p[i] = n[i - Len(s)] /\ i - Len(s) \in 1..Len(n)
        BY <1>1, <1>2, <4>1
      <4>. QED
        BY <1>5, <4>2 DEF Ends
    <3>. QED
      BY <3>1, <3>2
  <2>. QED
    BY <1>5, <2>1 DEF Piece, p, f, b
<1>6. CASE Ends(n) # {}
  <2>0. b \in Ends(n) /\ b \in 1..Len(n) /\ n[b].end
    BY <1>1, <1>6 DEF Ends
  <2>1. ASSUME NEW i \in 1..Len(p) PROVE p[i].end <=> i = Len(p)
    <3>1. CASE i <= Len(s)
      <4>1. i \in 1..Len(s) /\ p[i] = s[i] /\ i # Len(p)
        BY <1>3, <1>4, <2>0, <3>1
      <4>. QED
        BY <4>1 DEF Piece
    <3>2. CASE ~(i <= Len(s))
      <4>1. i - Len(s) \in 1..b /\ p[i] = f[i - Len(s)] /\ (i - Len(s) = b <=> i = Len(p))
        BY <1>3, <1>4, <3>2
      <4>2. p[i] = n[i - Len(s)] /\ i - Len(s) \in 1..Len(n)
        BY <1>1, <1>2, <4>1
      <4>3. i - Len(s) # b => i - Len(s) \notin Ends(n)
        BY <1>1, <1>3, <1>6, <4>1
      <4>. QED
        BY <2>0, <4>1, <4>2, <4>3 DEF Ends
    <3>. QED
      BY <3>1, <3>2
  <2>2. Len(p) # 0
    BY <1>3, <1>4, <2>0
  <2>3. p # <<>>
    BY <1>4, <2>2
  <2>. QED
    BY <1>6, <2>1, <2>3 DEF Packet, p, f, b
<1>. QED
  BY <1>5, <1>6

(* The start of a packet is a piece.                                       *)
LEMMA PieceOfPacket ==
  ASSUME NEW s \in Seq(Item), Packet(s), NEW n \in 1..Len(s) - 1
  PROVE  Piece(SubSeq(s, 1, n))
<1>1. n \in 0..Len(s) /\ n \in Nat /\ n < Len(s)
  OBVIOUS
<1>2. Len(SubSeq(s, 1, n)) = n /\ \A i \in 1..n : SubSeq(s, 1, n)[i] = s[i]
  BY <1>1, Cut
<1>3. \A i \in 1..n : i \in 1..Len(s) /\ i # Len(s)
  BY <1>1
<1>. QED
  BY <1>2, <1>3 DEF Packet, Piece

-----------------------------------------------------------------------------
(* A step of c's thread leaves the variables of other threads alone.       *)
LEMMA OthersAlone ==
  ASSUME TypeOK, NEW c \in Conn, NEW d \in Conn, d # c, ThreadStep(c) \/ Interrupted(c)
  PROVE  /\ UNCHANGED <<thread[d], thread_state[d], rb[d], rb_new[d], allocated[d], room[d],
                        f_pos[d], send_buffer[d], reply[d], recv_queue[d]>>
         /\ failed'[d] <=> failed[d]
<1> USE DEF growth, buffers, replyvars, status, peervars, Goto, SetState, Fail, GiveUp, SendFails
<1>0. ThreadTypes /\ FlagTypes /\ PeerTypes
  BY TypeParts
<1> USE <1>0 DEF ThreadTypes, FlagTypes, PeerTypes
<1>1. CASE main_loop_thread(c) \/ thread_cleanup(c)
  BY <1>1 DEF main_loop_thread, thread_cleanup
<1>2. CASE waiting_for_data(c) \/ GrowFails(c)
  <2>1. PICK n \in 1..RecvMax : Received(c, n)
    BY <1>2 DEF waiting_for_data, GrowFails
  <2>2. /\ UNCHANGED <<rb, f_pos, send_buffer, reply>>
        /\ UNCHANGED <<thread[d], rb_new[d], recv_queue[d]>>
    BY <2>1 DEF Received
  <2>3. /\ \E a, r : allocated' = [allocated EXCEPT ![c] = a] /\ room' = [room EXCEPT ![c] = r]
        /\ \E s : thread_state' = [thread_state EXCEPT ![c] = s]
        /\ UNCHANGED failed \/ failed' = [failed EXCEPT ![c] = TRUE]
    BY <1>2, Zenon DEF waiting_for_data, GrowFails
  <2>4. UNCHANGED <<allocated[d], room[d], thread_state[d]>>
    BY <2>3
  <2>5. failed'[d] <=> failed[d]
    BY <2>3, Zenon
  <2>. QED
    BY <2>2, <2>4, <2>5
<1>a. ASSUME Fail(c), Goto(c, "top") \/ Goto(c, "unlock"),
             UNCHANGED <<rb, rb_new, allocated, room, f_pos, send_buffer, reply, recv_queue>>
      PROVE  /\ UNCHANGED <<thread[d], thread_state[d], rb[d], rb_new[d], allocated[d], room[d],
                            f_pos[d], send_buffer[d], reply[d], recv_queue[d]>>
             /\ failed'[d] <=> failed[d]
  <2>1. failed'[d] <=> failed[d]
    BY <1>a, Zenon
  <2>2. UNCHANGED <<thread[d], thread_state[d]>>
    BY <1>a
  <2>. QED
    BY <1>a, <2>1, <2>2
<1>3. CASE RecvEnds(c) \/ RecvReset(c) \/ RecvInterrupted(c)
  BY <1>3, <1>a DEF RecvEnds, RecvReset, RecvInterrupted
<1>4. CASE process_received_data(c) \/ SendLock(c) \/ write_to_file(c)
  <2>1. CASE process_received_data(c)
    BY <2>1 DEF process_received_data
  <2>2. CASE SendLock(c)
    BY <2>2 DEF SendLock
  <2>3. CASE write_to_file(c)
    BY <2>3 DEF write_to_file
  <2>. QED
    BY <1>4, <2>1, <2>2, <2>3
<1>b. CASE WriteFails(c) \/ ReadFails(c) \/ SendError(c) \/ SendInterrupted(c)
  BY <1>b, <1>a DEF WriteFails, ReadFails, SendError, SendInterrupted
<1>5. CASE read_from_file(c) \/ ReadEnds(c)
  BY <1>5 DEF read_from_file, ReadEnds
<1>6. CASE send(c) \/ SendToClosed(c)
  <2>1. CASE send(c)
    <3>1. PICK n \in 1..Len(send_buffer[c]) : Sent(c, n)
      BY <2>1 DEF send
    <3>. QED
      BY <3>1 DEF Sent
  <2>2. CASE SendToClosed(c)
    BY <2>2 DEF SendToClosed, Sent
  <2>. QED
    BY <1>6, <2>1, <2>2
<1>7. CASE SendUnlock(c) \/ SendKills(c)
  BY <1>7 DEF SendUnlock, SendKills, threadvars
<1>. QED
  BY <1>1, <1>2, <1>3, <1>4, <1>5, <1>6, <1>7, <1>b DEF ThreadStep, Interrupted

(* What is d's own changes only by a step of d's thread; another step can  *)
(* do no more than create that thread.                                     *)
LEMMA OwnFrame ==
  ASSUME IInv, [Next]_vars, NEW d \in Conn, ~(ThreadStep(d) \/ Interrupted(d))
  PROVE  /\ thread'[d] = thread[d] \/ (thread[d] = "none" /\ thread'[d] = "top")
         /\ UNCHANGED <<thread_state[d], rb[d], rb_new[d], allocated[d], room[d],
                        f_pos[d], send_buffer[d], reply[d]>>
         /\ failed'[d] <=> failed[d]
<1> USE DEF growth, buffers, replyvars, status
<1>0. TypeOK /\ ThreadTypes
  BY TypeParts DEF IInv
<1>1. CASE MainStep \/ ClockTick \/ signal_handler
  <2>1. UNCHANGED <<thread_state, rb, rb_new, allocated, room, f_pos, send_buffer, reply, failed>>
    BY <1>1, MainFrame
  <2>2. thread'[d] = thread[d] \/ (thread[d] = "none" /\ thread'[d] = "top")
    <3> USE DEF threadvars
    <3>1. CASE create_thread
      <4>1. client_fd \in Conn /\ thread[client_fd] = "none"
        BY <3>1 DEF create_thread, IInv, MainPlace, FdPlace
      <4>. QED
        BY <1>0, <3>1, <4>1 DEF create_thread, ThreadTypes
    <3>2. CASE startup \/ main_loop \/ TimestampLock \/ write_time_stamp \/ TimestampUnlock
      BY <3>2 DEF startup, main_loop, TimestampLock, write_time_stamp, TimestampUnlock
    <3>3. CASE join_threads \/ CheckExit \/ AcceptGate \/ AcceptFails
      BY <3>3 DEF join_threads, CheckExit, AcceptGate, AcceptFails
    <3>4. CASE \E c \in Conn : check_for_client_connection(c)
      BY <3>4 DEF check_for_client_connection
    <3>5. CASE InsertThread \/ CreateFails \/ shutting_down \/ ClockTick \/ signal_handler
      BY <3>5 DEF InsertThread, CreateFails, shutting_down, ClockTick, signal_handler
    <3>. QED
      BY <1>1, <3>1, <3>2, <3>3, <3>4, <3>5 DEF MainStep
  <2>. QED
    BY <2>1, <2>2
<1>2. ASSUME NEW c \in Conn, ThreadStep(c) \/ Interrupted(c)
      PROVE  /\ thread'[d] = thread[d]
             /\ UNCHANGED <<thread_state[d], rb[d], rb_new[d], allocated[d], room[d],
                            f_pos[d], send_buffer[d], reply[d]>>
             /\ failed'[d] <=> failed[d]
  <2>1. d # c
    BY <1>2
  <2>. QED
    BY <1>0, <1>2, <2>1, OthersAlone
<1>3. ASSUME NEW c \in Conn, PeerStep(c) PROVE UNCHANGED threadvars
  BY <1>3, PeerFrame DEF notpeer
<1>4. CASE UNCHANGED vars
  BY <1>4 DEF vars
<1>. QED
  BY <1>1, <1>2, <1>3, <1>4 DEF Next, Terminated, threadvars

(* A thread is at each place in the state that took it there.              *)
LEMMA ThreadPlaceStep ==
  ASSUME IInv, ThreadPlace, [Next]_vars
  PROVE  ThreadPlace'
<1> DEFINE P(t, s, f) == /\ t \in {"none", "recv"} => s = "WaitingForData"
                         /\ t = "process" => s = "ProcessingData"
                         /\ t \in {"lock", "write", "read", "send"} => s = "SendingData"
                         /\ t = "unlock" => s \in {"SendingData", "ClosedConnection"}
                         /\ f => s = "ClosedConnection"
<1> SUFFICES ASSUME NEW c \in Conn PROVE P(thread'[c], thread_state'[c], failed'[c])
  BY DEF ThreadPlace
<1>0. P(thread[c], thread_state[c], failed[c])
  BY DEF ThreadPlace
<1>1. CASE ~(ThreadStep(c) \/ Interrupted(c))
  BY <1>0, <1>1, OwnFrame
<1>2. CASE ThreadStep(c) \/ Interrupted(c)
  <2> USE DEF status, At, Goto, GiveUp, SetState, SendFails
  <2>0. ThreadTypes
    BY TypeParts DEF IInv
  <2> USE <2>0 DEF ThreadTypes
  <2>1. CASE main_loop_thread(c)
    BY <1>0, <2>1 DEF main_loop_thread, Dest
  <2>2. CASE thread_cleanup(c)
    BY <1>0, <2>2 DEF thread_cleanup
  <2>3. CASE waiting_for_data(c)
    BY <1>0, <2>3 DEF waiting_for_data, Received
  <2>4. CASE GrowFails(c)
    BY <1>0, <2>4 DEF GrowFails, Received, Fail
  <2>5. CASE RecvEnds(c)
    BY <1>0, <2>5 DEF RecvEnds
  <2>6. CASE RecvReset(c) \/ RecvInterrupted(c)
    BY <1>0, <2>6 DEF RecvReset, RecvInterrupted, Fail
  <2>7. CASE process_received_data(c)
    BY <1>0, <2>7 DEF process_received_data
  <2>8. CASE SendLock(c) \/ write_to_file(c) \/ read_from_file(c) \/ ReadEnds(c)
    BY <1>0, <2>8 DEF SendLock, write_to_file, read_from_file, ReadEnds
  <2>9. CASE WriteFails(c) \/ ReadFails(c) \/ SendError(c) \/ SendInterrupted(c)
    BY <1>0, <2>9 DEF WriteFails, ReadFails, SendError, SendInterrupted, Fail
  <2>10. CASE send(c) \/ SendToClosed(c)
    BY <1>0, <2>10 DEF send, SendToClosed, Sent
  <2>11. CASE SendKills(c)
    BY <1>0, <2>11 DEF SendKills, threadvars
  <2>12. CASE SendUnlock(c)
    BY <1>0, <2>12 DEF SendUnlock, NextState
  <2>. QED
    BY <1>2, <2>1, <2>2, <2>3, <2>4, <2>5, <2>6, <2>7, <2>8, <2>9, <2>10, <2>11, <2>12
    DEF ThreadStep, Interrupted
<1>. QED
  BY <1>1, <1>2

(* The receive buffer grows to what recv has brought before any of it is   *)
(* copied, and what is copied later was counted then.                      *)
LEMMA BufferRoomStep ==
  ASSUME IInv, ThreadPlace, BufferRoom, [Next]_vars
  PROVE  BufferRoom'
<1> DEFINE P(s, n, a, r, f, ts) ==
             /\ Len(s) <= r
             /\ ~f => a = r
             /\ ts # "ClosedConnection" => Len(s) + Len(n) <= r
<1> SUFFICES ASSUME NEW c \in Conn
             PROVE  P(rb'[c], rb_new'[c], allocated'[c], room'[c], failed'[c], thread_state'[c])
  BY DEF BufferRoom
<1>0. P(rb[c], rb_new[c], allocated[c], room[c], failed[c], thread_state[c])
  BY DEF BufferRoom
<1>1. CASE ~(ThreadStep(c) \/ Interrupted(c))
  BY <1>0, <1>1, OwnFrame
<1>2. CASE ThreadStep(c) \/ Interrupted(c)
  <2> USE DEF status, buffers, growth, At, Goto, GiveUp, SetState, SendFails
  <2>0. ThreadTypes /\ FlagTypes /\ PeerTypes
    BY TypeParts DEF IInv
  <2>1. /\ rb[c] \in Seq(Item) /\ rb_new[c] \in Seq(Item) /\ recv_queue[c] \in Seq(Item)
        /\ allocated[c] \in Nat /\ room[c] \in Nat
    BY <2>0 DEF ThreadTypes, PeerTypes
  <2>2. /\ Len(rb[c]) \in Nat /\ Len(rb_new[c]) \in Nat /\ Len(recv_queue[c]) \in Nat
        /\ allocated[c] \in Nat /\ room[c] \in Nat
    BY <2>1
  <2>3. ASSUME UNCHANGED buffers, failed[c] => failed'[c],
               thread_state[c] = "ClosedConnection" => thread_state'[c] = "ClosedConnection"
        PROVE  P(rb'[c], rb_new'[c], allocated'[c], room'[c], failed'[c], thread_state'[c])
    BY <1>0, <2>3
  <2>4. CASE main_loop_thread(c) \/ SendLock(c) \/ read_from_file(c) \/ ReadEnds(c)
    BY <2>3, <2>4 DEF main_loop_thread, SendLock, read_from_file, ReadEnds
  <2>5. CASE RecvEnds(c)
    BY <2>0, <2>3, <2>5 DEF RecvEnds, ThreadTypes
  <2>6. CASE RecvReset(c) \/ RecvInterrupted(c) \/ WriteFails(c) \/ ReadFails(c) \/ SendError(c)
             \/ SendInterrupted(c)
    <3>1. UNCHANGED buffers /\ Fail(c)
      BY <2>6 DEF RecvReset, RecvInterrupted, WriteFails, ReadFails, SendError, SendInterrupted
    <3>2. thread_state'[c] = "ClosedConnection"
      BY <2>0, <3>1 DEF Fail, ThreadTypes
    <3>3. failed'[c]
      BY <2>0, <3>1, Zenon DEF Fail, FlagTypes
    <3>. QED
      BY <2>3, <3>1, <3>2, <3>3
  <2>7. CASE send(c) \/ SendToClosed(c) \/ SendKills(c)
    BY <2>3, <2>7 DEF send, SendToClosed, Sent, SendKills, threadvars
  <2>8. CASE SendUnlock(c)
    BY <2>0, <2>3, <2>8 DEF SendUnlock, ThreadTypes
  <2>9. CASE thread_cleanup(c)
    <3>1. /\ rb'[c] = <<>> /\ rb_new'[c] = <<>> /\ allocated'[c] = 0 /\ room'[c] = 0
      BY <2>0, <2>9 DEF thread_cleanup, ThreadTypes
    <3>. QED
      BY <3>1
  <2>10. CASE write_to_file(c)
    <3>1. rb'[c] = <<>> /\ UNCHANGED <<rb_new, allocated, room, thread_state, failed>>
      BY <2>0, <2>10 DEF write_to_file, ThreadTypes
    <3>2. Len(rb'[c]) = 0
      BY <3>1
    <3>3. /\ Len(rb'[c]) <= room'[c]
          /\ thread_state'[c] # "ClosedConnection" => Len(rb'[c]) + Len(rb_new'[c]) <= room'[c]
      <4>1. /\ UNCHANGED <<rb_new, room, thread_state>>
            /\ thread_state[c] # "ClosedConnection" => Len(rb[c]) + Len(rb_new[c]) <= room[c]
        BY <1>0, <3>1
      <4>. QED
        <5>1. \A x, y, z \in Nat : x + y <= z => y <= z
          OBVIOUS
        <5>2. thread_state[c] # "ClosedConnection" => Len(rb_new[c]) <= room[c]
          BY <2>2, <4>1, <5>1
        <5>3. UNCHANGED <<rb_new[c], room[c], thread_state[c]>>
          BY <4>1
        <5>4. Len(rb'[c]) + Len(rb_new[c]) = Len(rb_new[c]) /\ 0 <= room[c]
          BY <2>2, <3>2
        <5>. QED
          BY <3>2, <5>2, <5>3, <5>4
    <3>4. ~failed'[c] => allocated'[c] = room'[c]
      BY <1>0, <3>1
    <3>. QED
      BY <3>3, <3>4
  <2>11. ASSUME NEW n \in 1..RecvMax, Received(c, n)
         PROVE  /\ UNCHANGED rb /\ Len(rb_new'[c]) = n /\ n \in Nat
                /\ allocated[c] = room[c]
                /\ Iterations(c, n) \in Nat /\ Iterations(c, n) * RecvGrow \in Nat
                /\ allocated[c] + Iterations(c, n) * RecvGrow >= Len(rb[c]) + n
    <3>1. n \in Nat /\ n <= Len(recv_queue[c])
      BY <2>11, Bounds DEF Received
    <3>2. Len(SubSeq(recv_queue[c], 1, n)) = n
      BY <2>1, <3>1
    <3>3. UNCHANGED rb /\ rb_new'[c] = SubSeq(recv_queue[c], 1, n)
      BY <2>0, <2>11 DEF Received, ThreadTypes
    <3>4. ~failed[c]
      BY <2>11 DEF Received, ThreadPlace
    <3>5. /\ Iterations(c, n) \in Nat /\ Iterations(c, n) * RecvGrow \in Nat
          /\ allocated[c] + Iterations(c, n) * RecvGrow >= Len(rb[c]) + n
      <4>0. RecvGrow \in Nat
        BY Bounds
      <4>1. CASE allocated[c] >= Len(rb[c]) + n
        <5>1. Iterations(c, n) = 0
          BY <4>1 DEF Iterations
        <5>. QED
          BY <2>1, <4>0, <4>1, <5>1
      <4>2. CASE ~(allocated[c] >= Len(rb[c]) + n)
        <5> DEFINE k == Len(rb[c]) + n - allocated[c]
        <5>1. k \in Nat /\ Iterations(c, n) = (k + RecvGrow - 1) \div RecvGrow
              /\ Len(rb[c]) + n = allocated[c] + k
          BY <2>1, <2>2, <3>1, <4>2 DEF Iterations
        <5> HIDE DEF k
        <5>2. /\ Iterations(c, n) \in Nat /\ Iterations(c, n) * RecvGrow \in Nat
              /\ Iterations(c, n) * RecvGrow >= k
          BY <5>1, GrownEnough
        <5>. QED
          BY <2>1, <5>1, <5>2
      <4>. QED
        BY <4>1, <4>2
    <3>. QED
      BY <1>0, <3>1, <3>2, <3>3, <3>4, <3>5
  <2>12. CASE waiting_for_data(c)
    <3>1. PICK n \in 1..RecvMax :
            /\ Received(c, n)
            /\ allocated' = [allocated EXCEPT ![c] = @ + Iterations(c, n) * RecvGrow]
            /\ room' = [room EXCEPT ![c] = allocated'[c]]
      BY <2>12 DEF waiting_for_data
    <3>2. /\ allocated'[c] = allocated[c] + Iterations(c, n) * RecvGrow
          /\ room'[c] = allocated'[c]
      BY <2>0, <3>1 DEF ThreadTypes
    <3>3. Len(rb'[c]) + Len(rb_new'[c]) <= room'[c] /\ Len(rb'[c]) <= room'[c]
      <4> DEFINE grown == Iterations(c, n) * RecvGrow
      <4>1. /\ UNCHANGED rb /\ Len(rb_new'[c]) = n /\ n \in Nat /\ grown \in Nat
            /\ allocated[c] + grown >= Len(rb[c]) + n /\ room'[c] = allocated[c] + grown
        BY <2>11, <3>1, <3>2
      <4> HIDE DEF grown
      <4>. QED
        BY <2>1, <2>2, <4>1
    <3>. QED
      BY <3>2, <3>3
  <2>13. CASE GrowFails(c)
    <3>1. PICK n \in 1..RecvMax : \E i \in 1..Iterations(c, n) :
            /\ Received(c, n)
            /\ room' = [room EXCEPT ![c] = allocated[c] + (i - 1) * RecvGrow]
            /\ Fail(c)
      BY <2>13 DEF GrowFails
    <3>2. PICK i \in 1..Iterations(c, n) :
            /\ Received(c, n)
            /\ room' = [room EXCEPT ![c] = allocated[c] + (i - 1) * RecvGrow]
            /\ Fail(c)
      BY <3>1
    <3>3. i - 1 \in Nat /\ RecvGrow \in Nat
      BY <2>11, <3>2, Bounds
    <3>4. (i - 1) * RecvGrow \in Nat
      BY <3>3
    <3>5. room'[c] = allocated[c] + (i - 1) * RecvGrow /\ thread_state'[c] = "ClosedConnection"
      BY <2>0, <3>2 DEF ThreadTypes, Fail
    <3>6. failed'[c]
      BY <2>0, <3>2, Zenon DEF Fail, FlagTypes
    <3>. QED
      BY <1>0, <2>1, <2>2, <2>11, <3>2, <3>4, <3>5, <3>6
  <2>14. CASE process_received_data(c)
    <3> DEFINE b == PacketBytes(rb_new[c])
    <3>1. b \in 0..Len(rb_new[c])
      BY <2>1, PacketBytesBound
    <3>2. /\ rb'[c] = rb[c] \o SubSeq(rb_new[c], 1, b)
          /\ rb_new'[c] = SubSeq(rb_new[c], b + 1, Len(rb_new[c]))
          /\ UNCHANGED <<allocated, room, failed>>
      BY <2>0, <2>14 DEF process_received_data, Rest, ThreadTypes
    <3> HIDE DEF b
    <3>3. Len(rb'[c]) = Len(rb[c]) + b /\ Len(rb_new'[c]) = Len(rb_new[c]) - b
      <4>1. /\ SubSeq(rb_new[c], 1, b) \in Seq(Item) /\ Len(SubSeq(rb_new[c], 1, b)) = b
            /\ Len(SubSeq(rb_new[c], b + 1, Len(rb_new[c]))) = Len(rb_new[c]) - b
        BY <2>1, <3>1, Cut
      <4>. QED
        BY <2>1, <3>2, <4>1, ConcatProperties
    <3>4. thread_state[c] # "ClosedConnection"
      BY <2>14 DEF process_received_data, ThreadPlace
    <3>5. Len(rb'[c]) <= room'[c] /\ Len(rb'[c]) + Len(rb_new'[c]) <= room'[c]
      <4>1. Len(rb[c]) + Len(rb_new[c]) <= room[c] /\ UNCHANGED room
        BY <1>0, <3>2, <3>4
      <4>. QED
        <5>1. \A x, y, z \in Nat : \A k \in 0..y :
                x + y <= z => x + k <= z /\ (x + k) + (y - k) <= z
          OBVIOUS
        <5>2. /\ Len(rb[c]) + b <= room[c]
              /\ (Len(rb[c]) + b) + (Len(rb_new[c]) - b) <= room[c]
          BY <2>2, <3>1, <4>1, <5>1
        <5>. QED
          BY <3>3, <4>1, <5>2
    <3>6. ~failed'[c] => allocated'[c] = room'[c]
      BY <1>0, <3>2
    <3>. QED
      BY <3>5, <3>6
  <2>. QED
    BY <1>2, <2>4, <2>5, <2>6, <2>7, <2>8, <2>9, <2>10, <2>12, <2>13, <2>14
    DEF ThreadStep, Interrupted
<1>. QED
  BY <1>1, <1>2

(* process_received_data hands on whole packets.                           *)
LEMMA PacketInBufferStep ==
  ASSUME IInv, ThreadPlace, PacketInBuffer, [Next]_vars
  PROVE  PacketInBuffer'
<1> DEFINE P(t, ts, s) ==
             /\ ts \in {"WaitingForData", "ProcessingData"} => Piece(s)
             /\ ts = "SendingData" /\ t \in {"top", "lock", "write"} => Packet(s)
             /\ t \in {"read", "send"} => s = <<>>
             /\ t = "unlock" /\ ts = "SendingData" => s = <<>>
<1> SUFFICES ASSUME NEW c \in Conn PROVE P(thread'[c], thread_state'[c], rb'[c])
  BY DEF PacketInBuffer
<1>0. P(thread[c], thread_state[c], rb[c])
  BY DEF PacketInBuffer
<1>1. CASE ~(ThreadStep(c) \/ Interrupted(c))
  <2>1. UNCHANGED <<thread_state[c], rb[c]>>
        /\ (thread'[c] = thread[c] \/ (thread[c] = "none" /\ thread'[c] = "top"))
    BY <1>1, OwnFrame
  <2>2. thread[c] = "none" => thread_state[c] = "WaitingForData"
    BY DEF ThreadPlace
  <2>. QED
    BY <1>0, <2>1, <2>2
<1>2. CASE ThreadStep(c) \/ Interrupted(c)
  <2> USE DEF status, buffers, At, Goto, GiveUp, SetState, SendFails
  <2>0. ThreadTypes
    BY TypeParts DEF IInv
  <2> USE <2>0 DEF ThreadTypes
  <2>1. rb[c] \in Seq(Item) /\ rb_new[c] \in Seq(Item)
    OBVIOUS
  <2>2. Piece(<<>>)
    BY DEF Piece
  <2>3. CASE main_loop_thread(c)
    BY <1>0, <2>3 DEF main_loop_thread, Dest
  <2>4. CASE thread_cleanup(c)
    BY <2>2, <2>4 DEF thread_cleanup
  <2>5. CASE waiting_for_data(c)
    <3>1. thread[c] = "recv" /\ UNCHANGED rb /\ thread'[c] = "top" /\ thread_state'[c] = "ProcessingData"
      BY <2>5 DEF waiting_for_data, Received
    <3>2. thread_state[c] = "WaitingForData"
      BY <3>1 DEF ThreadPlace
    <3>. QED
      BY <1>0, <3>1, <3>2
  <2>6. CASE GrowFails(c) \/ RecvEnds(c) \/ RecvReset(c) \/ RecvInterrupted(c)
    <3>1. thread'[c] = "top" /\ thread_state'[c] = "ClosedConnection"
      BY <2>6 DEF GrowFails, Received, RecvEnds, RecvReset, RecvInterrupted, Fail
    <3>. QED
      BY <3>1
  <2>7. CASE WriteFails(c) \/ ReadFails(c) \/ SendError(c) \/ SendInterrupted(c)
    <3>1. thread'[c] = "unlock" /\ thread_state'[c] = "ClosedConnection"
      BY <2>7 DEF WriteFails, ReadFails, SendError, SendInterrupted, Fail
    <3>. QED
      BY <3>1
  <2>8. CASE process_received_data(c)
    <3>1. /\ thread'[c] = "top"
          /\ rb'[c] = rb[c] \o SubSeq(rb_new[c], 1, PacketBytes(rb_new[c]))
          /\ thread_state'[c] = IF Ends(rb_new[c]) = {} THEN "WaitingForData" ELSE "SendingData"
      BY <2>8 DEF process_received_data
    <3>2. Piece(rb[c])
      BY <1>0, <2>8 DEF process_received_data, ThreadPlace
    <3>3. /\ Ends(rb_new[c]) = {} => Piece(rb'[c])
          /\ Ends(rb_new[c]) # {} => Packet(rb'[c])
      BY <2>1, <3>1, <3>2, PieceThenPacket
    <3>. QED
      BY <3>1, <3>3
  <2>9. CASE SendLock(c)
    BY <1>0, <2>9 DEF SendLock, ThreadPlace
  <2>10. CASE write_to_file(c)
    <3>1. thread[c] = "write" /\ thread'[c] = "read" /\ rb'[c] = <<>> /\ UNCHANGED thread_state
      BY <2>10 DEF write_to_file
    <3>2. thread_state[c] = "SendingData"
      BY <3>1 DEF ThreadPlace
    <3>. QED
      BY <3>1, <3>2
  <2>11. CASE read_from_file(c) \/ ReadEnds(c)
    BY <1>0, <2>11 DEF read_from_file, ReadEnds, ThreadPlace
  <2>12. CASE send(c) \/ SendToClosed(c)
    BY <1>0, <2>12 DEF send, SendToClosed, Sent, ThreadPlace
  <2>13. CASE SendKills(c)
    BY <1>0, <2>13 DEF SendKills, threadvars
  <2>14. CASE SendUnlock(c)
    BY <1>0, <2>2, <2>14 DEF SendUnlock, NextState, ThreadPlace
  <2>. QED
    BY <1>2, <2>3, <2>4, <2>5, <2>6, <2>7, <2>8, <2>9, <2>10, <2>11, <2>12, <2>13, <2>14
    DEF ThreadStep, Interrupted
<1>. QED
  BY <1>1, <1>2

-----------------------------------------------------------------------------
(* Who changes the file, and how.                                          *)
LEMMA FileChange ==
  ASSUME [Next]_vars
  PROVE  \/ UNCHANGED file
         \/ shutting_down /\ ~USE_AESD_CHAR_DEVICE /\ file' = <<>>
         \/ write_time_stamp /\ file' = Append(file, Stamp)
         \/ \E c \in Conn : write_to_file(c)
         \/ \E c \in Conn : /\ WriteFails(c) /\ ~USE_AESD_CHAR_DEVICE
                            /\ \E n \in 1..Len(rb[c]) - 1 :
                                 file' = Stored([by |-> c, data |-> SubSeq(rb[c], 1, n)])
<1> USE DEF filevars
<1>1. CASE MainStep \/ ClockTick \/ signal_handler
  <2>1. CASE write_time_stamp
    BY <2>1 DEF write_time_stamp
  <2>2. CASE shutting_down
    BY <2>2 DEF shutting_down
  <2>3. CASE startup \/ main_loop \/ TimestampLock \/ TimestampUnlock \/ join_threads \/ CheckExit
    BY <2>3 DEF startup, main_loop, TimestampLock, TimestampUnlock, join_threads, CheckExit
  <2>4. CASE AcceptGate \/ AcceptFails \/ (\E c \in Conn : check_for_client_connection(c))
    BY <2>4 DEF AcceptGate, AcceptFails, check_for_client_connection
  <2>5. CASE create_thread \/ InsertThread \/ CreateFails \/ ClockTick \/ signal_handler
    BY <2>5 DEF create_thread, InsertThread, CreateFails, ClockTick, signal_handler
  <2>. QED
    BY <1>1, <2>1, <2>2, <2>3, <2>4, <2>5 DEF MainStep
<1>2. ASSUME NEW c \in Conn, ThreadStep(c) \/ Interrupted(c), ~write_to_file(c), ~WriteFails(c)
      PROVE  UNCHANGED file
  <2> USE DEF GiveUp
  <2>1. CASE SendLock(c) \/ SendUnlock(c) \/ main_loop_thread(c) \/ thread_cleanup(c)
    BY <2>1 DEF SendLock, SendUnlock, main_loop_thread, thread_cleanup
  <2>2. CASE waiting_for_data(c) \/ GrowFails(c)
    BY <2>2 DEF waiting_for_data, GrowFails, Received
  <2>3. CASE RecvEnds(c) \/ RecvReset(c) \/ RecvInterrupted(c) \/ process_received_data(c)
    BY <2>3 DEF RecvEnds, RecvReset, RecvInterrupted, process_received_data
  <2>4. CASE read_from_file(c) \/ ReadEnds(c) \/ ReadFails(c)
    BY <2>4 DEF read_from_file, ReadEnds, ReadFails
  <2>5. CASE send(c) \/ SendToClosed(c) \/ SendError(c) \/ SendInterrupted(c) \/ SendKills(c)
    BY <2>5 DEF send, SendToClosed, SendError, SendInterrupted, SendKills, Sent
  <2>. QED
    BY <1>2, <2>1, <2>2, <2>3, <2>4, <2>5 DEF ThreadStep, Interrupted
<1>3. ASSUME NEW c \in Conn, WriteFails(c)
      PROVE  \/ UNCHANGED file
             \/ /\ ~USE_AESD_CHAR_DEVICE
                /\ \E n \in 1..Len(rb[c]) - 1 :
                     file' = Stored([by |-> c, data |-> SubSeq(rb[c], 1, n)])
  BY <1>3 DEF WriteFails
<1>4. ASSUME NEW c \in Conn, PeerStep(c) PROVE UNCHANGED file
  BY <1>4, PeerFrame DEF notpeer
<1>5. CASE UNCHANGED vars
  BY <1>5 DEF vars
<1>. QED
  BY <1>1, <1>2, <1>3, <1>4, <1>5 DEF Next, Terminated

(* What the file holds after a write was there before or is what was       *)
(* written; a file, unlike the device, loses nothing.                      *)
LEMMA StoredElements ==
  ASSUME file \in Seq(Write), NEW w \in Write
  PROVE  /\ Stored(w) \in Seq(Write) /\ Stored(w) # <<>>
         /\ \A i \in 1..Len(Stored(w)) :
              Stored(w)[i] = w \/ \E j \in 1..Len(file) : Stored(w)[i] = file[j]
         /\ ~USE_AESD_CHAR_DEVICE => Stored(w) = Append(file, w)
<1> DEFINE all == Append(file, w)
<1>1. /\ all \in Seq(Write) /\ all # <<>> /\ Len(all) = Len(file) + 1 /\ Len(file) \in Nat
      /\ \A i \in 1..Len(file) : all[i] = file[i]
      /\ all[Len(file) + 1] = w
  BY AppendProperties
<1>2. Stored(w) = IF USE_AESD_CHAR_DEVICE /\ Len(all) > MaxOps THEN Tail(all) ELSE all
  BY DEF Stored
<1> HIDE DEF all
<1>3. \A i \in 1..Len(all) : all[i] = w \/ \E j \in 1..Len(file) : all[i] = file[j]
  BY <1>1
<1>4. CASE USE_AESD_CHAR_DEVICE /\ Len(all) > MaxOps
  <2>1. Stored(w) = Tail(all)
    BY <1>2, <1>4
  <2>2. MaxOps \in Nat \ {0}
    BY Bounds
  <2>3. /\ Tail(all) \in Seq(Write) /\ Len(Tail(all)) = Len(all) - 1
        /\ \A i \in 1..Len(Tail(all)) : Tail(all)[i] = all[i + 1]
    BY <1>1, HeadTailProperties
  <2>4. Len(Tail(all)) # 0
    BY <1>1, <1>4, <2>2, <2>3
  <2>5. Tail(all) # <<>>
    <3>1. Len(<<>>) = 0
      OBVIOUS
    <3>. QED
      BY <2>4, <3>1, Zenon
  <2>6. \A i \in 1..Len(Tail(all)) : i + 1 \in 1..Len(all)
    BY <1>1, <2>3
  <2>. QED
    BY <1>3, <1>4, <2>1, <2>3, <2>5, <2>6
<1>5. CASE ~(USE_AESD_CHAR_DEVICE /\ Len(all) > MaxOps)
  <2>1. Stored(w) = all
    BY <1>2, <1>5
  <2>. QED
    BY <1>1, <1>3, <2>1 DEF all
<1>6. ~USE_AESD_CHAR_DEVICE => Stored(w) = Append(file, w)
  BY <1>2 DEF all
<1>. QED
  BY <1>4, <1>5, <1>6

(* A connection that is given up stays given up.                           *)
LEMMA ClosedStays ==
  ASSUME IInv, ThreadPlace, [Next]_vars, NEW c \in Conn, thread_state[c] = "ClosedConnection"
  PROVE  thread_state'[c] = "ClosedConnection"
<1>1. CASE ~(ThreadStep(c) \/ Interrupted(c))
  BY <1>1, OwnFrame
<1>2. CASE ThreadStep(c) \/ Interrupted(c)
  <2> USE DEF status, At, GiveUp, SetState, SendFails, Fail
  <2>0. ThreadTypes
    BY TypeParts DEF IInv
  <2>1. thread[c] \notin {"recv", "process", "lock", "write", "read", "send"}
    BY DEF ThreadPlace
  <2> USE <2>0 DEF ThreadTypes
  <2>2. CASE main_loop_thread(c) \/ thread_cleanup(c)
    BY <2>2 DEF main_loop_thread, thread_cleanup
  <2>3. CASE SendUnlock(c)
    BY <2>3 DEF SendUnlock
  <2>4. ~(main_loop_thread(c) \/ thread_cleanup(c) \/ SendUnlock(c)) => FALSE
    BY <1>2, <2>1 DEF ThreadStep, Interrupted, waiting_for_data, GrowFails, Received, RecvEnds,
       RecvReset, RecvInterrupted, process_received_data, SendLock, write_to_file, WriteFails,
       read_from_file, ReadEnds, ReadFails, send, SendToClosed, SendError, SendInterrupted, SendKills
  <2>. QED
    BY <2>2, <2>3, <2>4
<1>. QED
  BY <1>1, <1>2

(* What a thread writes is one packet, or a piece of one that ends the     *)
(* connection.                                                             *)
LEMMA FileOfPacketsStep ==
  ASSUME IInv, ThreadPlace, PacketInBuffer, FileOfPackets, [Next]_vars
  PROVE  FileOfPackets'
<1> DEFINE Q(w, ts) == w.by \in Conn => \/ Packet(w.data)
                                        \/ Piece(w.data) /\ ts[w.by] = "ClosedConnection"
<1>0. ThreadTypes /\ file \in Seq(Write)
  BY TypeParts DEF IInv, FileTypes
<1>1. \A i \in 1..Len(file) : Q(file[i], thread_state')
  BY ClosedStays DEF FileOfPackets
<1>2. CASE UNCHANGED file
  BY <1>1, <1>2 DEF FileOfPackets
<1>3. CASE file' = <<>>
  BY <1>3 DEF FileOfPackets
<1>4. CASE file' = Append(file, Stamp)
  <2>1. Stamp \in Write /\ Stamp.by \notin Conn
    BY SocketAssumption DEF Stamp, Write
  <2>2. /\ Len(Append(file, Stamp)) = Len(file) + 1 /\ Len(file) \in Nat
        /\ \A i \in 1..Len(file) : Append(file, Stamp)[i] = file[i]
        /\ Append(file, Stamp)[Len(file) + 1] = Stamp
    BY <1>0, <2>1, AppendProperties
  <2>3. \A i \in 1..Len(file') : file'[i] = Stamp \/ \E j \in 1..Len(file) : file'[i] = file[j]
    BY <1>4, <2>2
  <2>. QED
    BY <1>1, <2>1, <2>3 DEF FileOfPackets
<1>5. ASSUME NEW w \in Write, file' = Stored(w), Q(w, thread_state') PROVE FileOfPackets'
  <2>1. \A i \in 1..Len(file') : file'[i] = w \/ \E j \in 1..Len(file) : file'[i] = file[j]
    BY <1>0, <1>5, StoredElements
  <2>. QED
    BY <1>1, <1>5, <2>1 DEF FileOfPackets
<1>6. ASSUME NEW c \in Conn, write_to_file(c) PROVE FileOfPackets'
  <2> DEFINE w == [by |-> c, data |-> rb[c]]
  <2>1. w \in Write /\ w.data = rb[c] /\ file' = Stored(w)
    BY <1>0, <1>6 DEF write_to_file, Write, ThreadTypes
  <2>2. Packet(rb[c])
    BY <1>6 DEF write_to_file, At, ThreadPlace, PacketInBuffer
  <2>. QED
    BY <1>5, <2>1, <2>2
<1>7. ASSUME NEW c \in Conn, WriteFails(c), NEW n \in 1..Len(rb[c]) - 1,
             file' = Stored([by |-> c, data |-> SubSeq(rb[c], 1, n)])
      PROVE  FileOfPackets'
  <2> DEFINE w == [by |-> c, data |-> SubSeq(rb[c], 1, n)]
  <2>1. rb[c] \in Seq(Item) /\ Packet(rb[c])
    BY <1>0, <1>7 DEF WriteFails, At, ThreadPlace, PacketInBuffer, ThreadTypes
  <2>2. Piece(w.data) /\ w.by = c
    BY <2>1, PieceOfPacket
  <2>3. w \in Write
    <3>1. n \in 0..Len(rb[c])
      BY <2>1
    <3>2. SubSeq(rb[c], 1, n) \in Seq(Item)
      BY <2>1, <3>1, Cut
    <3>. QED
      BY <3>2 DEF Write
  <2>4. thread_state'[c] = "ClosedConnection"
    BY <1>0, <1>7 DEF WriteFails, SendFails, Fail, ThreadTypes
  <2> HIDE DEF w
  <2>. QED
    BY <1>5, <1>7, <2>2, <2>3, <2>4 DEF w
<1>. QED
  BY <1>2, <1>3, <1>4, <1>6, <1>7, FileChange

(* The send buffer is empty but while its content is being sent.           *)
LEMMA SendBufferStep ==
  ASSUME IInv, ThreadPlace, SendBufferPlace, [Next]_vars
  PROVE  SendBufferPlace'
<1> DEFINE P(t, ts, b) == /\ t \notin {"send", "unlock"} => b = <<>>
                          /\ t = "unlock" /\ ts = "SendingData" => b = <<>>
                          /\ t = "send" => b # <<>>
<1> SUFFICES ASSUME NEW c \in Conn PROVE P(thread'[c], thread_state'[c], send_buffer'[c])
  BY DEF SendBufferPlace
<1>0. P(thread[c], thread_state[c], send_buffer[c])
  BY DEF SendBufferPlace
<1>1. CASE ~(ThreadStep(c) \/ Interrupted(c))
  BY <1>0, <1>1, OwnFrame
<1>2. CASE ThreadStep(c) \/ Interrupted(c)
  <2> USE DEF status, replyvars, At, Goto, GiveUp, SetState, SendFails
  <2>0. ThreadTypes /\ FileTypes
    BY TypeParts DEF IInv
  <2> USE <2>0 DEF ThreadTypes
  <2>1. CASE main_loop_thread(c)
    BY <1>0, <2>1 DEF main_loop_thread, Dest
  <2>2. CASE thread_cleanup(c) \/ RecvEnds(c) \/ RecvReset(c) \/ RecvInterrupted(c)
    BY <1>0, <2>2 DEF thread_cleanup, RecvEnds, RecvReset, RecvInterrupted
  <2>3. CASE waiting_for_data(c) \/ GrowFails(c)
    BY <1>0, <2>3 DEF waiting_for_data, GrowFails, Received
  <2>4. CASE process_received_data(c) \/ SendLock(c) \/ write_to_file(c) \/ ReadEnds(c)
    BY <1>0, <2>4 DEF process_received_data, SendLock, write_to_file, ReadEnds
  <2>5. CASE WriteFails(c) \/ ReadFails(c) \/ SendError(c) \/ SendInterrupted(c)
    <3>1. thread'[c] = "unlock" /\ thread_state'[c] = "ClosedConnection"
      BY <2>5 DEF WriteFails, ReadFails, SendError, SendInterrupted, Fail
    <3>. QED
      BY <3>1
  <2>6. CASE read_from_file(c)
    <3>1. PICK n \in 1..ReadMax :
            /\ f_pos[c] + n <= Len(file)
            /\ send_buffer' = [send_buffer EXCEPT ![c] = SubSeq(file, f_pos[c] + 1, f_pos[c] + n)]
      BY <2>6 DEF read_from_file
    <3>2. file \in Seq(Write) /\ f_pos[c] \in Nat
      BY DEF FileTypes
    <3>3. Len(SubSeq(file, f_pos[c] + 1, f_pos[c] + n)) = n /\ n # 0
      <4> HIDE <2>0 DEF ThreadTypes
      <4>1. n \in Nat /\ n # 0
        BY Bounds
      <4>. QED
        BY <3>1, <3>2, <4>1, Slice
    <3>4. send_buffer'[c] # <<>> /\ thread'[c] = "send"
      <4>1. Len(<<>>) = 0
        OBVIOUS
      <4>2. SubSeq(file, f_pos[c] + 1, f_pos[c] + n) # <<>>
        BY <3>3, <4>1, Zenon
      <4>. QED
        BY <2>6, <3>1, <4>2 DEF read_from_file
    <3>. QED
      BY <3>4
  <2>7. ASSUME NEW n \in 1..Len(send_buffer[c]), Sent(c, n)
        PROVE  P(thread'[c], thread_state'[c], send_buffer'[c])
    <3> DEFINE b == send_buffer[c]
               r == SubSeq(b, n + 1, Len(b))
    <3>1. b \in Seq(Write) /\ n \in 0..Len(b) /\ Len(b) \in Nat
      OBVIOUS
    <3>2. r \in Seq(Write) /\ Len(r) = Len(b) - n
      BY <3>1, Cut
    <3>3. r = <<>> <=> n = Len(b)
      <4> HIDE <2>0 DEF ThreadTypes, r, b
      <4>1. Len(r) = 0 <=> n = Len(b)
        BY <3>1, <3>2
      <4>2. r = <<>> <=> Len(r) = 0
        BY <3>2, EmptySeq
      <4>. QED
        BY <4>1, <4>2
    <3>4. send_buffer'[c] = r /\ thread'[c] = IF n = Len(b) THEN "read" ELSE "send"
      BY <2>7 DEF Sent
    <3>. QED
      BY <3>3, <3>4
  <2>8. CASE send(c)
    BY <2>7, <2>8 DEF send
  <2>9. CASE SendToClosed(c)
    <3>1. send_buffer[c] # <<>> /\ send_buffer[c] \in Seq(Write)
      BY <1>0, <2>9 DEF SendToClosed
    <3>2. Len(send_buffer[c]) \in 1..Len(send_buffer[c])
      BY <3>1
    <3>. QED
      BY <2>7, <2>9, <3>2 DEF SendToClosed
  <2>10. CASE SendKills(c)
    BY <1>0, <2>10 DEF SendKills, threadvars
  <2>11. CASE SendUnlock(c)
    BY <1>0, <2>11 DEF SendUnlock
  <2>. QED
    BY <1>2, <2>1, <2>2, <2>3, <2>4, <2>5, <2>6, <2>8, <2>9, <2>10, <2>11
    DEF ThreadStep, Interrupted
<1>. QED
  BY <1>1, <1>2

(* Temp file build: the file is the mutex holder's alone.                  *)
LEMMA FileHeld ==
  ASSUME IInv, [Next]_vars, ~USE_AESD_CHAR_DEVICE, NEW d \in Conn,
         thread[d] \in {"write", "read", "send", "unlock"}, ~(ThreadStep(d) \/ Interrupted(d))
  PROVE  UNCHANGED file
<1>1. file_mutex = d
  BY DEF IInv, MutexDiscipline
<1>2. ~write_time_stamp
  BY <1>1, SocketAssumption DEF IInv, MutexDiscipline, write_time_stamp
<1>3. ASSUME NEW c \in Conn, write_to_file(c) \/ WriteFails(c) PROVE FALSE
  <2>1. c = d
    BY <1>1, <1>3 DEF IInv, MutexDiscipline, write_to_file, WriteFails, At
  <2>. QED
    BY <1>3, <2>1 DEF ThreadStep
<1>4. ~shutting_down
  <2> SUFFICES ASSUME shutting_down PROVE FALSE
    OBVIOUS
  <2>1. linked_list \in ListType /\ IsList(linked_list) /\ linked_list.slh_first = NoOne
        /\ main_pc = "shutdown"
    BY TypeParts DEF IInv, LoopTypes, ListShape, MainPlace, shutting_down
  <2>2. Linked(linked_list) = {}
    BY <2>1, EmptyList
  <2>. QED
    BY <2>1, <2>2 DEF IInv, FdDiscipline
<1>. QED
  BY <1>2, <1>3, <1>4, FileChange

(* A reply stays the file up to the reader's position.                     *)
LEMMA ReplySoFarStep ==
  ASSUME IInv, ThreadPlace, PacketInBuffer, SendBufferPlace, ReplySoFar, [Next]_vars
  PROVE  ReplySoFar'
<1> DEFINE P(c) == /\ f_pos[c] <= Len(file)
                   /\ reply[c] \o send_buffer[c] = SubSeq(file, 1, f_pos[c])
                   /\ file # <<>> /\ Last(file).by = c /\ Packet(Last(file).data)
                   /\ thread[c] = "unlock" => reply[c] = file
<1> SUFFICES ASSUME ~USE_AESD_CHAR_DEVICE, NEW c \in Conn, Replying(c)' PROVE P(c)'
  BY DEF ReplySoFar
<1>0. Replying(c) => P(c)
  BY DEF ReplySoFar
<1>1. CASE ~(ThreadStep(c) \/ Interrupted(c))
  <2>1. /\ thread'[c] = thread[c] \/ (thread[c] = "none" /\ thread'[c] = "top")
        /\ UNCHANGED <<thread_state[c], f_pos[c], send_buffer[c], reply[c]>>
    BY <1>1, OwnFrame
  <2>2. Replying(c) /\ UNCHANGED thread[c]
    BY <2>1 DEF Replying
  <2>3. UNCHANGED file
    BY <1>1, <2>2, FileHeld DEF Replying
  <2>. QED
    BY <1>0, <2>1, <2>2, <2>3
<1>2. CASE ThreadStep(c) \/ Interrupted(c)
  <2> USE DEF status, replyvars, filevars, At, Goto, GiveUp, SetState, SendFails
  <2>0. ThreadTypes /\ FileTypes
    BY TypeParts DEF IInv
  <2>1. /\ rb[c] \in Seq(Item) /\ file \in Seq(Write) /\ send_buffer[c] \in Seq(Write)
        /\ reply[c] \in Seq(Write) /\ f_pos[c] \in Nat
    BY <2>0 DEF ThreadTypes, FileTypes
  <2>2. CASE main_loop_thread(c) \/ thread_cleanup(c) \/ SendLock(c) \/ SendUnlock(c)
    BY <2>0, <2>2 DEF main_loop_thread, thread_cleanup, SendLock, SendUnlock, Dest, Replying,
       ThreadTypes
  <2>3. CASE waiting_for_data(c) \/ GrowFails(c) \/ RecvEnds(c) \/ RecvReset(c) \/ RecvInterrupted(c)
             \/ process_received_data(c)
    <3>1. thread'[c] = "top"
      BY <2>0, <2>3 DEF waiting_for_data, GrowFails, Received, RecvEnds, RecvReset, RecvInterrupted,
         process_received_data, ThreadTypes
    <3>. QED
      BY <3>1 DEF Replying
  <2>4. CASE WriteFails(c) \/ ReadFails(c) \/ SendError(c) \/ SendInterrupted(c)
    <3>1. thread'[c] = "unlock" /\ thread_state'[c] = "ClosedConnection"
      BY <2>0, <2>4 DEF WriteFails, ReadFails, SendError, SendInterrupted, Fail, ThreadTypes
    <3>. QED
      BY <3>1 DEF Replying
  <2>5. CASE SendKills(c)
    <3>1. UNCHANGED <<thread, thread_state, f_pos, reply, send_buffer, file>>
      BY <2>5 DEF SendKills, threadvars
    <3>. QED
      BY <1>0, <3>1 DEF Replying
  <2>6. CASE write_to_file(c)
    <3> DEFINE w == [by |-> c, data |-> rb[c]]
    <3>1. thread[c] = "write" /\ Packet(rb[c]) /\ send_buffer[c] = <<>>
      BY <2>6 DEF write_to_file, ThreadPlace, PacketInBuffer, SendBufferPlace
    <3>2. w \in Write /\ w.by = c /\ w.data = rb[c]
      BY <2>1 DEF Write
    <3>3. file' = Append(file, w)
      BY <2>1, <2>6, <3>2, StoredElements DEF write_to_file
    <3>4. f_pos'[c] = 0 /\ reply'[c] = <<>> /\ send_buffer'[c] = <<>> /\ thread'[c] = "read"
      BY <2>0, <2>6, <3>1 DEF write_to_file, PosAfterSeek, ThreadTypes
    <3> HIDE DEF w
    <3>5. /\ file' \in Seq(Write) /\ file' # <<>> /\ Len(file') = Len(file) + 1
          /\ file'[Len(file) + 1] = w
      BY <2>1, <3>2, <3>3, AppendProperties
    <3>6. Last(file') = w
      BY <3>5 DEF Last
    <3>7. SubSeq(file', 1, 0) = <<>> /\ <<>> \o <<>> = <<>>
      BY SubSeqEmpty
    <3>8. 0 <= Len(file')
      BY <2>1, <3>5
    <3>. QED
      BY <3>1, <3>2, <3>4, <3>5, <3>6, <3>7, <3>8
  <2>7. CASE read_from_file(c)
    <3>1. PICK n \in 1..ReadMax :
            /\ f_pos[c] + n <= Len(file)
            /\ send_buffer' = [send_buffer EXCEPT ![c] = SubSeq(file, f_pos[c] + 1, f_pos[c] + n)]
            /\ f_pos' = [f_pos EXCEPT ![c] = PosAfterRead(c, n)]
      BY <2>7 DEF read_from_file
    <3>2. n \in Nat
      BY Bounds
    <3>3. Replying(c) /\ send_buffer[c] = <<>>
      BY <2>7 DEF read_from_file, Replying, SendBufferPlace
    <3>4. reply[c] = SubSeq(file, 1, f_pos[c])
      <4>1. reply[c] \o <<>> = reply[c]
        BY <2>1, ConcatEmptySeq
      <4>. QED
        BY <1>0, <3>3, <4>1
    <3>5. /\ send_buffer'[c] = SubSeq(file, f_pos[c] + 1, f_pos[c] + n)
          /\ f_pos'[c] = f_pos[c] + n /\ thread'[c] = "send" /\ UNCHANGED <<file, reply>>
      BY <2>0, <2>7, <3>1 DEF read_from_file, PosAfterRead, ThreadTypes
    <3>6. SubSeq(file, 1, f_pos[c]) \o SubSeq(file, f_pos[c] + 1, f_pos[c] + n)
            = SubSeq(file, 1, f_pos[c] + n)
      <4>1. file \in Seq(Write) /\ f_pos[c] \in Nat /\ n \in Nat /\ f_pos[c] + n <= Len(file)
        BY <2>1, <3>1, <3>2
      <4>. QED
        BY <4>1, Adjacent
    <3>7. reply'[c] \o send_buffer'[c] = SubSeq(file', 1, f_pos'[c])
      BY <3>4, <3>5, <3>6
    <3>8. f_pos'[c] <= Len(file')
      BY <3>1, <3>5
    <3>. QED
      BY <1>0, <3>3, <3>5, <3>7, <3>8
  <2>8. CASE ReadEnds(c)
    <3>1. Replying(c) /\ send_buffer[c] = <<>>
      BY <2>8 DEF ReadEnds, Replying, SendBufferPlace
    <3>2. f_pos[c] = Len(file)
      BY <1>0, <2>1, <2>8, <3>1 DEF ReadEnds, AtEnd
    <3>3. reply[c] \o <<>> = reply[c] /\ SubSeq(file, 1, Len(file)) = file
      BY <2>1, ConcatEmptySeq, SubSeqFull
    <3>4. reply[c] = file
      BY <1>0, <3>1, <3>2, <3>3
    <3>5. UNCHANGED <<file, reply, send_buffer, f_pos>>
      BY <2>8 DEF ReadEnds
    <3>. QED
      BY <1>0, <3>1, <3>4, <3>5
  <2>9. ASSUME NEW n \in 1..Len(send_buffer[c]), Sent(c, n), thread[c] = "send" PROVE P(c)'
    <3> DEFINE b == send_buffer[c]
               f == SubSeq(b, 1, n)
               r == SubSeq(b, n + 1, Len(b))
    <3>1. b \in Seq(Write) /\ n \in 0..Len(b)
      BY <2>1
    <3>2. f \in Seq(Write) /\ r \in Seq(Write) /\ f \o r = b
      BY <3>1, Cut
    <3>3. /\ reply'[c] = reply[c] \o f /\ send_buffer'[c] = r /\ UNCHANGED <<file, f_pos>>
          /\ thread'[c] # "unlock"
      BY <2>0, <2>9 DEF Sent, ThreadTypes
    <3> HIDE DEF f, r
    <3>4. (reply[c] \o f) \o r = reply[c] \o b
      <4>1. reply[c] \in Seq(Write) /\ f \in Seq(Write) /\ r \in Seq(Write)
        BY <2>1, <3>2
      <4>2. (reply[c] \o f) \o r = reply[c] \o (f \o r)
        BY <4>1, WritesAssociate, Zenon
      <4>. QED
        BY <3>2, <4>2
    <3>5. Replying(c)
      BY <2>9 DEF Replying
    <3>. QED
      BY <1>0, <3>3, <3>4, <3>5
  <2>10. CASE send(c)
    BY <2>9, <2>10 DEF send
  <2>11. CASE SendToClosed(c)
    <3>1. send_buffer[c] # <<>> /\ thread[c] = "send"
      BY <2>11 DEF SendToClosed, SendBufferPlace
    <3>2. Len(send_buffer[c]) \in 1..Len(send_buffer[c])
      BY <2>1, <3>1
    <3>. QED
      BY <2>9, <2>11, <3>1, <3>2 DEF SendToClosed
  <2>. QED
    BY <1>2, <2>2, <2>3, <2>4, <2>5, <2>6, <2>7, <2>8, <2>10, <2>11 DEF ThreadStep, Interrupted
<1>. QED
  BY <1>1, <1>2

-----------------------------------------------------------------------------
(* The server starts with empty buffers and with writes of an earlier run. *)
LEMMA InitDInv == Init => DInv
<1> SUFFICES ASSUME Init PROVE DInv
  OBVIOUS
<1>1. IInv
  BY InitIInv
<1> USE DEF Init
<1>2. ThreadPlace
  <2>1. \A c \in Conn : thread[c] = "none" /\ thread_state[c] = "WaitingForData"
    OBVIOUS
  <2>2. \A c \in Conn : ~failed[c]
    BY Zenon
  <2>. QED
    BY <2>1, <2>2 DEF ThreadPlace
<1>3. BufferRoom
  <2>1. \A c \in Conn : rb[c] = <<>> /\ rb_new[c] = <<>> /\ allocated[c] = 0 /\ room[c] = 0
    OBVIOUS
  <2>2. Len(<<>>) = 0
    OBVIOUS
  <2>. QED
    BY <2>1, <2>2 DEF BufferRoom
<1>4. PacketInBuffer
  BY DEF PacketInBuffer, Piece
<1>5. FileOfPackets
  <2>1. OldWrites \in Nat /\ NoOne \notin Conn
    BY SocketAssumption
  <2>2. Len(file) = OldWrites
    BY <2>1
  <2>3. \A i \in 1..OldWrites : file[i].by = NoOne
    OBVIOUS
  <2>. QED
    BY <2>1, <2>2, <2>3 DEF FileOfPackets
<1>6. SendBufferPlace
  BY DEF SendBufferPlace
<1>7. ReplySoFar
  BY DEF ReplySoFar, Replying
<1>. QED
  BY <1>1, <1>2, <1>3, <1>4, <1>5, <1>6, <1>7 DEF DInv

(* What the threads hold, have written and have sent is as DInv says, in   *)
(* every reachable state, for any number of clients and any sizes.         *)
THEOREM SocketDataInvariance == Spec => []DInv
<1>1. DInv /\ [Next]_vars => DInv'
  <2> SUFFICES ASSUME DInv, [Next]_vars PROVE DInv'
    OBVIOUS
  <2>1. IInv'
    BY TypeStep, ListStep, PlaceStep, FdStep, MutexStep, UnusedStep, LateStep DEF DInv, IInv
  <2>2. ThreadPlace' /\ BufferRoom' /\ PacketInBuffer'
    BY ThreadPlaceStep, BufferRoomStep, PacketInBufferStep DEF DInv
  <2>3. FileOfPackets' /\ SendBufferPlace' /\ ReplySoFar'
    BY FileOfPacketsStep, SendBufferStep, ReplySoFarStep DEF DInv
  <2>. QED
    BY <2>1, <2>2, <2>3 DEF DInv
<1>. QED
  BY <1>1, InitDInv, PTL DEF Spec

(* No copy of process_received_data overruns the receive buffer, however   *)
(* the packets are cut by recv and whichever realloc fails.                *)
THEOREM BufferNeverOverrun == Spec => []BufferBound
<1>1. DInv => BufferBound
  BY DEF DInv, BufferRoom, BufferBound
<1>. QED
  BY <1>1, SocketDataInvariance, PTL

(* Every write of a thread holds exactly one newline, its last byte, or is *)
(* what a failed write left of such a packet.                              *)
THEOREM WritesArePackets == Spec => []OnePacketPerWrite
<1>1. DInv => OnePacketPerWrite
  <2> SUFFICES ASSUME DInv, NEW i \in 1..Len(file), file[i].by \in Conn,
                      NEW j \in 1..Len(file[i].data)
               PROVE  /\ j < Len(file[i].data) => ~file[i].data[j].end
                      /\ j = Len(file[i].data) =>
                           file[i].data[j].end \/ thread_state[file[i].by] = "ClosedConnection"
    BY DEF OnePacketPerWrite
  <2>1. file[i].data \in Seq(Item)
    <3>1. file \in Seq(Write)
      BY TypeParts DEF DInv, IInv, FileTypes
    <3>2. file[i] \in Write
      BY <3>1
    <3>. QED
      BY <3>2 DEF Write
  <2>2. \/ Packet(file[i].data)
        \/ Piece(file[i].data) /\ thread_state[file[i].by] = "ClosedConnection"
    BY DEF DInv, FileOfPackets
  <2>3. j < Len(file[i].data) => j # Len(file[i].data)
    BY <2>1
  <2>. QED
    BY <2>2, <2>3 DEF Packet, Piece
<1>. QED
  BY <1>1, SocketDataInvariance, PTL

(* Temp file build: what a client is sent back is the whole file, in order *)
(* and ending with its own packet, with any number of clients at work.     *)
THEOREM RepliesAreTheFile == Spec => []ReplyIsFile
<1>1. DInv => ReplyIsFile
  <2> SUFFICES ASSUME DInv, ~USE_AESD_CHAR_DEVICE, NEW c \in Conn, Replying(c)
               PROVE  /\ reply[c] \o send_buffer[c] = SubSeq(file, 1, f_pos[c])
                      /\ file # <<>> /\ Last(file).by = c /\ Last(Last(file).data).end
                      /\ thread[c] = "unlock" => reply[c] = file
    BY DEF ReplyIsFile, Replying
  <2>1. /\ reply[c] \o send_buffer[c] = SubSeq(file, 1, f_pos[c])
        /\ file # <<>> /\ Last(file).by = c /\ Packet(Last(file).data)
        /\ thread[c] = "unlock" => reply[c] = file
    BY DEF DInv, ReplySoFar
  <2>2. Last(file).data \in Seq(Item)
    <3>1. file \in Seq(Write)
      BY TypeParts DEF DInv, IInv, FileTypes
    <3>2. Last(file) \in Write
      BY <2>1, <3>1 DEF Last
    <3>. QED
      BY <3>2 DEF Write
  <2> DEFINE d == Last(file).data
  <2>3. d # <<>> /\ \A i \in 1..Len(d) : d[i].end <=> i = Len(d)
    BY <2>1 DEF Packet
  <2> HIDE DEF d
  <2>4. Last(d).end
    <3>1. Len(d) \in 1..Len(d)
      BY <2>2, <2>3 DEF d
    <3>. QED
      BY <2>3, <3>1 DEF Last
  <2>. QED
    BY <2>1, <2>4 DEF d
<1>. QED
  BY <1>1, SocketDataInvariance, PTL

-----------------------------------------------------------------------------
(* The temp file build implements EchoService.                             *)

(* What EchoService sees of a state in which nobody, or c, is answered.    *)
LEMMA EchoState ==
  /\ Answering = {} => Answered = NoOne
  /\ \A c \in Conn : Answering = {c} => Answered = c
BY DEF Answered

(* The same of the state after a step.                                     *)
LEMMA EchoStateAfter ==
  /\ Answering' = {} => Answered' = NoOne
  /\ \A c \in Conn : Answering' = {c} => Answered' = c
BY DEF Answered

(* A step that leaves file, answer and failures alone is not seen.         *)
LEMMA EchoStutter ==
  ASSUME UNCHANGED <<file, failed>>, Answering' = Answering,
         Answering = {} \/ \E c \in Conn : Answering = {c} /\ reply'[c] = reply[c]
  PROVE  UNCHANGED Echo!vars
BY EchoState, EchoStateAfter DEF Echo!vars

(* Another write in the file is EchoService's Stored.                      *)
LEMMA EchoStored ==
  ASSUME file \in Seq(Write), NEW w \in Write, file' = Append(file, w)
  PROVE  Echo!Stored(w.by)
<1>1. /\ file' \in Seq(Write) /\ Len(file') = Len(file) + 1 /\ Len(file) \in Nat
      /\ \A i \in 1..Len(file) : file'[i] = file[i]
      /\ file'[Len(file) + 1] = w
  BY AppendProperties
<1>2. SubSeq(file', 1, Len(file)) = file
  <2>1. Len(file) \in 0..Len(file')
    BY <1>1
  <2>2. /\ SubSeq(file', 1, Len(file)) \in Seq(Write)
        /\ Len(SubSeq(file', 1, Len(file))) = Len(file)
        /\ \A i \in 1..Len(file) : SubSeq(file', 1, Len(file))[i] = file'[i]
    BY <1>1, <2>1, Cut
  <2>. QED
    BY <1>1, <2>2, SeqEqual
<1>. QED
  BY <1>1, <1>2 DEF Echo!Stored

(* When x and y together are the start of s, their lengths add up.         *)
LEMMA StartLen ==
  ASSUME NEW S, NEW s \in Seq(S), NEW x \in Seq(S), NEW y \in Seq(S), NEW p \in 0..Len(s),
         x \o y = SubSeq(s, 1, p)
  PROVE  Len(x) + Len(y) = p
<1>1. Len(x \o y) = Len(x) + Len(y)
  BY ConcatProperties
<1>2. Len(SubSeq(s, 1, p)) = p
  BY Cut
<1>. QED
  BY <1>1, <1>2

(* When x and y together are the start of s, so is x with the start of y.  *)
LEMMA StartOf ==
  \A s, x, y \in Seq(Write) : \A p \in 0..Len(s) : \A n \in 0..Len(y) :
    x \o y = SubSeq(s, 1, p) => x \o SubSeq(y, 1, n) = SubSeq(s, 1, Len(x) + n)
<1> SUFFICES ASSUME NEW s \in Seq(Write), NEW x \in Seq(Write), NEW y \in Seq(Write),
                    NEW p \in 0..Len(s), NEW n \in 0..Len(y), x \o y = SubSeq(s, 1, p)
             PROVE  x \o SubSeq(y, 1, n) = SubSeq(s, 1, Len(x) + n)
  OBVIOUS
<1> DEFINE f == SubSeq(y, 1, n)
           g == SubSeq(s, 1, Len(x) + n)
           q == SubSeq(s, 1, p)
<1>0. Len(x) \in Nat /\ Len(y) \in Nat /\ Len(s) \in Nat /\ n \in Nat /\ p \in Nat
  OBVIOUS
<1>1. /\ Len(x \o y) = Len(x) + Len(y)
      /\ \A i \in 1..Len(x) + Len(y) : (x \o y)[i] = IF i <= Len(x) THEN x[i] ELSE y[i - Len(x)]
  BY ConcatProperties
<1>2. Len(q) = p /\ \A i \in 1..p : q[i] = s[i]
  BY Cut
<1>3. f \in Seq(Write) /\ Len(f) = n /\ \A i \in 1..n : f[i] = y[i]
  BY Cut
<1>4. x \o y = q
  OBVIOUS
<1> HIDE DEF f, g, q
<1>5. Len(x) + Len(y) = p /\ Len(x) + n \in 0..Len(s)
  BY <1>0, <1>1, <1>2, <1>4
<1>6. g \in Seq(Write) /\ Len(g) = Len(x) + n /\ \A i \in 1..Len(x) + n : g[i] = s[i]
  BY <1>5, Cut DEF g
<1>7. /\ x \o f \in Seq(Write) /\ Len(x \o f) = Len(x) + n
      /\ \A i \in 1..Len(x) + n : (x \o f)[i] = IF i <= Len(x) THEN x[i] ELSE f[i - Len(x)]
  BY <1>3, ConcatProperties
<1>8. ASSUME NEW i \in 1..Len(x) + n PROVE (x \o f)[i] = g[i]
  <2>1. i \in 1..Len(x) + Len(y) /\ i \in 1..p
    BY <1>0, <1>5
  <2>2. ~(i <= Len(x)) => i - Len(x) \in 1..n
    BY <1>0
  <2>3. g[i] = (x \o y)[i]
    BY <1>2, <1>4, <1>6, <2>1
  <2>. QED
    BY <1>1, <1>3, <1>7, <2>1, <2>2, <2>3
<1>9. x \o f = g
  BY <1>6, <1>7, <1>8, SeqEqual
<1>. QED
  BY <1>9 DEF f, g

(* At most one connection is being answered, and it holds the mutex.       *)
LEMMA OneAnswered ==
  ASSUME DInv, ~USE_AESD_CHAR_DEVICE
  PROVE  /\ Answering = {} \/ \E c \in Conn : Answering = {c}
         /\ \A c \in Conn : thread[c] \in {"read", "send"} => Answering = {c}
         /\ \A c \in Conn : thread[c] \in {"write", "unlock"} => Answering = {}
         /\ file_mutex \notin Conn => Answering = {}
<1>1. \A d \in Conn : file_mutex = d <=> thread[d] \in {"write", "read", "send", "unlock"}
  BY DEF DInv, IInv, MutexDiscipline
<1>. QED
  BY <1>1 DEF Answering

(* The steps that no thread takes: a timestamp, the removal of the file,   *)
(* or nothing that EchoService sees.                                       *)
LEMMA EchoOutside ==
  ASSUME DInv, DInv', [Next]_vars, ~USE_AESD_CHAR_DEVICE,
         \A d \in Conn : ~(ThreadStep(d) \/ Interrupted(d))
  PROVE  [Echo!Next]_(Echo!vars)
<1>0. IInv /\ file \in Seq(Write) /\ failed \in [Conn -> BOOLEAN] /\ failed' \in [Conn -> BOOLEAN]
  BY DEF DInv, IInv, TypeOK
<1>1. \A d \in Conn : /\ thread'[d] = thread[d] \/ (thread[d] = "none" /\ thread'[d] = "top")
                      /\ reply'[d] = reply[d] /\ (failed'[d] <=> failed[d])
  BY <1>0, OwnFrame
<1>2. Answering' = Answering
  BY <1>1 DEF Answering
<1>3. UNCHANGED failed
  <2>1. \A d \in Conn : failed'[d] = failed[d]
    BY <1>0, <1>1, Zenon
  <2>. QED
    BY <1>0, <2>1
<1>4. Answering = {} \/ \E c \in Conn : Answering = {c} /\ reply'[c] = reply[c]
  BY <1>1, OneAnswered
<1>5. CASE UNCHANGED file
  BY <1>2, <1>3, <1>4, <1>5, EchoStutter
<1>6. CASE file' # file /\ file' = <<>>
  <2>1. \A c \in Conn : thread[c] \notin {"read", "send"}
    BY <1>0, <1>6, FileHeld
  <2>2. Answering = {}
    BY <2>1 DEF Answering
  <2>3. Echo!Remove
    BY <1>2, <1>3, <1>6, <2>2, EchoState, EchoStateAfter DEF Echo!Remove, Echo!Idle
  <2>. QED
    BY <2>3 DEF Echo!Next
<1>7. CASE write_time_stamp /\ file' = Append(file, Stamp)
  <2>1. Answering = {}
    BY <1>0, <1>7, OneAnswered, SocketAssumption DEF write_time_stamp, IInv, MutexDiscipline
  <2>2. Stamp \in Write /\ Stamp.by = Main
    BY DEF Stamp, Write
  <2>3. Echo!Stored(Main)
    BY <1>0, <1>7, <2>2, EchoStored
  <2>4. Echo!Timestamp
    BY <1>2, <1>3, <2>1, <2>3, EchoState, EchoStateAfter DEF Echo!Timestamp, Echo!Idle
  <2>. QED
    BY <2>4 DEF Echo!Next
<1>8. ~(\E c \in Conn : write_to_file(c) \/ WriteFails(c))
  BY DEF ThreadStep
<1>. QED
  BY <1>5, <1>6, <1>7, <1>8, FileChange

(* The same of the state after a step.                                     *)
LEMMA OneAnsweredAfter ==
  ASSUME DInv', ~USE_AESD_CHAR_DEVICE
  PROVE  /\ Answering' = {} \/ \E c \in Conn : Answering' = {c}
         /\ \A c \in Conn : thread'[c] \in {"read", "send"} => Answering' = {c}
         /\ \A c \in Conn : thread'[c] \in {"write", "unlock"} => Answering' = {}
<1>1. \A d \in Conn : file_mutex' = d <=> thread'[d] \in {"write", "read", "send", "unlock"}
  BY DEF DInv, IInv, MutexDiscipline
<1>. QED
  BY <1>1 DEF Answering

(* A step of c's thread outside an answer to c: EchoService sees nothing   *)
(* of it but a failure.                                                    *)
LEMMA EchoAside ==
  ASSUME DInv, NEW c \in Conn, ThreadStep(c) \/ Interrupted(c), ~USE_AESD_CHAR_DEVICE,
         thread[c] \notin {"read", "send"}, thread'[c] \notin {"read", "send"}
  PROVE  /\ Answering' = Answering /\ Answered' = Answered /\ Answered # c
         /\ UNCHANGED (IF Answering = {} THEN <<>> ELSE reply[Answered])
         /\ UNCHANGED <<file, failed>> => UNCHANGED Echo!vars
<1>0. TypeOK
  BY DEF DInv, IInv
<1>1. \A d \in Conn : d # c => thread'[d] = thread[d] /\ reply'[d] = reply[d]
  BY <1>0, OthersAlone
<1>2. Answering' = Answering
  BY <1>1 DEF Answering
<1>3. Answering = {} \/ \E d \in Conn : Answering = {d} /\ d # c /\ reply'[d] = reply[d]
  <2>1. c \notin Answering
    BY DEF Answering
  <2>. QED
    BY <1>1, <2>1, OneAnswered
<1>4. NoOne # c
  BY SocketAssumption
<1>. QED
  BY <1>2, <1>3, <1>4, EchoState, EchoStateAfter, EchoStutter

(* A call for c fails between two answers.                                 *)
LEMMA EchoCloses ==
  ASSUME DInv, NEW c \in Conn, ThreadStep(c) \/ Interrupted(c), ~USE_AESD_CHAR_DEVICE,
         thread[c] \in {"recv", "write"}, thread'[c] \in {"top", "unlock"},
         failed' = [failed EXCEPT ![c] = TRUE],
         UNCHANGED file \/ (thread[c] = "write" /\ Echo!Stored(c))
  PROVE  Echo!Close(c)
<1>1. ~failed[c]
  BY DEF DInv, ThreadPlace
<1>2. /\ Answered' = Answered /\ Answered # c
      /\ UNCHANGED (IF Answering = {} THEN <<>> ELSE reply[Answered])
  BY EchoAside
<1>3. thread[c] = "write" => Answered = NoOne
  BY OneAnswered, EchoState
<1>. QED
  BY <1>1, <1>2, <1>3, Zenon DEF Echo!Close

(* A call fails in the middle of an answer.                                *)
LEMMA EchoBreaksOff ==
  ASSUME DInv, DInv', NEW c \in Conn, ~USE_AESD_CHAR_DEVICE,
         thread[c] \in {"read", "send"}, thread'[c] = "unlock",
         failed' = [failed EXCEPT ![c] = TRUE], UNCHANGED file
  PROVE  Echo!BreakOff(c)
<1>1. Answering = {c} /\ Answering' = {}
  BY OneAnswered, OneAnsweredAfter
<1>2. Answered = c /\ Answered' = NoOne
  BY <1>1, EchoState, EchoStateAfter
<1>. QED
  BY <1>1, <1>2 DEF Echo!BreakOff

(* n more writes of the file are sent to c.                                *)
LEMMA EchoAnswers ==
  ASSUME DInv, DInv', NEW c \in Conn, ~USE_AESD_CHAR_DEVICE, thread[c] = "send",
         NEW n \in 1..Len(send_buffer[c]), Sent(c, n)
  PROVE  Echo!Answer
<1> DEFINE b == send_buffer[c]
           f == SubSeq(b, 1, n)
           r == SubSeq(b, n + 1, Len(b))
           k == Len(reply[c]) + n
<1>0. ThreadTypes /\ file \in Seq(Write)
  BY TypeParts DEF DInv, IInv, FileTypes
<1>1. b \in Seq(Write) /\ reply[c] \in Seq(Write) /\ f_pos[c] \in Nat
  BY <1>0 DEF ThreadTypes
<1>2. /\ f_pos[c] <= Len(file)
      /\ reply[c] \o b = SubSeq(file, 1, f_pos[c])
  BY DEF DInv, ReplySoFar, Replying
<1>3. thread'[c] \in {"read", "send"} /\ reply'[c] = reply[c] \o f /\ UNCHANGED <<file, failed>>
  BY <1>0 DEF Sent, Goto, status, filevars, ThreadTypes
<1>4. Answering = {c} /\ Answering' = {c} /\ Answered = c /\ Answered' = c
  BY <1>3, OneAnswered, OneAnsweredAfter, EchoState, EchoStateAfter
<1>5. reply[c] \o f = SubSeq(file, 1, k) /\ n \in 1..Len(file) - Len(reply[c])
  <2>1. f_pos[c] \in 0..Len(file) /\ n \in 0..Len(b)
    BY <1>0, <1>1, <1>2
  <2>2. file \in Seq(Write) /\ b \in Seq(Write) /\ reply[c] \in Seq(Write)
    BY <1>0, <1>1
  <2>3. Len(b) \in Nat /\ Len(reply[c]) \in Nat /\ Len(file) \in Nat /\ n \in 1..Len(b)
    BY <1>0, <1>1
  <2>4. Len(reply[c]) + Len(b) = f_pos[c]
    <3>1. \A s, x, y \in Seq(Write) : \A p \in 0..Len(s) :
            x \o y = SubSeq(s, 1, p) => Len(x) + Len(y) = p
      BY StartLen
    <3>. QED
      BY <1>2, <2>1, <2>2, <3>1, Zenon
  <2>5. reply[c] \o f = SubSeq(file, 1, k)
    BY <1>2, <2>1, <2>2, StartOf, Zenon
  <2> HIDE DEF b, f, k
  <2>6. n \in 1..Len(file) - Len(reply[c])
    BY <1>2, <2>1, <2>3, <2>4
  <2>. QED
    BY <2>5, <2>6
<1>6. c # NoOne
  BY SocketAssumption
<1>. QED
  BY <1>3, <1>4, <1>5, <1>6 DEF Echo!Answer

(* A step of c's thread is a step of EchoService, or not seen by it.       *)
LEMMA EchoThread ==
  ASSUME DInv, DInv', NEW c \in Conn, ThreadStep(c) \/ Interrupted(c), ~USE_AESD_CHAR_DEVICE
  PROVE  [Echo!Next]_(Echo!vars)
<1> USE DEF status, filevars, replyvars, At, Goto, SetState, GiveUp
<1>0. ThreadTypes /\ file \in Seq(Write)
  BY TypeParts DEF DInv, IInv, FileTypes
<1>1. ASSUME thread[c] \notin {"read", "send"}, thread'[c] \notin {"read", "send"},
             UNCHANGED <<file, failed>>
      PROVE  UNCHANGED Echo!vars
  BY <1>1, EchoAside
<1>2. CASE main_loop_thread(c) \/ thread_cleanup(c) \/ SendLock(c) \/ SendUnlock(c)
  <2>1. /\ thread[c] \in {"top", "lock", "unlock"} /\ UNCHANGED <<file, failed>>
        /\ thread'[c] \notin {"read", "send"}
    BY <1>0, <1>2 DEF main_loop_thread, thread_cleanup, SendLock, SendUnlock, Dest, ThreadTypes
  <2>. QED
    BY <1>1, <2>1
<1>3. CASE waiting_for_data(c) \/ RecvEnds(c) \/ process_received_data(c)
  <2>1. /\ thread[c] \in {"recv", "process"} /\ UNCHANGED <<file, failed>> /\ thread'[c] = "top"
    BY <1>0, <1>3 DEF waiting_for_data, Received, RecvEnds, process_received_data, ThreadTypes
  <2>. QED
    BY <1>1, <2>1
<1>4. CASE GrowFails(c) \/ RecvReset(c) \/ RecvInterrupted(c)
  <2>1. /\ thread[c] = "recv" /\ UNCHANGED file /\ thread'[c] = "top"
    BY <1>0, <1>4 DEF GrowFails, Received, RecvReset, RecvInterrupted, ThreadTypes
  <2>2. failed' = [failed EXCEPT ![c] = TRUE]
    BY <1>4, Zenon DEF GrowFails, RecvReset, RecvInterrupted, Fail
  <2>3. Echo!Close(c)
    BY <2>1, <2>2, EchoCloses
  <2>. QED
    BY <2>3 DEF Echo!Next
<1>5. CASE write_to_file(c)
  <2> DEFINE w == [by |-> c, data |-> rb[c]]
  <2>1. w \in Write /\ w.by = c
    BY <1>0 DEF Write, ThreadTypes
  <2>2. /\ thread[c] = "write" /\ file' = Append(file, w) /\ reply'[c] = <<>>
        /\ thread'[c] = "read" /\ UNCHANGED failed
    BY <1>0, <1>5, <2>1, StoredElements DEF write_to_file, ThreadTypes
  <2>3. Answering = {} /\ Answering' = {c} /\ Answered = NoOne /\ Answered' = c
    BY <2>2, OneAnswered, OneAnsweredAfter, EchoState, EchoStateAfter
  <2>4. ~failed[c]
    BY <2>2 DEF DInv, ThreadPlace
  <2>5. Echo!Stored(c)
    BY <1>0, <2>1, <2>2, EchoStored
  <2>6. Echo!Store(c)
    BY <2>2, <2>3, <2>4, <2>5 DEF Echo!Store
  <2>. QED
    BY <2>6 DEF Echo!Next
<1>6. CASE WriteFails(c)
  <2>1. thread[c] = "write" /\ thread'[c] = "unlock"
    BY <1>0, <1>6 DEF WriteFails, SendFails, ThreadTypes
  <2>2. failed' = [failed EXCEPT ![c] = TRUE]
    BY <1>6, Zenon DEF WriteFails, SendFails, Fail
  <2>3. ASSUME NEW n \in 1..Len(rb[c]) - 1,
               file' = Stored([by |-> c, data |-> SubSeq(rb[c], 1, n)])
        PROVE  Echo!Stored(c)
    <3> DEFINE w == [by |-> c, data |-> SubSeq(rb[c], 1, n)]
    <3>1. rb[c] \in Seq(Item) /\ n \in 0..Len(rb[c])
      BY <1>0 DEF ThreadTypes
    <3>2. SubSeq(rb[c], 1, n) \in Seq(Item)
      BY <3>1, Cut
    <3>3. w \in Write /\ w.by = c
      BY <3>2 DEF Write
    <3>4. file' = Append(file, w)
      BY <1>0, <2>3, <3>3, StoredElements
    <3> HIDE DEF w
    <3>. QED
      BY <1>0, <3>3, <3>4, EchoStored
  <2>4. UNCHANGED file \/ Echo!Stored(c)
    BY <1>6, <2>3 DEF WriteFails
  <2>5. Echo!Close(c)
    BY <2>1, <2>2, <2>4, EchoCloses
  <2>. QED
    BY <2>5 DEF Echo!Next
<1>7. CASE ReadFails(c) \/ SendError(c) \/ SendInterrupted(c)
  <2>1. thread[c] \in {"read", "send"} /\ thread'[c] = "unlock" /\ UNCHANGED file
    BY <1>0, <1>7 DEF ReadFails, SendError, SendInterrupted, SendFails, ThreadTypes
  <2>2. failed' = [failed EXCEPT ![c] = TRUE]
    BY <1>7, Zenon DEF ReadFails, SendError, SendInterrupted, SendFails, Fail
  <2>3. Echo!BreakOff(c)
    BY <2>1, <2>2, EchoBreaksOff
  <2>. QED
    BY <2>3 DEF Echo!Next
<1>8. CASE read_from_file(c) \/ SendKills(c)
  <2>1. /\ thread[c] \in {"read", "send"} /\ thread'[c] \in {"read", "send"}
        /\ UNCHANGED <<file, failed, reply>>
    BY <1>0, <1>8 DEF read_from_file, SendKills, threadvars, ThreadTypes
  <2>2. Answering = {c} /\ Answering' = {c}
    BY <2>1, OneAnswered, OneAnsweredAfter
  <2>. QED
    BY <2>1, <2>2, EchoStutter
<1>9. CASE ReadEnds(c)
  <2>1. thread[c] = "read" /\ thread'[c] = "unlock" /\ UNCHANGED <<file, failed, reply>>
        /\ UNCHANGED thread_state
    BY <1>0, <1>9 DEF ReadEnds, ThreadTypes
  <2>2. Answering = {c} /\ Answering' = {} /\ Answered = c /\ Answered' = NoOne
    BY <2>1, OneAnswered, OneAnsweredAfter, EchoState, EchoStateAfter
  <2>3. reply[c] = file
    BY <2>1 DEF DInv, ThreadPlace, ReplySoFar, Replying
  <2>4. Echo!Finish
    BY <2>1, <2>2, <2>3, SocketAssumption DEF Echo!Finish
  <2>. QED
    BY <2>4 DEF Echo!Next
<1>10. CASE send(c)
  <2>1. PICK n \in 1..Len(send_buffer[c]) : Sent(c, n)
    BY <1>10 DEF send
  <2>2. Echo!Answer
    BY <1>10, <2>1, EchoAnswers DEF send
  <2>. QED
    BY <2>2 DEF Echo!Next
<1>11. CASE SendToClosed(c)
  <2>1. send_buffer[c] \in Seq(Write) /\ send_buffer[c] # <<>> /\ thread[c] = "send"
    BY <1>0, <1>11 DEF SendToClosed, DInv, SendBufferPlace, ThreadTypes
  <2>2. Len(send_buffer[c]) \in 1..Len(send_buffer[c])
    BY <2>1
  <2>3. Echo!Answer
    BY <1>11, <2>1, <2>2, EchoAnswers DEF SendToClosed
  <2>. QED
    BY <2>3 DEF Echo!Next
<1>. QED
  BY <1>2, <1>3, <1>4, <1>5, <1>6, <1>7, <1>8, <1>9, <1>10, <1>11 DEF ThreadStep, Interrupted

(* In the temp file build the server is an echo service: any number of     *)
(* threads, whatever fails and however they interleave, store one packet   *)
(* at a time and answer it with the whole file before the next write.      *)
THEOREM ServerEchoes ==
  ASSUME ~USE_AESD_CHAR_DEVICE
  PROVE  Spec => ImplementsEcho
<1>1. Init => Echo!Init
  <2> SUFFICES ASSUME Init PROVE Echo!Init
    OBVIOUS
  <2>1. Answering = {} /\ Answered = NoOne
    BY EchoState DEF Init, Answering
  <2>2. \A i \in 1..Len(file) : file[i].by = NoOne
    <3>1. OldWrites \in Nat
      BY SocketAssumption
    <3>2. Len(file) = OldWrites
      BY <3>1 DEF Init
    <3>. QED
      BY <3>2 DEF Init
  <2>3. failed = [c \in Conn |-> FALSE]
    BY Zenon DEF Init
  <2>. QED
    BY <2>1, <2>2, <2>3 DEF Echo!Init
<1>2. DInv /\ DInv' /\ [Next]_vars => [Echo!Next]_(Echo!vars)
  <2> SUFFICES ASSUME DInv, DInv', [Next]_vars PROVE [Echo!Next]_(Echo!vars)
    OBVIOUS
  <2>1. CASE \A d \in Conn : ~(ThreadStep(d) \/ Interrupted(d))
    BY <2>1, EchoOutside
  <2>2. CASE \E d \in Conn : ThreadStep(d) \/ Interrupted(d)
    BY <2>2, EchoThread
  <2>. QED
    BY <2>1, <2>2
<1>. QED
  BY <1>1, <1>2, SocketDataInvariance, PTL DEF Spec, ImplementsEcho, Echo!Spec

-----------------------------------------------------------------------------
(* From the client's send to the file.                                     *)

(* A thread that waits for data has used what it received before.          *)
NothingNew == \A c \in Conn : thread_state[c] = "WaitingForData" => rb_new[c] = <<>>

(* What a client has sent: what is in the file, in the receive buffer, in  *)
(* the temporary one and in the socket.                                    *)
Stream(f, r, n, q) == f \o r \o n \o q

(* recv moves data from the socket to the empty temporary buffer.          *)
LEMMA StreamReceived ==
  ASSUME NEW f \in Seq(Item), NEW r \in Seq(Item), NEW a \in Seq(Item), NEW b \in Seq(Item)
  PROVE  Stream(f, r, <<>>, a \o b) = Stream(f, r, a, b)
<1> DEFINE x == f \o r
<1>1. x \in Seq(Item)
  BY ConcatProperties
<1> HIDE DEF x
<1>2. x \o <<>> = x
  BY <1>1, ConcatEmptySeq
<1>3. Assoc(x, a, b)
  BY <1>1, Associative
<1>. QED
  BY <1>2, <1>3, Zenon DEF x, Stream, Assoc

(* process_received_data moves a packet to the receive buffer.             *)
LEMMA StreamMoved ==
  ASSUME NEW f \in Seq(Item), NEW r \in Seq(Item), NEW q \in Seq(Item),
         NEW a \in Seq(Item), NEW b \in Seq(Item)
  PROVE  Stream(f, r \o a, b, q) = Stream(f, r, a \o b, q)
<1> DEFINE x == f \o r
<1>1. x \in Seq(Item)
  BY ConcatProperties
<1>2. Assoc(f, r, a)
  BY Associative
<1> HIDE DEF x
<1>3. Assoc(x, a, b)
  BY <1>1, Associative
<1>. QED
  BY <1>2, <1>3, Zenon DEF Stream, Assoc, x

(* write_to_file moves the receive buffer to the file.                     *)
LEMMA StreamWritten ==
  ASSUME NEW f \in Seq(Item), NEW r \in Seq(Item), NEW n \in Seq(Item), NEW q \in Seq(Item)
  PROVE  Stream(f \o r, <<>>, n, q) = Stream(f, r, n, q)
<1> DEFINE x == f \o r
<1>1. x \in Seq(Item)
  BY ConcatProperties
<1> HIDE DEF x
<1>2. x \o <<>> = x
  BY <1>1, ConcatEmptySeq
<1>. QED
  BY <1>2, Zenon DEF x, Stream

(* A sequence is a prefix of what begins with it.                          *)
LEMMA PrefixOf ==
  ASSUME NEW u \in Seq(Item), NEW v \in Seq(Item)
  PROVE  IsPrefix(u, u \o v)
<1> DEFINE w == u \o v
<1>1. /\ w \in Seq(Item) /\ Len(w) = Len(u) + Len(v)
      /\ \A i \in 1..Len(u) + Len(v) : w[i] = IF i <= Len(u) THEN u[i] ELSE v[i - Len(u)]
  BY ConcatProperties
<1>2. Len(u) \in Nat /\ Len(v) \in Nat
  OBVIOUS
<1> HIDE DEF w
<1>3. Len(u) \in 0..Len(w) /\ Len(u) \in 0..Len(u) /\ Len(u) <= Len(w)
  BY <1>1, <1>2
<1>4. /\ SubSeq(w, 1, Len(u)) \in Seq(Item) /\ Len(SubSeq(w, 1, Len(u))) = Len(u)
      /\ \A i \in 1..Len(u) : SubSeq(w, 1, Len(u))[i] = w[i]
  BY <1>1, <1>3, Cut
<1>5. /\ SubSeq(u, 1, Len(u)) \in Seq(Item) /\ Len(SubSeq(u, 1, Len(u))) = Len(u)
      /\ \A i \in 1..Len(u) : SubSeq(u, 1, Len(u))[i] = u[i]
  BY <1>3, Cut
<1>6. \A i \in 1..Len(u) : w[i] = u[i]
  BY <1>1, <1>2
<1>7. SubSeq(u, 1, Len(u)) = SubSeq(w, 1, Len(u))
  BY <1>4, <1>5, <1>6, SeqEqual
<1>. QED
  BY <1>3, <1>7 DEF IsPrefix, w

(* A prefix stays one when the sequence grows.                             *)
LEMMA PrefixGrows ==
  ASSUME NEW u \in Seq(Item), NEW s \in Seq(Item), NEW e \in Item, IsPrefix(u, s)
  PROVE  IsPrefix(u, Append(s, e))
<1> DEFINE t == Append(s, e)
<1>1. /\ t \in Seq(Item) /\ Len(t) = Len(s) + 1 /\ \A i \in 1..Len(s) : t[i] = s[i]
  BY AppendProperties
<1>2. Len(u) \in Nat /\ Len(s) \in Nat /\ Len(u) <= Len(s)
      /\ SubSeq(u, 1, Len(u)) = SubSeq(s, 1, Len(u))
  BY DEF IsPrefix
<1> HIDE DEF t
<1>3. Len(u) \in 0..Len(s) /\ Len(u) \in 0..Len(t) /\ Len(u) <= Len(t)
  BY <1>1, <1>2
<1>4. /\ SubSeq(s, 1, Len(u)) \in Seq(Item) /\ Len(SubSeq(s, 1, Len(u))) = Len(u)
      /\ \A i \in 1..Len(u) : SubSeq(s, 1, Len(u))[i] = s[i]
  BY <1>3, Cut
<1>5. /\ SubSeq(t, 1, Len(u)) \in Seq(Item) /\ Len(SubSeq(t, 1, Len(u))) = Len(u)
      /\ \A i \in 1..Len(u) : SubSeq(t, 1, Len(u))[i] = t[i]
  BY <1>1, <1>3, Cut
<1>6. \A i \in 1..Len(u) : i \in 1..Len(s) /\ t[i] = s[i]
  BY <1>1, <1>2
<1>7. SubSeq(s, 1, Len(u)) = SubSeq(t, 1, Len(u))
  BY <1>4, <1>5, <1>6, SeqEqual
<1>. QED
  BY <1>2, <1>3, <1>7 DEF IsPrefix, t

(* What the file holds, with or without a piece of the receive buffer, is  *)
(* a prefix of what has been sent.                                         *)
LEMMA StreamPrefix ==
  ASSUME NEW f \in Seq(Item), NEW a \in Seq(Item), NEW b \in Seq(Item),
         NEW n \in Seq(Item), NEW q \in Seq(Item)
  PROVE  IsPrefix(f \o a, Stream(f, a \o b, n, q))
<1> DEFINE x == f \o a  y == b \o n  z == y \o q
<1>1. Assoc(f, a, b)
  BY Associative
<1>2. x \in Seq(Item) /\ y \in Seq(Item) /\ z \in Seq(Item)
  BY ConcatProperties
<1> HIDE DEF x
<1>3. Assoc(x, b, n)
  BY <1>2, Associative
<1> HIDE DEF y
<1>4. Assoc(x, y, q)
  BY <1>2, Associative
<1>5. Stream(f, a \o b, n, q) = x \o z
  BY <1>1, <1>3, <1>4, Zenon DEF Stream, Assoc, x, y
<1> HIDE DEF z
<1>6. IsPrefix(x, x \o z)
  BY <1>2, PrefixOf
<1>. QED
  BY <1>5, <1>6, Zenon DEF x

(* What the writes of c in a sequence of writes hold.                      *)
PartOf(c, f) == [i \in 1..Len(f) |-> IF f[i].by = c THEN f[i].data ELSE <<>>]

(* They are sequences of items.                                            *)
LEMMA PartType ==
  ASSUME NEW c \in Conn, NEW f \in Seq(Write)
  PROVE  PartOf(c, f) \in Seq(Seq(Item)) /\ Len(PartOf(c, f)) = Len(f)
<1>1. \A i \in 1..Len(f) : f[i] \in Write
  OBVIOUS
<1>2. \A i \in 1..Len(f) : (IF f[i].by = c THEN f[i].data ELSE <<>>) \in Seq(Item)
  BY <1>1 DEF Write
<1>3. Len(f) \in Nat
  OBVIOUS
<1>. QED
  BY <1>2, <1>3 DEF PartOf

(* One write more adds its data to the part of who made it.                *)
LEMMA PartAppend ==
  ASSUME NEW c \in Conn, NEW f \in Seq(Write), NEW w \in Write
  PROVE  FlattenSeq(PartOf(c, Append(f, w))) =
           IF w.by = c THEN FlattenSeq(PartOf(c, f)) \o w.data ELSE FlattenSeq(PartOf(c, f))
<1> DEFINE s == PartOf(c, f)
           e == IF w.by = c THEN w.data ELSE <<>>
           g == Append(f, w)
<1>1. s \in Seq(Seq(Item)) /\ Len(s) = Len(f) /\ e \in Seq(Item) /\ Len(f) \in Nat
  <2>1. s \in Seq(Seq(Item)) /\ Len(s) = Len(f)
    BY PartType
  <2>2. e \in Seq(Item)
    BY DEF Write
  <2>. QED
    BY <2>1, <2>2
<1>2. /\ g \in Seq(Write) /\ Len(g) = Len(f) + 1 /\ (\A i \in 1..Len(f) : g[i] = f[i])
      /\ g[Len(f) + 1] = w
  BY AppendProperties
<1> HIDE DEF g
<1>3. PartOf(c, g) \in Seq(Seq(Item)) /\ Len(PartOf(c, g)) = Len(f) + 1
  BY <1>2, PartType
<1>4. /\ \A i \in 1..Len(f) + 1 : PartOf(c, g)[i] = IF g[i].by = c THEN g[i].data ELSE <<>>
      /\ \A i \in 1..Len(f) : s[i] = IF f[i].by = c THEN f[i].data ELSE <<>>
  BY <1>2 DEF PartOf
<1> HIDE DEF s
<1>5. /\ Append(s, e) \in Seq(Seq(Item)) /\ Len(Append(s, e)) = Len(f) + 1
      /\ (\A i \in 1..Len(f) : Append(s, e)[i] = s[i]) /\ Append(s, e)[Len(f) + 1] = e
  BY <1>1, AppendProperties
<1>6. ASSUME NEW i \in 1..Len(f) + 1 PROVE PartOf(c, g)[i] = Append(s, e)[i]
  <2>1. CASE i = Len(f) + 1
    BY <2>1, <1>2, <1>4, <1>5
  <2>2. CASE i # Len(f) + 1
    <3>1. i \in 1..Len(f)
      BY <2>2, <1>1
    <3>. QED
      BY <3>1, <1>2, <1>4, <1>5
  <2>. QED
    BY <2>1, <2>2
<1>7. PartOf(c, g) = Append(s, e)
  BY <1>3, <1>5, <1>6, SeqEqual
<1>8. FlattenSeq(PartOf(c, g)) = FlattenSeq(s) \o e /\ FlattenSeq(s) \in Seq(Item)
  BY <1>1, <1>7, FlattenAppend, FlattenLayout
<1>9. FlattenSeq(s) \o <<>> = FlattenSeq(s)
  BY <1>8, ConcatEmptySeq
<1>. QED
  BY <1>8, <1>9 DEF g, s

(* What c's client finds in the file.                                      *)
LEMMA InFileType ==
  ASSUME IInv, NEW c \in Conn
  PROVE  InFile(c) \in Seq(Item) /\ InFile(c) = FlattenSeq(PartOf(c, file))
<1>1. file \in Seq(Write)
  BY TypeParts DEF IInv, FileTypes
<1>2. InFile(c) = FlattenSeq(PartOf(c, file))
  BY DEF InFile, PartOf
<1>. QED
  BY <1>1, <1>2, PartType, FlattenLayout

(* Only c's own thread adds to it, in a file that is not removed.          *)
LEMMA InFileStep ==
  ASSUME IInv, [Next]_vars, ~USE_AESD_CHAR_DEVICE, main_pc' # "exited", NEW c \in Conn
  PROVE  /\ write_to_file(c) => InFile(c)' = InFile(c) \o rb[c]
         /\ WriteFails(c) => \E n \in 0..Len(rb[c]) :
                               InFile(c)' = InFile(c) \o SubSeq(rb[c], 1, n)
         /\ ~write_to_file(c) /\ ~WriteFails(c) => InFile(c)' = InFile(c)
<1>0. file \in Seq(Write) /\ rb \in [Conn -> Seq(Item)]
  BY TypeParts DEF IInv, FileTypes, ThreadTypes
<1>1. InFile(c) = FlattenSeq(PartOf(c, file)) /\ InFile(c)' = FlattenSeq(PartOf(c, file'))
  BY DEF InFile, PartOf
<1>2. ASSUME UNCHANGED file PROVE InFile(c)' = InFile(c)
  BY <1>1, <1>2
<1>3. ~shutting_down
  BY DEF shutting_down
<1>4. ASSUME file' = Append(file, Stamp) PROVE InFile(c)' = InFile(c)
  <2>1. Stamp \in Write /\ Stamp.by # c
    BY SocketAssumption DEF Stamp, Write
  <2>. QED
    BY <2>1, <1>0, <1>1, <1>4, PartAppend
<1>5. ASSUME NEW d \in Conn, NEW t \in Seq(Item), file' = Stored([by |-> d, data |-> t])
      PROVE  InFile(c)' = IF d = c THEN InFile(c) \o t ELSE InFile(c)
  <2> DEFINE w == [by |-> d, data |-> t]
  <2>1. w \in Write /\ w.by = d /\ w.data = t
    BY DEF Write
  <2>2. file' = Append(file, w)
    BY <2>1, <1>0, <1>5, StoredElements
  <2> HIDE DEF w
  <2>3. FlattenSeq(PartOf(c, file')) = IF d = c THEN FlattenSeq(PartOf(c, file)) \o t
                                       ELSE FlattenSeq(PartOf(c, file))
    BY <2>1, <2>2, <1>0, PartAppend
  <2>. QED
    BY <2>3, <1>1
<1>6. ASSUME NEW d \in Conn, write_to_file(d)
      PROVE  InFile(c)' = IF d = c THEN InFile(c) \o rb[d] ELSE InFile(c)
  <2>1. file' = Stored([by |-> d, data |-> rb[d]]) /\ rb[d] \in Seq(Item)
    BY <1>0, <1>6 DEF write_to_file
  <2>. QED
    BY <2>1, <1>5
<1>7. ASSUME NEW d \in Conn, NEW n \in 1..Len(rb[d]) - 1,
             file' = Stored([by |-> d, data |-> SubSeq(rb[d], 1, n)])
      PROVE  InFile(c)' = IF d = c THEN InFile(c) \o SubSeq(rb[d], 1, n) ELSE InFile(c)
  <2>1. rb[d] \in Seq(Item) /\ n \in 0..Len(rb[d])
    BY <1>0
  <2>2. SubSeq(rb[d], 1, n) \in Seq(Item)
    BY <2>1, Cut
  <2>. QED
    BY <2>2, <1>5, <1>7
<1>8. ASSUME WriteFails(c)
      PROVE  \E n \in 0..Len(rb[c]) : InFile(c)' = InFile(c) \o SubSeq(rb[c], 1, n)
  <2>1. CASE UNCHANGED file
    <3>1. InFile(c)' = InFile(c) /\ InFile(c) \in Seq(Item) /\ rb[c] \in Seq(Item)
      BY <2>1, <1>0, <1>2, InFileType
    <3>2. 0 \in 0..Len(rb[c]) /\ SubSeq(rb[c], 1, 0) = <<>>
      BY <3>1
    <3>3. InFile(c) \o <<>> = InFile(c)
      BY <3>1, ConcatEmptySeq
    <3>. QED
      BY <3>1, <3>2, <3>3
  <2>2. CASE ~UNCHANGED file
    <3>1. PICK n \in 1..Len(rb[c]) - 1 : file' = Stored([by |-> c, data |-> SubSeq(rb[c], 1, n)])
      BY <2>2, <1>8 DEF WriteFails
    <3>2. n \in 0..Len(rb[c])
      BY <1>0
    <3>. QED
      BY <3>1, <3>2, <1>7
  <2>. QED
    BY <2>1, <2>2
<1>9. ASSUME ~write_to_file(c), ~WriteFails(c) PROVE InFile(c)' = InFile(c)
  BY <1>9, <1>2, <1>3, <1>4, <1>6, <1>7, FileChange
<1>. QED
  BY <1>6, <1>8, <1>9

(* A thread sends nothing in its client's name.                            *)
LEMMA ThreadKeepsSent ==
  ASSUME NEW c \in Conn, ThreadStep(c) \/ Interrupted(c)
  PROVE  sent' = sent
BY ThreadFrame DEF SendKills, peervars

(* A process that has ended does nothing.                                  *)
LEMMA ExitedStays ==
  ASSUME [Next]_vars, main_pc = "exited"
  PROVE  UNCHANGED vars
<1>1. ~MainStep
  BY DEF MainStep, startup, main_loop, TimestampLock, write_time_stamp, TimestampUnlock,
     join_threads, CheckExit, AcceptGate, AcceptFails, check_for_client_connection, create_thread,
     InsertThread, CreateFails, shutting_down
<1>2. ~ClockTick /\ ~signal_handler
  BY DEF ClockTick, signal_handler, Dead
<1>3. ASSUME NEW c \in Conn, ThreadStep(c) \/ Interrupted(c) \/ PeerStep(c) PROVE FALSE
  <2>1. CASE ThreadStep(c) \/ Interrupted(c)
    BY <2>1 DEF ThreadStep, Interrupted, At, Dead, main_loop_thread, thread_cleanup, waiting_for_data,
       GrowFails, Received, RecvEnds, RecvReset, RecvInterrupted, process_received_data, SendLock,
       write_to_file, WriteFails, read_from_file, ReadEnds, ReadFails, send, SendToClosed, SendError,
       SendInterrupted, SendKills, SendUnlock
  <2>2. CASE PeerStep(c)
    BY <2>2, PeerFrame DEF Dead
  <2>. QED
    BY <1>3, <2>1, <2>2
<1>. QED
  BY <1>1, <1>2, <1>3 DEF Next, Terminated

(* What has been sent and not been received yet, at a step that is not one *)
(* of c's thread: the client may send, and the main thread clears the      *)
(* queue when it closes the descriptor.                                    *)
LEMMA QueueStep ==
  ASSUME IInv, [Next]_vars, NEW c \in Conn, ~(ThreadStep(c) \/ Interrupted(c))
  PROVE  \/ UNCHANGED <<sent[c], recv_queue[c]>>
         \/ thread[c] = "exited" /\ thread'[c] = "exited" /\ sent'[c] = sent[c]
         \/ \E e \in Item : /\ PeerSend(c) /\ e.n = Len(sent[c]) + 1
                            /\ sent'[c] = Append(sent[c], e)
                            /\ recv_queue'[c] = Append(recv_queue[c], e)
<1>0. TypeOK /\ PeerTypes /\ ThreadTypes
  BY TypeParts DEF IInv
<1>1. CASE MainStep \/ ClockTick \/ signal_handler
  <2>1. sent' = sent
    BY <1>1, MainFrame
  <2>2. CASE join_threads
    <3>1. cursor \in Conn
      BY <2>2, OutsideConn DEF join_threads, IInv, CursorOnList, Linked, Outside
    <3>2. CASE Joined(cursor) /\ cursor = c
      BY <3>2, <2>1, <2>2, <1>0 DEF Joined, join_threads, threadvars
    <3>3. CASE ~(Joined(cursor) /\ cursor = c)
      <4>1. recv_queue'[c] = recv_queue[c]
        BY <3>1, <3>3, <2>2, <1>0 DEF join_threads, PeerTypes
      <4>. QED
        BY <4>1, <2>1
    <3>. QED
      BY <3>2, <3>3
  <2>3. ~join_threads => recv_queue' = recv_queue
    <3> USE DEF peervars
    <3>1. CASE startup \/ main_loop \/ TimestampLock \/ write_time_stamp \/ TimestampUnlock
      BY <3>1 DEF startup, main_loop, TimestampLock, write_time_stamp, TimestampUnlock
    <3>2. CASE CheckExit \/ AcceptGate \/ AcceptFails
      BY <3>2 DEF CheckExit, AcceptGate, AcceptFails
    <3>3. CASE \E d \in Conn : check_for_client_connection(d)
      BY <3>3 DEF check_for_client_connection
    <3>4. CASE create_thread \/ InsertThread \/ CreateFails \/ shutting_down \/ ClockTick \/ signal_handler
      BY <3>4 DEF create_thread, InsertThread, CreateFails, shutting_down, ClockTick, signal_handler
    <3>. QED
      BY <1>1, <3>1, <3>2, <3>3, <3>4 DEF MainStep
  <2>. QED
    BY <2>1, <2>2, <2>3
<1>2. ASSUME NEW d \in Conn, ThreadStep(d) \/ Interrupted(d)
      PROVE  UNCHANGED <<sent[c], recv_queue[c]>>
  <2>1. d # c
    BY <1>2
  <2>2. recv_queue'[c] = recv_queue[c]
    BY <1>0, <1>2, <2>1, OthersAlone
  <2>3. sent' = sent
    BY <1>2, ThreadKeepsSent
  <2>. QED
    BY <2>2, <2>3
<1>3. ASSUME NEW d \in Conn, PeerStep(d)
      PROVE  \/ UNCHANGED <<sent[c], recv_queue[c]>>
             \/ \E e \in Item : /\ PeerSend(c) /\ e.n = Len(sent[c]) + 1
                                /\ sent'[c] = Append(sent[c], e)
                                /\ recv_queue'[c] = Append(recv_queue[c], e)
  <2>1. CASE PeerConnect(d) \/ PeerRead(d) \/ PeerClose(d)
    BY <2>1 DEF PeerConnect, PeerRead, PeerClose
  <2>2. CASE PeerSend(d) /\ d # c
    BY <2>2, <1>0 DEF PeerSend, PeerTypes
  <2>3. CASE PeerSend(d) /\ d = c
    <3>1. PICK b \in BOOLEAN :
            /\ sent' = [sent EXCEPT ![c] = Append(@, [n |-> Len(sent[c]) + 1, end |-> b])]
            /\ recv_queue' = [recv_queue EXCEPT ![c] = Append(@, [n |-> Len(sent[c]) + 1, end |-> b])]
      BY <2>3 DEF PeerSend
    <3> DEFINE e == [n |-> Len(sent[c]) + 1, end |-> b]
    <3>2. Len(sent[c]) \in Nat
      BY <1>0 DEF PeerTypes
    <3>3. e \in Item /\ e.n = Len(sent[c]) + 1
      BY <3>2 DEF Item
    <3>4. sent'[c] = Append(sent[c], e) /\ recv_queue'[c] = Append(recv_queue[c], e)
      BY <3>1, <1>0 DEF PeerTypes
    <3> HIDE DEF e
    <3>. QED
      BY <3>3, <3>4, <2>3
  <2>. QED
    BY <1>3, <2>1, <2>2, <2>3 DEF PeerStep
<1>4. CASE UNCHANGED vars
  BY <1>4 DEF vars
<1>. QED
  BY <1>1, <1>2, <1>3, <1>4 DEF Next, Terminated

(* What a step of c's thread does to what it has received: receives more,  *)
(* takes a packet out of it, writes that, throws all away, or nothing.     *)
LEMMA BufferStep ==
  ASSUME IInv, ThreadPlace, PacketInBuffer, NEW c \in Conn, ThreadStep(c) \/ Interrupted(c)
  PROVE  \/ \E n \in 1..RecvMax :
              /\ thread_state[c] = "WaitingForData" /\ n <= Len(recv_queue[c])
              /\ thread_state'[c] \in {"ProcessingData", "ClosedConnection"}
              /\ rb'[c] = rb[c] /\ rb_new'[c] = SubSeq(recv_queue[c], 1, n)
              /\ recv_queue'[c] = SubSeq(recv_queue[c], n + 1, Len(recv_queue[c]))
         \/ /\ thread_state[c] = "ProcessingData" /\ recv_queue'[c] = recv_queue[c]
            /\ rb'[c] = rb[c] \o SubSeq(rb_new[c], 1, PacketBytes(rb_new[c]))
            /\ rb_new'[c] = Rest(rb_new[c])
            /\ thread_state'[c] = IF Ends(rb_new[c]) = {} THEN "WaitingForData" ELSE "SendingData"
         \/ /\ thread[c] = "write" /\ thread_state'[c] = "SendingData"
            /\ rb'[c] = <<>> /\ rb_new'[c] = rb_new[c] /\ recv_queue'[c] = recv_queue[c]
            /\ write_to_file(c)
         \/ thread'[c] = "exited" /\ rb_new'[c] = <<>> /\ recv_queue'[c] = recv_queue[c]
         \/ /\ UNCHANGED <<rb[c], rb_new[c], recv_queue[c]>>
            /\ \/ thread_state'[c] \in {"ClosedConnection", thread_state[c]}
               \/ thread_state'[c] = NextState(c)
<1>0. ThreadTypes /\ PeerTypes
  BY TypeParts DEF IInv
<1> USE <1>0 DEF ThreadTypes, PeerTypes, growth, buffers, status, peervars, replyvars, At, Goto, SetState, Fail, GiveUp, SendFails
<1>1. CASE main_loop_thread(c)
  BY <1>1 DEF main_loop_thread
<1>2. CASE thread_cleanup(c)
  BY <1>2 DEF thread_cleanup
<1>3. CASE waiting_for_data(c) \/ GrowFails(c)
  <2>1. PICK n \in 1..RecvMax : Received(c, n)
    BY <1>3 DEF waiting_for_data, GrowFails
  <2>2. thread_state'[c] \in {"ProcessingData", "ClosedConnection"}
    BY <1>3 DEF waiting_for_data, GrowFails
  <2>3. thread_state[c] = "WaitingForData"
    BY <2>1 DEF Received, ThreadPlace
  <2>. QED
    BY <2>1, <2>2, <2>3 DEF Received
<1>4. CASE RecvEnds(c) \/ RecvReset(c) \/ RecvInterrupted(c)
  BY <1>4 DEF RecvEnds, RecvReset, RecvInterrupted
<1>5. CASE process_received_data(c)
  <2>1. thread_state[c] = "ProcessingData"
    BY <1>5 DEF process_received_data, ThreadPlace
  <2>. QED
    BY <1>5, <2>1 DEF process_received_data
<1>6. CASE SendLock(c)
  BY <1>6 DEF SendLock
<1>7. CASE write_to_file(c)
  <2>1. thread[c] = "write" /\ thread_state[c] = "SendingData"
    BY <1>7 DEF write_to_file, ThreadPlace
  <2>. QED
    BY <1>7, <2>1 DEF write_to_file
<1>8. CASE WriteFails(c) \/ ReadFails(c) \/ SendError(c) \/ SendInterrupted(c)
  BY <1>8 DEF WriteFails, ReadFails, SendError, SendInterrupted
<1>9. CASE read_from_file(c) \/ ReadEnds(c)
  BY <1>9 DEF read_from_file, ReadEnds
<1>10. CASE send(c) \/ SendToClosed(c)
  BY <1>10 DEF send, SendToClosed, Sent
<1>11. CASE SendKills(c)
  BY <1>11 DEF SendKills, threadvars
<1>12. CASE SendUnlock(c)
  BY <1>12 DEF SendUnlock
<1>. QED
  BY <1>1, <1>2, <1>3, <1>4, <1>5, <1>6, <1>7, <1>8, <1>9, <1>10, <1>11, <1>12
  DEF ThreadStep, Interrupted

(* NothingNew is kept: what is processed goes to the receive buffer up to  *)
(* its end, or there is a packet to write.                                 *)
LEMMA NothingNewStep ==
  ASSUME IInv, ThreadPlace, PacketInBuffer, NothingNew, [Next]_vars
  PROVE  NothingNew'
<1> SUFFICES ASSUME NEW c \in Conn, thread_state'[c] = "WaitingForData" PROVE rb_new'[c] = <<>>
  BY DEF NothingNew
<1>0. rb_new[c] \in Seq(Item)
  BY TypeParts DEF IInv, ThreadTypes
<1>1. CASE ~(ThreadStep(c) \/ Interrupted(c))
  BY <1>1, OwnFrame DEF NothingNew
<1>2. CASE ThreadStep(c) \/ Interrupted(c)
  <2>1. CASE Ends(rb_new[c]) = {} /\ rb_new'[c] = Rest(rb_new[c])
    <3>1. rb_new'[c] = SubSeq(rb_new[c], Len(rb_new[c]) + 1, Len(rb_new[c]))
      BY <2>1, <1>0, PacketBytesBound DEF Rest
    <3>2. Len(rb_new[c]) \in 0..Len(rb_new[c])
      BY <1>0
    <3>3. rb_new'[c] \in Seq(Item) /\ Len(rb_new'[c]) = 0
      BY <3>1, <3>2, <1>0, Cut
    <3>. QED
      BY <3>3
  <2>2. CASE thread_state'[c] = NextState(c) /\ rb_new'[c] = rb_new[c]
    BY <2>2 DEF NextState
  <2>3. CASE thread_state'[c] \in {"ClosedConnection", thread_state[c]} /\ rb_new'[c] = rb_new[c]
    BY <2>3 DEF NothingNew
  <2>. QED
    BY <1>2, <2>1, <2>2, <2>3, BufferStep
<1>. QED
  BY <1>1, <1>2

(* A piece of the receive buffer.                                          *)
LEMMA Halves ==
  ASSUME NEW s \in Seq(Item), NEW k \in 0..Len(s)
  PROVE  /\ SubSeq(s, 1, k) \in Seq(Item) /\ SubSeq(s, k + 1, Len(s)) \in Seq(Item)
         /\ s = SubSeq(s, 1, k) \o SubSeq(s, k + 1, Len(s))
BY Cut

(* The items of a client stay in order, from its socket to the file, if f  *)
(* is what has been written: a step that is not one of its thread.         *)
LEMMA StreamOutside ==
  ASSUME IInv, [Next]_vars, NEW c \in Conn, ~(ThreadStep(c) \/ Interrupted(c)),
         thread[c] # "exited", NEW f \in Seq(Item),
         Stream(f, rb[c], rb_new[c], recv_queue[c]) = sent[c]
  PROVE  Stream(f, rb'[c], rb_new'[c], recv_queue'[c]) = sent'[c]
<1>1. rb[c] \in Seq(Item) /\ rb_new[c] \in Seq(Item) /\ recv_queue[c] \in Seq(Item)
  BY TypeParts DEF IInv, ThreadTypes, PeerTypes
<1>2. UNCHANGED <<rb[c], rb_new[c]>>
  BY OwnFrame
<1>3. CASE UNCHANGED <<sent[c], recv_queue[c]>>
  BY <1>2, <1>3
<1>4. ASSUME NEW e \in Item, sent'[c] = Append(sent[c], e), recv_queue'[c] = Append(recv_queue[c], e)
      PROVE  Stream(f, rb'[c], rb_new'[c], recv_queue'[c]) = sent'[c]
  <2> DEFINE q == recv_queue[c]
             x == f \o rb[c] \o rb_new[c]
  <2>1. x \in Seq(Item) /\ q \in Seq(Item)
    BY <1>1, ConcatProperties
  <2>4. x \o q = sent[c]
    BY DEF Stream
  <2>2. Stream(f, rb'[c], rb_new'[c], recv_queue'[c]) = x \o Append(q, e)
    BY <1>2, <1>4 DEF Stream
  <2> HIDE DEF x, q
  <2>3. x \o Append(q, e) = Append(x \o q, e)
    BY <2>1
  <2>. QED
    BY <2>2, <2>3, <2>4, <1>4
<1>. QED
  BY <1>3, <1>4, QueueStep

(* A step of its thread.                                                   *)
LEMMA StreamInside ==
  ASSUME IInv, ThreadPlace, PacketInBuffer, NothingNew, NEW c \in Conn,
         ThreadStep(c) \/ Interrupted(c), thread'[c] # "exited", NEW f \in Seq(Item),
         Stream(f, rb[c], rb_new[c], recv_queue[c]) = sent[c]
  PROVE  /\ write_to_file(c) => Stream(f \o rb[c], rb'[c], rb_new'[c], recv_queue'[c]) = sent[c]
         /\ ~write_to_file(c) => Stream(f, rb'[c], rb_new'[c], recv_queue'[c]) = sent[c]
<1> DEFINE r == rb[c]  n == rb_new[c]  q == recv_queue[c]
<1>0. r \in Seq(Item) /\ n \in Seq(Item) /\ q \in Seq(Item)
  BY TypeParts DEF IInv, ThreadTypes, PeerTypes
<1>1. ASSUME write_to_file(c)
      PROVE  Stream(f \o r, rb'[c], rb_new'[c], recv_queue'[c]) = sent[c]
  <2>1. rb'[c] = <<>> /\ rb_new'[c] = n /\ recv_queue'[c] = q
    BY <1>1, TypeParts DEF write_to_file, IInv, ThreadTypes, peervars
  <2>2. Stream(f, r, n, q) = sent[c]
    OBVIOUS
  <2> HIDE DEF r, n, q
  <2>3. Stream(f \o r, <<>>, n, q) = Stream(f, r, n, q)
    BY <1>0, StreamWritten
  <2>. QED
    BY <2>1, <2>2, <2>3
<1>2. ASSUME NEW k \in 1..RecvMax, thread_state[c] = "WaitingForData", k <= Len(q), rb'[c] = r,
             rb_new'[c] = SubSeq(q, 1, k), recv_queue'[c] = SubSeq(q, k + 1, Len(q))
      PROVE  Stream(f, rb'[c], rb_new'[c], recv_queue'[c]) = sent[c]
  <2>1. n = <<>>
    BY <1>2 DEF NothingNew
  <2> DEFINE a == SubSeq(q, 1, k)  b == SubSeq(q, k + 1, Len(q))
  <2>2. k \in 0..Len(q)
    BY <1>0, <1>2, Bounds
  <2>3. a \in Seq(Item) /\ b \in Seq(Item) /\ q = a \o b
    BY <2>2, <1>0, Halves
  <2>4. rb_new'[c] = a /\ recv_queue'[c] = b /\ Stream(f, r, <<>>, q) = sent[c]
    BY <1>2, <2>1
  <2> HIDE DEF a, b, r, q
  <2>5. Stream(f, r, <<>>, a \o b) = Stream(f, r, a, b)
    BY <2>3, <1>0, StreamReceived
  <2>. QED
    BY <1>2, <2>3, <2>4, <2>5
<1>3. ASSUME recv_queue'[c] = q, rb'[c] = r \o SubSeq(n, 1, PacketBytes(n)), rb_new'[c] = Rest(n)
      PROVE  Stream(f, rb'[c], rb_new'[c], recv_queue'[c]) = sent[c]
  <2> DEFINE k == PacketBytes(n)
             a == SubSeq(n, 1, k)  b == SubSeq(n, k + 1, Len(n))
  <2>1. k \in 0..Len(n) /\ Rest(n) = b /\ Stream(f, r, n, q) = sent[c]
    BY <1>0, PacketBytesBound DEF Rest
  <2>2. rb'[c] = r \o a /\ rb_new'[c] = b
    BY <1>3, <2>1
  <2> HIDE DEF k
  <2>3. a \in Seq(Item) /\ b \in Seq(Item) /\ n = a \o b
    BY <2>1, <1>0, Halves
  <2> HIDE DEF a, b, r, n, q
  <2>4. Stream(f, r \o a, b, q) = Stream(f, r, a \o b, q)
    BY <2>3, <1>0, StreamMoved
  <2>. QED
    BY <1>3, <2>1, <2>2, <2>3, <2>4
<1>4. ASSUME UNCHANGED <<rb[c], rb_new[c], recv_queue[c]>>
      PROVE  Stream(f, rb'[c], rb_new'[c], recv_queue'[c]) = sent[c]
  BY <1>4
<1>. QED
  BY <1>1, <1>2, <1>3, <1>4, BufferStep

(* What the file holds of it is a prefix of what its client has sent.      *)
LEMMA PrefixInside ==
  ASSUME IInv, ThreadPlace, [Next]_vars, ~USE_AESD_CHAR_DEVICE, main_pc' # "exited",
         NEW c \in Conn, IsPrefix(InFile(c), sent[c]),
         thread_state[c] = "ClosedConnection" \/ thread[c] = "exited"
           \/ Stream(InFile(c), rb[c], rb_new[c], recv_queue[c]) = sent[c]
  PROVE  IsPrefix(InFile(c)', sent[c])
<1> DEFINE f == InFile(c)  r == rb[c]  n == rb_new[c]  q == recv_queue[c]
<1>1. f \in Seq(Item) /\ r \in Seq(Item) /\ n \in Seq(Item) /\ q \in Seq(Item)
  BY TypeParts, InFileType DEF IInv, ThreadTypes, PeerTypes
<1>2. /\ write_to_file(c) \/ WriteFails(c) => thread[c] = "write"
      /\ thread[c] = "write" => thread_state[c] = "SendingData"
  BY DEF write_to_file, WriteFails, At, ThreadPlace
<1>3. ASSUME NEW k \in 0..Len(r), InFile(c)' = f \o SubSeq(r, 1, k), thread[c] = "write"
      PROVE  IsPrefix(InFile(c)', sent[c])
  <2> DEFINE a == SubSeq(r, 1, k)  b == SubSeq(r, k + 1, Len(r))
  <2>1. a \in Seq(Item) /\ b \in Seq(Item) /\ r = a \o b
    BY <1>1, Halves
  <2>2. Stream(f, r, n, q) = sent[c] /\ InFile(c)' = f \o a
    BY <1>2, <1>3
  <2> HIDE DEF a, b, f, r, n, q
  <2>3. IsPrefix(f \o a, Stream(f, a \o b, n, q))
    BY <2>1, <1>1, StreamPrefix
  <2>. QED
    BY <2>1, <2>2, <2>3
<1>4. CASE ~write_to_file(c) /\ ~WriteFails(c)
  BY <1>4, InFileStep
<1>5. CASE write_to_file(c)
  <2>1. InFile(c)' = f \o r
    BY <1>5, InFileStep
  <2>2. Len(r) \in 0..Len(r) /\ SubSeq(r, 1, Len(r)) = r
    BY <1>1, SubSeqFull
  <2>. QED
    BY <2>1, <2>2, <1>2, <1>3, <1>5
<1>6. CASE WriteFails(c)
  BY <1>2, <1>3, <1>6, InFileStep
<1>. QED
  BY <1>4, <1>5, <1>6

(* A thread that has ended does nothing.                                   *)
LEMMA AtSomePlace ==
  ASSUME NEW c \in Conn, ThreadStep(c) \/ Interrupted(c)
  PROVE  thread[c] # "exited"
BY DEF ThreadStep, Interrupted, At, main_loop_thread, thread_cleanup, waiting_for_data,
   GrowFails, Received, RecvEnds, RecvReset, RecvInterrupted, process_received_data, SendLock,
   write_to_file, WriteFails, read_from_file, ReadEnds, ReadFails, send, SendToClosed, SendError,
   SendInterrupted, SendKills, SendUnlock

(* Both: StreamIntact is kept.                                             *)
LEMMA StreamStep ==
  ASSUME IInv, ThreadPlace, PacketInBuffer, NothingNew, StreamIntact, [Next]_vars
  PROVE  StreamIntact'
<1> SUFFICES ASSUME ~USE_AESD_CHAR_DEVICE, main_pc' # "exited", NEW c \in Conn
             PROVE  IF thread_state'[c] = "ClosedConnection" \/ thread'[c] = "exited"
                    THEN IsPrefix(InFile(c)', sent'[c])
                    ELSE Stream(InFile(c)', rb'[c], rb_new'[c], recv_queue'[c]) = sent'[c]
  BY DEF StreamIntact, Stream
<1>1. main_pc # "exited"
  <2> SUFFICES ASSUME main_pc = "exited" PROVE FALSE
    OBVIOUS
  <2>. QED
    BY ExitedStays DEF vars
<1> DEFINE f == InFile(c)  r == rb[c]  n == rb_new[c]  q == recv_queue[c]
<1>2. IF thread_state[c] = "ClosedConnection" \/ thread[c] = "exited" THEN IsPrefix(f, sent[c])
      ELSE Stream(f, r, n, q) = sent[c]
  BY <1>1 DEF StreamIntact, Stream
<1>3. f \in Seq(Item) /\ r \in Seq(Item) /\ n \in Seq(Item) /\ q \in Seq(Item)
  BY TypeParts, InFileType DEF IInv, ThreadTypes, PeerTypes
<1>4. IsPrefix(f, Stream(f, r, n, q))
  <2>1. <<>> \in Seq(Item) /\ <<>> \o r = r /\ f \o <<>> = f
    BY <1>3, ConcatEmptySeq
  <2> HIDE DEF f, r, n, q
  <2>2. IsPrefix(f \o <<>>, Stream(f, <<>> \o r, n, q))
    BY <1>3, <2>1, StreamPrefix
  <2>. QED
    BY <2>1, <2>2
<1>5. IsPrefix(f, sent[c])
  BY <1>2, <1>4
<1>6. CASE ThreadStep(c) \/ Interrupted(c)
  <2>1. sent'[c] = sent[c]
    BY <1>6, ThreadKeepsSent
  <2>2. IsPrefix(InFile(c)', sent[c])
    BY <1>2, <1>5, PrefixInside
  <2>3. ASSUME thread_state'[c] # "ClosedConnection", thread'[c] # "exited"
        PROVE  Stream(InFile(c)', rb'[c], rb_new'[c], recv_queue'[c]) = sent[c]
    <3>1. thread_state[c] # "ClosedConnection"
      BY <2>3, ClosedStays
    <3>2. ~WriteFails(c)
      BY <2>3, TypeParts DEF WriteFails, SendFails, Fail, IInv, ThreadTypes
    <3>3. InFile(c)' = IF write_to_file(c) THEN f \o r ELSE f
      BY <3>2, InFileStep
    <3>4. thread[c] # "exited"
      BY <1>6, AtSomePlace
    <3>5. Stream(f, r, n, q) = sent[c]
      BY <1>2, <3>1, <3>4
    <3>6. /\ write_to_file(c) => Stream(f \o r, rb'[c], rb_new'[c], recv_queue'[c]) = sent[c]
          /\ ~write_to_file(c) => Stream(f, rb'[c], rb_new'[c], recv_queue'[c]) = sent[c]
      BY <1>3, <1>6, <2>3, <3>5, StreamInside
    <3>. QED
      BY <3>3, <3>6
  <2>. QED
    BY <2>1, <2>2, <2>3
<1>7. CASE ~(ThreadStep(c) \/ Interrupted(c))
  <2>1. InFile(c)' = f
    BY <1>7, InFileStep DEF ThreadStep
  <2>2. thread_state'[c] = thread_state[c] /\ (thread'[c] = "exited" <=> thread[c] = "exited")
    BY <1>7, OwnFrame
  <2>3. IsPrefix(f, sent'[c])
    <3>1. sent[c] \in Seq(Item)
      BY TypeParts DEF IInv, PeerTypes
    <3>2. ASSUME NEW e \in Item, sent'[c] = Append(sent[c], e) PROVE IsPrefix(f, sent'[c])
      <4> HIDE DEF f
      <4>. QED
        BY <3>1, <3>2, <1>3, <1>5, PrefixGrows
    <3>. QED
      BY <3>2, <1>5, <1>7, QueueStep
  <2>4. ASSUME thread_state[c] # "ClosedConnection", thread[c] # "exited"
        PROVE  Stream(f, rb'[c], rb_new'[c], recv_queue'[c]) = sent'[c]
    BY <1>2, <1>3, <1>7, <2>4, StreamOutside
  <2>. QED
    BY <2>1, <2>2, <2>3, <2>4
<1>. QED
  BY <1>6, <1>7

(* A thread leaves its loop because its connection is over or the signal   *)
(* has come.                                                               *)
LeavesLoop ==
  \A c \in Conn :
    /\ thread[c] = "exited" => ~keep[c]
    /\ ~keep[c] => thread_state[c] = "ClosedConnection" \/ caught_signal

(* A connection that is over, and no call has failed, is over because the  *)
(* client closed it, and all its packets are in the file.                  *)
Finished ==
  ~USE_AESD_CHAR_DEVICE /\ main_pc # "exited" =>
    \A c \in Conn : thread_state[c] = "ClosedConnection" /\ ~failed[c] =>
      peer[c] \in {"fin", "gone"} /\ \A i \in Ends(sent[c]) : i <= Len(InFile(c))

(* The flag stays set, and a closed connection stays closed.               *)
LEMMA LeavesLoopStep ==
  ASSUME IInv, ThreadPlace, LeavesLoop, [Next]_vars
  PROVE  LeavesLoop'
<1>0. /\ thread \in [Conn -> ThreadPCs] /\ keep \in [Conn -> BOOLEAN]
      /\ thread_state \in [Conn -> {"WaitingForData", "ProcessingData", "SendingData", "ClosedConnection"}]
  BY DEF IInv, TypeOK
<1>1. caught_signal => caught_signal'
  <2>1. CASE MainStep \/ ClockTick \/ signal_handler
    <3> USE DEF loopvars, clock
    <3>1. CASE startup \/ main_loop \/ TimestampLock \/ write_time_stamp \/ TimestampUnlock
      BY <3>1 DEF startup, main_loop, TimestampLock, write_time_stamp, TimestampUnlock
    <3>2. CASE join_threads \/ CheckExit \/ AcceptGate \/ AcceptFails
      BY <3>2 DEF join_threads, CheckExit, AcceptGate, AcceptFails
    <3>3. CASE \E c \in Conn : check_for_client_connection(c)
      BY <3>3 DEF check_for_client_connection
    <3>4. CASE create_thread \/ InsertThread \/ CreateFails \/ shutting_down
      BY <3>4 DEF create_thread, InsertThread, CreateFails, shutting_down
    <3>5. CASE ClockTick \/ signal_handler
      BY <3>5 DEF ClockTick, signal_handler
    <3>. QED
      BY <2>1, <3>1, <3>2, <3>3, <3>4, <3>5 DEF MainStep
  <2>2. ASSUME NEW c \in Conn, ThreadStep(c) \/ Interrupted(c)
        PROVE  caught_signal' = caught_signal
    BY <2>2, ThreadFrame DEF notthread, SendKills
  <2>3. ASSUME NEW c \in Conn, PeerStep(c)
        PROVE  caught_signal' = caught_signal
    BY <2>3, PeerFrame DEF notpeer
  <2>4. CASE UNCHANGED vars
    BY <2>4 DEF vars
  <2>. QED
    BY <2>1, <2>2, <2>3, <2>4 DEF Next, Terminated
<1> SUFFICES ASSUME NEW c \in Conn
             PROVE  /\ thread'[c] = "exited" => ~keep'[c]
                    /\ ~keep'[c] => thread_state'[c] = "ClosedConnection" \/ caught_signal'
  BY DEF LeavesLoop
<1>2. thread_state[c] = "ClosedConnection" => thread_state'[c] = "ClosedConnection"
  BY ClosedStays
<1>3. CASE keep'[c] = keep[c] /\ (thread'[c] = "exited" => thread[c] = "exited")
  BY <1>1, <1>2, <1>3 DEF LeavesLoop
<1>4. CASE main_loop_thread(c)
  <2>1. CASE thread_state[c] = "ClosedConnection"
    <3>1. ~keep'[c]
      BY <2>1, <1>0, <1>4 DEF main_loop_thread
    <3>. QED
      BY <3>1, <2>1, <1>2
  <2>2. CASE thread_state[c] # "ClosedConnection"
    <3>1. thread'[c] # "exited"
      BY <2>2, <1>0, <1>4 DEF main_loop_thread, Goto, Dest
    <3>2. keep'[c] = ~caught_signal
      BY <2>2, <1>0, <1>4, Zenon DEF main_loop_thread
    <3>. QED
      BY <3>1, <3>2, <1>1
  <2>. QED
    BY <2>1, <2>2
<1>5. CASE thread_cleanup(c)
  BY <1>1, <1>2, <1>5 DEF thread_cleanup, LeavesLoop
<1>6. CASE ThreadStep(c) \/ Interrupted(c)
  <2> USE <1>0 DEF At, Goto, GiveUp, SendFails
  <2>1. CASE waiting_for_data(c) \/ GrowFails(c)
    BY <2>1, <1>3 DEF waiting_for_data, GrowFails, Received
  <2>2. CASE RecvEnds(c) \/ RecvReset(c) \/ RecvInterrupted(c)
    BY <2>2, <1>3 DEF RecvEnds, RecvReset, RecvInterrupted
  <2>3. CASE process_received_data(c) \/ SendLock(c) \/ write_to_file(c) \/ WriteFails(c)
    BY <2>3, <1>3 DEF process_received_data, SendLock, write_to_file, WriteFails
  <2>4. CASE read_from_file(c) \/ ReadEnds(c) \/ ReadFails(c)
    BY <2>4, <1>3 DEF read_from_file, ReadEnds, ReadFails
  <2>5. CASE send(c) \/ SendToClosed(c) \/ SendError(c) \/ SendInterrupted(c)
    BY <2>5, <1>3 DEF send, SendToClosed, Sent, SendError, SendInterrupted
  <2>6. CASE SendKills(c) \/ SendUnlock(c)
    BY <2>6, <1>3 DEF SendKills, SendUnlock, threadvars
  <2>. QED
    BY <1>4, <1>5, <1>6, <2>1, <2>2, <2>3, <2>4, <2>5, <2>6 DEF ThreadStep, Interrupted
<1>7. CASE ~(ThreadStep(c) \/ Interrupted(c))
  <2>1. thread'[c] = "exited" => thread[c] = "exited"
    BY <1>7, OwnFrame
  <2>2. keep'[c] = keep[c]
    <3>1. CASE MainStep \/ ClockTick \/ signal_handler
      BY <3>1, MainFrame
    <3>2. ASSUME NEW d \in Conn, ThreadStep(d) \/ Interrupted(d)
          PROVE  keep'[c] = keep[c]
      <4>1. d # c
        BY <1>7, <3>2
      <4>2. CASE main_loop_thread(d)
        BY <4>1, <4>2, <1>0 DEF main_loop_thread
      <4>3. CASE ~main_loop_thread(d)
        BY <4>3, <3>2 DEF ThreadStep, Interrupted, thread_cleanup, waiting_for_data, GrowFails, Received,
           RecvEnds, RecvReset, RecvInterrupted, process_received_data, SendLock, write_to_file, WriteFails,
           read_from_file, ReadEnds, ReadFails, send, SendToClosed, Sent, SendError, SendInterrupted,
           SendKills, SendUnlock, GiveUp, SendFails, threadvars
      <4>. QED
        BY <4>2, <4>3
    <3>3. ASSUME NEW d \in Conn, PeerStep(d) PROVE keep' = keep
      BY <3>3, PeerFrame DEF notpeer, threadvars
    <3>4. CASE UNCHANGED vars
      BY <3>4 DEF vars
    <3>. QED
      BY <3>1, <3>2, <3>3, <3>4 DEF Next, Terminated
  <2>. QED
    BY <2>1, <2>2, <1>3
<1>. QED
  BY <1>6, <1>7

(* A client that has closed does not come back and sends nothing more.     *)
LEMMA ClosedClient ==
  ASSUME IInv, [Next]_vars, NEW c \in Conn, peer[c] \in {"fin", "gone"}
  PROVE  peer'[c] \in {"fin", "gone"} /\ sent'[c] = sent[c]
<1>0. peer \in [Conn -> {"none", "up", "fin", "gone", "reset"}] /\ sent \in [Conn -> Seq(Item)]
  BY DEF IInv, TypeOK
<1>1. CASE MainStep \/ ClockTick \/ signal_handler
  <2>1. sent' = sent
    BY <1>1, MainFrame
  <2>2. peer'[c] \in {"fin", "gone"}
    <3> USE DEF peervars
    <3>1. CASE join_threads
      BY <3>1, <1>0 DEF join_threads
    <3>2. CASE startup \/ main_loop \/ TimestampLock \/ write_time_stamp \/ TimestampUnlock
      BY <3>2 DEF startup, main_loop, TimestampLock, write_time_stamp, TimestampUnlock
    <3>3. CASE CheckExit \/ AcceptGate \/ AcceptFails
      BY <3>3 DEF CheckExit, AcceptGate, AcceptFails
    <3>4. CASE \E d \in Conn : check_for_client_connection(d)
      BY <3>4 DEF check_for_client_connection
    <3>5. CASE create_thread \/ InsertThread \/ CreateFails \/ shutting_down \/ ClockTick \/ signal_handler
      BY <3>5 DEF create_thread, InsertThread, CreateFails, shutting_down, ClockTick, signal_handler
    <3>. QED
      BY <1>1, <3>1, <3>2, <3>3, <3>4, <3>5 DEF MainStep
  <2>. QED
    BY <2>1, <2>2
<1>2. ASSUME NEW d \in Conn, ThreadStep(d) \/ Interrupted(d)
      PROVE  peer'[c] \in {"fin", "gone"} /\ sent'[c] = sent[c]
  <2>1. sent' = sent
    BY <1>2, ThreadKeepsSent
  <2>2. CASE SendToClosed(d)
    BY <2>1, <2>2, <1>0 DEF SendToClosed
  <2>3. CASE ~SendToClosed(d)
    BY <1>2, <2>1, <2>3 DEF ThreadStep, Interrupted, main_loop_thread, thread_cleanup, waiting_for_data,
       GrowFails, Received, RecvEnds, RecvReset, RecvInterrupted, process_received_data, SendLock,
       write_to_file, WriteFails, read_from_file, ReadEnds, ReadFails, send, SendError,
       SendInterrupted, SendKills, SendUnlock, GiveUp, SendFails, peervars
  <2>. QED
    BY <2>2, <2>3
<1>3. ASSUME NEW d \in Conn, PeerStep(d)
      PROVE  peer'[c] \in {"fin", "gone"} /\ sent'[c] = sent[c]
  BY <1>0, <1>3 DEF PeerStep, PeerConnect, PeerSend, PeerRead, PeerClose
<1>4. CASE UNCHANGED vars
  BY <1>4 DEF vars
<1>. QED
  BY <1>1, <1>2, <1>3, <1>4 DEF Next, Terminated

(* A connection is given up by a call that fails, or because its client    *)
(* has closed.                                                             *)
LEMMA GivenUp ==
  ASSUME IInv, ThreadPlace, [Next]_vars, NEW c \in Conn,
         thread_state'[c] = "ClosedConnection", ~failed'[c]
  PROVE  ~failed[c] /\ (thread_state[c] = "ClosedConnection" \/ RecvEnds(c))
<1>0. /\ thread_state \in [Conn -> {"WaitingForData", "ProcessingData", "SendingData", "ClosedConnection"}]
      /\ failed \in [Conn -> BOOLEAN]
  BY DEF IInv, TypeOK
<1>1. CASE ~(ThreadStep(c) \/ Interrupted(c))
  BY <1>1, OwnFrame
<1>2. CASE ThreadStep(c) \/ Interrupted(c)
  <2>1. ~Fail(c)
    <3> SUFFICES ASSUME Fail(c) PROVE FALSE
      OBVIOUS
    <3>1. failed' = [failed EXCEPT ![c] = TRUE]
      BY DEF Fail
    <3>. QED
      BY <3>1, <1>0, Zenon
  <2>2. ASSUME UNCHANGED status PROVE ~failed[c] /\ thread_state[c] = "ClosedConnection"
    BY <2>2 DEF status
  <2>3. ASSUME NEW s, SetState(c, s) PROVE ~failed[c] /\ s = "ClosedConnection"
    BY <2>3, <1>0 DEF SetState
  <2>4. CASE main_loop_thread(c) \/ thread_cleanup(c) \/ SendLock(c) \/ write_to_file(c)
    BY <2>2, <2>4 DEF main_loop_thread, thread_cleanup, SendLock, write_to_file
  <2>5. CASE read_from_file(c) \/ ReadEnds(c) \/ send(c) \/ SendToClosed(c) \/ SendKills(c)
    BY <2>2, <2>5 DEF read_from_file, ReadEnds, send, SendToClosed, Sent, SendKills, threadvars
  <2>6. ~(GrowFails(c) \/ RecvReset(c) \/ RecvInterrupted(c) \/ WriteFails(c) \/ ReadFails(c)
          \/ SendError(c) \/ SendInterrupted(c))
    BY <2>1 DEF GrowFails, RecvReset, RecvInterrupted, WriteFails, ReadFails, SendError,
       SendInterrupted, SendFails
  <2>7. CASE waiting_for_data(c)
    <3>1. SetState(c, "ProcessingData")
      BY <2>7 DEF waiting_for_data
    <3>. QED
      BY <3>1, <2>3
  <2>8. CASE process_received_data(c)
    <3>1. SetState(c, IF Ends(rb_new[c]) = {} THEN "WaitingForData" ELSE "SendingData")
      BY <2>8 DEF process_received_data
    <3>. QED
      BY <3>1, <2>3
  <2>9. CASE RecvEnds(c)
    BY <2>3, <2>9 DEF RecvEnds
  <2>10. CASE SendUnlock(c)
    <3>1. SetState(c, IF thread_state[c] = "ClosedConnection" THEN "ClosedConnection" ELSE NextState(c))
      BY <2>10 DEF SendUnlock
    <3>2. NextState(c) # "ClosedConnection"
      BY DEF NextState
    <3>. QED
      BY <3>1, <3>2, <2>3
  <2>. QED
    BY <1>2, <2>4, <2>5, <2>6, <2>7, <2>8, <2>9, <2>10 DEF ThreadStep, Interrupted
<1>. QED
  BY <1>1, <1>2

(* The packets in f \o r, when r holds no newline, are in f.               *)
LEMMA EndsInFront ==
  ASSUME NEW f \in Seq(Item), NEW r \in Seq(Item), Piece(r), NEW i \in Ends(f \o r)
  PROVE  i <= Len(f)
<1> DEFINE w == f \o r
<1>1. /\ Len(w) = Len(f) + Len(r) /\ Len(f) \in Nat /\ Len(r) \in Nat
      /\ \A j \in 1..Len(f) + Len(r) : w[j] = IF j <= Len(f) THEN f[j] ELSE r[j - Len(f)]
  BY ConcatProperties
<1>2. i \in 1..Len(w) /\ w[i].end
  BY DEF Ends
<1> HIDE DEF w
<1>3. SUFFICES ASSUME ~(i <= Len(f)) PROVE FALSE
  OBVIOUS
<1>4. i - Len(f) \in 1..Len(r) /\ w[i] = r[i - Len(f)]
  BY <1>1, <1>2, <1>3
<1>. QED
  BY <1>2, <1>4 DEF Piece

(* recv returns 0 only when all that was sent has been received, and what  *)
(* is not written by then is no packet.                                    *)
LEMMA FinishedStep ==
  ASSUME IInv, ThreadPlace, PacketInBuffer, NothingNew, StreamIntact, Finished, [Next]_vars
  PROVE  Finished'
<1> SUFFICES ASSUME ~USE_AESD_CHAR_DEVICE, main_pc' # "exited", NEW c \in Conn,
                    thread_state'[c] = "ClosedConnection", ~failed'[c]
             PROVE  /\ peer'[c] \in {"fin", "gone"}
                    /\ \A i \in Ends(sent'[c]) : i <= Len(InFile(c)')
  BY DEF Finished
<1>1. main_pc # "exited"
  <2> SUFFICES ASSUME main_pc = "exited" PROVE FALSE
    OBVIOUS
  <2>. QED
    BY ExitedStays DEF vars
<1>2. ~failed[c] /\ (thread_state[c] = "ClosedConnection" \/ RecvEnds(c))
  BY GivenUp
<1>3. InFile(c)' = InFile(c)
  <2>1. thread[c] # "write"
    BY <1>2 DEF ThreadPlace, RecvEnds, At
  <2>. QED
    BY <2>1, InFileStep DEF write_to_file, WriteFails, At
<1>4. peer[c] \in {"fin", "gone"} /\ \A i \in Ends(sent[c]) : i <= Len(InFile(c))
  <2>1. CASE thread_state[c] = "ClosedConnection"
    BY <1>1, <1>2, <2>1 DEF Finished
  <2>2. CASE RecvEnds(c)
    <3>1. /\ peer[c] \in {"fin", "gone"} /\ recv_queue[c] = <<>> /\ thread[c] = "recv"
          /\ thread_state[c] = "WaitingForData" /\ rb_new[c] = <<>> /\ Piece(rb[c])
      BY <2>2 DEF RecvEnds, At, ThreadPlace, NothingNew, PacketInBuffer
    <3>2. InFile(c) \o rb[c] \o <<>> \o <<>> = sent[c]
      BY <3>1, <1>1 DEF StreamIntact
    <3>3. InFile(c) \in Seq(Item) /\ rb[c] \in Seq(Item)
      BY InFileType, TypeParts DEF IInv, ThreadTypes
    <3> DEFINE f == InFile(c)  r == rb[c]
    <3>4. f \in Seq(Item) /\ r \in Seq(Item) /\ Piece(r) /\ f \o r \o <<>> \o <<>> = sent[c]
      BY <3>1, <3>2, <3>3
    <3> HIDE DEF f, r
    <3>5. f \o r \o <<>> = f \o r /\ f \o r \o <<>> \o <<>> = f \o r
      BY <3>4, ConcatProperties, ConcatEmptySeq
    <3>6. ASSUME NEW i \in Ends(sent[c]) PROVE i <= Len(f)
      BY <3>4, <3>5, <3>6, EndsInFront
    <3>. QED
      BY <3>1, <3>6 DEF f
  <2>. QED
    BY <1>2, <2>1, <2>2
<1>5. peer'[c] \in {"fin", "gone"} /\ sent'[c] = sent[c]
  BY <1>4, ClosedClient
<1>. QED
  BY <1>3, <1>4, <1>5

(* The inductive invariant: that of the data, and what a client has sent.  *)
SInv == DInv /\ NothingNew /\ StreamIntact /\ LeavesLoop /\ Finished

(* Nothing has been sent, and the file holds what an earlier run left.     *)
LEMMA InitSInv == Init => SInv
<1> SUFFICES ASSUME Init PROVE SInv
  OBVIOUS
<1>1. DInv
  BY InitDInv
<1>2. \A c \in Conn : /\ thread[c] = "none" /\ thread_state[c] = "WaitingForData"
                      /\ rb[c] = <<>> /\ rb_new[c] = <<>> /\ recv_queue[c] = <<>> /\ sent[c] = <<>>
  BY DEF Init
<1>3. NothingNew /\ Finished
  BY <1>2 DEF NothingNew, Finished
<1>4. LeavesLoop
  <2>1. \A c \in Conn : keep[c]
    BY Zenon DEF Init
  <2>. QED
    BY <1>2, <2>1 DEF LeavesLoop
<1>5. StreamIntact
  <2>1. ASSUME NEW c \in Conn PROVE InFile(c) = <<>>
    <3>1. OldWrites \in Nat /\ NoOne # c
      BY SocketAssumption
    <3>2. Len(file) = OldWrites /\ \A i \in 1..OldWrites : file[i].by = NoOne
      BY <3>1 DEF Init
    <3> DEFINE p == PartOf(c, file)
    <3>3. /\ InFile(c) = FlattenSeq(p) /\ file \in Seq(Write)
      BY <1>1, InFileType, TypeParts DEF DInv, IInv, FileTypes
    <3>4. p \in Seq(Seq(Item)) /\ Len(p) = OldWrites
      BY <3>2, <3>3, PartType
    <3>5. \A i \in 1..OldWrites : p[i] = <<>>
      BY <3>1, <3>2 DEF PartOf
    <3> HIDE DEF p
    <3>. QED
      BY <3>1, <3>3, <3>4, <3>5, FlattenEmpties
  <2>2. <<>> \o <<>> \o <<>> \o <<>> = <<>>
    OBVIOUS
  <2>. QED
    BY <2>1, <2>2, <1>2 DEF StreamIntact
<1>. QED
  BY <1>1, <1>3, <1>4, <1>5 DEF SInv

(* What every client has sent is where SInv says, in every reachable       *)
(* state.                                                                  *)
THEOREM StreamInvariance == Spec => []SInv
<1>1. SInv /\ [Next]_vars /\ DInv' => SInv'
  <2> SUFFICES ASSUME SInv, [Next]_vars, DInv' PROVE SInv'
    OBVIOUS
  <2>1. IInv /\ ThreadPlace /\ PacketInBuffer
    BY DEF SInv, DInv
  <2>2. NothingNew' /\ StreamIntact' /\ LeavesLoop' /\ Finished'
    BY <2>1, NothingNewStep, StreamStep, LeavesLoopStep, FinishedStep DEF SInv
  <2>. QED
    BY <2>2 DEF SInv
<1>. QED
  BY <1>1, InitSInv, SocketDataInvariance, PTL DEF Spec

(* Temp file build: no item that a client sends is lost, repeated or       *)
(* displaced on its way to the file while the connection lives, however    *)
(* recv cuts it, the threads interleave and the file mutex goes round; and *)
(* what a connection that has ended left in the file is a prefix of it.    *)
THEOREM StreamStaysIntact == Spec => []StreamIntact
<1>1. SInv => StreamIntact
  BY DEF SInv
<1>. QED
  BY <1>1, StreamInvariance, PTL

(* Temp file build: when a client closes its connection, every packet it   *)
(* had completed is in the file, unless a call failed or the signal came.  *)
THEOREM CleanClosesLoseNothing == Spec => []CleanCloseStored
<1>1. SInv => CleanCloseStored
  <2> SUFFICES ASSUME SInv, ~USE_AESD_CHAR_DEVICE, main_pc # "exited", NEW c \in Conn,
                      thread[c] = "exited", ~failed[c], ~caught_signal, NEW i \in Ends(sent[c])
               PROVE  Len(InFile(c)) >= i
    BY DEF CleanCloseStored
  <2>1. thread_state[c] = "ClosedConnection"
    BY DEF SInv, LeavesLoop
  <2>2. i <= Len(InFile(c))
    BY <2>1 DEF SInv, Finished
  <2>3. i \in Nat /\ Len(InFile(c)) \in Nat
    <3>1. InFile(c) \in Seq(Item)
      BY InFileType DEF SInv, DInv
    <3>. QED
      BY <3>1 DEF Ends
  <2> HIDE DEF InFile
  <2>. QED
    BY <2>2, <2>3
<1>. QED
  BY <1>1, StreamInvariance, PTL

-----------------------------------------------------------------------------
(* The char device: nothing is sent twice.                                 *)

(* No timestamp is written to it.                                          *)
NoStamps == USE_AESD_CHAR_DEVICE => main_pc \notin {"ts_lock", "ts_write", "ts_unlock"}

(* The items of a client are numbered.                                     *)
Numbered == \A c \in Conn : \A i \in 1..Len(sent[c]) : sent[c][i].n = i

(* What has been read for the answer to c, and who has seen a write: the   *)
(* device, or somebody who answers.                                        *)
Answer(c) == reply[c] \o send_buffer[c]
Seen(x) ==
  \/ \E i \in 1..Len(file) : x = file[i]
  \/ \E d \in Conn : \E i \in 1..Len(Answer(d)) : x = Answer(d)[i]

(* What a live connection has written is what its client sent first, and   *)
(* no write that has been seen goes beyond.                                *)
WrittenBefore ==
  USE_AESD_CHAR_DEVICE =>
    \A c \in Conn : thread_state[c] # "ClosedConnection" /\ thread[c] # "exited" =>
      \E g \in Seq(Item) :
        /\ Stream(g, rb[c], rb_new[c], recv_queue[c]) = sent[c]
        /\ \A x \in Write : Seen(x) /\ x.by = c => \A j \in 1..Len(x.data) : x.data[j].n <= Len(g)

(* The writes on the device are different, and so are those in an answer,  *)
(* none of which is still ahead of the reader.                             *)
Different(s) == \A i, j \in 1..Len(s) : s[i] = s[j] => i = j
Ahead(a, p, f) == \A i \in 1..Len(a), j \in 1..Len(f) : j > p => a[i] # f[j]
AheadOfReader ==
  USE_AESD_CHAR_DEVICE =>
    /\ Different(file)
    /\ \A c \in Conn : Different(Answer(c)) /\ Ahead(Answer(c), f_pos[c], file)

(* The timestamp is for the temp file.                                     *)
LEMMA NoStampsStep ==
  ASSUME IInv, NoStamps, [Next]_vars
  PROVE  NoStamps'
<1> SUFFICES ASSUME USE_AESD_CHAR_DEVICE PROVE main_pc' \notin {"ts_lock", "ts_write", "ts_unlock"}
  BY DEF NoStamps
<1>0. main_pc \notin {"ts_lock", "ts_write", "ts_unlock"}
  BY DEF NoStamps
<1>1. CASE startup \/ main_loop \/ TimestampLock \/ write_time_stamp \/ TimestampUnlock
  BY <1>0, <1>1 DEF startup, main_loop, Dispatch, TimestampLock, write_time_stamp, TimestampUnlock
<1>2. CASE join_threads \/ CheckExit \/ AcceptGate \/ AcceptFails
  BY <1>0, <1>2 DEF join_threads, CheckExit, AcceptGate, AfterGate, AcceptFails
<1>3. CASE \E c \in Conn : check_for_client_connection(c)
  BY <1>3 DEF check_for_client_connection
<1>4. CASE create_thread \/ InsertThread \/ CreateFails \/ shutting_down
  BY <1>4 DEF create_thread, InsertThread, CreateFails, shutting_down
<1>5. CASE ClockTick \/ signal_handler
  BY <1>0, <1>5 DEF ClockTick, signal_handler
<1>6. ASSUME NEW c \in Conn, ThreadStep(c) \/ Interrupted(c)
      PROVE  main_pc' \notin {"ts_lock", "ts_write", "ts_unlock"}
  BY <1>0, <1>6, ThreadFrame DEF notthread, SendKills
<1>7. ASSUME NEW c \in Conn, PeerStep(c) PROVE main_pc' = main_pc
  BY <1>7, PeerFrame DEF notpeer
<1>8. CASE UNCHANGED vars
  BY <1>0, <1>8 DEF vars
<1>. QED
  BY <1>0, <1>1, <1>2, <1>3, <1>4, <1>5, <1>6, <1>7, <1>8 DEF Next, MainStep, Terminated

(* A client numbers what it sends.                                         *)
LEMMA NumberedStep ==
  ASSUME IInv, Numbered, [Next]_vars
  PROVE  Numbered'
<1> SUFFICES ASSUME NEW c \in Conn PROVE \A i \in 1..Len(sent'[c]) : sent'[c][i].n = i
  BY DEF Numbered
<1>1. CASE sent'[c] = sent[c]
  BY <1>1 DEF Numbered
<1>2. ASSUME NEW e \in Item, e.n = Len(sent[c]) + 1, sent'[c] = Append(sent[c], e)
      PROVE  \A i \in 1..Len(sent'[c]) : sent'[c][i].n = i
  <2> DEFINE s == sent[c]
  <2>1. s \in Seq(Item) /\ \A i \in 1..Len(s) : s[i].n = i
    BY TypeParts DEF IInv, PeerTypes, Numbered
  <2>2. sent'[c] = Append(s, e) /\ e.n = Len(s) + 1
    BY <1>2
  <2> HIDE DEF s
  <2>3. /\ Len(Append(s, e)) = Len(s) + 1 /\ Append(s, e)[Len(s) + 1] = e /\ Len(s) \in Nat
        /\ \A i \in 1..Len(s) : Append(s, e)[i] = s[i]
    BY <2>1, AppendProperties
  <2>4. ASSUME NEW i \in 1..Len(s) + 1 PROVE Append(s, e)[i].n = i
    <3>1. CASE i = Len(s) + 1
      BY <3>1, <2>2, <2>3
    <3>2. CASE i # Len(s) + 1
      <4>1. i \in 1..Len(s)
        BY <3>2, <2>3
      <4>. QED
        BY <4>1, <2>1, <2>3
    <3>. QED
      BY <3>1, <3>2
  <2>. QED
    BY <2>2, <2>3, <2>4
<1>3. CASE ThreadStep(c) \/ Interrupted(c)
  BY <1>1, <1>3, ThreadKeepsSent
<1>. QED
  BY <1>1, <1>2, <1>3, QueueStep

(* What a step does to an answer: nothing, it starts anew, or a read adds  *)
(* what follows the position.                                              *)
LEMMA AnswerStep ==
  ASSUME IInv, SendBufferPlace, [Next]_vars, NEW c \in Conn
  PROVE  \/ Answer(c)' = Answer(c) /\ f_pos'[c] = f_pos[c]
         \/ Answer(c)' = <<>>
         \/ \E n \in Nat : /\ f_pos[c] + n <= Len(file) /\ f_pos'[c] = f_pos[c] + n /\ file' = file
                           /\ Answer(c)' = Answer(c) \o SubSeq(file, f_pos[c] + 1, f_pos[c] + n)
<1>0. ThreadTypes /\ FileTypes
  BY TypeParts DEF IInv
<1>1. reply[c] \in Seq(Write) /\ send_buffer[c] \in Seq(Write) /\ f_pos[c] \in Nat
  BY <1>0 DEF ThreadTypes
<1>2. CASE UNCHANGED <<reply[c], send_buffer[c], f_pos[c]>>
  BY <1>2 DEF Answer
<1>3. CASE ~(ThreadStep(c) \/ Interrupted(c))
  BY <1>2, <1>3, OwnFrame
<1>4. CASE reply'[c] = <<>> /\ send_buffer'[c] = <<>>
  <2>1. <<>> \o <<>> = <<>>
    OBVIOUS
  <2>. QED
    BY <1>4, <2>1 DEF Answer
<1>5. ASSUME NEW n \in 1..Len(send_buffer[c]), Sent(c, n)
      PROVE  Answer(c)' = Answer(c) /\ f_pos'[c] = f_pos[c]
  <2> DEFINE b == send_buffer[c]
             f == SubSeq(b, 1, n)
             r == SubSeq(b, n + 1, Len(b))
  <2>1. b \in Seq(Write) /\ n \in 0..Len(b)
    BY <1>1
  <2>2. f \in Seq(Write) /\ r \in Seq(Write) /\ f \o r = b
    BY <2>1, Cut
  <2>3. reply'[c] = reply[c] \o f /\ send_buffer'[c] = r /\ UNCHANGED f_pos
    BY <1>0, <1>5 DEF Sent, ThreadTypes
  <2> HIDE DEF f, r
  <2>4. (reply[c] \o f) \o r = reply[c] \o (f \o r)
    BY <1>1, <2>2, WritesAssociate, Zenon
  <2>. QED
    BY <2>2, <2>3, <2>4 DEF Answer
<1>6. CASE ThreadStep(c) \/ Interrupted(c)
  <2> USE DEF replyvars, filevars, GiveUp, SendFails
  <2>1. CASE main_loop_thread(c) \/ thread_cleanup(c) \/ process_received_data(c) \/ SendLock(c)
             \/ ReadEnds(c)
    BY <1>2, <2>1 DEF main_loop_thread, thread_cleanup, process_received_data, SendLock, ReadEnds
  <2>2. CASE waiting_for_data(c) \/ GrowFails(c)
    BY <1>2, <2>2 DEF waiting_for_data, GrowFails, Received
  <2>3. CASE RecvEnds(c) \/ RecvReset(c) \/ RecvInterrupted(c)
    BY <1>2, <2>3 DEF RecvEnds, RecvReset, RecvInterrupted
  <2>4. CASE WriteFails(c) \/ ReadFails(c) \/ SendError(c) \/ SendInterrupted(c)
    BY <1>2, <2>4 DEF WriteFails, ReadFails, SendError, SendInterrupted
  <2>5. CASE SendKills(c)
    BY <1>2, <2>5 DEF SendKills, threadvars
  <2>6. CASE write_to_file(c)
    <3>1. send_buffer[c] = <<>>
      BY <2>6 DEF write_to_file, At, SendBufferPlace
    <3>2. reply'[c] = <<>> /\ send_buffer'[c] = <<>>
      BY <1>0, <2>6, <3>1 DEF write_to_file, ThreadTypes
    <3>. QED
      BY <1>4, <3>2
  <2>7. CASE SendUnlock(c)
    BY <1>0, <1>4, <2>7 DEF SendUnlock, ThreadTypes
  <2>8. CASE read_from_file(c)
    <3>1. PICK n \in 1..ReadMax :
            /\ f_pos[c] + n <= Len(file)
            /\ send_buffer' = [send_buffer EXCEPT ![c] = SubSeq(file, f_pos[c] + 1, f_pos[c] + n)]
            /\ f_pos' = [f_pos EXCEPT ![c] = PosAfterRead(c, n)]
      BY <2>8 DEF read_from_file
    <3>2. n \in Nat
      BY Bounds
    <3>3. /\ send_buffer'[c] = SubSeq(file, f_pos[c] + 1, f_pos[c] + n)
          /\ f_pos'[c] = f_pos[c] + n /\ UNCHANGED <<file, reply>>
      BY <1>0, <2>8, <3>1 DEF read_from_file, PosAfterRead, ThreadTypes
    <3>4. Answer(c) = reply[c]
      <4>1. send_buffer[c] = <<>>
        BY <2>8 DEF read_from_file, At, SendBufferPlace
      <4>. QED
        BY <4>1, <1>1, ConcatEmptySeq DEF Answer
    <3>5. Answer(c)' = Answer(c) \o SubSeq(file, f_pos[c] + 1, f_pos[c] + n)
      BY <3>3, <3>4 DEF Answer
    <3>. QED
      BY <3>1, <3>2, <3>3, <3>5
  <2>9. CASE send(c)
    BY <1>5, <2>9 DEF send
  <2>10. CASE SendToClosed(c)
    <3>1. Len(send_buffer[c]) \in 1..Len(send_buffer[c])
      <4>1. send_buffer[c] # <<>>
        BY <2>10 DEF SendToClosed, At, SendBufferPlace
      <4>. QED
        BY <4>1, <1>1, EmptySeq
    <3>. QED
      BY <1>5, <2>10, <3>1 DEF SendToClosed
  <2>. QED
    BY <1>6, <2>1, <2>2, <2>3, <2>4, <2>5, <2>6, <2>7, <2>8, <2>9, <2>10 DEF ThreadStep, Interrupted
<1>. QED
  BY <1>3, <1>6

(* Concatenation said by positions, for items and for writes.              *)
LEMMA ItemsEndToEnd == \A u, v \in Seq(Item) : u \o v \in Seq(Item) /\ EndToEnd(u, v, u \o v)
BY ConcatIsEndToEnd

LEMMA WritesEndToEnd == \A u, v \in Seq(Write) : u \o v \in Seq(Write) /\ EndToEnd(u, v, u \o v)
BY ConcatIsEndToEnd

(* What follows g in the stream.                                           *)
LEMMA StreamAt ==
  ASSUME NEW g \in Seq(Item), NEW r \in Seq(Item), NEW n \in Seq(Item), NEW q \in Seq(Item),
         NEW j \in 1..Len(r)
  PROVE  /\ Len(g) + j \in 1..Len(Stream(g, r, n, q))
         /\ Stream(g, r, n, q)[Len(g) + j] = r[j]
<1> DEFINE x == g \o r  y == x \o n  z == y \o q
<1>1. x \in Seq(Item) /\ EndToEnd(g, r, x)
  BY ItemsEndToEnd, Zenon
<1>2. y \in Seq(Item) /\ EndToEnd(x, n, y)
  BY <1>1, ItemsEndToEnd, Zenon
<1>3. EndToEnd(y, q, z)
  BY <1>2, ItemsEndToEnd, Zenon
<1>4. z = Stream(g, r, n, q)
  BY DEF Stream
<1>5. Len(g) \in Nat /\ Len(r) \in Nat /\ Len(n) \in Nat /\ Len(q) \in Nat
  OBVIOUS
<1> HIDE DEF x, y, z
<1>6. Len(g) + j \in 1..Len(x) /\ x[Len(g) + j] = r[j]
  BY <1>1, <1>5 DEF EndToEnd
<1>7. Len(g) + j \in 1..Len(y) /\ y[Len(g) + j] = r[j]
  BY <1>2, <1>5, <1>6 DEF EndToEnd
<1>8. Len(g) + j \in 1..Len(z) /\ z[Len(g) + j] = r[j]
  BY <1>3, <1>5, <1>7 DEF EndToEnd
<1>. QED
  BY <1>4, <1>8

(* A packet that is about to be written has not been seen.                 *)
LEMMA FreshWrite ==
  ASSUME IInv, ThreadPlace, PacketInBuffer, Numbered, WrittenBefore, USE_AESD_CHAR_DEVICE,
         NEW c \in Conn, thread[c] = "write"
  PROVE  [by |-> c, data |-> rb[c]] \in Write /\ ~Seen([by |-> c, data |-> rb[c]])
<1> DEFINE w == [by |-> c, data |-> rb[c]]
<1>0. rb[c] \in Seq(Item) /\ rb_new[c] \in Seq(Item) /\ recv_queue[c] \in Seq(Item)
  BY TypeParts DEF IInv, ThreadTypes, PeerTypes
<1>1. w \in Write /\ w.by = c /\ w.data = rb[c]
  BY <1>0 DEF Write
<1>2. thread_state[c] = "SendingData" /\ rb[c] # <<>>
  BY DEF ThreadPlace, PacketInBuffer, Packet
<1>3. PICK g \in Seq(Item) :
        /\ Stream(g, rb[c], rb_new[c], recv_queue[c]) = sent[c]
        /\ \A x \in Write : Seen(x) /\ x.by = c => \A j \in 1..Len(x.data) : x.data[j].n <= Len(g)
  BY <1>2 DEF WrittenBefore
<1>4. 1 \in 1..Len(rb[c])
  BY <1>0, <1>2, EmptySeq
<1>5. Len(g) + 1 \in 1..Len(sent[c]) /\ sent[c][Len(g) + 1] = rb[c][1]
  <2> DEFINE r == rb[c]  n == rb_new[c]  q == recv_queue[c]
  <2>1. r \in Seq(Item) /\ n \in Seq(Item) /\ q \in Seq(Item) /\ 1 \in 1..Len(r)
    BY <1>0, <1>4
  <2>2. Stream(g, r, n, q) = sent[c]
    BY <1>3
  <2> HIDE DEF r, n, q
  <2>3. Len(g) + 1 \in 1..Len(Stream(g, r, n, q)) /\ Stream(g, r, n, q)[Len(g) + 1] = r[1]
    BY <2>1, StreamAt
  <2>. QED
    BY <2>2, <2>3 DEF r
<1>6. rb[c][1].n = Len(g) + 1 /\ Len(g) \in Nat
  BY <1>5 DEF Numbered
<1> HIDE DEF w
<1>7. ASSUME Seen(w) PROVE FALSE
  <2>1. rb[c][1].n <= Len(g)
    BY <1>1, <1>3, <1>4, <1>7
  <2>. QED
    BY <2>1, <1>6
<1>. QED
  BY <1>1, <1>7 DEF w

(* The device changes by whole packets only.                               *)
LEMMA DeviceChange ==
  ASSUME NoStamps, USE_AESD_CHAR_DEVICE, [Next]_vars
  PROVE  \/ UNCHANGED file
         \/ \E c \in Conn : /\ write_to_file(c) /\ thread[c] = "write"
                            /\ file' = Stored([by |-> c, data |-> rb[c]])
<1>1. ~write_time_stamp
  BY DEF NoStamps, write_time_stamp
<1>2. ASSUME NEW c \in Conn, write_to_file(c)
      PROVE  thread[c] = "write" /\ file' = Stored([by |-> c, data |-> rb[c]])
  BY <1>2 DEF write_to_file, At
<1>. QED
  BY <1>1, <1>2, FileChange

(* What is seen after a step was seen before, or is the write it makes.    *)
LEMMA SeenStep ==
  ASSUME IInv, ThreadPlace, SendBufferPlace, NoStamps, USE_AESD_CHAR_DEVICE, [Next]_vars,
         NEW x, Seen(x)'
  PROVE  Seen(x) \/ \E c \in Conn : write_to_file(c) /\ x = [by |-> c, data |-> rb[c]]
<1>0. file \in Seq(Write) /\ rb \in [Conn -> Seq(Item)] /\ f_pos \in [Conn -> Nat]
      /\ \A d \in Conn : Answer(d) \in Seq(Write)
  BY TypeParts, ConcatProperties DEF IInv, FileTypes, ThreadTypes, Answer
<1>1. ASSUME NEW i \in 1..Len(file'), x = file'[i]
      PROVE  Seen(x) \/ \E c \in Conn : write_to_file(c) /\ x = [by |-> c, data |-> rb[c]]
  <2>1. CASE UNCHANGED file
    BY <1>1, <2>1 DEF Seen
  <2>2. ASSUME NEW c \in Conn, write_to_file(c), file' = Stored([by |-> c, data |-> rb[c]])
        PROVE  Seen(x) \/ (write_to_file(c) /\ x = [by |-> c, data |-> rb[c]])
    <3> DEFINE w == [by |-> c, data |-> rb[c]]
    <3>1. w \in Write
      BY <1>0 DEF Write
    <3>2. file' = Stored(w)
      BY <2>2
    <3> HIDE DEF w
    <3>3. file'[i] = w \/ \E j \in 1..Len(file) : file'[i] = file[j]
      BY <1>0, <1>1, <3>1, <3>2, StoredElements
    <3>. QED
      BY <1>1, <2>2, <3>3 DEF w, Seen
  <2>. QED
    BY <2>1, <2>2, DeviceChange
<1>2. ASSUME NEW d \in Conn, NEW i \in 1..Len(Answer(d)'), x = Answer(d)'[i] PROVE Seen(x)
  <2>1. CASE Answer(d)' = Answer(d)
    BY <1>2, <2>1 DEF Seen
  <2>2. CASE Answer(d)' = <<>>
    BY <1>2, <2>2
  <2>3. ASSUME NEW n \in Nat, f_pos[d] + n <= Len(file),
               Answer(d)' = Answer(d) \o SubSeq(file, f_pos[d] + 1, f_pos[d] + n)
        PROVE  Seen(x)
    <3> DEFINE a == Answer(d)  p == f_pos[d]  t == SubSeq(file, p + 1, p + n)
    <3>1. a \in Seq(Write) /\ p \in Nat /\ p + n <= Len(file) /\ file \in Seq(Write)
      BY <1>0, <2>3
    <3>3. i \in 1..Len(a \o t) /\ x = (a \o t)[i]
      BY <1>2, <2>3
    <3> HIDE DEF a, p
    <3>2. t \in Seq(Write) /\ Len(t) = n /\ \A k \in 1..n : t[k] = file[p + k]
      BY <3>1, Slice
    <3> HIDE DEF t
    <3>4. EndToEnd(a, t, a \o t) /\ Len(a) \in Nat
      BY <3>1, <3>2, WritesEndToEnd
    <3>6. CASE i <= Len(a)
      <4>1. i \in 1..Len(a) /\ x = a[i]
        BY <3>3, <3>4, <3>6 DEF EndToEnd
      <4>. QED
        BY <4>1 DEF Seen, a
    <3>7. CASE ~(i <= Len(a))
      <4>1. i - Len(a) \in 1..n /\ x = t[i - Len(a)]
        <5>1. i - Len(a) \in 1..n
          BY <3>2, <3>3, <3>4, <3>7 DEF EndToEnd
        <5>2. (a \o t)[Len(a) + (i - Len(a))] = t[i - Len(a)]
          BY <3>2, <3>4, <5>1 DEF EndToEnd
        <5>. QED
          BY <3>3, <3>4, <5>1, <5>2
      <4>2. x = file[p + (i - Len(a))] /\ p + (i - Len(a)) \in 1..Len(file)
        <5>1. Len(file) \in Nat
          BY <1>0
        <5>. QED
          BY <5>1, <4>1, <3>1, <3>2
      <4>. QED
        BY <4>2 DEF Seen
    <3>. QED
      BY <3>6, <3>7
  <2>. QED
    BY <2>1, <2>2, <2>3, AnswerStep
<1>. QED
  BY <1>1, <1>2 DEF Seen

(* What a live connection has written is still what its client sent first. *)
LEMMA WrittenBeforeStep ==
  ASSUME IInv, ThreadPlace, PacketInBuffer, SendBufferPlace, NothingNew, NoStamps, Numbered,
         WrittenBefore, [Next]_vars
  PROVE  WrittenBefore'
<1> DEFINE Goal(c, g) ==
             /\ Stream(g, rb'[c], rb_new'[c], recv_queue'[c]) = sent'[c]
             /\ \A x \in Write : Seen(x)' /\ x.by = c => \A j \in 1..Len(x.data) : x.data[j].n <= Len(g)
<1> SUFFICES ASSUME USE_AESD_CHAR_DEVICE, NEW c \in Conn,
                    thread_state'[c] # "ClosedConnection", thread'[c] # "exited"
             PROVE  \E g \in Seq(Item) : Goal(c, g)
  BY DEF WrittenBefore
<1>0. rb[c] \in Seq(Item) /\ rb_new[c] \in Seq(Item) /\ recv_queue[c] \in Seq(Item)
  BY TypeParts DEF IInv, ThreadTypes, PeerTypes
<1>1. thread_state[c] # "ClosedConnection" /\ thread[c] # "exited"
  <2>1. thread_state[c] # "ClosedConnection"
    BY ClosedStays
  <2>2. CASE ThreadStep(c) \/ Interrupted(c)
    BY <2>1, <2>2, AtSomePlace
  <2>3. CASE ~(ThreadStep(c) \/ Interrupted(c))
    BY <2>1, <2>3, OwnFrame
  <2>. QED
    BY <2>2, <2>3
<1>2. PICK g \in Seq(Item) :
        /\ Stream(g, rb[c], rb_new[c], recv_queue[c]) = sent[c]
        /\ \A x \in Write : Seen(x) /\ x.by = c => \A j \in 1..Len(x.data) : x.data[j].n <= Len(g)
  BY <1>1 DEF WrittenBefore
<1>3. ASSUME NEW x \in Write, Seen(x)', x.by = c
      PROVE  Seen(x) \/ (write_to_file(c) /\ x.data = rb[c])
  <2>1. ASSUME NEW d \in Conn, write_to_file(d), x = [by |-> d, data |-> rb[d]]
        PROVE  write_to_file(c) /\ x.data = rb[c]
    <3>1. d = c
      BY <1>3, <2>1
    <3>. QED
      BY <2>1, <3>1
  <2>2. CASE \E d \in Conn : write_to_file(d) /\ x = [by |-> d, data |-> rb[d]]
    <3>1. PICK d \in Conn : write_to_file(d) /\ x = [by |-> d, data |-> rb[d]]
      BY <2>2
    <3>. QED
      BY <2>1, <3>1
  <2>3. Seen(x) \/ \E d \in Conn : write_to_file(d) /\ x = [by |-> d, data |-> rb[d]]
    BY <1>3, SeenStep
  <2>4. CASE Seen(x)
    BY <2>4
  <2>. QED
    BY <2>2, <2>3, <2>4
<1>4. CASE ~write_to_file(c)
  <2>1. Stream(g, rb'[c], rb_new'[c], recv_queue'[c]) = sent'[c]
    <3>1. CASE ThreadStep(c) \/ Interrupted(c)
      <4>1. sent'[c] = sent[c]
        BY <3>1, ThreadKeepsSent
      <4>. QED
        BY <1>2, <1>4, <3>1, <4>1, StreamInside
    <3>2. CASE ~(ThreadStep(c) \/ Interrupted(c))
      BY <1>1, <1>2, <3>2, StreamOutside
    <3>. QED
      BY <3>1, <3>2
  <2>2. \A x \in Write : Seen(x)' /\ x.by = c => \A j \in 1..Len(x.data) : x.data[j].n <= Len(g)
    BY <1>2, <1>3, <1>4
  <2>. QED
    BY <2>1, <2>2
<1>5. CASE write_to_file(c)
  <2> DEFINE r == rb[c]  n == rb_new[c]  q == recv_queue[c]  s == sent[c]
  <2>1. ThreadStep(c)
    BY <1>5 DEF ThreadStep
  <2>2. sent'[c] = s
    BY <2>1, ThreadKeepsSent
  <2>3. Stream(g \o r, rb'[c], rb_new'[c], recv_queue'[c]) = sent'[c]
    BY <1>2, <1>5, <2>1, <2>2, StreamInside
  <2>4. r \in Seq(Item) /\ n \in Seq(Item) /\ q \in Seq(Item)
    BY <1>0
  <2>9. Stream(g, r, n, q) = s
    BY <1>2
  <2>5. \A i \in 1..Len(s) : s[i].n = i
    BY DEF Numbered
  <2> HIDE DEF r, n, q, s
  <2>6. g \o r \in Seq(Item) /\ Len(g \o r) = Len(g) + Len(r) /\ Len(g) \in Nat /\ Len(r) \in Nat
    BY <2>4
  <2>7. \A j \in 1..Len(r) : r[j].n = Len(g) + j
    <3> SUFFICES ASSUME NEW j \in 1..Len(r) PROVE r[j].n = Len(g) + j
      OBVIOUS
    <3>1. Len(g) + j \in 1..Len(Stream(g, r, n, q)) /\ Stream(g, r, n, q)[Len(g) + j] = r[j]
      BY <2>4, StreamAt
    <3>. QED
      BY <3>1, <2>9, <2>5
  <2>8. ASSUME NEW x \in Write, Seen(x)', x.by = c, NEW j \in 1..Len(x.data)
        PROVE  x.data[j].n <= Len(g \o r)
    <3>1. CASE Seen(x)
      <4>1. x.data[j].n <= Len(g) /\ x.data[j].n \in Nat
        <5>1. x.data[j].n <= Len(g)
          BY <1>2, <2>8, <3>1, Zenon
        <5>2. x.data[j] \in Item
          BY <2>8 DEF Write
        <5>. QED
          BY <5>1, <5>2 DEF Item
      <4>. QED
        BY <4>1, <2>6
    <3>2. CASE x.data = r
      <4>1. j \in 1..Len(r)
        BY <2>8, <3>2
      <4>2. x.data[j].n = Len(g) + j
        BY <2>7, <3>2, <4>1
      <4>. QED
        BY <2>6, <4>1, <4>2
    <3>. QED
      BY <3>1, <3>2, <2>8, <1>3 DEF r
  <2>. QED
    BY <2>3, <2>6, <2>8
<1>. QED
  BY <1>4, <1>5

(* A write on the device: the others move up if the device was full.       *)
LEMMA StoredShift ==
  ASSUME file \in Seq(Write), NEW w \in Write
  PROVE  \E k \in {0, 1} :
           /\ Len(Stored(w)) = Len(file) + 1 - k
           /\ \A i \in 1..Len(Stored(w)) : Stored(w)[i] = IF i + k = Len(file) + 1 THEN w ELSE file[i + k]
<1> DEFINE all == Append(file, w)
<1>1. /\ all \in Seq(Write) /\ all # <<>> /\ Len(all) = Len(file) + 1 /\ Len(file) \in Nat
      /\ \A i \in 1..Len(file) : all[i] = file[i]
      /\ all[Len(file) + 1] = w
  BY AppendProperties
<1>2. Stored(w) = IF USE_AESD_CHAR_DEVICE /\ Len(all) > MaxOps THEN Tail(all) ELSE all
  BY DEF Stored
<1> HIDE DEF all
<1>3. \A i \in 1..Len(file) + 1 : all[i] = IF i = Len(file) + 1 THEN w ELSE file[i]
  BY <1>1
<1>4. CASE Stored(w) = Tail(all)
  <2>1. /\ Len(Tail(all)) = Len(all) - 1
        /\ \A i \in 1..Len(Tail(all)) : Tail(all)[i] = all[i + 1]
    BY <1>1, HeadTailProperties
  <2>2. \A i \in 1..Len(Tail(all)) : Tail(all)[i] = IF i + 1 = Len(file) + 1 THEN w ELSE file[i + 1]
    BY <1>1, <1>3, <2>1
  <2>. QED
    BY <1>1, <1>4, <2>1, <2>2
<1>5. CASE Stored(w) = all
  <2>1. \A i \in 1..Len(all) : all[i] = IF i + 0 = Len(file) + 1 THEN w ELSE file[i + 0]
    BY <1>1, <1>3
  <2>. QED
    BY <1>1, <1>5, <2>1
<1>. QED
  BY <1>2, <1>4, <1>5

(* Writes on the device stay different if a new one joins them.            *)
LEMMA DifferentStored ==
  ASSUME file \in Seq(Write), NEW w \in Write, Different(file),
         \A i \in 1..Len(file) : file[i] # w
  PROVE  Different(Stored(w))
<1> DEFINE t == Stored(w)
<1>1. PICK k \in {0, 1} :
        /\ Len(t) = Len(file) + 1 - k
        /\ \A i \in 1..Len(t) : t[i] = IF i + k = Len(file) + 1 THEN w ELSE file[i + k]
  BY StoredShift
<1>2. Len(file) \in Nat
  OBVIOUS
<1> HIDE DEF t
<1>3. \A i \in 1..Len(t) : i + k # Len(file) + 1 => i + k \in 1..Len(file)
  BY <1>1, <1>2
<1>4. ASSUME NEW i \in 1..Len(t), NEW j \in 1..Len(t), t[i] = t[j] PROVE i = j
  <2>1. CASE i + k = Len(file) + 1
    BY <2>1, <1>1, <1>2, <1>3, <1>4
  <2>2. CASE i + k # Len(file) + 1 /\ j + k = Len(file) + 1
    BY <2>2, <1>1, <1>2, <1>3, <1>4
  <2>3. CASE i + k # Len(file) + 1 /\ j + k # Len(file) + 1
    <3>1. i + k \in 1..Len(file) /\ j + k \in 1..Len(file) /\ file[i + k] = file[j + k]
      BY <2>3, <1>1, <1>3, <1>4
    <3>2. i + k = j + k
      BY <3>1 DEF Different
    <3>. QED
      BY <3>2, <1>1, <1>2
  <2>. QED
    BY <2>1, <2>2, <2>3
<1>. QED
  BY <1>4 DEF Different, t

(* What is ahead of a reader is still ahead, or new.                       *)
LEMMA AheadStored ==
  ASSUME file \in Seq(Write), NEW w \in Write, NEW a, NEW p \in Nat, Ahead(a, p, file),
         \A i \in 1..Len(a) : a[i] # w
  PROVE  Ahead(a, p, Stored(w))
<1> DEFINE t == Stored(w)
<1>1. PICK k \in {0, 1} :
        /\ Len(t) = Len(file) + 1 - k
        /\ \A i \in 1..Len(t) : t[i] = IF i + k = Len(file) + 1 THEN w ELSE file[i + k]
  BY StoredShift
<1>2. Len(file) \in Nat
  OBVIOUS
<1> HIDE DEF t
<1>3. ASSUME NEW i \in 1..Len(a), NEW j \in 1..Len(t), j > p PROVE a[i] # t[j]
  <2>1. CASE j + k = Len(file) + 1
    BY <2>1, <1>1
  <2>2. CASE j + k # Len(file) + 1
    <3>1. j + k \in 1..Len(file) /\ j + k > p /\ t[j] = file[j + k]
      BY <2>2, <1>1, <1>2, <1>3
    <3>. QED
      BY <3>1 DEF Ahead
  <2>. QED
    BY <2>1, <2>2
<1>. QED
  BY <1>3 DEF Ahead, t

(* A read takes from what is ahead.                                        *)
LEMMA AheadRead ==
  ASSUME NEW f \in Seq(Write), NEW a \in Seq(Write), NEW p \in Nat, NEW n \in Nat,
         p + n <= Len(f), Different(f), Different(a), Ahead(a, p, f)
  PROVE  LET b == a \o SubSeq(f, p + 1, p + n) IN Different(b) /\ Ahead(b, p + n, f)
<1> DEFINE t == SubSeq(f, p + 1, p + n)  b == a \o t
<1>1. t \in Seq(Write) /\ Len(t) = n /\ \A k \in 1..n : t[k] = f[p + k]
  BY Slice
<1> HIDE DEF t
<1>2. EndToEnd(a, t, b) /\ Len(a) \in Nat /\ Len(f) \in Nat
  BY <1>1, WritesEndToEnd
<1> HIDE DEF b
<1>3. Len(b) = Len(a) + n /\ \A i \in 1..Len(a) : b[i] = a[i]
  BY <1>1, <1>2 DEF EndToEnd
<1>4. \A i \in 1..Len(b) : ~(i <= Len(a)) => /\ p + (i - Len(a)) \in p + 1..p + n
                                             /\ p + (i - Len(a)) \in 1..Len(f)
                                             /\ b[i] = f[p + (i - Len(a))]
  <2> SUFFICES ASSUME NEW i \in 1..Len(b), ~(i <= Len(a))
               PROVE  /\ p + (i - Len(a)) \in p + 1..p + n
                      /\ p + (i - Len(a)) \in 1..Len(f) /\ b[i] = f[p + (i - Len(a))]
    OBVIOUS
  <2>1. i - Len(a) \in 1..n /\ Len(a) + (i - Len(a)) = i
    BY <1>2, <1>3
  <2>2. b[Len(a) + (i - Len(a))] = t[i - Len(a)]
    BY <1>1, <1>2, <2>1 DEF EndToEnd
  <2>3. t[i - Len(a)] = f[p + (i - Len(a))]
    BY <1>1, <2>1
  <2>. QED
    BY <1>2, <2>1, <2>2, <2>3
<1>5. \A i \in 1..Len(b) : i <= Len(a) => i \in 1..Len(a) /\ b[i] = a[i]
  BY <1>2, <1>3
<1>6. ASSUME NEW i \in 1..Len(b), NEW j \in 1..Len(b), b[i] = b[j], i <= Len(a), ~(j <= Len(a))
      PROVE  FALSE
  <2>1. i \in 1..Len(a) /\ b[i] = a[i]
    BY <1>5, <1>6
  <2>2. p + (j - Len(a)) \in 1..Len(f) /\ p + (j - Len(a)) > p /\ b[j] = f[p + (j - Len(a))]
    BY <1>4, <1>6
  <2>. QED
    BY <1>6, <2>1, <2>2 DEF Ahead
<1>7. ASSUME NEW i \in 1..Len(b), NEW j \in 1..Len(b), b[i] = b[j] PROVE i = j
  <2>1. CASE i <= Len(a) /\ j <= Len(a)
    <3>1. i \in 1..Len(a) /\ j \in 1..Len(a) /\ a[i] = a[j]
      BY <1>5, <1>7, <2>1
    <3>. QED
      BY <3>1 DEF Different
  <2>2. CASE ~(i <= Len(a)) /\ ~(j <= Len(a))
    <3>1. /\ p + (i - Len(a)) \in 1..Len(f) /\ p + (j - Len(a)) \in 1..Len(f)
          /\ f[p + (i - Len(a))] = f[p + (j - Len(a))]
      BY <1>4, <1>7, <2>2
    <3>2. p + (i - Len(a)) = p + (j - Len(a))
      BY <3>1 DEF Different
    <3>. QED
      BY <3>2, <1>2
  <2>. QED
    BY <1>6, <1>7, <2>1, <2>2
<1>8. ASSUME NEW i \in 1..Len(b), NEW j \in 1..Len(f), j > p + n PROVE b[i] # f[j]
  <2>1. CASE i <= Len(a)
    <3>1. i \in 1..Len(a) /\ b[i] = a[i] /\ j > p
      BY <1>5, <1>8, <2>1
    <3>. QED
      BY <3>1 DEF Ahead
  <2>2. CASE ~(i <= Len(a))
    <3> DEFINE k == p + (i - Len(a))
    <3>1. k \in p + 1..p + n /\ k \in 1..Len(f) /\ b[i] = f[k]
      BY <1>4, <2>2
    <3> HIDE DEF k
    <3>2. k # j
      BY <3>1, <1>8
    <3>. QED
      BY <3>1, <3>2 DEF Different
  <2>. QED
    BY <2>1, <2>2
<1>9. Different(b) /\ Ahead(b, p + n, f)
  BY <1>7, <1>8 DEF Different, Ahead
<1>. QED
  BY <1>9 DEF b, t

(* The writes on the device and in the answers stay different.             *)
LEMMA AheadOfReaderStep ==
  ASSUME IInv, ThreadPlace, PacketInBuffer, SendBufferPlace, NoStamps, Numbered, WrittenBefore,
         AheadOfReader, [Next]_vars
  PROVE  AheadOfReader'
<1> SUFFICES ASSUME USE_AESD_CHAR_DEVICE
             PROVE  /\ Different(file')
                    /\ \A c \in Conn : Different(Answer(c)') /\ Ahead(Answer(c)', f_pos'[c], file')
  BY DEF AheadOfReader, Different, Ahead
<1>0. file \in Seq(Write) /\ \A c \in Conn : f_pos[c] \in Nat /\ Answer(c) \in Seq(Write)
  <2>1. file \in Seq(Write) /\ \A c \in Conn : f_pos[c] \in Nat
    BY TypeParts DEF IInv, FileTypes, ThreadTypes
  <2>2. \A c \in Conn : reply[c] \in Seq(Write) /\ send_buffer[c] \in Seq(Write)
    BY TypeParts DEF IInv, ThreadTypes
  <2>. QED
    BY <2>1, <2>2, WritesEndToEnd, Zenon DEF Answer
<1>1. Different(file) /\ \A c \in Conn : Different(Answer(c)) /\ Ahead(Answer(c), f_pos[c], file)
  BY DEF AheadOfReader
<1>2. ASSUME NEW d \in Conn, thread[d] = "write", file' = Stored([by |-> d, data |-> rb[d]])
      PROVE  Different(file') /\ \A c \in Conn : Ahead(Answer(c), f_pos[c], file')
  <2> DEFINE w == [by |-> d, data |-> rb[d]]
  <2>1. w \in Write /\ ~Seen(w) /\ file' = Stored(w)
    BY <1>2, FreshWrite
  <2> HIDE DEF w
  <2>2. \A i \in 1..Len(file) : file[i] # w
    BY <2>1 DEF Seen
  <2>3. Different(Stored(w))
    BY <1>0, <1>1, <2>1, <2>2, DifferentStored
  <2>4. ASSUME NEW c \in Conn PROVE Ahead(Answer(c), f_pos[c], Stored(w))
    <3> DEFINE a == Answer(c)  p == f_pos[c]
    <3>1. p \in Nat /\ Ahead(a, p, file)
      BY <1>0, <1>1
    <3>2. \A i \in 1..Len(a) : a[i] # w
      BY <2>1 DEF Seen
    <3> HIDE DEF a, p
    <3>3. Ahead(a, p, Stored(w))
      BY <1>0, <2>1, <3>1, <3>2, AheadStored
    <3>. QED
      BY <3>3 DEF a, p
  <2>. QED
    BY <2>1, <2>3, <2>4
<1>3. Different(file') /\ \A c \in Conn : Ahead(Answer(c), f_pos[c], file')
  <2>1. CASE UNCHANGED file
    BY <2>1, <1>1
  <2>. QED
    BY <2>1, <1>2, DeviceChange
<1>4. ASSUME NEW c \in Conn PROVE Different(Answer(c)') /\ Ahead(Answer(c)', f_pos'[c], file')
  <2>1. CASE Answer(c)' = Answer(c) /\ f_pos'[c] = f_pos[c]
    BY <1>1, <1>3, <2>1
  <2>2. CASE Answer(c)' = <<>>
    BY <2>2 DEF Different, Ahead
  <2>3. ASSUME NEW n \in Nat, f_pos[c] + n <= Len(file), f_pos'[c] = f_pos[c] + n, file' = file,
               Answer(c)' = Answer(c) \o SubSeq(file, f_pos[c] + 1, f_pos[c] + n)
        PROVE  Different(Answer(c)') /\ Ahead(Answer(c)', f_pos'[c], file')
    <3> DEFINE a == Answer(c)  p == f_pos[c]  b == a \o SubSeq(file, p + 1, p + n)
    <3>1. p \in Nat /\ a \in Seq(Write) /\ Different(a) /\ Ahead(a, p, file) /\ p + n <= Len(file)
      BY <1>0, <1>1, <2>3
    <3>2. Answer(c)' = b /\ f_pos'[c] = p + n /\ file' = file
      BY <2>3
    <3> HIDE DEF a, p
    <3>3. Different(b) /\ Ahead(b, p + n, file)
      BY <1>0, <1>1, <3>1, AheadRead
    <3> HIDE DEF b
    <3>. QED
      BY <3>2, <3>3
  <2>. QED
    BY <2>1, <2>2, <2>3, AnswerStep
<1>. QED
  BY <1>3, <1>4

(* The inductive invariant of the char device build.                       *)
NInv == SInv /\ NoStamps /\ Numbered /\ WrittenBefore /\ AheadOfReader

(* Nothing has been sent, and the old writes on the device are numbered.   *)
LEMMA InitNInv == Init => NInv
<1> SUFFICES ASSUME Init PROVE NInv
  OBVIOUS
<1>1. SInv
  BY InitSInv
<1>2. \A c \in Conn : /\ rb[c] = <<>> /\ rb_new[c] = <<>> /\ recv_queue[c] = <<>> /\ sent[c] = <<>>
                      /\ reply[c] = <<>> /\ send_buffer[c] = <<>>
  BY DEF Init
<1>3. NoStamps
  BY DEF Init, NoStamps
<1>4. Numbered
  BY <1>2 DEF Numbered
<1>5. \A c \in Conn : Answer(c) = <<>>
  <2>1. <<>> \o <<>> = <<>>
    OBVIOUS
  <2>. QED
    BY <1>2, <2>1 DEF Answer
<1>6. OldWrites \in Nat /\ NoOne \notin Conn
  BY SocketAssumption
<1>7. /\ Len(file) = OldWrites
      /\ \A i \in 1..OldWrites : file[i].by = NoOne /\ file[i].data[1].n = i
  BY <1>6 DEF Init
<1>8. WrittenBefore
  <2> SUFFICES ASSUME NEW c \in Conn
               PROVE  \E g \in Seq(Item) :
                        /\ Stream(g, rb[c], rb_new[c], recv_queue[c]) = sent[c]
                        /\ \A x \in Write : Seen(x) /\ x.by = c =>
                                              \A j \in 1..Len(x.data) : x.data[j].n <= Len(g)
    BY DEF WrittenBefore
  <2>1. <<>> \in Seq(Item) /\ <<>> \o <<>> \o <<>> \o <<>> = <<>>
    OBVIOUS
  <2>2. Stream(<<>>, rb[c], rb_new[c], recv_queue[c]) = sent[c]
    BY <1>2, <2>1 DEF Stream
  <2>3. ASSUME NEW x \in Write, Seen(x), x.by = c PROVE FALSE
    <3>1. \A d \in Conn : Len(Answer(d)) = 0
      BY <1>5
    <3>. QED
      BY <1>6, <1>7, <2>3, <3>1 DEF Seen
  <2>. QED
    BY <2>1, <2>2, <2>3
<1>9. AheadOfReader
  <2>1. Different(file)
    BY <1>7 DEF Different
  <2>2. \A c \in Conn : Different(Answer(c)) /\ Ahead(Answer(c), f_pos[c], file)
    BY <1>5 DEF Different, Ahead
  <2>. QED
    BY <2>1, <2>2 DEF AheadOfReader
<1>. QED
  BY <1>1, <1>3, <1>4, <1>8, <1>9 DEF NInv

(* Char device build: however writers drop the oldest write under a reader *)
(* that is in the middle of its answer, which moves the rest of the device *)
(* towards the reader's position, no answer ever holds a write twice.      *)
THEOREM NothingSentTwice == Spec => []NeverSentTwice
<1>1. NInv /\ [Next]_vars /\ SInv' => NInv'
  <2> SUFFICES ASSUME NInv, [Next]_vars, SInv' PROVE NInv'
    OBVIOUS
  <2>1. /\ IInv /\ ThreadPlace /\ PacketInBuffer /\ SendBufferPlace /\ NothingNew
        /\ NoStamps /\ Numbered /\ WrittenBefore /\ AheadOfReader
    BY DEF NInv, SInv, DInv
  <2>2. NoStamps' /\ Numbered' /\ WrittenBefore' /\ AheadOfReader'
    BY <2>1, NoStampsStep, NumberedStep, WrittenBeforeStep, AheadOfReaderStep
  <2>. QED
    BY <2>2 DEF NInv
<1>2. NInv => NeverSentTwice
  BY DEF NInv, AheadOfReader, Different, Answer, NeverSentTwice
<1>. QED
  BY <1>1, <1>2, InitNInv, StreamInvariance, PTL DEF Spec

=============================================================================
