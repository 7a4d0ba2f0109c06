------------------------ MODULE AesdLifecycleProofs ------------------------
(***************************************************************************)
(* Proofs about AesdLifecycle, for any number of processes, of starts by   *)
(* hand and of packets: only one process serves at a time, a stop of the   *)
(* script misses none, a server finds packets of another only after a      *)
(* crash, a failed unlink or in the gap between close and unlink, and it   *)
(* does not lose its own while the script alone starts processes.          *)
(***************************************************************************)
EXTENDS AesdLifecycle, FiniteSetTheorems, TLAPS

(* Where a process has its first call of startup, its fork or its exit as  *)
(* a parent before it.                                                     *)
Early == StartupPCs \cup {"fork", "parent"}

(* The process keeps others from binding the port.                         *)
Holding(p) == socket_fd[p] \in {"bound", "listening"}

(* What socket_fd names at each place of a process.                        *)
SocketAt ==
  \A p \in Proc :
    /\ pc[p] \in {"none", "sigterm", "sigint", "socket"} => socket_fd[p] = "stdin"
    /\ pc[p] = "bind" => socket_fd[p] = "open"
    /\ pc[p] = "listen" => socket_fd[p] = "bound"
    /\ pc[p] \in {"fork", "parent", "child", "loop"} => socket_fd[p] = "listening"
    /\ pc[p] \in {"unlink", "gone"} => socket_fd[p] = "none"

(* Two processes hold the port only if one is the other's parent and about *)
(* to exit.                                                                *)
OnePort ==
  \A p, q \in Proc :
    p # q /\ Holding(p) /\ Holding(q) => pc[p] = "parent" \/ pc[q] = "parent"

(* Who wrote what is in the file has been killed, could not remove it, or  *)
(* is still to close its socket, or to remove the file.                    *)
FileOwned ==
  \A q \in ToSet(file) :
    \/ q \in remains
    \/ pc[q] \in {"loop", "close"} /\ socket_fd[q] = "listening"
    \/ pc[q] = "unlink"

(* While the script alone starts processes, it waits for every process     *)
(* that may still fork, and its stop has signalled all but its targets.    *)
ScriptKnows ==
  byhand = 0 =>
    /\ \A p \in Proc : pc[p] \in Early => script = "start" /\ awaited = p
    /\ script = "start" => ~stopped
    /\ script = "stop" => \A p \in Live : p \in targets \/ caught_signal[p]
    /\ script = "idle" /\ stopped => \A p \in Live : caught_signal[p]

(* While the script alone starts processes, there is one family at a time: *)
(* a process, or a child and the parent that is about to exit.             *)
OneFamily ==
  byhand = 0 => \A p, q \in Live : p # q => pc[p] = "parent" \/ pc[q] = "parent"

(* A process that has not been in main_loop has stored nothing.            *)
BeforeLoop == StartupPCs \cup {"none", "fork", "parent", "child"}

NothingStored == \A p \in Proc : pc[p] \in BeforeLoop => stored[p] = 0 /\ p \notin ToSet(file)

(* The inductive invariant.                                                *)
IInv ==
  /\ TypeOK /\ SocketAt /\ OnePort /\ FileOwned /\ ScriptKnows
  /\ OneFamily /\ NothingStored /\ HistoryKept

-----------------------------------------------------------------------------
(* ToSet of an empty and of a longer sequence.                             *)
LEMMA ToSetAppend ==
  ASSUME NEW S, NEW s \in Seq(S), NEW e \in S
  PROVE  ToSet(<<>>) = {} /\ ToSet(Append(s, e)) = ToSet(s) \cup {e}
<1>1. ToSet(<<>>) = {}
  BY DEF ToSet
<1>2. Append(s, e) \in Seq(S) /\ Len(Append(s, e)) = Len(s) + 1 /\ Len(s) \in Nat
      /\ DOMAIN s = 1..Len(s) /\ DOMAIN Append(s, e) = 1..Len(s) + 1
  OBVIOUS
<1>3. \A i \in 1..Len(s) : Append(s, e)[i] = s[i]
  OBVIOUS
<1>4. Append(s, e)[Len(s) + 1] = e
  OBVIOUS
<1>5. ASSUME NEW x \in ToSet(Append(s, e)) PROVE x \in ToSet(s) \cup {e}
  <2>1. PICK i \in 1..Len(s) + 1 : x = Append(s, e)[i]
    BY <1>2, <1>5 DEF ToSet
  <2>2. CASE i \in 1..Len(s)
    BY <2>1, <2>2, <1>2, <1>3 DEF ToSet
  <2>3. CASE i = Len(s) + 1
    BY <2>1, <2>3, <1>4
  <2>. QED
    BY <2>1, <2>2, <2>3, <1>2
<1>6. ASSUME NEW x \in ToSet(s) \cup {e} PROVE x \in ToSet(Append(s, e))
  <2>1. CASE x \in ToSet(s)
    <3>1. PICK i \in 1..Len(s) : x = s[i]
      BY <2>1, <1>2 DEF ToSet
    <3>2. i \in DOMAIN Append(s, e) /\ x = Append(s, e)[i]
      BY <3>1, <1>2, <1>3
    <3>. QED
      BY <3>2 DEF ToSet
  <2>2. CASE x = e
    <3>1. Len(s) + 1 \in DOMAIN Append(s, e)
      BY <1>2
    <3>. QED
      BY <3>1, <2>2, <1>4 DEF ToSet
  <2>. QED
    BY <1>6, <2>1, <2>2
<1>. QED
  BY <1>1, <1>5, <1>6

(* The initial states satisfy the invariant: no process exists.            *)
LEMMA InitIInv == Init => IInv
<1> SUFFICES ASSUME Init PROVE IInv
  OBVIOUS
<1>1. TypeOK
  <2>1. MaxPackets \in Nat /\ MaxByHand \in Nat
    BY LifecycleAssumption
  <2>2. /\ handled \in [Proc -> SUBSET Signals]
        /\ daemon_enabled \in [Proc -> BOOLEAN] /\ caught_signal \in [Proc -> BOOLEAN]
    BY Zenon DEF Init
  <2>3. /\ file \in Seq(Proc) /\ targets \in SUBSET Proc /\ remains \in SUBSET Proc
        /\ awaited \in Proc \cup {NoProc}
    BY DEF Init
  <2>4. stopped \in BOOLEAN /\ script \in {"idle", "start", "stop"}
    BY DEF Init
  <2>5. stored \in [Proc -> 0..MaxPackets] /\ byhand \in 0..MaxByHand
    BY <2>1 DEF Init
  <2>6. /\ pc \in [Proc -> PCs] /\ parent \in [Proc -> Proc \cup {NoProc}]
        /\ socket_fd \in [Proc -> {"stdin", "none", "open", "bound", "listening"}]
    BY DEF Init, PCs
  <2>. QED
    BY <2>2, <2>3, <2>4, <2>5, <2>6 DEF TypeOK
<1>2. SocketAt
  BY DEF Init, SocketAt
<1>3. OnePort
  BY DEF Init, OnePort, Holding
<1>4. FileOwned
  BY DEF Init, FileOwned, ToSet
<1>5. ScriptKnows
  BY DEF Init, ScriptKnows, Early, StartupPCs, Live
<1>6. OneFamily
  BY DEF Init, OneFamily, Live
<1>7. NothingStored
  BY DEF Init, NothingStored, ToSet
<1>8. HistoryKept
  BY DEF Init, HistoryKept, Serving
<1>. QED
  BY <1>1, <1>2, <1>3, <1>4, <1>5, <1>6, <1>7, <1>8 DEF IInv

(* Every step keeps the types.                                            *)
LEMMA TypeStep ==
  TypeOK /\ [Next]_vars => TypeOK'
<1> SUFFICES ASSUME TypeOK, [Next]_vars PROVE TypeOK'
  OBVIOUS
<1> USE DEF TypeOK, PCs, StartupPCs, Signals
<1>1. CASE UNCHANGED vars
  BY <1>1 DEF vars, procvars, scriptvars, history
<1>2. ASSUME NEW p \in Proc, Sigaction(p) PROVE TypeOK'
  <2>1. handled' \in [Proc -> SUBSET Signals]
    <3>1. \A s \in Signals : [handled EXCEPT ![p] = @ \cup {s}] \in [Proc -> SUBSET Signals]
      BY Zenon
    <3>. QED
      BY <3>1, <1>2 DEF Sigaction
  <2>. QED
    BY <2>1, <1>2 DEF Sigaction, Goto, procvars, scriptvars, history
<1>3. ASSUME NEW p \in Proc, Socket(p) PROVE TypeOK'
  BY <1>3 DEF Socket, Goto, SetSocket, procvars, scriptvars, history
<1>4. ASSUME NEW p \in Proc, Bind(p) PROVE TypeOK'
  BY <1>4 DEF Bind, Bound, Goto, SetSocket, procvars, scriptvars, history
<1>5. ASSUME NEW p \in Proc, Listen(p) PROVE TypeOK'
  BY <1>5 DEF Listen, Goto, SetSocket, procvars, scriptvars, history
<1>6. ASSUME NEW p \in Proc, StartupFails(p) PROVE TypeOK'
  BY <1>6 DEF StartupFails, Goto, procvars, scriptvars, history
<1>7. ASSUME NEW p \in Proc, NEW q \in Proc, main_loop_fork(p, q) PROVE TypeOK'
  BY <1>7 DEF main_loop_fork, Fresh, InheritedFlag, procvars, scriptvars, history
<1>8. ASSUME NEW p \in Proc, ForkFails(p) PROVE TypeOK'
  BY <1>8 DEF ForkFails, Goto, procvars, scriptvars, history
<1>9. ASSUME NEW p \in Proc, ParentExit(p) PROVE TypeOK'
  BY <1>9 DEF ParentExit, ParentEnds, Exit, Goto, procvars, scriptvars, history
<1>10. ASSUME NEW p \in Proc, ChildSetup(p) PROVE TypeOK'
  BY <1>10 DEF ChildSetup, procvars, scriptvars, history
<1>11. ASSUME NEW p \in Proc, main_loop(p) PROVE TypeOK'
  BY <1>11 DEF main_loop, AfterLoop, Goto, procvars, scriptvars, history
<1>12. ASSUME NEW p \in Proc, CloseSocket(p) PROVE TypeOK'
  BY <1>12 DEF CloseSocket, Goto, SetSocket, procvars, scriptvars, history
<1>13. ASSUME NEW p \in Proc, Unlink(p) PROVE TypeOK'
  <2>1. file' \in Seq(Proc)
    <3>1. <<>> \in Seq(Proc)
      OBVIOUS
    <3>2. file' = <<>> \/ file' = file
      BY <1>13, Zenon DEF Unlink
    <3>. QED
      BY <3>1, <3>2
  <2>2. remains' \in SUBSET Proc
    BY <1>13 DEF Unlink
  <2>3. Exit(p)
    BY <1>13 DEF Unlink
  <2>4. handled' \in [Proc -> SUBSET Signals]
    BY <2>3 DEF Exit
  <2>. QED
    BY <2>1, <2>2, <2>3, <2>4, <1>13 DEF Unlink, Exit, Goto, procvars, scriptvars, history
<1>14. ASSUME NEW p \in Proc, StorePacket(p) PROVE TypeOK'
  <2>1. MaxPackets \in Nat
    BY LifecycleAssumption
  <2>2. stored' \in [Proc -> 0..MaxPackets]
    BY <2>1, <1>14 DEF StorePacket
  <2>3. file' \in Seq(Proc)
    BY <1>14 DEF StorePacket
  <2>. QED
    BY <2>2, <2>3, <1>14 DEF StorePacket, procvars, scriptvars, history
<1>15. ASSUME NEW p \in Proc, KillByHand(p) PROVE TypeOK'
  <2>1. CASE UNCHANGED procvars /\ UNCHANGED remains
    BY <2>1, <1>15 DEF KillByHand, signal_handler, procvars, scriptvars
  <2>2. CASE caught_signal' = [caught_signal EXCEPT ![p] = TRUE]
             /\ UNCHANGED <<pc, daemon_enabled, handled, socket_fd, remains>>
    BY <2>2, <1>15 DEF KillByHand, signal_handler, scriptvars
  <2>3. CASE Killed(p)
    BY <2>3, <1>15 DEF KillByHand, signal_handler, scriptvars, Killed, Exit, Goto
  <2>. QED
    BY <2>1, <2>2, <2>3, <1>15 DEF KillByHand, signal_handler
<1>16. ASSUME NEW p \in Proc, Crash(p) PROVE TypeOK'
  BY <1>16 DEF Crash, Killed, Exit, Goto, procvars, scriptvars, history
<1>17. ASSUME NEW p \in Proc, StartByHand(p) PROVE TypeOK'
  <2>1. MaxByHand \in Nat
    BY LifecycleAssumption
  <2>2. byhand' \in 0..MaxByHand
    BY <2>1, <1>17 DEF StartByHand
  <2>3. PICK d \in BOOLEAN : main(p, d)
    BY <1>17 DEF StartByHand
  <2>. QED
    BY <2>2, <2>3, <1>17 DEF StartByHand, main, Fresh, Goto, procvars, scriptvars, history
<1>18. ASSUME NEW p \in Proc, ScriptStart(p) PROVE TypeOK'
  BY <1>18 DEF ScriptStart, main, Fresh, Goto, procvars, scriptvars, history
<1>19. ASSUME NEW p \in Proc, ScriptKill(p) PROVE TypeOK'
  <2>1. CASE UNCHANGED procvars /\ UNCHANGED remains
    BY <2>1, <1>19 DEF ScriptKill, signal_handler, procvars, scriptvars
  <2>2. CASE caught_signal' = [caught_signal EXCEPT ![p] = TRUE]
             /\ UNCHANGED <<pc, daemon_enabled, handled, socket_fd, remains>>
    BY <2>2, <1>19 DEF ScriptKill, signal_handler, scriptvars
  <2>3. CASE Killed(p)
    BY <2>3, <1>19 DEF ScriptKill, signal_handler, scriptvars, Killed, Exit, Goto
  <2>. QED
    BY <2>1, <2>2, <2>3, <1>19 DEF ScriptKill, signal_handler
<1>20. CASE ScriptStarted
  BY <1>20 DEF ScriptStarted, procvars, scriptvars, history
<1>21. CASE ScriptStop
  BY <1>21 DEF ScriptStop, procvars, scriptvars, history, Live
<1>22. CASE ScriptStopped
  BY <1>22 DEF ScriptStopped, procvars, scriptvars, history
<1>. QED
  BY <1>1, <1>2, <1>3, <1>4, <1>5, <1>6, <1>7, <1>8, <1>9, <1>10, <1>11, <1>12,
     <1>13, <1>14, <1>15, <1>16, <1>17, <1>18, <1>19, <1>20, <1>21, <1>22
     DEF Next, ProcStep, ScriptStep

(* Every step keeps socket_fd in line with the place of its process.      *)
LEMMA SocketStep ==
  TypeOK /\ SocketAt /\ [Next]_vars => SocketAt'
<1> SUFFICES ASSUME TypeOK, SocketAt, [Next]_vars PROVE SocketAt'
  OBVIOUS
<1> USE DEF TypeOK, SocketAt, PCs, StartupPCs
<1>1. CASE UNCHANGED vars
  BY <1>1 DEF vars, procvars, scriptvars, history
<1>2. ASSUME NEW p \in Proc, Sigaction(p) PROVE SocketAt'
  BY <1>2 DEF Sigaction, Goto, procvars, scriptvars, history
<1>3. ASSUME NEW p \in Proc, Socket(p) PROVE SocketAt'
  BY <1>3 DEF Socket, Goto, SetSocket, procvars, scriptvars, history
<1>4. ASSUME NEW p \in Proc, Bind(p) PROVE SocketAt'
  BY <1>4 DEF Bind, Bound, Goto, SetSocket, procvars, scriptvars, history
<1>5. ASSUME NEW p \in Proc, Listen(p) PROVE SocketAt'
  BY <1>5 DEF Listen, Goto, SetSocket, procvars, scriptvars, history
<1>6. ASSUME NEW p \in Proc, StartupFails(p) PROVE SocketAt'
  BY <1>6 DEF StartupFails, Goto, procvars, scriptvars, history
<1>7. ASSUME NEW p \in Proc, NEW q \in Proc, main_loop_fork(p, q) PROVE SocketAt'
  BY <1>7 DEF main_loop_fork, Fresh, InheritedFlag, procvars, scriptvars, history
<1>8. ASSUME NEW p \in Proc, ForkFails(p) PROVE SocketAt'
  BY <1>8 DEF ForkFails, Goto, procvars, scriptvars, history
<1>9. ASSUME NEW p \in Proc, ParentExit(p) PROVE SocketAt'
  BY <1>9 DEF ParentExit, ParentEnds, Exit, Goto, procvars, scriptvars, history
<1>10. ASSUME NEW p \in Proc, ChildSetup(p) PROVE SocketAt'
  BY <1>10 DEF ChildSetup, procvars, scriptvars, history
<1>11. ASSUME NEW p \in Proc, main_loop(p) PROVE SocketAt'
  BY <1>11 DEF main_loop, AfterLoop, Goto, procvars, scriptvars, history
<1>12. ASSUME NEW p \in Proc, CloseSocket(p) PROVE SocketAt'
  BY <1>12 DEF CloseSocket, Goto, SetSocket, procvars, scriptvars, history
<1>13. ASSUME NEW p \in Proc, Unlink(p) PROVE SocketAt'
  BY <1>13 DEF Unlink, Exit, Goto, procvars, scriptvars, history
<1>14. ASSUME NEW p \in Proc, StorePacket(p) PROVE SocketAt'
  BY <1>14 DEF StorePacket, procvars, scriptvars, history
<1>15. ASSUME NEW p \in Proc, KillByHand(p) PROVE SocketAt'
  BY <1>15 DEF KillByHand, signal_handler, Killed, Exit, Goto, procvars, scriptvars, history
<1>16. ASSUME NEW p \in Proc, Crash(p) PROVE SocketAt'
  BY <1>16 DEF Crash, Killed, Exit, Goto, procvars, scriptvars, history
<1>17. ASSUME NEW p \in Proc, StartByHand(p) PROVE SocketAt'
  BY <1>17 DEF StartByHand, main, Fresh, Goto, procvars, scriptvars, history
<1>18. ASSUME NEW p \in Proc, ScriptStart(p) PROVE SocketAt'
  BY <1>18 DEF ScriptStart, main, Fresh, Goto, procvars, scriptvars, history
<1>19. ASSUME NEW p \in Proc, ScriptKill(p) PROVE SocketAt'
  BY <1>19 DEF ScriptKill, signal_handler, Killed, Exit, Goto, procvars, scriptvars, history
<1>20. CASE ScriptStarted
  BY <1>20 DEF ScriptStarted, procvars, scriptvars, history
<1>21. CASE ScriptStop
  BY <1>21 DEF ScriptStop, procvars, scriptvars, history
<1>22. CASE ScriptStopped
  BY <1>22 DEF ScriptStopped, procvars, scriptvars, history
<1>. QED
  BY <1>1, <1>2, <1>3, <1>4, <1>5, <1>6, <1>7, <1>8, <1>9, <1>10, <1>11, <1>12,
     <1>13, <1>14, <1>15, <1>16, <1>17, <1>18, <1>19, <1>20, <1>21, <1>22
     DEF Next, ProcStep, ScriptStep

(* Every step keeps the port to one process and its parent: bind is the   *)
(* only way to it, and the fork copies it from a process that had it alone.*)
LEMMA PortStep ==
  TypeOK /\ SocketAt /\ OnePort /\ [Next]_vars => OnePort'
<1> SUFFICES ASSUME TypeOK, SocketAt, OnePort, [Next]_vars PROVE OnePort'
  OBVIOUS
<1> USE DEF TypeOK, SocketAt, OnePort, Holding, PCs, StartupPCs
<1>1. CASE UNCHANGED vars
  BY <1>1 DEF vars, procvars, scriptvars, history
<1>2. ASSUME NEW p \in Proc, Sigaction(p) PROVE OnePort'
  BY <1>2 DEF Sigaction, Goto, procvars, scriptvars, history
<1>3. ASSUME NEW p \in Proc, Socket(p) PROVE OnePort'
  <2>1. CASE SetSocket(p, "open") /\ Goto(p, "bind")
    BY <2>1, <1>3 DEF Socket, Goto, SetSocket, procvars, scriptvars, history
  <2>2. CASE SetSocket(p, "none") /\ Goto(p, "close")
    BY <2>2, <1>3 DEF Socket, Goto, SetSocket, procvars, scriptvars, history
  <2>. QED
    BY <2>1, <2>2, <1>3 DEF Socket
<1>4. ASSUME NEW p \in Proc, Bind(p) PROVE OnePort'
  BY <1>4 DEF Bind, Bound, Goto, SetSocket, procvars, scriptvars, history, PortTaken
<1>5. ASSUME NEW p \in Proc, Listen(p) PROVE OnePort'
  BY <1>5 DEF Listen, Goto, SetSocket, procvars, scriptvars, history
<1>6. ASSUME NEW p \in Proc, StartupFails(p) PROVE OnePort'
  BY <1>6 DEF StartupFails, Goto, procvars, scriptvars, history
<1>7. ASSUME NEW p \in Proc, NEW q \in Proc, main_loop_fork(p, q) PROVE OnePort'
  BY <1>7 DEF main_loop_fork, Fresh, InheritedFlag, procvars, scriptvars, history
<1>8. ASSUME NEW p \in Proc, ForkFails(p) PROVE OnePort'
  BY <1>8 DEF ForkFails, Goto, procvars, scriptvars, history
<1>9. ASSUME NEW p \in Proc, ParentExit(p) PROVE OnePort'
  BY <1>9 DEF ParentExit, ParentEnds, Exit, Goto, procvars, scriptvars, history
<1>10. ASSUME NEW p \in Proc, ChildSetup(p) PROVE OnePort'
  BY <1>10 DEF ChildSetup, procvars, scriptvars, history
<1>11. ASSUME NEW p \in Proc, main_loop(p) PROVE OnePort'
  BY <1>11 DEF main_loop, AfterLoop, Goto, procvars, scriptvars, history
<1>12. ASSUME NEW p \in Proc, CloseSocket(p) PROVE OnePort'
  BY <1>12 DEF CloseSocket, Goto, SetSocket, procvars, scriptvars, history
<1>13. ASSUME NEW p \in Proc, Unlink(p) PROVE OnePort'
  BY <1>13 DEF Unlink, Exit, Goto, procvars, scriptvars, history
<1>14. ASSUME NEW p \in Proc, StorePacket(p) PROVE OnePort'
  BY <1>14 DEF StorePacket, procvars, scriptvars, history
<1>15. ASSUME NEW p \in Proc, KillByHand(p) PROVE OnePort'
  <2>1. CASE UNCHANGED procvars /\ UNCHANGED remains
    BY <2>1, <1>15 DEF KillByHand, signal_handler, procvars, scriptvars
  <2>2. CASE caught_signal' = [caught_signal EXCEPT ![p] = TRUE]
             /\ UNCHANGED <<pc, daemon_enabled, handled, socket_fd, remains>>
    BY <2>2, <1>15 DEF KillByHand, signal_handler, scriptvars
  <2>3. CASE Killed(p)
    BY <2>3, <1>15 DEF KillByHand, signal_handler, scriptvars, Killed, Exit, Goto
  <2>. QED
    BY <2>1, <2>2, <2>3, <1>15 DEF KillByHand, signal_handler
<1>16. ASSUME NEW p \in Proc, Crash(p) PROVE OnePort'
  BY <1>16 DEF Crash, Killed, Exit, Goto, procvars, scriptvars, history
<1>17. ASSUME NEW p \in Proc, StartByHand(p) PROVE OnePort'
  BY <1>17 DEF StartByHand, main, Fresh, Goto, procvars, scriptvars, history
<1>18. ASSUME NEW p \in Proc, ScriptStart(p) PROVE OnePort'
  BY <1>18 DEF ScriptStart, main, Fresh, Goto, procvars, scriptvars, history
<1>19. ASSUME NEW p \in Proc, ScriptKill(p) PROVE OnePort'
  <2>1. CASE UNCHANGED procvars /\ UNCHANGED remains
    BY <2>1, <1>19 DEF ScriptKill, signal_handler, procvars, scriptvars
  <2>2. CASE caught_signal' = [caught_signal EXCEPT ![p] = TRUE]
             /\ UNCHANGED <<pc, daemon_enabled, handled, socket_fd, remains>>
    BY <2>2, <1>19 DEF ScriptKill, signal_handler, scriptvars
  <2>3. CASE Killed(p)
    BY <2>3, <1>19 DEF ScriptKill, signal_handler, scriptvars, Killed, Exit, Goto
  <2>. QED
    BY <2>1, <2>2, <2>3, <1>19 DEF ScriptKill, signal_handler
<1>20. CASE ScriptStarted
  BY <1>20 DEF ScriptStarted, procvars, scriptvars, history
<1>21. CASE ScriptStop
  BY <1>21 DEF ScriptStop, procvars, scriptvars, history
<1>22. CASE ScriptStopped
  BY <1>22 DEF ScriptStopped, procvars, scriptvars, history
<1>. QED
  BY <1>1, <1>2, <1>3, <1>4, <1>5, <1>6, <1>7, <1>8, <1>9, <1>10, <1>11, <1>12,
     <1>13, <1>14, <1>15, <1>16, <1>17, <1>18, <1>19, <1>20, <1>21, <1>22
     DEF Next, ProcStep, ScriptStep

(* Every step keeps the writers of the file accounted for.                *)
LEMMA FileStep ==
  TypeOK /\ SocketAt /\ FileOwned /\ [Next]_vars => FileOwned'
<1> SUFFICES ASSUME TypeOK, SocketAt, FileOwned, [Next]_vars PROVE FileOwned'
  OBVIOUS
<1> USE DEF TypeOK, SocketAt, FileOwned, PCs, StartupPCs
<1>a. ToSet(file) \subseteq Proc
  BY DEF ToSet
<1>1. CASE UNCHANGED vars
  BY <1>1 DEF vars, procvars, scriptvars, history
<1>2. ASSUME NEW p \in Proc, Sigaction(p) PROVE FileOwned'
  <2>1. CASE pc[p] = "sigterm" /\ Goto(p, "sigint")
    BY <1>a, <2>1, <1>2 DEF Sigaction, Goto, procvars, scriptvars, history
  <2>2. CASE pc[p] = "sigint" /\ Goto(p, "socket")
    BY <1>a, <2>2, <1>2 DEF Sigaction, Goto, procvars, scriptvars, history
  <2>. QED
    BY <1>a, <2>1, <2>2, <1>2 DEF Sigaction
<1>3. ASSUME NEW p \in Proc, Socket(p) PROVE FileOwned'
  <2>1. CASE SetSocket(p, "open") /\ Goto(p, "bind")
    BY <1>a, <2>1, <1>3 DEF Socket, Goto, SetSocket, procvars, scriptvars, history
  <2>2. CASE SetSocket(p, "none") /\ Goto(p, "close")
    BY <1>a, <2>2, <1>3 DEF Socket, Goto, SetSocket, procvars, scriptvars, history
  <2>. QED
    BY <1>a, <2>1, <2>2, <1>3 DEF Socket
<1>4. ASSUME NEW p \in Proc, Bind(p) PROVE FileOwned'
  BY <1>a, <1>4 DEF Bind, Bound, Goto, SetSocket, procvars, scriptvars, history
<1>5. ASSUME NEW p \in Proc, Listen(p) PROVE FileOwned'
  BY <1>a, <1>5 DEF Listen, Goto, SetSocket, procvars, scriptvars, history
<1>6. ASSUME NEW p \in Proc, StartupFails(p) PROVE FileOwned'
  BY <1>a, <1>6 DEF StartupFails, Goto, procvars, scriptvars, history
<1>7. ASSUME NEW p \in Proc, NEW q \in Proc, main_loop_fork(p, q) PROVE FileOwned'
  BY <1>a, <1>7 DEF main_loop_fork, Fresh, InheritedFlag, procvars, scriptvars, history
<1>8. ASSUME NEW p \in Proc, ForkFails(p) PROVE FileOwned'
  BY <1>a, <1>8 DEF ForkFails, Goto, procvars, scriptvars, history
<1>9. ASSUME NEW p \in Proc, ParentExit(p) PROVE FileOwned'
  BY <1>a, <1>9 DEF ParentExit, ParentEnds, Exit, Goto, procvars, scriptvars, history
<1>10. ASSUME NEW p \in Proc, ChildSetup(p) PROVE FileOwned'
  <2>1. CASE pc' = [pc EXCEPT ![p] = "loop"]
    BY <1>a, <2>1, <1>10 DEF ChildSetup, procvars, scriptvars, history
  <2>2. CASE pc' = [pc EXCEPT ![p] = "close"]
    BY <1>a, <2>2, <1>10 DEF ChildSetup, procvars, scriptvars, history
  <2>. QED
    BY <1>a, <2>1, <2>2, <1>10 DEF ChildSetup
<1>11. ASSUME NEW p \in Proc, main_loop(p) PROVE FileOwned'
  BY <1>a, <1>11 DEF main_loop, AfterLoop, Goto, procvars, scriptvars, history
<1>12. ASSUME NEW p \in Proc, CloseSocket(p) PROVE FileOwned'
  BY <1>a, <1>12 DEF CloseSocket, Goto, SetSocket, procvars, scriptvars, history
<1>13. ASSUME NEW p \in Proc, Unlink(p) PROVE FileOwned'
  <2>1. CASE file' = <<>>
    <3>1. ToSet(file') = {}
      BY <1>a, <2>1 DEF ToSet
    <3>. QED
      BY <3>1
  <2>2. CASE file' = file /\ remains' = remains \cup {p}
    BY <1>a, <2>2, <1>13 DEF Unlink, Exit, Goto, procvars, scriptvars, history
  <2>. QED
    BY <1>a, <2>1, <2>2, <1>13, Zenon DEF Unlink
<1>14. ASSUME NEW p \in Proc, StorePacket(p) PROVE FileOwned'
  <2>1. ToSet(file') = ToSet(file) \cup {p}
    BY <1>a, <1>14, ToSetAppend DEF StorePacket
  <2>. QED
    BY <1>a, <2>1, <1>14 DEF StorePacket, procvars, scriptvars, history
<1>15. ASSUME NEW p \in Proc, KillByHand(p) PROVE FileOwned'
  <2>1. CASE UNCHANGED procvars /\ UNCHANGED remains
    BY <1>a, <2>1, <1>15 DEF KillByHand, signal_handler, procvars, scriptvars
  <2>2. CASE caught_signal' = [caught_signal EXCEPT ![p] = TRUE]
             /\ UNCHANGED <<pc, daemon_enabled, handled, socket_fd, remains>>
    BY <1>a, <2>2, <1>15 DEF KillByHand, signal_handler, scriptvars
  <2>3. CASE Killed(p)
    BY <1>a, <2>3, <1>15 DEF KillByHand, signal_handler, scriptvars, Killed, Exit, Goto
  <2>. QED
    BY <1>a, <2>1, <2>2, <2>3, <1>15 DEF KillByHand, signal_handler
<1>16. ASSUME NEW p \in Proc, Crash(p) PROVE FileOwned'
  BY <1>a, <1>16 DEF Crash, Killed, Exit, Goto, procvars, scriptvars, history
<1>17. ASSUME NEW p \in Proc, StartByHand(p) PROVE FileOwned'
  BY <1>a, <1>17 DEF StartByHand, main, Fresh, Goto, procvars, scriptvars, history
<1>18. ASSUME NEW p \in Proc, ScriptStart(p) PROVE FileOwned'
  BY <1>a, <1>18 DEF ScriptStart, main, Fresh, Goto, procvars, scriptvars, history
<1>19. ASSUME NEW p \in Proc, ScriptKill(p) PROVE FileOwned'
  <2>1. CASE UNCHANGED procvars /\ UNCHANGED remains
    BY <1>a, <2>1, <1>19 DEF ScriptKill, signal_handler, procvars, scriptvars
  <2>2. CASE caught_signal' = [caught_signal EXCEPT ![p] = TRUE]
             /\ UNCHANGED <<pc, daemon_enabled, handled, socket_fd, remains>>
    BY <1>a, <2>2, <1>19 DEF ScriptKill, signal_handler, scriptvars
  <2>3. CASE Killed(p)
    BY <1>a, <2>3, <1>19 DEF ScriptKill, signal_handler, scriptvars, Killed, Exit, Goto
  <2>. QED
    BY <1>a, <2>1, <2>2, <2>3, <1>19 DEF ScriptKill, signal_handler
<1>20. CASE ScriptStarted
  BY <1>a, <1>20 DEF ScriptStarted, procvars, scriptvars, history
<1>21. CASE ScriptStop
  BY <1>a, <1>21 DEF ScriptStop, procvars, scriptvars, history
<1>22. CASE ScriptStopped
  BY <1>a, <1>22 DEF ScriptStopped, procvars, scriptvars, history
<1>. QED
  BY <1>1, <1>2, <1>3, <1>4, <1>5, <1>6, <1>7, <1>8, <1>9, <1>10, <1>11, <1>12,
     <1>13, <1>14, <1>15, <1>16, <1>17, <1>18, <1>19, <1>20, <1>21, <1>22
     DEF Next, ProcStep, ScriptStep

(* Every step keeps what the script knows of the processes.               *)
LEMMA ScriptKnowsStep ==
  TypeOK /\ ScriptKnows /\ [Next]_vars => ScriptKnows'
<1> SUFFICES ASSUME TypeOK, ScriptKnows, [Next]_vars PROVE ScriptKnows'
  OBVIOUS
<1> USE DEF TypeOK, ScriptKnows, Early, Live, PCs, StartupPCs
<1>1. CASE UNCHANGED vars
  BY <1>1 DEF vars, procvars, scriptvars, history
<1>2. ASSUME NEW p \in Proc, Sigaction(p) PROVE ScriptKnows'
  BY <1>2 DEF Sigaction, Goto, procvars, scriptvars, history
<1>3. ASSUME NEW p \in Proc, Socket(p) PROVE ScriptKnows'
  BY <1>3 DEF Socket, Goto, SetSocket, procvars, scriptvars, history
<1>4. ASSUME NEW p \in Proc, Bind(p) PROVE ScriptKnows'
  BY <1>4 DEF Bind, Bound, Goto, SetSocket, procvars, scriptvars, history
<1>5. ASSUME NEW p \in Proc, Listen(p) PROVE ScriptKnows'
  BY <1>5 DEF Listen, Goto, SetSocket, procvars, scriptvars, history
<1>6. ASSUME NEW p \in Proc, StartupFails(p) PROVE ScriptKnows'
  BY <1>6 DEF StartupFails, Goto, procvars, scriptvars, history
<1>7. ASSUME NEW p \in Proc, NEW q \in Proc, main_loop_fork(p, q) PROVE ScriptKnows'
  BY <1>7 DEF main_loop_fork, Fresh, InheritedFlag, procvars, scriptvars, history
<1>8. ASSUME NEW p \in Proc, ForkFails(p) PROVE ScriptKnows'
  BY <1>8 DEF ForkFails, Goto, procvars, scriptvars, history
<1>9. ASSUME NEW p \in Proc, ParentExit(p) PROVE ScriptKnows'
  BY <1>9 DEF ParentExit, ParentEnds, Exit, Goto, procvars, scriptvars, history
<1>10. ASSUME NEW p \in Proc, ChildSetup(p) PROVE ScriptKnows'
  BY <1>10 DEF ChildSetup, procvars, scriptvars, history
<1>11. ASSUME NEW p \in Proc, main_loop(p) PROVE ScriptKnows'
  BY <1>11 DEF main_loop, AfterLoop, Goto, procvars, scriptvars, history
<1>12. ASSUME NEW p \in Proc, CloseSocket(p) PROVE ScriptKnows'
  BY <1>12 DEF CloseSocket, Goto, SetSocket, procvars, scriptvars, history
<1>13. ASSUME NEW p \in Proc, Unlink(p) PROVE ScriptKnows'
  BY <1>13 DEF Unlink, Exit, Goto, procvars, scriptvars, history
<1>14. ASSUME NEW p \in Proc, StorePacket(p) PROVE ScriptKnows'
  BY <1>14 DEF StorePacket, procvars, scriptvars, history
<1>15. ASSUME NEW p \in Proc, KillByHand(p) PROVE ScriptKnows'
  <2>1. CASE UNCHANGED procvars /\ UNCHANGED remains
    BY <2>1, <1>15 DEF KillByHand, signal_handler, procvars, scriptvars
  <2>2. CASE caught_signal' = [caught_signal EXCEPT ![p] = TRUE]
             /\ UNCHANGED <<pc, daemon_enabled, handled, socket_fd, remains>>
    BY <2>2, <1>15 DEF KillByHand, signal_handler, scriptvars
  <2>3. CASE Killed(p)
    BY <2>3, <1>15 DEF KillByHand, signal_handler, scriptvars, Killed, Exit, Goto
  <2>. QED
    BY <2>1, <2>2, <2>3, <1>15 DEF KillByHand, signal_handler
<1>16. ASSUME NEW p \in Proc, Crash(p) PROVE ScriptKnows'
  BY <1>16 DEF Crash, Killed, Exit, Goto, procvars, scriptvars, history
<1>17. ASSUME NEW p \in Proc, StartByHand(p) PROVE ScriptKnows'
  BY <1>17 DEF StartByHand, main, Fresh, Goto, procvars, scriptvars, history
<1>18. ASSUME NEW p \in Proc, ScriptStart(p) PROVE ScriptKnows'
  BY <1>18 DEF ScriptStart, main, Fresh, Goto, procvars, scriptvars, history
<1>19. ASSUME NEW p \in Proc, ScriptKill(p) PROVE ScriptKnows'
  BY <1>19 DEF ScriptKill, signal_handler, Killed, Exit, Goto, procvars, scriptvars, history
<1>20. CASE ScriptStarted
  BY <1>20 DEF ScriptStarted, procvars, scriptvars, history, StartDone
<1>21. CASE ScriptStop
  BY <1>21 DEF ScriptStop, procvars, scriptvars, history
<1>22. CASE ScriptStopped
  BY <1>22 DEF ScriptStopped, procvars, scriptvars, history
<1>. QED
  BY <1>1, <1>2, <1>3, <1>4, <1>5, <1>6, <1>7, <1>8, <1>9, <1>10, <1>11, <1>12,
     <1>13, <1>14, <1>15, <1>16, <1>17, <1>18, <1>19, <1>20, <1>21, <1>22
     DEF Next, ProcStep, ScriptStep

(* Every step keeps the family to itself: the script starts nobody while a *)
(* process lives, and the fork turns its caller into the parent.           *)
LEMMA FamilyStep ==
  TypeOK /\ OneFamily /\ [Next]_vars => OneFamily'
<1> SUFFICES ASSUME TypeOK, OneFamily, [Next]_vars PROVE OneFamily'
  OBVIOUS
<1> USE DEF TypeOK, OneFamily, Live, PCs, StartupPCs
<1>1. CASE UNCHANGED vars
  BY <1>1 DEF vars, procvars, scriptvars, history
<1>2. ASSUME NEW p \in Proc, Sigaction(p) PROVE OneFamily'
  BY <1>2, ZenonT(60) DEF Sigaction, Goto, procvars, scriptvars, history
<1>3. ASSUME NEW p \in Proc, Socket(p) PROVE OneFamily'
  <2>1. byhand' = byhand
    BY <1>3 DEF Socket, history
  <2>2. pc[p] = "socket" /\ \E w \in {"bind", "close"} : pc' = [pc EXCEPT ![p] = w]
    BY <1>3, Zenon DEF Socket, Goto
  <2>. QED
    BY <2>1, <2>2
<1>4. ASSUME NEW p \in Proc, Bind(p) PROVE OneFamily'
  BY <1>4 DEF Bind, Bound, Goto, SetSocket, procvars, scriptvars, history
<1>5. ASSUME NEW p \in Proc, Listen(p) PROVE OneFamily'
  BY <1>5 DEF Listen, Goto, SetSocket, procvars, scriptvars, history
<1>6. ASSUME NEW p \in Proc, StartupFails(p) PROVE OneFamily'
  BY <1>6 DEF StartupFails, Goto, procvars, scriptvars, history
<1>7. ASSUME NEW p \in Proc, NEW q \in Proc, main_loop_fork(p, q) PROVE OneFamily'
  BY <1>7 DEF main_loop_fork, Fresh, InheritedFlag, procvars, scriptvars, history
<1>8. ASSUME NEW p \in Proc, ForkFails(p) PROVE OneFamily'
  BY <1>8 DEF ForkFails, Goto, procvars, scriptvars, history
<1>9. ASSUME NEW p \in Proc, ParentExit(p) PROVE OneFamily'
  BY <1>9 DEF ParentExit, ParentEnds, Exit, Goto, procvars, scriptvars, history
<1>10. ASSUME NEW p \in Proc, ChildSetup(p) PROVE OneFamily'
  BY <1>10, ZenonT(60) DEF ChildSetup, procvars, scriptvars, history
<1>11. ASSUME NEW p \in Proc, main_loop(p) PROVE OneFamily'
  BY <1>11 DEF main_loop, AfterLoop, Goto, procvars, scriptvars, history
<1>12. ASSUME NEW p \in Proc, CloseSocket(p) PROVE OneFamily'
  BY <1>12 DEF CloseSocket, Goto, SetSocket, procvars, scriptvars, history
<1>13. ASSUME NEW p \in Proc, Unlink(p) PROVE OneFamily'
  BY <1>13 DEF Unlink, Exit, Goto, procvars, scriptvars, history
<1>14. ASSUME NEW p \in Proc, StorePacket(p) PROVE OneFamily'
  BY <1>14 DEF StorePacket, procvars, scriptvars, history
<1>15. ASSUME NEW p \in Proc, KillByHand(p) PROVE OneFamily'
  <2>1. CASE UNCHANGED procvars /\ UNCHANGED remains
    BY <2>1, <1>15 DEF KillByHand, signal_handler, procvars, scriptvars
  <2>2. CASE caught_signal' = [caught_signal EXCEPT ![p] = TRUE]
             /\ UNCHANGED <<pc, daemon_enabled, handled, socket_fd, remains>>
    BY <2>2, <1>15 DEF KillByHand, signal_handler, scriptvars
  <2>3. CASE Killed(p)
    BY <2>3, <1>15 DEF KillByHand, signal_handler, scriptvars, Killed, Exit, Goto
  <2>. QED
    BY <2>1, <2>2, <2>3, <1>15 DEF KillByHand, signal_handler
<1>16. ASSUME NEW p \in Proc, Crash(p) PROVE OneFamily'
  BY <1>16 DEF Crash, Killed, Exit, Goto, procvars, scriptvars, history
<1>17. ASSUME NEW p \in Proc, StartByHand(p) PROVE OneFamily'
  BY <1>17 DEF StartByHand, main, Fresh, Goto, procvars, scriptvars, history
<1>18. ASSUME NEW p \in Proc, ScriptStart(p) PROVE OneFamily'
  BY <1>18 DEF ScriptStart, main, Fresh, Goto, procvars, scriptvars, history
<1>19. ASSUME NEW p \in Proc, ScriptKill(p) PROVE OneFamily'
  BY <1>19, ZenonT(60) DEF ScriptKill, signal_handler, Killed, Exit, Goto, procvars, scriptvars, history
<1>20. CASE ScriptStarted
  BY <1>20 DEF ScriptStarted, procvars, scriptvars, history, StartDone
<1>21. CASE ScriptStop
  BY <1>21 DEF ScriptStop, procvars, scriptvars, history
<1>22. CASE ScriptStopped
  BY <1>22 DEF ScriptStopped, procvars, scriptvars, history
<1>. QED
  BY <1>1, <1>2, <1>3, <1>4, <1>5, <1>6, <1>7, <1>8, <1>9, <1>10, <1>11, <1>12,
     <1>13, <1>14, <1>15, <1>16, <1>17, <1>18, <1>19, <1>20, <1>21, <1>22
     DEF Next, ProcStep, ScriptStep

(* How a step may change the places around main_loop: a process gets into  *)
(* it from startup or as a child, and never back before it.                *)
Entering ==
  /\ \A p \in Proc : pc'[p] = "loop" => pc[p] \in {"loop", "listen", "child"}
  /\ \A p \in Proc : pc'[p] \in BeforeLoop => pc[p] \in BeforeLoop
  /\ byhand' = 0 => byhand = 0

(* Every step does.                                                        *)
LEMMA EnteringStep ==
  ASSUME TypeOK, [Next]_vars PROVE Entering
<1> USE DEF TypeOK, Entering, BeforeLoop, PCs, StartupPCs
<1>1. CASE UNCHANGED vars
  BY <1>1 DEF vars, procvars, scriptvars, history
<1>2. ASSUME NEW p \in Proc, Sigaction(p) PROVE Entering
  BY <1>2 DEF Sigaction, Goto, procvars, scriptvars, history
<1>3. ASSUME NEW p \in Proc, Socket(p) PROVE Entering
  BY <1>3 DEF Socket, Goto, SetSocket, procvars, scriptvars, history
<1>4. ASSUME NEW p \in Proc, Bind(p) PROVE Entering
  BY <1>4 DEF Bind, Bound, Goto, SetSocket, procvars, scriptvars, history
<1>5. ASSUME NEW p \in Proc, Listen(p) PROVE Entering
  BY <1>5 DEF Listen, Goto, SetSocket, procvars, scriptvars, history
<1>6. ASSUME NEW p \in Proc, StartupFails(p) PROVE Entering
  BY <1>6 DEF StartupFails, Goto, procvars, scriptvars, history
<1>7. ASSUME NEW p \in Proc, NEW q \in Proc, main_loop_fork(p, q) PROVE Entering
  BY <1>7 DEF main_loop_fork, Fresh, InheritedFlag, procvars, scriptvars, history
<1>8. ASSUME NEW p \in Proc, ForkFails(p) PROVE Entering
  BY <1>8 DEF ForkFails, Goto, procvars, scriptvars, history
<1>9. ASSUME NEW p \in Proc, ParentExit(p) PROVE Entering
  BY <1>9 DEF ParentExit, ParentEnds, Exit, Goto, procvars, scriptvars, history
<1>10. ASSUME NEW p \in Proc, ChildSetup(p) PROVE Entering
  BY <1>10 DEF ChildSetup, procvars, scriptvars, history
<1>11. ASSUME NEW p \in Proc, main_loop(p) PROVE Entering
  BY <1>11 DEF main_loop, AfterLoop, Goto, procvars, scriptvars, history
<1>12. ASSUME NEW p \in Proc, CloseSocket(p) PROVE Entering
  BY <1>12 DEF CloseSocket, Goto, SetSocket, procvars, scriptvars, history
<1>13. ASSUME NEW p \in Proc, Unlink(p) PROVE Entering
  BY <1>13 DEF Unlink, Exit, Goto, procvars, scriptvars, history
<1>14. ASSUME NEW p \in Proc, StorePacket(p) PROVE Entering
  BY <1>14 DEF StorePacket, procvars, scriptvars, history
<1>15. ASSUME NEW p \in Proc, KillByHand(p) PROVE Entering
  <2>1. CASE UNCHANGED procvars /\ UNCHANGED remains
    BY <2>1, <1>15 DEF KillByHand, signal_handler, procvars, scriptvars
  <2>2. CASE caught_signal' = [caught_signal EXCEPT ![p] = TRUE]
             /\ UNCHANGED <<pc, daemon_enabled, handled, socket_fd, remains>>
    BY <2>2, <1>15 DEF KillByHand, signal_handler, scriptvars
  <2>3. CASE Killed(p)
    BY <2>3, <1>15 DEF KillByHand, signal_handler, scriptvars, Killed, Exit, Goto
  <2>. QED
    BY <2>1, <2>2, <2>3, <1>15 DEF KillByHand, signal_handler
<1>16. ASSUME NEW p \in Proc, Crash(p) PROVE Entering
  BY <1>16 DEF Crash, Killed, Exit, Goto, procvars, scriptvars, history
<1>17. ASSUME NEW p \in Proc, StartByHand(p) PROVE Entering
  <2>1. byhand' # 0
    BY <1>17, LifecycleAssumption DEF StartByHand
  <2>. QED
    BY <2>1, <1>17 DEF StartByHand, main, Fresh, Goto, procvars, scriptvars, history
<1>18. ASSUME NEW p \in Proc, ScriptStart(p) PROVE Entering
  BY <1>18 DEF ScriptStart, main, Fresh, Goto, procvars, scriptvars, history
<1>19. ASSUME NEW p \in Proc, ScriptKill(p) PROVE Entering
  BY <1>19 DEF ScriptKill, signal_handler, Killed, Exit, Goto, procvars, scriptvars, history
<1>20. CASE ScriptStarted
  BY <1>20 DEF ScriptStarted, procvars, scriptvars, history, StartDone
<1>21. CASE ScriptStop
  BY <1>21 DEF ScriptStop, procvars, scriptvars, history
<1>22. CASE ScriptStopped
  BY <1>22 DEF ScriptStopped, procvars, scriptvars, history
<1>. QED
  BY <1>1, <1>2, <1>3, <1>4, <1>5, <1>6, <1>7, <1>8, <1>9, <1>10, <1>11, <1>12,
     <1>13, <1>14, <1>15, <1>16, <1>17, <1>18, <1>19, <1>20, <1>21, <1>22
     DEF Next, ProcStep, ScriptStep

(* Only a packet or an unlink touches the file or the count of packets.    *)
LEMMA FileTouched ==
  ASSUME [Next]_vars
  PROVE  UNCHANGED <<file, stored>> \/ \E p \in Proc : StorePacket(p) \/ Unlink(p)
BY DEF Next, vars, procvars, scriptvars, history, ScriptStep, ProcStep, Sigaction, Socket, Bind,
  Listen, StartupFails, main_loop_fork, ForkFails, ParentExit, ChildSetup, main_loop, CloseSocket,
  KillByHand, Crash, StartByHand, ScriptStarted, ScriptStop, ScriptStopped, ScriptStart, ScriptKill,
  signal_handler, main

(* Nothing is stored before main_loop.                                     *)
LEMMA NothingStoredStep ==
  ASSUME TypeOK, NothingStored, [Next]_vars PROVE NothingStored'
<1>1. Entering
  BY EnteringStep
<1>2. CASE UNCHANGED <<file, stored>>
  BY <1>1, <1>2 DEF NothingStored, Entering
<1>3. ASSUME NEW p \in Proc, StorePacket(p) PROVE NothingStored'
  <2>1. ToSet(file') = ToSet(file) \cup {p}
    BY <1>3, ToSetAppend DEF StorePacket, TypeOK
  <2>2. pc'[p] = "loop"
    BY <1>3 DEF StorePacket, procvars
  <2>3. \A q \in Proc : q # p => stored'[q] = stored[q]
    BY <1>3 DEF StorePacket, TypeOK
  <2>. QED
    BY <1>1, <2>1, <2>2, <2>3 DEF NothingStored, Entering, BeforeLoop, StartupPCs
<1>4. ASSUME NEW p \in Proc, Unlink(p) PROVE NothingStored'
  <2>1. stored' = stored
    BY <1>4 DEF Unlink
  <2>2. file' = file \/ file' = <<>>
    BY <1>4, Zenon DEF Unlink
  <2>3. ToSet(file') \subseteq ToSet(file)
    BY <2>2 DEF ToSet
  <2>. QED
    BY <1>1, <2>1, <2>3 DEF NothingStored, Entering
<1>. QED
  BY <1>2, <1>3, <1>4, FileTouched

(* A file without packets of p has none of them to count.                  *)
LEMMA NonePlaced ==
  ASSUME NEW p, p \notin ToSet(file)
  PROVE  Cardinality({i \in DOMAIN file : file[i] = p}) = 0
<1>1. {i \in DOMAIN file : file[i] = p} = {}
  BY DEF ToSet
<1>. QED
  BY <1>1, FS_EmptySet

(* A server keeps its packets: nobody else can be at its unlink.           *)
LEMMA HistoryStep ==
  ASSUME TypeOK, OneFamily, NothingStored, HistoryKept, [Next]_vars PROVE HistoryKept'
<1> SUFFICES ASSUME byhand' = 0, NEW p \in Proc, pc'[p] = "loop"
             PROVE  Cardinality({i \in DOMAIN file' : file'[i] = p}) = stored'[p]
  BY DEF HistoryKept, Serving
<1>1. byhand = 0 /\ pc[p] \in {"loop", "listen", "child"}
  BY EnteringStep DEF Entering
<1>2. Cardinality({i \in DOMAIN file : file[i] = p}) = stored[p]
  <2>1. CASE pc[p] = "loop"
    BY <2>1, <1>1 DEF HistoryKept, Serving
  <2>2. CASE pc[p] \in {"listen", "child"}
    <3>1. stored[p] = 0 /\ p \notin ToSet(file)
      BY <2>2 DEF NothingStored, BeforeLoop, StartupPCs
    <3>. QED
      BY <3>1, NonePlaced
  <2>. QED
    BY <2>1, <2>2, <1>1
<1>3. CASE UNCHANGED <<file, stored>>
  BY <1>2, <1>3
<1>4. ASSUME NEW q \in Proc, StorePacket(q)
      PROVE  Cardinality({i \in DOMAIN file' : file'[i] = p}) = stored'[p]
  <2> DEFINE n == Len(file)
             P == {i \in DOMAIN file : file[i] = p}
             Q == {i \in DOMAIN file' : file'[i] = p}
  <2>1. /\ file \in Seq(Proc) /\ n \in Nat /\ DOMAIN file = 1..n
        /\ file' = Append(file, q) /\ DOMAIN file' = 1..n + 1
    BY <1>4 DEF StorePacket, TypeOK
  <2>2. (\A i \in 1..n : file'[i] = file[i]) /\ file'[n + 1] = q
    BY <2>1
  <2>3. CASE q # p
    <3>1. Q = P
      BY <2>1, <2>2, <2>3
    <3>2. stored'[p] = stored[p]
      BY <1>4, <2>3 DEF StorePacket, TypeOK
    <3>. QED
      BY <3>1, <3>2, <1>2
  <2>4. CASE q = p
    <3>1. Q = P \cup {n + 1} /\ n + 1 \notin P
      BY <2>1, <2>2, <2>4
    <3>2. IsFiniteSet(P)
      <4>1. IsFiniteSet(1..n)
        BY <2>1, FS_Interval
      <4>. QED
        BY <4>1, <2>1, FS_Subset
    <3>3. Cardinality(Q) = Cardinality(P) + 1
      BY <3>1, <3>2, FS_AddElement
    <3>4. stored'[p] = stored[p] + 1
      BY <1>4, <2>4 DEF StorePacket, TypeOK
    <3>. QED
      BY <3>3, <3>4, <1>2
  <2>. QED
    BY <2>3, <2>4
<1>5. ASSUME NEW q \in Proc, Unlink(q)
      PROVE  Cardinality({i \in DOMAIN file' : file'[i] = p}) = stored'[p]
  <2>1. pc[q] = "unlink" /\ p # q
    BY <1>5, <1>1 DEF Unlink
  <2>2. p \in Live /\ q \in Live
    BY <2>1, <1>1 DEF Live
  <2>. QED
    BY <2>1, <2>2, <1>1 DEF OneFamily
<1>. QED
  BY <1>3, <1>4, <1>5, FileTouched

-----------------------------------------------------------------------------
(* The inductive invariant holds in every reachable state, whatever fails, *)
(* whoever is signalled or killed, and however many processes there are.   *)
THEOREM LifecycleInvariance == Spec => []IInv
<1>1. IInv /\ [Next]_vars => IInv'
  BY TypeStep, SocketStep, PortStep, FileStep, ScriptKnowsStep, FamilyStep, NothingStoredStep,
     HistoryStep DEF IInv
<1>. QED
  BY <1>1, InitIInv, PTL DEF Spec

(* Every variable keeps its type, process tables, script and file alike.   *)
THEOREM LifecycleTypes == Spec => []TypeOK
<1>1. IInv => TypeOK
  BY DEF IInv
<1>. QED
  BY <1>1, LifecycleInvariance, PTL

(* main_loop runs in one process at a time: a serving process holds the    *)
(* port, and with it nobody but a parent that is about to exit.            *)
THEOREM SingleServer == Spec => []OneServer
<1>1. IInv => OneServer
  <2> SUFFICES ASSUME IInv, NEW p \in Proc, NEW q \in Proc, Serving(p), Serving(q), p # q
               PROVE  FALSE
    BY DEF OneServer
  <2>1. Holding(p) /\ Holding(q)
    BY DEF IInv, SocketAt, Serving, Holding
  <2>. QED
    BY <2>1 DEF IInv, OnePort, Serving
<1>. QED
  BY <1>1, LifecycleInvariance, PTL

(* main_loop answers with another process's packets only if that one was   *)
(* killed, failed to unlink or is just about to: one that has yet to close *)
(* its socket still keeps the port from the process that serves.           *)
THEOREM StaleFile == Spec => []StaleFileCause
<1>1. IInv => StaleFileCause
  <2> SUFFICES ASSUME IInv, NEW p \in Proc, Serving(p), NEW q \in ToSet(file) \ {p},
                      q \notin remains, pc[q] # "unlink"
               PROVE  FALSE
    BY DEF StaleFileCause
  <2>1. q \in Proc
    BY DEF IInv, TypeOK, ToSet
  <2>2. pc[q] \in {"loop", "close"} /\ Holding(q)
    BY DEF IInv, FileOwned, Holding
  <2>3. Holding(p)
    BY DEF IInv, SocketAt, Serving, Holding
  <2>. QED
    BY <2>1, <2>2, <2>3 DEF IInv, OnePort, Serving
<1>. QED
  BY <1>1, LifecycleInvariance, PTL

(* While the script alone starts processes, what a server has stored is in *)
(* the file for as long as it serves: nobody else gets to the unlink of    *)
(* shutting_down meanwhile.                                                *)
THEOREM HistoryIsKept == Spec => []HistoryKept
<1>1. IInv => HistoryKept
  BY DEF IInv
<1>. QED
  BY <1>1, LifecycleInvariance, PTL

(* The script's stop leaves no process without the signal, for it runs     *)
(* only when the start has seen the parent exit and nobody can fork.       *)
THEOREM StopIsComplete == Spec => []StopReachesAll
<1>1. IInv => StopReachesAll
  BY DEF IInv, ScriptKnows, StopReachesAll
<1>. QED
  BY <1>1, LifecycleInvariance, PTL

=============================================================================
