--------------------------- MODULE AesdLifecycle ---------------------------
(***************************************************************************)
(* The processes of the server: main, startup call by call, the fork of    *)
(* the daemon, the exits of parent and child, shutting_down, and the start *)
(* script around them, in the temp file build.  What the main loop does    *)
(* inside one process is AesdSocket; here it stores packets and ends some  *)
(* time after a signal.  Processes share the port and the temp file.       *)
(***************************************************************************)
EXTENDS Integers, Sequences, FiniteSets, SequencesExt

CONSTANTS
  MaxProcs,   \* bound on the processes there ever are
  MaxByHand,  \* bound on the starts without the script
  MaxPackets  \* bound on what one process stores

ASSUME LifecycleAssumption == {MaxProcs, MaxByHand, MaxPackets} \subseteq Nat

(* Process ids are given out in order, and none twice.                     *)
Proc == 1..MaxProcs
NoProc == 0

VARIABLES
  pc,         \* where each process is
  daemon_enabled,
  handled,    \* the signals it has a handler for
  caught_signal,
  socket_fd,  \* what its socket_fd names
  file,       \* who wrote the packets in the temp file, oldest first
  script,     \* "idle", "start" or "stop"
  awaited,    \* the process whose exit ends the start
  targets,    \* the processes the stop has still to signal
  parent,     \* history: who forked it
  stored,     \* history: how many packets it has stored
  remains,    \* history: the processes that ended without removing the file
  stopped,    \* history: the script has stopped the server and not started it again
  byhand      \* history: how many processes have been started without the script

procvars == <<pc, daemon_enabled, handled, caught_signal, socket_fd>>
scriptvars == <<script, awaited, targets, stopped>>
history == <<parent, stored, remains, byhand>>
vars == <<procvars, file, scriptvars, history>>

Signals == {"SIGTERM", "SIGINT"}
StartupPCs == {"sigterm", "sigint", "socket", "bind", "listen"}
PCs == StartupPCs \cup {"none", "fork", "parent", "child", "loop", "close", "unlink", "gone"}

TypeOK ==
  /\ pc \in [Proc -> PCs]
  /\ daemon_enabled \in [Proc -> BOOLEAN]
  /\ handled \in [Proc -> SUBSET Signals]
  /\ caught_signal \in [Proc -> BOOLEAN]
  /\ socket_fd \in [Proc -> {"stdin", "none", "open", "bound", "listening"}]
  /\ file \in Seq(Proc)
  /\ script \in {"idle", "start", "stop"}
  /\ awaited \in Proc \cup {NoProc}
  /\ targets \in SUBSET Proc
  /\ parent \in [Proc -> Proc \cup {NoProc}]
  /\ stored \in [Proc -> 0..MaxPackets]
  /\ remains \in SUBSET Proc
  /\ stopped \in BOOLEAN /\ byhand \in 0..MaxByHand

(* socket_fd starts as 0, which is the standard input.                     *)
Init ==
  /\ pc = [p \in Proc |-> "none"]
  /\ daemon_enabled = [p \in Proc |-> FALSE]
  /\ handled = [p \in Proc |-> {}]
  /\ caught_signal = [p \in Proc |-> FALSE]
  /\ socket_fd = [p \in Proc |-> "stdin"]
  /\ file = <<>>
  /\ script = "idle" /\ awaited = NoProc /\ targets = {}
  /\ parent = [p \in Proc |-> NoProc]
  /\ stored = [p \in Proc |-> 0]
  /\ remains = {}
  /\ stopped = FALSE /\ byhand = 0

Live == {p \in Proc : pc[p] \notin {"none", "gone"}}

Goto(p, place) == pc' = [pc EXCEPT ![p] = place]

(* The process is gone, with its handlers, its memory and its descriptors. *)
Exit(p) ==
  /\ Goto(p, "gone")
  /\ daemon_enabled' = [daemon_enabled EXCEPT ![p] = FALSE]
  /\ handled' = [handled EXCEPT ![p] = {}]
  /\ caught_signal' = [caught_signal EXCEPT ![p] = FALSE]
  /\ socket_fd' = [socket_fd EXCEPT ![p] = "none"]

(* The next process.                                                       *)
Fresh(p) == pc[p] = "none" /\ \A q \in 1..p-1 : pc[q] # "none"

SetSocket(p, s) == socket_fd' = [socket_fd EXCEPT ![p] = s]

-----------------------------------------------------------------------------
(* main and startup.                                                       *)

(* A new process, up to its first call that matters.                       *)
main(p, d) ==
  /\ Fresh(p)
  /\ Goto(p, "sigterm")
  /\ daemon_enabled' = [daemon_enabled EXCEPT ![p] = d]
  /\ UNCHANGED <<handled, caught_signal, socket_fd, file>>

(* sigaction, for one signal and then the other.                           *)
Sigaction(p) ==
  /\ \/ /\ pc[p] = "sigterm"
        /\ handled' = [handled EXCEPT ![p] = @ \cup {"SIGTERM"}]
        /\ Goto(p, "sigint")
     \/ /\ pc[p] = "sigint"
        /\ handled' = [handled EXCEPT ![p] = @ \cup {"SIGINT"}]
        /\ Goto(p, "socket")
  /\ UNCHANGED <<daemon_enabled, caught_signal, socket_fd, file, scriptvars, history>>

(* getaddrinfo and socket; socket_fd is -1 when the latter fails.          *)
Socket(p) ==
  /\ pc[p] = "socket"
  /\ \/ SetSocket(p, "open") /\ Goto(p, "bind")
     \/ SetSocket(p, "none") /\ Goto(p, "close")
  /\ UNCHANGED <<daemon_enabled, handled, caught_signal, file, scriptvars, history>>

(* Whoever has a copy of the socket holds the port.                        *)
PortTaken == \E p \in Proc : socket_fd[p] \in {"bound", "listening"}

(* Faulty variant: the result of bind is not looked at.                    *)
BindUnchecked(p) == Goto(p, "listen") /\ SetSocket(p, "bound")

Bound(p) == ~PortTaken /\ Goto(p, "listen") /\ SetSocket(p, "bound")

Bind(p) ==
  /\ pc[p] = "bind"
  /\ Bound(p)
  /\ UNCHANGED <<daemon_enabled, handled, caught_signal, file, scriptvars, history>>

(* listen and the two calls of fcntl; startup is over and main chooses.    *)
Listen(p) ==
  /\ pc[p] = "listen"
  /\ SetSocket(p, "listening")
  /\ Goto(p, IF daemon_enabled[p] THEN "fork" ELSE "loop")
  /\ UNCHANGED <<daemon_enabled, handled, caught_signal, file, scriptvars, history>>

(* Any of these calls fails, bind also because the port is taken.          *)
StartupFails(p) ==
  /\ pc[p] \in StartupPCs
  /\ Goto(p, "close")
  /\ UNCHANGED <<daemon_enabled, handled, caught_signal, socket_fd, file, scriptvars, history>>

-----------------------------------------------------------------------------
(* main_loop_fork.                                                         *)

(* Faulty variant: the child does not get the flag.                        *)
FlagCleared(p) == FALSE

(* The child has a copy of all that its parent has.                        *)
InheritedFlag(p) == caught_signal[p]

main_loop_fork(p, q) ==
  /\ pc[p] = "fork" /\ Fresh(q)
  /\ pc' = [pc EXCEPT ![p] = "parent", ![q] = "child"]
  /\ daemon_enabled' = [daemon_enabled EXCEPT ![q] = daemon_enabled[p]]
  /\ handled' = [handled EXCEPT ![q] = handled[p]]
  /\ caught_signal' = [caught_signal EXCEPT ![q] = InheritedFlag(p)]
  /\ socket_fd' = [socket_fd EXCEPT ![q] = socket_fd[p]]
  /\ parent' = [parent EXCEPT ![q] = p]
  /\ UNCHANGED <<file, scriptvars, stored, remains, byhand>>

ForkFails(p) ==
  /\ pc[p] = "fork"
  /\ Goto(p, "close")
  /\ UNCHANGED <<daemon_enabled, handled, caught_signal, socket_fd, file, scriptvars, history>>

(* Faulty variant: the parent returns to main.                             *)
ParentReturns(p) ==
  Goto(p, "close") /\ UNCHANGED <<daemon_enabled, handled, caught_signal, socket_fd>>

ParentEnds(p) == Exit(p)

(* exit(0): the parent's copy of the socket goes, shutting_down is not     *)
(* called.                                                                 *)
ParentExit(p) ==
  /\ pc[p] = "parent"
  /\ ParentEnds(p)
  /\ UNCHANGED <<file, scriptvars, history>>

(* setsid, chdir and the redirections to /dev/null succeed, or one fails   *)
(* and main goes on with shutting_down.                                    *)
ChildSetup(p) ==
  /\ pc[p] = "child"
  /\ pc' \in {[pc EXCEPT ![p] = "loop"], [pc EXCEPT ![p] = "close"]}
  /\ UNCHANGED <<daemon_enabled, handled, caught_signal, socket_fd, file, scriptvars, history>>

-----------------------------------------------------------------------------
(* main_loop, from outside, and shutting_down.                             *)

(* Each packet opens the file anew: O_CREAT | O_APPEND, no O_TRUNC.        *)
StorePacket(p) ==
  /\ pc[p] = "loop"
  /\ stored[p] < MaxPackets
  /\ file' = Append(file, p)
  /\ stored' = [stored EXCEPT ![p] = @ + 1]
  /\ UNCHANGED <<procvars, scriptvars, parent, remains, byhand>>

(* Faulty variant: the child exits by itself.                              *)
AfterLoopExit(p) == Exit(p)

AfterLoop(p) ==
  Goto(p, "close") /\ UNCHANGED <<daemon_enabled, handled, caught_signal, socket_fd>>

(* The loop ends after a signal only.                                      *)
main_loop(p) ==
  /\ pc[p] = "loop"
  /\ caught_signal[p]
  /\ AfterLoop(p)
  /\ UNCHANGED <<file, scriptvars, history>>

(* close(socket_fd), the standard input if socket was never called.        *)
CloseSocket(p) ==
  /\ pc[p] = "close"
  /\ SetSocket(p, "none") /\ Goto(p, "unlink")
  /\ UNCHANGED <<daemon_enabled, handled, caught_signal, file, scriptvars, history>>

(* unlink removes the temp file, whoever wrote it, or fails.               *)
Unlink(p) ==
  /\ pc[p] = "unlink"
  /\ Exit(p)
  /\ \/ file' = <<>> /\ UNCHANGED remains
     \/ UNCHANGED file /\ remains' = remains \cup {p}
  /\ UNCHANGED <<scriptvars, parent, stored, byhand>>

-----------------------------------------------------------------------------
(* Signals.                                                                *)

Killed(p) == Exit(p) /\ remains' = remains \cup {p}

(* What a SIGTERM or SIGINT does to a process: signal_handler sets the     *)
(* flag; before sigaction the default action kills.                        *)
signal_handler(p, signal_number) ==
  /\ IF p \notin Live THEN UNCHANGED <<procvars, remains>>
     ELSE IF signal_number \in handled[p]
     THEN /\ caught_signal' = [caught_signal EXCEPT ![p] = TRUE]
          /\ UNCHANGED <<pc, daemon_enabled, handled, socket_fd, remains>>
     ELSE Killed(p)
  /\ UNCHANGED <<file, parent, stored, byhand>>

(* Somebody signals one process by its id.                                 *)
KillByHand(p) ==
  /\ p \in Live
  /\ \E s \in Signals : signal_handler(p, s)
  /\ UNCHANGED scriptvars

(* SIGKILL, or the SIGPIPE of AesdSocket's SendKills.                      *)
Crash(p) ==
  /\ p \in Live
  /\ Killed(p)
  /\ UNCHANGED <<file, scriptvars, parent, stored, byhand>>

-----------------------------------------------------------------------------
(* aesdsocket-start-stop, run by init and by nobody else at the same time. *)

(* start-stop-daemon -S starts nothing while a process of the name lives.  *)
ScriptStart(p) ==
  /\ script = "idle" /\ Live = {}
  /\ main(p, TRUE)
  /\ script' = "start" /\ awaited' = p
  /\ stopped' = FALSE
  /\ UNCHANGED <<targets, history>>

(* Faulty variant: start-stop-daemon -b, which does not wait.              *)
StartDoneAtOnce == TRUE

StartDone == pc[awaited] = "gone"

(* It has become the process it started: start ends with the parent.       *)
ScriptStarted ==
  /\ script = "start"
  /\ StartDone
  /\ script' = "idle" /\ awaited' = NoProc
  /\ UNCHANGED <<procvars, file, targets, stopped, history>>

(* start-stop-daemon -K finds the processes of the name, ...               *)
ScriptStop ==
  /\ script = "idle"
  /\ script' = "stop" /\ targets' = Live
  /\ UNCHANGED <<procvars, file, awaited, stopped, history>>

(* ... signals one after the other ...                                     *)
ScriptKill(p) ==
  /\ script = "stop" /\ p \in targets
  /\ targets' = targets \ {p}
  /\ signal_handler(p, "SIGTERM")
  /\ UNCHANGED <<script, awaited, stopped>>

(* ... and does not wait for them.                                         *)
ScriptStopped ==
  /\ script = "stop" /\ targets = {}
  /\ script' = "idle" /\ stopped' = TRUE
  /\ UNCHANGED <<procvars, file, awaited, targets, history>>

(* Somebody starts the program without the script.                         *)
StartByHand(p) ==
  /\ \E d \in BOOLEAN : main(p, d)
  /\ byhand < MaxByHand /\ byhand' = byhand + 1
  /\ UNCHANGED <<scriptvars, parent, stored, remains>>

-----------------------------------------------------------------------------
ProcStep(p) ==
  \/ Sigaction(p) \/ Socket(p) \/ Bind(p) \/ Listen(p)
  \/ StartupFails(p)
  \/ (\E q \in Proc : main_loop_fork(p, q)) \/ ForkFails(p) \/ ParentExit(p) \/ ChildSetup(p)
  \/ main_loop(p) \/ CloseSocket(p) \/ Unlink(p)

ScriptStep == ScriptStarted \/ ScriptStop \/ ScriptStopped \/ \E p \in Proc : ScriptStart(p) \/ ScriptKill(p)

Next ==
  \/ ScriptStep
  \/ \E p \in Proc : ProcStep(p) \/ StorePacket(p) \/ KillByHand(p) \/ Crash(p) \/ StartByHand(p)

Spec == Init /\ [][Next]_vars

(* Processes are scheduled, and a loop that has seen the signal ends: that *)
(* is SignalEndsServer of AesdSocket, whose clients go some time.          *)
FairSpec == Spec /\ \A p \in Proc : WF_vars(ProcStep(p))

-----------------------------------------------------------------------------
(* What start, stop and restart have to keep.                              *)

Serving(p) == pc[p] = "loop"

(* However processes are started, only one serves at a time: the port is   *)
(* the lock, also between a parent and its child and while another one is  *)
(* shutting down.                                                          *)
OneServer == \A p, q \in Proc : Serving(p) /\ Serving(q) => p = q

(* While the script alone starts processes, the packets a server has       *)
(* stored stay in the file until it goes: neither the exit of its parent   *)
(* nor the shutting_down of an instance before it takes them away.         *)
HistoryKept ==
  byhand = 0 =>
    \A p \in Proc :
      Serving(p) => Cardinality({i \in DOMAIN file : file[i] = p}) = stored[p]

(* A server answers with packets of an earlier one only if that one was    *)
(* killed, could not remove the file, or stands between its close and its  *)
(* unlink.                                                                 *)
StaleFileCause ==
  \A p \in Proc : Serving(p) =>
    \A q \in ToSet(file) \ {p} : q \in remains \/ pc[q] = "unlink"

(* While the script alone starts processes, a stop that has returned has   *)
(* missed none: every process that is left has seen the signal.            *)
StopReachesAll ==
  byhand = 0 /\ stopped /\ script = "idle" => \A p \in Live : caught_signal[p]

(* A signal that startup has caught ends the process and, if it comes      *)
(* before the fork, the child too.                                         *)
SignalEndsFamily ==
  \A p \in Proc :
    caught_signal[p] /\ pc[p] # "parent"
      ~> \A q \in Proc : q = p \/ parent[q] = p => pc[q] \in {"none", "gone"}

=============================================================================
