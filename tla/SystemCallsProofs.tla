------------------------- MODULE SystemCallsProofs -------------------------
(***************************************************************************)
(* Proofs about SystemCalls, for any number of calls, any strings and any  *)
(* old content of the writer's file: what a call returns is what its own   *)
(* process did, the files are as the caller may expect them after it, and  *)
(* what the caller prints comes out once.                                  *)
(***************************************************************************)
EXTENDS SystemCalls, SequenceTheorems, TLAPS

(* Where a child that has not ended can be, and what a file can hold.      *)
Live == {"open", "dup2", "close", "execv", "run"}
Content == Seq(Char) \cup {Absent}

(* The types of the caller's variables and of those of the processes.      *)
Types ==
  /\ cpc \in {"idle", "check", "fork", "wait"} /\ n \in 0..MaxCalls
  /\ kind \in Kinds \cup {"do_system_null"}
  /\ pc \in [Proc -> Live \cup {"none", "zombie", "reaped"}]
  /\ wpc \in [Proc -> {"none", "main", "write", "close", "returned", "killed"}]
  /\ code \in [Proc -> {0, 1}]
  /\ stdout \in [Proc -> {"inherited", "file"}]

(* The types of what children leave behind, of files and of the output.    *)
StatusType == status \in [Proc -> [exited : BOOLEAN, code : Nat]]

Contents ==
  /\ disk \in Content /\ before \in Content
  /\ writestr \in [Proc -> Seq(Char)]

Lines == buf \in Seq(Nat) /\ output \in Seq(Nat)

(* Call p forks process p, when it gets there, and no process is alive     *)
(* that no call waits for, unless a wait was cut short.                    *)
OwnProcess ==
  /\ cpc # "idle" => n > 0 /\ kind # "do_system_null"
  /\ \A p \in Proc : p > n => pc[p] = "none"
  /\ cpc \in {"check", "fork"} => pc[n] = "none"
  /\ cpc = "wait" => pc[n] \in Live \cup {"zombie"}
  /\ ~lingering => \A p \in Proc : pc[p] \in Live => p = n /\ cpc = "wait"

(* Where the writer is in each process, and what its end says of it.       *)
WriterPlace ==
  \A p \in Proc :
    /\ pc[p] \in {"none", "open", "dup2", "close", "execv"} => wpc[p] = "none"
    /\ pc[p] = "run" => wpc[p] \in {"main", "write", "close", "returned"}
    /\ pc[p] \in {"zombie", "reaped"} => wpc[p] \in {"none", "returned", "killed"}

(* The status of a child that has ended tells whether the command went well. *)
StatusTells ==
  \A p \in Proc : pc[p] \in {"zombie", "reaped"} =>
    (ExitedWell(status[p]) <=> wpc[p] = "returned" /\ code[p] = 0)

(* What the last call that has returned says of its process.               *)
Answered ==
  cpc = "idle" /\ n > 0 /\ kind # "do_system_null" =>
    (result <=> pc[n] = "reaped" /\ wpc[n] = "returned" /\ code[n] = 0)

(* The writer's file, wherever its writer is: no other process touches it. *)
Part(b, s) == \E k \in 0..Len(s) : disk = Overlay(b, SubSeq(s, 1, k))

(* What is in it, by the place of the writer of the last call.             *)
DiskPlace ==
  ~lingering /\ n > 0 /\ kind # "do_system_null" =>
    /\ wpc[n] \in {"none", "main"} => disk = before
    /\ wpc[n] = "write" => disk = Overlay(before, <<>>)
    /\ wpc[n] = "close" => disk = Overlay(before, writestr[n])
    /\ wpc[n] = "returned" /\ code[n] = 0 => disk = Overlay(before, writestr[n])
    /\ wpc[n] \in {"returned", "killed"} =>
         \/ disk = before
         \/ disk = Overlay(before, writestr[n])
         \/ Part(before, writestr[n])

(* The command runs with its output in the file, and leaves it there.      *)
Redirected ==
  kind = "do_exec_redirect" /\ n > 0 =>
    /\ pc[n] \in {"close", "execv", "run"} => stdout[n] = "file"
    /\ ~lingering /\ pc[n] \in {"zombie", "reaped"} /\ wpc[n] = "returned" => outputfile = <<n>>

(* A message is printed by the call it is about, when that returns.        *)
Once ==
  LET lines == output \o buf IN
  /\ \A i, j \in 1..Len(lines) : lines[i] = lines[j] => i = j
  /\ \A i \in 1..Len(lines) : lines[i] <= n /\ (cpc # "idle" => lines[i] # n)

(* The inductive invariant.                                                *)
Inv ==
  /\ Types /\ StatusType /\ Contents /\ Lines /\ OwnProcess /\ WriterPlace /\ StatusTells /\ Answered
  /\ DiskPlace /\ Redirected /\ Once

-----------------------------------------------------------------------------
(* What a step of a process leaves alone.                                  *)
LEMMA ChildFrame ==
  ASSUME NEW p \in Proc, ChildStep(p) \/ Killed(p)
  PROVE  UNCHANGED <<cpc, n, kind, result, buf, before, lingering, output, writestr>>
<1> USE DEF callervars, childvars, writervars, ChildExits
<1>1. CASE OpenOutput(p) \/ Dup2(p) \/ CloseOutput(p)
  BY <1>1 DEF OpenOutput, Dup2, CloseOutput
<1>2. CASE Execv(p) \/ ExecvFails(p) \/ CommandExits(p) \/ Killed(p)
  BY <1>2 DEF Execv, ExecvFails, CommandExits, Killed
<1>3. CASE Command(p)
  BY <1>3 DEF Command, WriterStep, Open, OpenFails, Write, WriteFails, Close
<1>. QED
  BY <1>1, <1>2, <1>3 DEF ChildStep

(* What a step of the caller leaves alone.                                 *)
LEMMA CallerFrame ==
  ASSUME (\E k \in Kinds : Call(k)) \/ AskForShell \/ CallerStep \/ WaitpidFails \/ Flush
  PROVE  UNCHANGED <<wpc, disk, code, status, stdout, outputfile>>
<1> USE DEF childvars, writervars
<1>1. CASE \E k \in Kinds : Call(k)
  BY <1>1 DEF Call
<1>2. CASE AskForShell \/ CheckArguments \/ Fork \/ ForkFails
  BY <1>2 DEF AskForShell, CheckArguments, Fork, ForkFails
<1>3. CASE Waitpid \/ WaitpidFails \/ Flush
  BY <1>3 DEF Waitpid, WaitpidFails, Flush
<1>. QED
  BY <1>1, <1>2, <1>3 DEF CallerStep

(* How the processes move: who may, from where and to where.               *)
LEMMA ChildMoves ==
  ASSUME Inv, NEW p \in Proc, ChildStep(p) \/ Killed(p)
  PROVE  /\ pc[p] \in Live /\ pc'[p] \in (Live \ {"open"}) \cup {"zombie"}
         /\ pc' = [pc EXCEPT ![p] = pc'[p]]
         /\ \E w \in {"main", "write", "close", "returned", "killed"} :
              UNCHANGED wpc \/ wpc' = [wpc EXCEPT ![p] = w]
         /\ \E c \in {0, 1} : UNCHANGED code \/ code' = [code EXCEPT ![p] = c]
<1> USE DEF callervars, childvars, writervars, ChildExits, Goto, Live
<1>0. pc \in [Proc -> Live \cup {"none", "zombie", "reaped"}]
  BY DEF Inv, Types
<1>1. CASE OpenOutput(p) \/ Dup2(p) \/ CloseOutput(p)
  BY <1>0, <1>1 DEF OpenOutput, Dup2, CloseOutput
<1>2. CASE Execv(p) \/ ExecvFails(p)
  BY <1>0, <1>2 DEF Execv, ExecvFails
<1>3. CASE CommandExits(p) \/ Killed(p)
  BY <1>0, <1>3 DEF CommandExits, Killed
<1>4. CASE Command(p)
  <2>1. pc[p] = "run" /\ UNCHANGED pc
    BY <1>4 DEF Command
  <2>2. pc' = [pc EXCEPT ![p] = pc'[p]]
    BY <1>0, <2>1
  <2>3. /\ \E w \in {"main", "write", "close", "returned", "killed"} :
              UNCHANGED wpc \/ wpc' = [wpc EXCEPT ![p] = w]
        /\ \E c \in {0, 1} : UNCHANGED code \/ code' = [code EXCEPT ![p] = c]
    BY <1>4 DEF Command, WriterStep, Open, OpenFails, Write, WriteFails, AfterShortWrite, Close, Returns
  <2>. QED
    BY <2>1, <2>2, <2>3
<1>. QED
  BY <1>1, <1>2, <1>3, <1>4 DEF ChildStep

(* Every variable of a process keeps its type.                             *)
LEMMA TypesStep ==
  ASSUME Inv, [Next]_vars
  PROVE  Types'
<1>0. Types /\ OwnProcess
  BY DEF Inv
<1>a. MaxCalls \in Nat /\ MaxCalls > 0
  BY SystemCallsAssumption
<1>1. ASSUME NEW p \in Proc, ChildStep(p) \/ Killed(p) PROVE Types'
  <2>1. UNCHANGED <<cpc, n, kind>>
    BY <1>1, ChildFrame
  <2>2. /\ pc'[p] \in Live \cup {"zombie"} /\ pc' = [pc EXCEPT ![p] = pc'[p]]
        /\ \E w \in {"main", "write", "close", "returned", "killed"} :
             UNCHANGED wpc \/ wpc' = [wpc EXCEPT ![p] = w]
        /\ \E c \in {0, 1} : UNCHANGED code \/ code' = [code EXCEPT ![p] = c]
    BY <1>1, ChildMoves
  <2>3. pc' \in [Proc -> Live \cup {"none", "zombie", "reaped"}]
    BY <1>0, <2>2 DEF Types
  <2>4. /\ wpc' \in [Proc -> {"none", "main", "write", "close", "returned", "killed"}]
        /\ code' \in [Proc -> {0, 1}]
    BY <1>0, <2>2 DEF Types
  <2>5. UNCHANGED stdout \/ stdout' = [stdout EXCEPT ![p] = "file"]
    BY <1>1 DEF ChildStep, OpenOutput, Dup2, DupToStdout, CloseOutput, Execv, ExecvFails, Command,
       CommandExits, Killed, childvars
  <2>6. stdout' \in [Proc -> {"inherited", "file"}]
    BY <1>0, <2>5 DEF Types
  <2>. QED
    BY <1>0, <2>1, <2>3, <2>4, <2>6 DEF Types
<1>2. CASE (\E k \in Kinds : Call(k)) \/ AskForShell \/ CallerStep \/ WaitpidFails \/ Flush
  <2>1. UNCHANGED <<wpc, code, stdout>>
    BY <1>2, CallerFrame
  <2>2. CASE (\E k \in Kinds : Call(k)) \/ AskForShell
    BY <1>0, <1>a, <2>1, <2>2 DEF Call, AskForShell, childvars, Types
  <2>3. CASE CheckArguments \/ ForkFails \/ WaitpidFails \/ Flush
    BY <1>0, <2>1, <2>3 DEF CheckArguments, ForkFails, WaitpidFails, Flush, ReturnFalse, childvars, Types
  <2>4. CASE Fork
    BY <1>0, <2>1, <2>4 DEF Fork, Types, Live
  <2>5. CASE Waitpid
    BY <1>0, <2>1, <2>5 DEF Waitpid, ReturnFalse, WaitedFor, Types
  <2>. QED
    BY <1>2, <2>2, <2>3, <2>4, <2>5 DEF CallerStep
<1>3. CASE UNCHANGED vars
  BY <1>0, <1>3 DEF vars, writervars, callervars, childvars, Types
<1>. QED
  BY <1>1, <1>2, <1>3 DEF Next

(* A wait status says whether the process has exited, and with what.       *)
LEMMA StatusTypeStep ==
  ASSUME Inv, [Next]_vars
  PROVE  StatusType'
<1>0. status \in [Proc -> [exited : BOOLEAN, code : Nat]] /\ code \in [Proc -> {0, 1}]
  BY DEF Inv, StatusType, Types
<1>1. ASSUME NEW p \in Proc, ChildStep(p) \/ Killed(p)
      PROVE  UNCHANGED status \/ \E s \in {Exited(127), Exited(code[p]), Signalled} :
                                   status' = [status EXCEPT ![p] = s]
  BY <1>1 DEF ChildStep, OpenOutput, Dup2, CloseOutput, Execv, ExecvFails, Command, ChildExits,
     CommandExits, Killed, childvars
<1>2. \A p \in Proc : {Exited(127), Exited(code[p]), Signalled} \subseteq [exited : BOOLEAN, code : Nat]
  BY <1>0 DEF Exited, Signalled
<1>3. ASSUME NEW p \in Proc, ChildStep(p) \/ Killed(p) PROVE StatusType'
  <2> DEFINE R == [exited : BOOLEAN, code : Nat]
  <2>1. status \in [Proc -> R]
    BY <1>0
  <2>2. UNCHANGED status \/ \E s \in R : status' = [status EXCEPT ![p] = s]
    BY <1>1, <1>2, <1>3, Zenon
  <2> HIDE DEF R
  <2>3. status' \in [Proc -> R]
    BY <2>1, <2>2
  <2>. QED
    BY <2>3 DEF StatusType, R
<1>4. CASE (\E k \in Kinds : Call(k)) \/ AskForShell \/ CallerStep \/ WaitpidFails \/ Flush
  BY <1>0, <1>4, CallerFrame DEF StatusType
<1>5. CASE UNCHANGED vars
  BY <1>0, <1>5 DEF vars, childvars, StatusType
<1>. QED
  BY <1>3, <1>4, <1>5 DEF Next

(* Call p forks process p, and waits for it.                               *)
LEMMA OwnProcessStep ==
  ASSUME Inv, [Next]_vars
  PROVE  OwnProcess'
<1>0. /\ OwnProcess /\ pc \in [Proc -> Live \cup {"none", "zombie", "reaped"}]
      /\ n \in 0..MaxCalls /\ MaxCalls \in Nat
  BY SystemCallsAssumption DEF Inv, Types
<1> USE DEF Live
<1>1. ASSUME NEW p \in Proc, ChildStep(p) \/ Killed(p) PROVE OwnProcess'
  <2>1. UNCHANGED <<cpc, n, kind, lingering>>
    BY <1>1, ChildFrame
  <2>2. /\ pc[p] \in Live /\ pc'[p] \in Live \cup {"zombie"}
        /\ \A q \in Proc : q # p => pc'[q] = pc[q]
    BY <1>0, <1>1, ChildMoves
  <2>. QED
    BY <1>0, <2>1, <2>2 DEF OwnProcess, Proc
<1>2. CASE (\E k \in Kinds : Call(k)) \/ AskForShell
  <2>1. n' = n + 1 /\ cpc = "idle" /\ n < MaxCalls /\ UNCHANGED <<pc, lingering>>
    BY <1>2 DEF Call, AskForShell, childvars
  <2>2. n' \in Proc /\ n' > n /\ \A p \in Proc : p > n' => p > n
    BY <1>0, <2>1 DEF Proc
  <2>3. pc[n'] = "none" /\ \A p \in Proc : p > n' => pc[p] = "none"
    BY <1>0, <2>2 DEF OwnProcess
  <2>4. cpc' \in {"idle", "fork", "check"} /\ (cpc' # "idle" => kind' # "do_system_null" /\ n' > 0)
    BY <1>0, <1>2, <2>1 DEF Call, AskForShell, Kinds
  <2>5. ~lingering => \A p \in Proc : pc[p] \notin Live
    BY <1>0, <2>1 DEF OwnProcess
  <2>. QED
    BY <2>1, <2>3, <2>4, <2>5 DEF OwnProcess
<1>3. CASE CheckArguments \/ ForkFails
  <2>1. /\ cpc \in {"check", "fork"} /\ cpc' \in {"idle", "fork"}
        /\ UNCHANGED <<n, kind, pc, lingering>>
    BY <1>3 DEF CheckArguments, ForkFails, ReturnFalse, childvars
  <2>. QED
    BY <1>0, <2>1 DEF OwnProcess
<1>4. CASE Fork
  <2>1. /\ cpc = "fork" /\ cpc' = "wait" /\ UNCHANGED <<n, kind, lingering>> /\ n \in Proc
    BY <1>0, <1>4 DEF Fork, OwnProcess, Proc
  <2>2. pc'[n] \in Live /\ \A p \in Proc : p # n => pc'[p] = pc[p]
    BY <1>0, <1>4, <2>1 DEF Fork
  <2>. QED
    BY <1>0, <2>1, <2>2 DEF OwnProcess, Proc
<1>5. CASE Waitpid
  <2>1. /\ cpc = "wait" /\ cpc' = "idle" /\ UNCHANGED <<n, kind, lingering>> /\ n \in Proc
        /\ pc' = [pc EXCEPT ![n] = "reaped"] /\ pc[n] = "zombie"
    BY <1>0, <1>5 DEF Waitpid, WaitedFor, ReturnFalse, OwnProcess, Proc
  <2>2. pc'[n] = "reaped" /\ \A p \in Proc : p # n => pc'[p] = pc[p]
    BY <1>0, <2>1
  <2>. QED
    BY <1>0, <2>1, <2>2 DEF OwnProcess, Proc
<1>6. CASE WaitpidFails
  <2>1. /\ cpc' = "idle" /\ UNCHANGED <<n, pc>>
        /\ ~lingering' => ~lingering /\ pc[n] = "zombie"
    BY <1>6 DEF WaitpidFails, ReturnFalse, childvars
  <2>. QED
    BY <1>0, <2>1 DEF OwnProcess
<1>7. CASE Flush \/ UNCHANGED vars
  BY <1>0, <1>7 DEF Flush, vars, callervars, childvars, OwnProcess
<1>. QED
  BY <1>1, <1>2, <1>3, <1>4, <1>5, <1>6, <1>7 DEF Next, CallerStep

(* The writer runs in a process that has come to execv, and there only.    *)
LEMMA WriterPlaceStep ==
  ASSUME Inv, [Next]_vars
  PROVE  WriterPlace'
<1>0. /\ WriterPlace /\ pc \in [Proc -> Live \cup {"none", "zombie", "reaped"}]
      /\ wpc \in [Proc -> {"none", "main", "write", "close", "returned", "killed"}]
  BY DEF Inv, Types
<1>1. ASSUME NEW p \in Proc, ChildStep(p) \/ Killed(p) PROVE WriterPlace'
  <2> USE DEF Goto, ChildExits, writervars, childvars
  <2>0. \A q \in Proc : q # p => pc'[q] = pc[q] /\ wpc'[q] = wpc[q]
    BY <1>0, <1>1, ChildMoves
  <2>1. CASE OpenOutput(p) \/ Dup2(p) \/ CloseOutput(p) \/ ExecvFails(p)
    <3>1. wpc'[p] = "none"
      BY <1>0, <2>1 DEF OpenOutput, Dup2, CloseOutput, ExecvFails, WriterPlace
    <3>2. pc'[p] # "run"
      BY <1>0, <2>1 DEF OpenOutput, Dup2, CloseOutput, ExecvFails
    <3>. QED
      BY <1>0, <2>0, <3>1, <3>2 DEF WriterPlace
  <2>2. CASE Execv(p)
    <3>1. wpc'[p] = "main" /\ pc'[p] = "run"
      BY <1>0, <2>2 DEF Execv
    <3>. QED
      BY <1>0, <2>0, <3>1 DEF WriterPlace
  <2>3. CASE Command(p)
    <3>1. pc'[p] = "run" /\ wpc[p] \in {"main", "write", "close", "returned"}
      BY <1>0, <2>3 DEF Command, WriterPlace
    <3>2. wpc'[p] \in {"write", "close", "returned"}
      BY <1>0, <2>3 DEF Command, WriterStep, Open, OpenFails, Write, WriteFails, AfterShortWrite, Close,
         Returns
    <3>. QED
      BY <1>0, <2>0, <3>1, <3>2 DEF WriterPlace
  <2>4. CASE CommandExits(p) \/ Killed(p)
    <3>1. pc'[p] = "zombie" /\ wpc'[p] \in {"returned", "killed"}
      BY <1>0, <2>4 DEF CommandExits, Killed
    <3>. QED
      BY <1>0, <2>0, <3>1 DEF WriterPlace
  <2>. QED
    BY <1>1, <2>1, <2>2, <2>3, <2>4 DEF ChildStep
<1>2. CASE (\E k \in Kinds : Call(k)) \/ AskForShell \/ CheckArguments \/ ForkFails \/ WaitpidFails
           \/ Flush
  <2>1. UNCHANGED <<pc, wpc>>
    BY <1>2 DEF Call, AskForShell, CheckArguments, ForkFails, WaitpidFails, Flush, childvars, writervars
  <2>. QED
    BY <1>0, <2>1 DEF WriterPlace
<1>3. CASE Fork
  <2>1. n \in Proc /\ pc[n] = "none"
    BY <1>3 DEF Fork, Inv, OwnProcess, Types, Proc
  <2>2. /\ pc'[n] \in {"open", "execv"} /\ UNCHANGED wpc
        /\ \A q \in Proc : q # n => pc'[q] = pc[q]
    BY <1>0, <1>3, <2>1 DEF Fork, writervars
  <2>. QED
    BY <1>0, <2>1, <2>2 DEF WriterPlace
<1>4. CASE Waitpid
  <2>1. UNCHANGED wpc /\ pc' = [pc EXCEPT ![n] = "reaped"] /\ pc[n] = "zombie"
    BY <1>4 DEF Waitpid, WaitedFor, writervars
  <2>2. \A q \in Proc : pc'[q] = pc[q] \/ (pc[q] = "zombie" /\ pc'[q] = "reaped")
    BY <1>0, <2>1
  <2>. QED
    BY <1>0, <2>1, <2>2 DEF WriterPlace
<1>5. CASE UNCHANGED vars
  BY <1>0, <1>5 DEF vars, childvars, writervars, WriterPlace
<1>. QED
  BY <1>1, <1>2, <1>3, <1>4, <1>5 DEF Next, CallerStep

(* What WIFEXITED and WEXITSTATUS make of a status.                        *)
LEMMA StatusValues ==
  /\ \A c : ExitedWell(Exited(c)) <=> c = 0
  /\ ~ExitedWell(Signalled)
BY DEF ExitedWell, Exited, Signalled

(* A process ends well exactly if the writer returned 0 in it.             *)
LEMMA StatusTellsStep ==
  ASSUME Inv, [Next]_vars
  PROVE  StatusTells'
<1> DEFINE W(p) == ExitedWell(status[p]) <=> wpc[p] = "returned" /\ code[p] = 0
<1> SUFFICES ASSUME NEW q \in Proc, pc'[q] \in {"zombie", "reaped"} PROVE W(q)'
  BY DEF StatusTells
<1>0. /\ pc[q] \in {"zombie", "reaped"} => W(q)
      /\ pc \in [Proc -> Live \cup {"none", "zombie", "reaped"}]
      /\ wpc \in [Proc -> {"none", "main", "write", "close", "returned", "killed"}]
      /\ code \in [Proc -> {0, 1}] /\ DOMAIN status = Proc
  BY DEF Inv, Types, StatusTells, StatusType
<1>1. ASSUME pc'[q] = pc[q], UNCHANGED <<status[q], wpc[q], code[q]>> PROVE W(q)'
  BY <1>0, <1>1
<1>2. ASSUME NEW p \in Proc, p # q, ChildStep(p) \/ Killed(p) PROVE W(q)'
  <2>1. pc'[q] = pc[q] /\ wpc'[q] = wpc[q] /\ code'[q] = code[q]
    BY <1>0, <1>2, ChildMoves
  <2>2. UNCHANGED status \/ \E s : status' = [status EXCEPT ![p] = s]
    BY <1>2, Zenon DEF ChildStep, OpenOutput, Dup2, CloseOutput, Execv, ExecvFails, Command, ChildExits,
       CommandExits, Killed, childvars
  <2>3. status'[q] = status[q]
    BY <1>0, <1>2, <2>2
  <2>. QED
    BY <1>1, <2>1, <2>3
<1>3. CASE ChildStep(q) \/ Killed(q)
  <2>1. pc[q] \in Live
    BY <1>3, ChildMoves
  <2> USE DEF Goto, Live, ChildExits, writervars, childvars
  <2>2. CASE OpenOutput(q) \/ Dup2(q) \/ CloseOutput(q) \/ ExecvFails(q)
    <3>1. wpc'[q] = "none"
      BY <2>2 DEF OpenOutput, Dup2, CloseOutput, ExecvFails, Inv, WriterPlace
    <3>2. status'[q] = Exited(127)
      BY <1>0, <2>2 DEF OpenOutput, Dup2, CloseOutput, ExecvFails
    <3>. QED
      BY <3>1, <3>2, StatusValues
  <2>3. CASE Execv(q) \/ Command(q)
    <3>1. pc'[q] = "run"
      BY <1>0, <2>3 DEF Execv, Command
    <3>. QED
      BY <3>1
  <2>4. CASE CommandExits(q)
    <3>1. status'[q] = Exited(code[q]) /\ wpc'[q] = "returned" /\ UNCHANGED code
      BY <1>0, <2>4 DEF CommandExits
    <3>. QED
      BY <3>1, StatusValues
  <2>5. CASE Killed(q)
    <3>1. status'[q] = Signalled /\ wpc'[q] = "killed"
      BY <1>0, <2>5 DEF Killed
    <3>. QED
      BY <3>1, StatusValues
  <2>. QED
    BY <1>3, <2>2, <2>3, <2>4, <2>5 DEF ChildStep
<1>4. CASE (\E k \in Kinds : Call(k)) \/ AskForShell \/ CallerStep \/ WaitpidFails \/ Flush
  <2>1. UNCHANGED <<status, wpc, code>>
    BY <1>4, CallerFrame
  <2>2. pc[q] \in {"zombie", "reaped"}
    <3>1. CASE ~Fork /\ ~Waitpid
      BY <1>4, <3>1 DEF CallerStep, Call, AskForShell, CheckArguments, ForkFails, WaitpidFails, Flush,
         childvars
    <3>2. CASE Fork
      BY <1>0, <3>2 DEF Fork
    <3>3. CASE Waitpid
      BY <1>0, <3>3 DEF Waitpid, WaitedFor
    <3>. QED
      BY <3>1, <3>2, <3>3
  <2>. QED
    BY <1>0, <2>1, <2>2
<1>5. CASE UNCHANGED vars
  BY <1>1, <1>5 DEF vars, childvars, writervars
<1>. QED
  BY <1>2, <1>3, <1>4, <1>5 DEF Next

(* The call that returns true has waited for its own process, and nothing  *)
(* changes that process afterwards.                                        *)
LEMMA AnsweredStep ==
  ASSUME Inv, [Next]_vars
  PROVE  Answered'
<1> DEFINE Well(p) == pc[p] = "reaped" /\ wpc[p] = "returned" /\ code[p] = 0
<1>0. /\ pc \in [Proc -> Live \cup {"none", "zombie", "reaped"}] /\ n \in 0..MaxCalls
      /\ wpc \in [Proc -> {"none", "main", "write", "close", "returned", "killed"}]
      /\ code \in [Proc -> {0, 1}] /\ MaxCalls \in Nat
      /\ Answered /\ OwnProcess
  BY SystemCallsAssumption DEF Inv, Types
<1> SUFFICES ASSUME cpc' = "idle", n' > 0, kind' # "do_system_null" PROVE result' <=> Well(n)'
  BY DEF Answered
<1>1. ASSUME NEW p \in Proc, ChildStep(p) \/ Killed(p) PROVE result' <=> Well(n)'
  <2>1. UNCHANGED <<cpc, n, kind, result>>
    BY <1>1, ChildFrame
  <2>2. /\ pc[p] \in Live /\ pc'[p] # "reaped"
        /\ \A q \in Proc : q # p => pc'[q] = pc[q] /\ wpc'[q] = wpc[q] /\ code'[q] = code[q]
    BY <1>0, <1>1, ChildMoves DEF Live
  <2>3. n \in Proc
    BY <1>0, <2>1 DEF Proc
  <2>4. Well(n)' <=> Well(n)
    BY <2>1, <2>2, <2>3 DEF Live
  <2>. QED
    BY <1>0, <2>1, <2>4 DEF Answered
<1>2. CASE (\E k \in Kinds : Call(k)) \/ AskForShell \/ Fork
  <2>1. cpc' # "idle" \/ kind' = "do_system_null"
    BY <1>2 DEF Call, AskForShell, Fork
  <2>. QED
    BY <2>1
<1>3. CASE CheckArguments \/ ForkFails \/ WaitpidFails
  <2>1. cpc \in {"check", "fork", "wait"} /\ ~result' /\ UNCHANGED <<pc, n>>
    BY <1>3 DEF CheckArguments, ForkFails, WaitpidFails, ReturnFalse, childvars
  <2>2. pc[n] # "reaped"
    BY <1>0, <2>1 DEF OwnProcess, Live
  <2>. QED
    BY <2>1, <2>2
<1>4. CASE Waitpid
  <2>1. n \in Proc
    BY <1>0, <1>4 DEF Waitpid, OwnProcess, Proc
  <2>2. /\ pc[n] = "zombie" /\ pc' = [pc EXCEPT ![n] = "reaped"] /\ UNCHANGED <<n, wpc, code>>
        /\ IF ExitedWell(status[n]) THEN result' = TRUE ELSE result' = FALSE
    BY <1>4 DEF Waitpid, WaitedFor, ReturnFalse, writervars
  <2>3. pc'[n] = "reaped"
    BY <1>0, <2>1, <2>2
  <2>4. ExitedWell(status[n]) <=> wpc[n] = "returned" /\ code[n] = 0
    BY <2>1, <2>2 DEF Inv, StatusTells
  <2>. QED
    BY <2>2, <2>3, <2>4
<1>5. CASE Flush \/ UNCHANGED vars
  <2>1. UNCHANGED <<cpc, n, kind, result, pc, wpc, code>>
    BY <1>5 DEF Flush, vars, callervars, childvars, writervars
  <2>. QED
    BY <1>0, <2>1 DEF Answered
<1>. QED
  BY <1>1, <1>2, <1>3, <1>4, <1>5 DEF Next, CallerStep

(* The command of do_exec_redirect writes to the file, alone.              *)
LEMMA RedirectedStep ==
  ASSUME Inv, [Next]_vars
  PROVE  Redirected'
<1>0. /\ pc \in [Proc -> Live \cup {"none", "zombie", "reaped"}] /\ n \in 0..MaxCalls
      /\ wpc \in [Proc -> {"none", "main", "write", "close", "returned", "killed"}]
      /\ stdout \in [Proc -> {"inherited", "file"}] /\ MaxCalls \in Nat
      /\ Redirected /\ OwnProcess /\ WriterPlace
  BY SystemCallsAssumption DEF Inv, Types
<1> SUFFICES ASSUME kind' = "do_exec_redirect", n' > 0
             PROVE  /\ pc'[n'] \in {"close", "execv", "run"} => stdout'[n'] = "file"
                    /\ ~lingering' /\ pc'[n'] \in {"zombie", "reaped"} /\ wpc'[n'] = "returned" =>
                         outputfile' = <<n'>>
  BY DEF Redirected
<1>1. ASSUME NEW p \in Proc, ChildStep(p) \/ Killed(p) PROVE Redirected'
  <2>1. UNCHANGED <<cpc, n, kind, lingering>> /\ n \in Proc
    BY <1>0, <1>1, ChildFrame DEF Proc
  <2>2. /\ pc[p] \in Live
        /\ \A q \in Proc : q # p => pc'[q] = pc[q] /\ wpc'[q] = wpc[q]
    BY <1>0, <1>1, ChildMoves
  <2>3. \A q \in Proc : q # p => stdout'[q] = stdout[q]
    <3>1. UNCHANGED stdout \/ stdout' = [stdout EXCEPT ![p] = "file"]
      BY <1>1 DEF ChildStep, OpenOutput, Dup2, DupToStdout, CloseOutput, Execv, ExecvFails, Command,
         CommandExits, Killed, childvars
    <3>. QED
      BY <1>0, <3>1
  <2>4. CASE p # n
    <3>1. lingering
      BY <1>0, <2>2, <2>4 DEF OwnProcess
    <3>. QED
      BY <1>0, <2>1, <2>2, <2>3, <2>4, <3>1 DEF Redirected
  <2>5. CASE p = n
    <3> USE DEF Goto, ChildExits, writervars, childvars
    <3>1. CASE OpenOutput(p) \/ Dup2(p) \/ CloseOutput(p) \/ ExecvFails(p)
      <4>1. wpc'[p] = "none"
        BY <1>0, <3>1 DEF OpenOutput, Dup2, CloseOutput, ExecvFails, WriterPlace
      <4>2. pc'[p] \in {"close", "execv", "run"} => stdout'[p] = "file"
        BY <1>0, <2>1, <2>5, <3>1 DEF OpenOutput, Dup2, DupToStdout, CloseOutput, ExecvFails, Redirected
      <4>. QED
        BY <2>1, <2>5, <4>1, <4>2 DEF Redirected
    <3>2. CASE Execv(p) \/ Command(p)
      <4>1. pc[p] \in {"execv", "run"} /\ pc'[p] = "run" /\ UNCHANGED stdout
        BY <1>0, <3>2 DEF Execv, Command
      <4>. QED
        BY <1>0, <2>1, <2>5, <4>1 DEF Redirected
    <3>3. CASE CommandExits(p)
      <4>1. pc[p] = "run" /\ pc'[p] = "zombie"
            /\ outputfile' = IF stdout[p] = "file" THEN <<p>> ELSE outputfile
        BY <1>0, <3>3 DEF CommandExits
      <4>. QED
        BY <1>0, <2>1, <2>5, <4>1 DEF Redirected
    <3>4. CASE Killed(p)
      <4>1. pc'[p] = "zombie" /\ wpc'[p] = "killed"
        BY <1>0, <3>4 DEF Killed
      <4>. QED
        BY <2>1, <2>5, <4>1 DEF Redirected
    <3>. QED
      BY <1>1, <3>1, <3>2, <3>3, <3>4 DEF ChildStep
  <2>. QED
    BY <2>4, <2>5
<1>2. CASE (\E k \in Kinds : Call(k)) \/ AskForShell
  <2>1. n' = n + 1 /\ n' \in Proc /\ UNCHANGED pc
    BY <1>0, <1>2 DEF Call, AskForShell, childvars, Proc
  <2>2. pc'[n'] = "none"
    BY <1>0, <2>1 DEF OwnProcess
  <2>. QED
    BY <2>2
<1>3. CASE CheckArguments \/ ForkFails \/ Flush \/ UNCHANGED vars
  <2>1. UNCHANGED <<n, kind, lingering, pc, wpc, stdout, outputfile>>
    BY <1>3 DEF CheckArguments, ForkFails, Flush, vars, callervars, childvars, writervars
  <2>. QED
    BY <1>0, <2>1 DEF Redirected
<1>4. CASE Fork
  <2>1. n \in Proc /\ UNCHANGED <<n, kind>>
    BY <1>0, <1>4 DEF Fork, OwnProcess, Proc
  <2>2. pc'[n] = "open"
    BY <1>0, <1>4, <2>1 DEF Fork
  <2>. QED
    BY <2>1, <2>2
<1>5. CASE Waitpid
  <2>1. n \in Proc
    BY <1>0, <1>5 DEF Waitpid, OwnProcess, Proc
  <2>2. /\ UNCHANGED <<n, kind, lingering, wpc, outputfile>> /\ pc[n] = "zombie"
        /\ pc' = [pc EXCEPT ![n] = "reaped"]
    BY <1>5 DEF Waitpid, WaitedFor, writervars
  <2>3. pc'[n] = "reaped"
    BY <1>0, <2>1, <2>2
  <2>. QED
    BY <1>0, <2>2, <2>3 DEF Redirected
<1>6. CASE WaitpidFails
  <2>1. (~lingering' => ~lingering) /\ UNCHANGED <<n, kind, pc, wpc, stdout, outputfile>>
    BY <1>6 DEF WaitpidFails, childvars, writervars
  <2>. QED
    BY <1>0, <2>1 DEF Redirected
<1>. QED
  BY <1>1, <1>2, <1>3, <1>4, <1>5, <1>6 DEF Next, CallerStep, Redirected

-----------------------------------------------------------------------------
(* What a write leaves is a file.                                          *)
LEMMA OverlayType ==
  ASSUME NEW b \in Content, NEW s \in Seq(Char)
  PROVE  Overlay(b, s) \in Seq(Char)
<1>1. CASE b = Absent
  BY <1>1 DEF Overlay
<1>2. CASE b # Absent
  <2>1. b \in Seq(Char) /\ Len(b) \in Nat /\ Len(s) \in Nat
    BY <1>2 DEF Content
  <2>2. \A i \in Len(s) + 1..Len(b) : b[i] \in Char
    BY <2>1
  <2>3. SubSeq(b, Len(s) + 1, Len(b)) \in Seq(Char)
    BY <2>1, <2>2, SubSeqProperties
  <2>4. s \o SubSeq(b, Len(s) + 1, Len(b)) \in Seq(Char)
    BY <2>3, ConcatProperties
  <2>. QED
    BY <1>2, <2>4 DEF Overlay
<1>. QED
  BY <1>1, <1>2

(* Opening an existing file changes nothing, and a file that open has      *)
(* created is empty: the write that follows gives what it would have.      *)
LEMMA OverlayOpened ==
  ASSUME NEW b \in Content, NEW s \in Seq(Char)
  PROVE  Overlay(Overlay(b, <<>>), s) = Overlay(b, s)
<1>0. Absent \notin Seq(Char) /\ <<>> \in Seq(Char)
  BY SystemCallsAssumption
<1>1. CASE b = Absent
  <2>1. Overlay(b, <<>>) = <<>> /\ Overlay(b, s) = s
    BY <1>1 DEF Overlay
  <2>2. <<>> # Absent
    BY <1>0
  <2>3. Overlay(<<>>, s) = s \o SubSeq(<<>>, Len(s) + 1, 0)
    BY <2>2 DEF Overlay
  <2>4. SubSeq(<<>>, Len(s) + 1, 0) = <<>>
    <3>1. Len(s) + 1 \in Nat /\ Len(s) + 1 > 0
      OBVIOUS
    <3>. QED
      BY <3>1, SubSeqEmpty
  <2>5. s \o <<>> = s
    BY ConcatEmptySeq
  <2>. QED
    BY <2>1, <2>3, <2>4, <2>5
<1>2. CASE b # Absent
  <2>1. b \in Seq(Char)
    BY <1>2 DEF Content
  <2>2. Overlay(b, <<>>) = <<>> \o SubSeq(b, 1, Len(b))
    <3>1. Len(<<>>) + 1 = 1
      OBVIOUS
    <3>. QED
      BY <1>2, <3>1 DEF Overlay
  <2>3. SubSeq(b, 1, Len(b)) = b /\ <<>> \o b = b
    BY <2>1, SubSeqFull, ConcatEmptySeq
  <2>. QED
    BY <2>2, <2>3
<1>. QED
  BY <1>1, <1>2

(* The start of a string.                                                  *)
LEMMA Start ==
  ASSUME NEW s \in Seq(Char), NEW k \in 0..Len(s)
  PROVE  SubSeq(s, 1, k) \in Seq(Char)
<1>1. \A i \in 1..k : s[i] \in Char
  OBVIOUS
<1>. QED
  BY <1>1, SubSeqProperties

(* The file and the strings stay what they are.                            *)
LEMMA ContentsStep ==
  ASSUME Inv, [Next]_vars
  PROVE  Contents'
<1>0. disk \in Content /\ before \in Content /\ writestr \in [Proc -> Seq(Char)] /\ n \in 0..MaxCalls
  BY DEF Inv, Contents, Types
<1>1. ASSUME NEW p \in Proc, ChildStep(p) \/ Killed(p) PROVE Contents'
  <2>1. UNCHANGED <<before, writestr>>
    BY <1>1, ChildFrame
  <2>2. UNCHANGED disk \/ \E s \in Seq(Char) : disk' = Overlay(disk, s)
    <3>1. CASE Command(p)
      <4>1. CASE Write(p)
        <5>1. PICK k \in 0..Len(writestr[p]) : disk' = Overlay(disk, SubSeq(writestr[p], 1, k))
          BY <4>1 DEF Write
        <5>2. SubSeq(writestr[p], 1, k) \in Seq(Char)
          BY <1>0, Start
        <5>. QED
          BY <5>1, <5>2
      <4>2. CASE Open(p)
        <5>1. disk' = Overlay(disk, <<>>) /\ <<>> \in Seq(Char)
          BY <4>2 DEF Open
        <5>. QED
          BY <5>1
      <4>3. CASE OpenFails(p) \/ WriteFails(p) \/ Close(p)
        BY <4>3 DEF OpenFails, WriteFails, Close
      <4>. QED
        BY <3>1, <4>1, <4>2, <4>3 DEF Command, WriterStep
    <3>2. CASE ~Command(p)
      BY <1>1, <3>2 DEF ChildStep, OpenOutput, Dup2, CloseOutput, Execv, ExecvFails, CommandExits, Killed,
         writervars
    <3>. QED
      BY <3>1, <3>2
  <2>3. disk' \in Content
    BY <1>0, <2>2, OverlayType DEF Content
  <2>. QED
    BY <1>0, <2>1, <2>3 DEF Contents
<1>2. ASSUME NEW k \in Kinds, Call(k) PROVE Contents'
  <2>1. PICK s \in Strings : writestr' = [writestr EXCEPT ![n'] = s]
    BY <1>2 DEF Call
  <2>2. s \in Seq(Char)
    BY SystemCallsAssumption
  <2>3. before' = disk /\ UNCHANGED disk
    BY <1>2 DEF Call
  <2>. QED
    BY <1>0, <2>1, <2>2, <2>3 DEF Contents
<1>3. CASE AskForShell \/ CallerStep \/ WaitpidFails \/ Flush \/ UNCHANGED vars
  <2>1. UNCHANGED <<disk, before, writestr>>
    BY <1>3 DEF AskForShell, CallerStep, CheckArguments, Fork, ForkFails, Waitpid, WaitpidFails, Flush,
       vars, callervars, writervars
  <2>. QED
    BY <1>0, <2>1 DEF Contents
<1>. QED
  BY <1>1, <1>2, <1>3 DEF Next

(* The writer's file follows its only writer.                              *)
LEMMA DiskPlaceStep ==
  ASSUME Inv, [Next]_vars
  PROVE  DiskPlace'
<1> DEFINE D(w, c, d, s) ==
      /\ w \in {"none", "main"} => d = before
      /\ w = "write" => d = Overlay(before, <<>>)
      /\ w = "close" => d = Overlay(before, s)
      /\ w = "returned" /\ c = 0 => d = Overlay(before, s)
      /\ w \in {"returned", "killed"} =>
           \/ d = before
           \/ d = Overlay(before, s)
           \/ \E k \in 0..Len(s) : d = Overlay(before, SubSeq(s, 1, k))
<1>0. /\ pc \in [Proc -> Live \cup {"none", "zombie", "reaped"}] /\ n \in 0..MaxCalls
      /\ wpc \in [Proc -> {"none", "main", "write", "close", "returned", "killed"}]
      /\ code \in [Proc -> {0, 1}] /\ MaxCalls \in Nat
      /\ disk \in Content /\ before \in Content /\ writestr \in [Proc -> Seq(Char)]
      /\ OwnProcess /\ WriterPlace
  BY SystemCallsAssumption DEF Inv, Types, Contents
<1>1. ASSUME UNCHANGED <<n, before, writestr, kind, lingering>>
      PROVE  DiskPlace' = (~lingering /\ n > 0 /\ kind # "do_system_null" =>
                             D(wpc'[n], code'[n], disk', writestr[n]))
  BY <1>1 DEF DiskPlace, Part
<1>2. ~lingering /\ n > 0 /\ kind # "do_system_null" => D(wpc[n], code[n], disk, writestr[n])
  BY DEF Inv, DiskPlace, Part
<1>3. ASSUME NEW p \in Proc, ChildStep(p) \/ Killed(p) PROVE DiskPlace'
  <2>1. UNCHANGED <<n, before, writestr, kind, lingering, cpc>>
    BY <1>3, ChildFrame
  <2>2. pc[p] \in Live
    BY <1>3, ChildMoves
  <2> SUFFICES ASSUME ~lingering, n > 0, kind # "do_system_null"
               PROVE  D(wpc'[n], code'[n], disk', writestr[n])
    BY <1>1, <2>1
  <2>3. p = n
    BY <1>0, <2>2 DEF OwnProcess
  <2>4. D(wpc[n], code[n], disk, writestr[n])
    BY <1>2
  <2> DEFINE s == writestr[n]
  <2>5. s \in Seq(Char) /\ n \in Proc
    BY <1>0, <2>3
  <2> HIDE DEF s
  <2>6. Overlay(before, SubSeq(s, 1, 0)) = Overlay(before, <<>>) /\ 0 \in 0..Len(s)
    <3>1. SubSeq(s, 1, 0) = <<>>
      BY <2>5, SubSeqEmpty
    <3>2. 0 \in 0..Len(s)
      <4>1. Len(s) \in Nat
        BY <2>5
      <4>. QED
        BY <4>1
    <3>. QED
      BY <3>1, <3>2
  <2> USE DEF writervars, childvars
  <2>7. CASE OpenOutput(p) \/ Dup2(p) \/ CloseOutput(p) \/ ExecvFails(p) \/ CommandExits(p)
    <3>1. UNCHANGED <<wpc, code, disk>>
      BY <2>7 DEF OpenOutput, Dup2, CloseOutput, ExecvFails, CommandExits
    <3>. QED
      BY <2>4, <3>1
  <2>8. CASE Execv(p)
    <3>1. wpc[n] = "none" /\ wpc'[n] = "main" /\ UNCHANGED <<code, disk>>
      BY <1>0, <2>3, <2>8 DEF Execv, WriterPlace
    <3>. QED
      BY <2>4, <3>1
  <2>9. CASE Killed(p)
    <3>1. wpc'[n] = "killed" /\ UNCHANGED <<code, disk>>
      BY <1>0, <2>3, <2>9 DEF Killed
    <3>2. wpc[n] \in {"none", "main", "write", "close", "returned"}
      BY <1>0, <2>2, <2>3 DEF WriterPlace, Live
    <3>3. \/ disk = before \/ disk = Overlay(before, s)
          \/ \E k \in 0..Len(s) : disk = Overlay(before, SubSeq(s, 1, k))
      BY <2>4, <2>6, <3>2 DEF s
    <3>. QED
      BY <3>1, <3>3 DEF s
  <2>10. CASE Command(p)
    <3>1. CASE Open(p)
      <4>1. wpc[n] = "main" /\ wpc'[n] = "write" /\ disk' = Overlay(disk, <<>>)
        BY <1>0, <2>3, <3>1 DEF Open
      <4>. QED
        BY <2>4, <4>1
    <3>2. CASE OpenFails(p)
      <4>1. wpc[n] = "main" /\ wpc'[n] = "returned" /\ code'[n] = 1 /\ UNCHANGED disk
        BY <1>0, <2>3, <3>2 DEF OpenFails, Returns
      <4>. QED
        BY <2>4, <4>1
    <3>3. CASE Write(p)
      <4>1. PICK k \in 0..Len(s) :
              /\ disk' = Overlay(disk, SubSeq(s, 1, k))
              /\ IF k = Len(s) THEN wpc' = [wpc EXCEPT ![p] = "close"] /\ UNCHANGED code
                 ELSE wpc' = [wpc EXCEPT ![p] = "returned"] /\ code' = [code EXCEPT ![p] = 1]
        BY <2>3, <3>3 DEF Write, AfterShortWrite, Returns, s
      <4>2. disk = Overlay(before, <<>>)
        BY <2>3, <2>4, <3>3 DEF Write
      <4>3. SubSeq(s, 1, k) \in Seq(Char)
        BY <2>5, Start
      <4>4. disk' = Overlay(before, SubSeq(s, 1, k))
        BY <1>0, <4>1, <4>2, <4>3, OverlayOpened
      <4>5. CASE k = Len(s)
        <5>1. SubSeq(s, 1, Len(s)) = s
          BY <2>5, SubSeqFull
        <5>2. wpc'[n] = "close"
          BY <1>0, <2>3, <4>1, <4>5
        <5>. QED
          BY <4>4, <4>5, <5>1, <5>2 DEF s
      <4>6. CASE k # Len(s)
        <5>1. wpc'[n] = "returned" /\ code'[n] = 1
          BY <1>0, <2>3, <4>1, <4>6
        <5>. QED
          BY <4>4, <5>1 DEF s
      <4>. QED
        BY <4>5, <4>6
    <3>4. CASE WriteFails(p)
      <4>1. wpc[n] = "write" /\ wpc'[n] = "returned" /\ code'[n] = 1 /\ UNCHANGED disk
        BY <1>0, <2>3, <3>4 DEF WriteFails, Returns
      <4>. QED
        BY <2>4, <2>6, <4>1 DEF s
    <3>5. CASE Close(p)
      <4>1. wpc[n] = "close" /\ wpc'[n] = "returned" /\ UNCHANGED disk
        BY <1>0, <2>3, <3>5 DEF Close, Returns
      <4>. QED
        BY <2>4, <4>1
    <3>. QED
      BY <2>10, <3>1, <3>2, <3>3, <3>4, <3>5 DEF Command, WriterStep
  <2>. QED
    BY <1>3, <2>7, <2>8, <2>9, <2>10 DEF ChildStep
<1>4. ASSUME NEW k \in Kinds, Call(k) PROVE DiskPlace'
  <2>1. n' = n + 1 /\ n' \in Proc /\ before' = disk /\ UNCHANGED <<disk, wpc>>
    BY <1>0, <1>4 DEF Call, Proc
  <2>2. wpc'[n'] = "none"
    BY <1>0, <2>1 DEF OwnProcess, WriterPlace
  <2>. QED
    BY <2>1, <2>2 DEF DiskPlace
<1>5. CASE AskForShell
  BY <1>5 DEF AskForShell, DiskPlace
<1>6. CASE WaitpidFails
  <2>1. (~lingering' => ~lingering) /\ UNCHANGED <<n, before, writestr, kind, wpc, code, disk>>
    BY <1>6 DEF WaitpidFails, writervars
  <2>. QED
    BY <2>1 DEF Inv, DiskPlace, Part
<1>7. CASE CheckArguments \/ Fork \/ ForkFails \/ Waitpid \/ Flush \/ UNCHANGED vars
  <2>1. UNCHANGED <<n, before, writestr, kind, lingering, wpc, code, disk>>
    BY <1>7 DEF CheckArguments, Fork, ForkFails, Waitpid, Flush, vars, callervars, writervars
  <2>. QED
    BY <1>1, <1>2, <2>1
<1>. QED
  BY <1>3, <1>4, <1>5, <1>6, <1>7 DEF Next, CallerStep

(* Concatenation of lines is associative.                                  *)
LEMMA LinesAssociate == \A x, y, z \in Seq(Nat) : (x \o y) \o z = x \o (y \o z)
<1>1. ASSUME NEW S PROVE \A x, y, z \in Seq(S) : (x \o y) \o z = x \o (y \o z)
  BY ConcatAssociative
<1> DEFINE L == Nat
<1> HIDE DEF L
<1>2. \A x, y, z \in Seq(L) : (x \o y) \o z = x \o (y \o z)
  BY <1>1
<1>. QED
  BY <1>2, Zenon DEF L

-----------------------------------------------------------------------------
(* A new line behind lines that differ from it and from each other.        *)
LEMMA AnotherLine ==
  ASSUME NEW s \in Seq(Nat), NEW m \in Nat,
         \A i, j \in 1..Len(s) : s[i] = s[j] => i = j,
         \A i \in 1..Len(s) : s[i] <= m /\ s[i] # m
  PROVE  LET t == Append(s, m) IN
         /\ \A i, j \in 1..Len(t) : t[i] = t[j] => i = j
         /\ \A i \in 1..Len(t) : t[i] <= m
<1> DEFINE t == Append(s, m)
<1>1. /\ Len(t) = Len(s) + 1 /\ Len(s) \in Nat
      /\ \A i \in 1..Len(s) : t[i] = s[i]
      /\ t[Len(s) + 1] = m
  BY AppendProperties
<1> HIDE DEF t
<1>2. \A i \in 1..Len(t) : i \in 1..Len(s) \/ i = Len(s) + 1
  BY <1>1
<1>3. \A i, j \in 1..Len(t) : t[i] = t[j] => i = j
  BY <1>1, <1>2
<1>4. \A i \in 1..Len(t) : t[i] <= m
  BY <1>1, <1>2
<1>. QED
  BY <1>3, <1>4 DEF t

(* The lines are printed one by one.                                       *)
LEMMA LinesStep ==
  ASSUME Inv, [Next]_vars
  PROVE  Lines'
<1>0. buf \in Seq(Nat) /\ output \in Seq(Nat) /\ n \in Nat
  BY SystemCallsAssumption DEF Inv, Lines, Types
<1>1. \/ UNCHANGED <<buf, output>>
      \/ buf' = Append(buf, n) /\ UNCHANGED output
      \/ output' = output \o buf /\ buf' = <<>>
  <2>1. ASSUME NEW p \in Proc, ChildStep(p) \/ Killed(p) PROVE UNCHANGED <<buf, output>>
    BY <2>1, ChildFrame
  <2>2. CASE (\E k \in Kinds : Call(k)) \/ AskForShell \/ Fork \/ UNCHANGED vars
    BY <2>2 DEF Call, AskForShell, Fork, vars, callervars
  <2>3. CASE CheckArguments \/ ForkFails \/ Waitpid \/ WaitpidFails \/ Flush
    BY <2>3 DEF CheckArguments, ForkFails, Waitpid, WaitpidFails, ReturnFalse, Printed, Flush
  <2>. QED
    BY <2>1, <2>2, <2>3 DEF Next, CallerStep
<1>2. Append(buf, n) \in Seq(Nat) /\ output \o buf \in Seq(Nat) /\ <<>> \in Seq(Nat)
  BY <1>0, AppendProperties, ConcatProperties
<1>. QED
  BY <1>0, <1>1, <1>2 DEF Lines

(* A call prints when it returns, once.                                    *)
LEMMA OnceStep ==
  ASSUME Inv, [Next]_vars
  PROVE  Once'
<1> DEFINE lines == output \o buf
           Different(s) == \A i, j \in 1..Len(s) : s[i] = s[j] => i = j
           UpTo(s, m) == \A i \in 1..Len(s) : s[i] <= m
           Without(s, m) == \A i \in 1..Len(s) : s[i] # m
<1>0. buf \in Seq(Nat) /\ output \in Seq(Nat) /\ n \in Nat
  BY SystemCallsAssumption DEF Inv, Lines, Types
<1>1. lines \in Seq(Nat)
  BY <1>0, ConcatProperties
<1>2. Different(lines) /\ UpTo(lines, n) /\ (cpc # "idle" => Without(lines, n))
  BY DEF Inv, Once
<1> SUFFICES Different(lines') /\ UpTo(lines', n') /\ (cpc' # "idle" => Without(lines', n'))
  BY DEF Once
<1>3. ASSUME UNCHANGED <<buf, output, n>>, cpc' # "idle" => cpc # "idle"
      PROVE  Different(lines') /\ UpTo(lines', n') /\ (cpc' # "idle" => Without(lines', n'))
  BY <1>2, <1>3
<1>4. ASSUME NEW p \in Proc, ChildStep(p) \/ Killed(p) PROVE UNCHANGED <<buf, output, n, cpc>>
  BY <1>4, ChildFrame
<1>5. CASE (\E k \in Kinds : Call(k)) \/ AskForShell
  <2>1. n' = n + 1 /\ UNCHANGED <<buf, output>>
    BY <1>5 DEF Call, AskForShell
  <2>2. lines' = lines
    BY <2>1
  <2>3. ASSUME NEW i \in 1..Len(lines) PROVE lines[i] <= n + 1 /\ lines[i] # n + 1
    <3>1. lines[i] \in Nat /\ lines[i] <= n
      BY <1>1, <1>2
    <3> HIDE DEF lines
    <3>. QED
      BY <1>0, <3>1
  <2> HIDE DEF lines
  <2>. QED
    BY <1>2, <2>1, <2>2, <2>3
<1>6. CASE CheckArguments \/ ForkFails \/ Waitpid \/ WaitpidFails
  <2>1. /\ cpc # "idle" /\ UNCHANGED <<output, n>>
        /\ UNCHANGED buf \/ (cpc' = "idle" /\ buf' = Append(buf, n))
    BY <1>6 DEF CheckArguments, ForkFails, Waitpid, WaitpidFails, ReturnFalse, Printed
  <2>2. CASE UNCHANGED buf
    BY <1>3, <2>1, <2>2
  <2>3. CASE cpc' = "idle" /\ buf' = Append(buf, n)
    <3>1. output \o Append(buf, n) = Append(output \o buf, n)
      <4>2. <<n>> \in Seq(Nat)
        BY <1>0
      <4>3. (output \o buf) \o <<n>> = output \o (buf \o <<n>>)
        BY <1>0, <4>2, LinesAssociate, Zenon
      <4>4. Append(buf, n) = buf \o <<n>> /\ Append(output \o buf, n) = (output \o buf) \o <<n>>
        BY <1>0, <1>1, AppendIsConcat
      <4>. QED
        BY <4>3, <4>4
    <3>2. lines' = Append(lines, n)
      BY <2>1, <2>3, <3>1
    <3>3. Without(lines, n)
      BY <1>2, <2>1
    <3> HIDE DEF lines
    <3>4. Different(Append(lines, n)) /\ UpTo(Append(lines, n), n)
      BY <1>0, <1>1, <1>2, <3>3, AnotherLine
    <3>. QED
      BY <2>1, <2>3, <3>2, <3>4
  <2>. QED
    BY <2>1, <2>2, <2>3
<1>7. CASE Flush
  <2>1. output' = lines /\ buf' = <<>> /\ UNCHANGED <<cpc, n>>
    BY <1>7 DEF Flush
  <2>2. lines \o <<>> = lines
    BY <1>1, ConcatEmptySeq
  <2>3. lines' = lines
    BY <2>1, <2>2
  <2> HIDE DEF lines
  <2>. QED
    BY <1>2, <2>1, <2>3
<1>8. CASE Fork \/ UNCHANGED vars
  <2>1. UNCHANGED <<buf, output, n>> /\ (cpc' # "idle" => cpc # "idle")
    BY <1>8 DEF Fork, vars, callervars
  <2>. QED
    BY <1>3, <2>1
<1>. QED
  BY <1>3, <1>4, <1>5, <1>6, <1>7, <1>8 DEF Next, CallerStep

-----------------------------------------------------------------------------
(* In every reachable state the caller, its processes and the files fit    *)
(* together as Inv says.                                                   *)
THEOREM CallsInvariance == Spec => []Inv
<1>1. Init => Inv
  <2> SUFFICES ASSUME Init PROVE Inv
    OBVIOUS
  <2> USE DEF Init, WriterInit
  <2>0. MaxCalls \in Nat /\ MaxCalls > 0 /\ 0 \in 0..MaxCalls
    BY SystemCallsAssumption
  <2>1. Types
    BY <2>0 DEF Types, Kinds
  <2>2. StatusType
    BY DEF StatusType, Exited
  <2>3. Contents
    BY SystemCallsAssumption DEF Contents, Content
  <2>4. Lines
    BY DEF Lines
  <2>5. OwnProcess
    BY DEF OwnProcess, Live
  <2>6. WriterPlace /\ StatusTells
    BY DEF WriterPlace, StatusTells
  <2>7. Answered /\ DiskPlace /\ Redirected
    BY DEF Answered, DiskPlace, Redirected
  <2>8. Once
    <3>1. output \o buf = <<>> /\ Len(<<>>) = 0
      OBVIOUS
    <3>. QED
      BY <3>1 DEF Once
  <2>. QED
    BY <2>1, <2>2, <2>3, <2>4, <2>5, <2>6, <2>7, <2>8 DEF Inv
<1>2. Inv /\ [Next]_vars => Inv'
  <2> SUFFICES ASSUME Inv, [Next]_vars PROVE Inv'
    OBVIOUS
  <2>1. Types' /\ StatusType' /\ Contents' /\ Lines'
    BY TypesStep, StatusTypeStep, ContentsStep, LinesStep
  <2>2. OwnProcess' /\ WriterPlace' /\ StatusTells' /\ Answered'
    BY OwnProcessStep, WriterPlaceStep, StatusTellsStep, AnsweredStep
  <2>3. DiskPlace' /\ Redirected' /\ Once'
    BY DiskPlaceStep, RedirectedStep, OnceStep
  <2>. QED
    BY <2>1, <2>2, <2>3 DEF Inv
<1>. QED
  BY <1>1, <1>2, PTL DEF Spec

(* do_system, do_exec and do_exec_redirect return what their own process   *)
(* did, whichever processes of earlier calls are still about.              *)
THEOREM ResultIsOwn == Spec => []ResultIsChilds
<1>1. Inv => ResultIsChilds
  BY DEF Inv, Answered, ResultIsChilds, Returned
<1>. QED
  BY <1>1, CallsInvariance, PTL

(* After a call the writer's file holds the string over its old content,   *)
(* and after a failed one no more than a beginning of that.                *)
THEOREM FileIsAsReported == Spec => []FileAfterCall
<1>1. Inv => FileAfterCall
  <2> SUFFICES ASSUME Inv, cpc = "idle", n > 0, kind # "do_system_null", ~lingering
               PROVE  \/ disk = Overlay(before, writestr[n])
                      \/ ~result /\ \/ disk = before
                                    \/ \E k \in 0..Len(writestr[n]) :
                                         disk = Overlay(before, SubSeq(writestr[n], 1, k))
    BY DEF FileAfterCall, Returned
  <2>1. n \in Proc
    BY DEF Inv, Types, Proc
  <2>2. pc[n] \notin Live
    BY <2>1 DEF Inv, OwnProcess
  <2>3. result <=> pc[n] = "reaped" /\ wpc[n] = "returned" /\ code[n] = 0
    BY DEF Inv, Answered
  <2>4. /\ wpc[n] \in {"none", "main"} => disk = before
        /\ wpc[n] = "returned" /\ code[n] = 0 => disk = Overlay(before, writestr[n])
        /\ wpc[n] \in {"returned", "killed"} =>
             \/ disk = before
             \/ disk = Overlay(before, writestr[n])
             \/ \E k \in 0..Len(writestr[n]) : disk = Overlay(before, SubSeq(writestr[n], 1, k))
    BY DEF Inv, DiskPlace, Part
  <2>5. wpc[n] \in {"none", "returned", "killed"}
    BY <2>1, <2>2 DEF Inv, Types, WriterPlace, Live
  <2>. QED
    BY <2>3, <2>4, <2>5
<1>. QED
  BY <1>1, CallsInvariance, PTL

(* Nobody has the output file open after a call, and after true it holds   *)
(* the output of the command.                                              *)
THEOREM RedirectIsComplete == Spec => []RedirectComplete
<1>1. Inv => RedirectComplete
  <2> SUFFICES ASSUME Inv, cpc = "idle", n > 0, kind # "do_system_null", ~lingering
               PROVE  /\ \A p \in Proc : ~HasOpen(p)
                      /\ result /\ kind = "do_exec_redirect" => outputfile = <<n>>
    BY DEF RedirectComplete, Returned
  <2>1. \A p \in Proc : pc[p] \in {"none", "zombie", "reaped"}
    BY DEF Inv, OwnProcess, Types
  <2>2. result => pc[n] = "reaped" /\ wpc[n] = "returned"
    BY DEF Inv, Answered
  <2>3. result /\ kind = "do_exec_redirect" => outputfile = <<n>>
    BY <2>2 DEF Inv, Redirected
  <2>. QED
    BY <2>1, <2>3 DEF HasOpen
<1>. QED
  BY <1>1, CallsInvariance, PTL

(* No line of the caller is put out twice, whatever a process inherits.    *)
THEOREM LinesComeOnce == Spec => []OutputOnce
<1>1. Inv => OutputOnce
  BY DEF Inv, Once, OutputOnce
<1>. QED
  BY <1>1, CallsInvariance, PTL

=============================================================================
