---------------------------- MODULE SystemCalls ----------------------------
(***************************************************************************)
(* examples/systemcalls/systemcalls.c: a program that makes one call after *)
(* the other of do_system, do_exec and do_exec_redirect, and the processes *)
(* these fork, which run the writer.  Call p forks process p.              *)
(*                                                                         *)
(* Standard output is buffered: printf collects lines in the caller's      *)
(* memory, which fork copies.                                              *)
(***************************************************************************)
EXTENDS Writer, FiniteSets, SequencesExt

CONSTANTS
  Char,        \* the characters of strings and files
  Strings,     \* the strings given to the writer
  OldContent   \* what its file holds before

ASSUME SystemCallsAssumption ==
  /\ MaxCalls \in Nat \ {0}
  /\ Strings # {} /\ Strings \subseteq Seq(Char)
  /\ OldContent \subseteq Seq(Char) \cup {Absent}
  /\ Absent \notin Seq(Char)

VARIABLES
  cpc,         \* where the caller is
  n,           \* the number of its current or last call
  kind,        \* which function that is
  result,      \* what that returned
  buf,         \* the calls whose message is in the caller's stdout buffer
  output,      \* the calls whose message has been put out, in order
  pc,          \* where each forked process is
  status,      \* its wait status
  cbuf,        \* its copy of the buffer
  stdout,      \* its standard output: "inherited" or "file"
  fd,          \* its descriptor for outputfile is open
  outputfile,  \* the processes whose output is in the file
  before,      \* history: what the writer's file held before the call
  lingering    \* history: a wait has failed while its process went on

callervars == <<cpc, n, kind, result, buf, before, lingering>>
childvars  == <<pc, status, cbuf, stdout, fd>>
vars == <<writervars, callervars, output, childvars, outputfile>>

Exited(c) == [exited |-> TRUE, code |-> c]
Signalled == [exited |-> FALSE, code |-> 0]

Kinds == {"do_system", "do_exec", "do_exec_redirect"}

Init ==
  /\ WriterInit /\ disk \in OldContent
  /\ cpc = "idle" /\ n = 0 /\ kind = "do_system" /\ result = TRUE
  /\ buf = <<>> /\ output = <<>>
  /\ pc = [p \in Proc |-> "none"] /\ status = [p \in Proc |-> Exited(0)]
  /\ cbuf = [p \in Proc |-> <<>>]
  /\ stdout = [p \in Proc |-> "inherited"] /\ fd = [p \in Proc |-> FALSE]
  /\ outputfile = <<>>
  /\ before = disk /\ lingering = FALSE

-----------------------------------------------------------------------------
(* The caller.                                                             *)

(* The functions that fork themselves print a line for every failure.      *)
Printed == IF kind = "do_system" THEN buf ELSE Append(buf, n)

ReturnFalse ==
  /\ cpc' = "idle" /\ result' = FALSE
  /\ buf' = Printed

Call(k) ==
  /\ cpc = "idle" /\ n < MaxCalls
  /\ n' = n + 1 /\ kind' = k
  /\ cpc' = IF k = "do_system" THEN "fork" ELSE "check"
  /\ before' = disk
  /\ argc' \in {[argc EXCEPT ![n'] = a] : a \in {2, 3}}
  /\ writestr' \in {[writestr EXCEPT ![n'] = s] : s \in Strings}
  /\ UNCHANGED <<wpc, disk, code, result, buf, lingering, output, childvars, outputfile>>

(* do_system(NULL) only asks whether there is a shell.                     *)
AskForShell ==
  /\ cpc = "idle" /\ n < MaxCalls
  /\ n' = n + 1 /\ kind' = "do_system_null"
  /\ result' \in BOOLEAN
  /\ UNCHANGED <<writervars, cpc, buf, before, lingering, output, childvars, outputfile>>

(* The arguments: count is at least one and the command an absolute path,  *)
(* or the call ends here; do_exec_redirect also looks for null pointers.   *)
CheckArguments ==
  /\ cpc = "check"
  /\ \/ cpc' = "fork" /\ UNCHANGED <<result, buf>>
     \/ ReturnFalse
  /\ UNCHANGED <<writervars, n, kind, before, lingering, output, childvars, outputfile>>

Fork ==
  /\ cpc = "fork"
  /\ cpc' = "wait"
  /\ pc' = [pc EXCEPT ![n] = IF kind = "do_exec_redirect" THEN "open" ELSE "execv"]
  /\ cbuf' = [cbuf EXCEPT ![n] = buf]
  /\ UNCHANGED <<writervars, n, kind, result, buf, before, lingering, output, status, stdout, fd,
                 outputfile>>

ForkFails ==
  /\ cpc = "fork"
  /\ ReturnFalse
  /\ UNCHANGED <<writervars, n, kind, before, lingering, output, childvars, outputfile>>

(* Faulty variant: waits for any child.                                    *)
AnyChild == Proc

(* The process that waitpid, or the wait inside system, is given.          *)
WaitedFor == {n}

(* WIFEXITED and WEXITSTATUS; do_system's test for 127 gives no other      *)
(* answer than the one for a status that is not 0.                         *)
ExitedWell(s) == s.exited /\ s.code = 0

Waitpid ==
  /\ cpc = "wait"
  /\ \E p \in WaitedFor :
       /\ pc[p] = "zombie"
       /\ pc' = [pc EXCEPT ![p] = "reaped"]
       /\ IF ExitedWell(status[p])
          THEN cpc' = "idle" /\ result' = TRUE /\ UNCHANGED buf
          ELSE ReturnFalse
  /\ UNCHANGED <<writervars, n, kind, before, lingering, output, status, cbuf, stdout, fd, outputfile>>

(* The status cannot be retrieved: a signal of the caller interrupts       *)
(* waitpid, which system would retry, and the call ends before its process *)
(* does; or the process has ended and nobody kept its status (ECHILD).     *)
WaitpidFails ==
  /\ cpc = "wait"
  /\ kind = "do_system" => pc[n] = "zombie"
  /\ ReturnFalse
  /\ lingering' = (lingering \/ pc[n] # "zombie")
  /\ UNCHANGED <<writervars, n, kind, before, output, childvars, outputfile>>

(* The caller's buffer is written out some time.                           *)
Flush ==
  /\ cpc = "idle" /\ buf # <<>>
  /\ output' = output \o buf /\ buf' = <<>>
  /\ UNCHANGED <<writervars, cpc, n, kind, result, before, lingering, childvars, outputfile>>

-----------------------------------------------------------------------------
(* The child.                                                              *)

Goto(p, place) == pc' = [pc EXCEPT ![p] = place]

(* Faulty variants: exit, which flushes; no exit at all.                   *)
ChildExitsFlushing(p) ==
  /\ Goto(p, "zombie")
  /\ status' = [status EXCEPT ![p] = Exited(127)]
  /\ output' = output \o cbuf[p]

ReturnsToCaller(p) == Goto(p, "returned") /\ UNCHANGED <<status, output>>

(* _exit(127): the copied buffer is dropped.                               *)
ChildExits(p) ==
  /\ Goto(p, "zombie")
  /\ status' = [status EXCEPT ![p] = Exited(127)]
  /\ UNCHANGED output

(* open(outputfile, ... O_TRUNC ...).                                      *)
OpenOutput(p) ==
  /\ pc[p] = "open"
  /\ \/ /\ Goto(p, "dup2")
        /\ fd' = [fd EXCEPT ![p] = TRUE]
        /\ outputfile' = <<>>
        /\ UNCHANGED <<status, output>>
     \/ ChildExits(p) /\ UNCHANGED <<fd, outputfile>>
  /\ UNCHANGED <<writervars, callervars, cbuf, stdout>>

(* Faulty variant: the descriptors the wrong way round.                    *)
DupBackwards(p) == stdout

DupToStdout(p) == [stdout EXCEPT ![p] = "file"]

Dup2(p) ==
  /\ pc[p] = "dup2"
  /\ \/ Goto(p, "close") /\ stdout' = DupToStdout(p) /\ UNCHANGED <<fd, status, output>>
     \/ ChildExits(p) /\ fd' = [fd EXCEPT ![p] = FALSE] /\ UNCHANGED stdout
  /\ UNCHANGED <<writervars, callervars, cbuf, outputfile>>

CloseOutput(p) ==
  /\ pc[p] = "close"
  /\ \/ Goto(p, "execv") /\ fd' = [fd EXCEPT ![p] = FALSE] /\ UNCHANGED <<status, output>>
     \/ ChildExits(p) /\ fd' = [fd EXCEPT ![p] = FALSE]
  /\ UNCHANGED <<writervars, callervars, cbuf, stdout, outputfile>>

(* execv does not return, and the new program has buffers of its own.      *)
Execv(p) ==
  /\ pc[p] = "execv"
  /\ Goto(p, "run")
  /\ wpc' = [wpc EXCEPT ![p] = "main"]
  /\ cbuf' = [cbuf EXCEPT ![p] = <<>>]
  /\ UNCHANGED <<argc, writestr, disk, code, callervars, output, status, stdout, fd, outputfile>>

(* perror writes to stderr, which is not buffered.                         *)
ExecvFails(p) ==
  /\ pc[p] = "execv"
  /\ ChildExits(p)
  /\ UNCHANGED <<writervars, callervars, cbuf, stdout, fd, outputfile>>

Command(p) ==
  /\ pc[p] = "run"
  /\ WriterStep(p)
  /\ UNCHANGED <<callervars, output, childvars, outputfile>>

(* The writer has returned from main: what it printed goes out, to the     *)
(* start of a file that it alone has open.                                 *)
CommandExits(p) ==
  /\ pc[p] = "run" /\ wpc[p] = "returned"
  /\ Goto(p, "zombie")
  /\ status' = [status EXCEPT ![p] = Exited(code[p])]
  /\ outputfile' = IF stdout[p] = "file" THEN <<p>> ELSE outputfile
  /\ UNCHANGED <<writervars, callervars, output, cbuf, stdout, fd>>

Killed(p) ==
  /\ pc[p] \in {"open", "dup2", "close", "execv", "run"}
  /\ Goto(p, "zombie")
  /\ status' = [status EXCEPT ![p] = Signalled]
  /\ wpc' = [wpc EXCEPT ![p] = "killed"]
  /\ UNCHANGED <<argc, writestr, disk, code, callervars, output, cbuf, stdout, fd, outputfile>>

-----------------------------------------------------------------------------
CallerStep == CheckArguments \/ Fork \/ ForkFails \/ Waitpid

ChildStep(p) ==
  \/ OpenOutput(p) \/ Dup2(p) \/ CloseOutput(p) \/ Execv(p) \/ ExecvFails(p)
  \/ Command(p) \/ CommandExits(p)

Next ==
  \/ \E k \in Kinds : Call(k)
  \/ AskForShell \/ CallerStep \/ WaitpidFails \/ Flush
  \/ \E p \in Proc : ChildStep(p) \/ Killed(p)

Spec == Init /\ [][Next]_vars

(* Processes are scheduled; the writer never waits for anybody.  No wait   *)
(* has to fail: a caller that waits goes on when its process has ended.    *)
FairSpec == Spec /\ WF_vars(CallerStep) /\ \A p \in Proc : WF_vars(ChildStep(p))

-----------------------------------------------------------------------------
(* What the callers of these functions rely on.                            *)

Returned == cpc = "idle" /\ n > 0 /\ kind # "do_system_null"

(* A call returns true exactly if its own process ran the command to an    *)
(* exit with 0, also while processes of earlier calls, whose wait failed,  *)
(* end in between.                                                         *)
ResultIsChilds ==
  Returned => (result <=> pc[n] = "reaped" /\ wpc[n] = "returned" /\ code[n] = 0)

(* What a call of the writer leaves in its file, if no earlier process is  *)
(* still about: after true, the string over the old content; after false   *)
(* no more than a beginning of it.  This is what the code does; what       *)
(* writer.c says of itself is WriterOverwrites, which fails.               *)
FileAfterCall ==
  Returned /\ ~lingering =>
    \/ disk = Overlay(before, writestr[n])
    \/ ~result /\ \/ disk = before
                  \/ \E k \in 0..Len(writestr[n]) :
                       disk = Overlay(before, SubSeq(writestr[n], 1, k))

(* "Creates a new file with name and path writefile with content writestr, *)
(* overwriting any existing file": after a call of the writer that went    *)
(* well, the file holds the string and nothing else.                       *)
WriterOverwrites == Returned /\ ~lingering /\ result => disk = writestr[n]

HasOpen(p) ==
  pc[p] \notin {"none", "zombie", "reaped"} /\ (fd[p] \/ stdout[p] = "file")

(* "This file will be closed at completion of the function call": if no    *)
(* wait was cut short, nobody has the output file open after a call, and   *)
(* after true from do_exec_redirect it holds the output of this command    *)
(* and no other.                                                           *)
RedirectComplete ==
  Returned /\ ~lingering =>
    /\ \A p \in Proc : ~HasOpen(p)
    /\ result /\ kind = "do_exec_redirect" => outputfile = <<n>>

(* A line the caller has printed comes out once, although every fork       *)
(* copies the lines that wait in its buffer.                               *)
OutputOnce ==
  LET lines == output \o buf IN
  \A i, j \in 1..Len(lines) : lines[i] = lines[j] => i = j

(* Every call returns, whatever fails, and without an interrupted wait:    *)
(* every process that is waited for comes to an end of its own, also if    *)
(* its redirection or its execv fails.                                     *)
CallsReturn == cpc # "idle" ~> cpc = "idle"

=============================================================================
