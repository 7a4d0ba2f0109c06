------------------------------- MODULE Writer -------------------------------
(***************************************************************************)
(* finder-app/writer.c: the program that writes a string to a file, as run *)
(* by the processes of SystemCalls.  The processes write the same file.    *)
(***************************************************************************)
EXTENDS Integers, Sequences

CONSTANTS
  MaxCalls,   \* bound on the processes that run the program
  Absent      \* the content of a file that does not exist

Proc == 1..MaxCalls

VARIABLES
  wpc,        \* where each process is in main
  argc, writestr,
  disk,       \* the content of writefile
  code        \* what main returned

writervars == <<wpc, argc, writestr, disk, code>>

WriterInit ==
  /\ wpc = [p \in Proc |-> "none"]
  /\ argc = [p \in Proc |-> 0]
  /\ writestr = [p \in Proc |-> <<>>]
  /\ code = [p \in Proc |-> 0]

Returns(p, c) ==
  /\ wpc' = [wpc EXCEPT ![p] = "returned"]
  /\ code' = [code EXCEPT ![p] = c]

(* A write of new at the start of a file that held old: FILE_FLAGS has no  *)
(* O_TRUNC, so the end of a longer old content stays.                      *)
Overlay(old, new) ==
  IF old = Absent THEN new ELSE new \o SubSeq(old, Len(new) + 1, Len(old))

(* The arguments are there and the file is opened, created if need be.     *)
Open(p) ==
  /\ wpc[p] = "main"
  /\ argc[p] >= 3
  /\ disk' = Overlay(disk, <<>>)
  /\ wpc' = [wpc EXCEPT ![p] = "write"]
  /\ UNCHANGED <<argc, writestr, code>>

(* An argument is missing, or open fails.                                  *)
OpenFails(p) ==
  /\ wpc[p] = "main"
  /\ Returns(p, 1)
  /\ UNCHANGED <<argc, writestr, disk>>

(* Faulty variant: only -1 is an error.                                    *)
AfterShortWriteCloses(p) == wpc' = [wpc EXCEPT ![p] = "close"] /\ UNCHANGED code

AfterShortWrite(p) == Returns(p, 1)

Write(p) ==
  /\ wpc[p] = "write"
  /\ \E n \in 0..Len(writestr[p]) :
       /\ disk' = Overlay(disk, SubSeq(writestr[p], 1, n))
       /\ IF n = Len(writestr[p])
          THEN wpc' = [wpc EXCEPT ![p] = "close"] /\ UNCHANGED code
          ELSE AfterShortWrite(p)
  /\ UNCHANGED <<argc, writestr>>

WriteFails(p) ==
  /\ wpc[p] = "write"
  /\ Returns(p, 1)
  /\ UNCHANGED <<argc, writestr, disk>>

Close(p) ==
  /\ wpc[p] = "close"
  /\ \E c \in {0, 1} : Returns(p, c)
  /\ UNCHANGED <<argc, writestr, disk>>

WriterStep(p) == Open(p) \/ OpenFails(p) \/ Write(p) \/ WriteFails(p) \/ Close(p)

=============================================================================
