----------------------------- MODULE Threading -----------------------------
(***************************************************************************)
(* examples/threading/threading.c: start_thread_obtaining_mutex, called by *)
(* one caller for one thread after the other, and threadfunc, which sleeps,*)
(* takes the mutex, sleeps and gives it back.  The caller may hold the     *)
(* mutex itself meanwhile, and joins the threads as threading.h says.      *)
(***************************************************************************)
EXTENDS Integers, FiniteSets

CONSTANTS
  Thread,            \* the threads, each with its own thread_data
  Caller, NoThread,  \* the caller; nobody
  Millis,            \* the waits the caller asks for
  PerMilli,          \* microseconds in a millisecond
  UInt,              \* 2^32: usleep takes an unsigned int
  MaxLocks           \* how often the caller takes the mutex

ASSUME ThreadingAssumption ==
  /\ {Caller, NoThread} \cap Thread = {} /\ Caller # NoThread
  /\ IsFiniteSet(Thread)
  /\ Millis \subseteq Nat
  /\ PerMilli \in Nat \ {0} /\ UInt \in Nat \ {0} /\ MaxLocks \in Nat

VARIABLES
  starting,    \* the thread start_thread_obtaining_mutex is at work on
  started,     \* what it returned: "not called", "true" or "false"
  wait_to_obtain_ms, wait_to_release_ms,
  data,        \* the memory of thread_data: "none", "live" or "freed"
  success,     \* its thread_complete_success
  pc,          \* where each thread is
  mutex,       \* its holder, or NoThread
  left,        \* microseconds a sleep has still to go
  slept,       \* history: microseconds slept, before the lock and under it
  failed,      \* history: the calls of the thread that have failed
  locks        \* how often the caller has taken the mutex

vars == <<starting, started, wait_to_obtain_ms, wait_to_release_ms, data, success, pc,
          mutex, left, slept, failed, locks>>
args == <<wait_to_obtain_ms, wait_to_release_ms>>

Init ==
  /\ starting = NoThread
  /\ started = [t \in Thread |-> "not called"]
  /\ wait_to_obtain_ms = [t \in Thread |-> 0] /\ wait_to_release_ms = [t \in Thread |-> 0]
  /\ data = [t \in Thread |-> "none"]
  /\ success = [t \in Thread |-> FALSE]
  /\ pc = [t \in Thread |-> "none"]
  /\ mutex = NoThread
  /\ left = [t \in Thread |-> 0]
  /\ slept = [t \in Thread |-> [obtain |-> 0, release |-> 0]]
  /\ failed = [t \in Thread |-> {}]
  /\ locks = 0

-----------------------------------------------------------------------------
(* start_thread_obtaining_mutex.                                           *)

Goto(t, place) == pc' = [pc EXCEPT ![t] = place]

Return(t, r) == starting' = NoThread /\ started' = [started EXCEPT ![t] = r]

Malloc(t) ==
  /\ starting = NoThread /\ started[t] = "not called"
  /\ \/ /\ starting' = t
        /\ data' = [data EXCEPT ![t] = "live"]
        /\ \E m \in Millis : wait_to_obtain_ms' = [wait_to_obtain_ms EXCEPT ![t] = m]
        /\ \E m \in Millis : wait_to_release_ms' = [wait_to_release_ms EXCEPT ![t] = m]
        /\ success' = [success EXCEPT ![t] = FALSE]
        /\ UNCHANGED started
     \/ Return(t, "false") /\ UNCHANGED <<args, data, success>>
  /\ UNCHANGED <<pc, mutex, left, slept, failed, locks>>

(* Faulty variant: the multiplication is forgotten.                        *)
MicrosOfMillis(ms) == ms

(* The argument of usleep: an int multiplication, which wraps around where *)
(* it overflows, converted to unsigned int.                                *)
Micros(ms) == (ms * PerMilli) % UInt

Sleep(t, ms) == left' = [left EXCEPT ![t] = Micros(ms)]

(* Faulty variant: waits for the thread to end.                            *)
StartJoins(t) == starting' = t /\ UNCHANGED started

StartReturns(t) == Return(t, "true")

pthread_create(t) ==
  /\ starting = t /\ pc[t] = "none"
  /\ Goto(t, "obtain")
  /\ Sleep(t, wait_to_obtain_ms[t])
  /\ StartReturns(t)
  /\ UNCHANGED <<args, data, success, mutex, slept, failed, locks>>

(* Faulty variant: the thread data is not freed.                           *)
KeepData(t) == data

FreeData(t) == [data EXCEPT ![t] = "freed"]

CreateFails(t) ==
  /\ starting = t /\ pc[t] = "none"
  /\ data' = FreeData(t)
  /\ Return(t, "false")
  /\ UNCHANGED <<args, success, pc, mutex, left, slept, failed, locks>>

-----------------------------------------------------------------------------
(* threadfunc.                                                             *)

Finish(t, s) ==
  /\ Goto(t, "returned")
  /\ success' = [success EXCEPT ![t] = s]

Fail(t, call) ==
  /\ failed' = [failed EXCEPT ![t] = @ \cup {call}]
  /\ Finish(t, FALSE)

(* The first sleep ends, at its time or, interrupted by a signal, with -1. *)
Obtain(t) ==
  /\ pc[t] = "obtain" /\ left[t] = 0
  /\ Goto(t, "lock")
  /\ UNCHANGED <<starting, started, args, data, success, mutex, left, slept, failed, locks>>

ObtainInterrupted(t) ==
  /\ pc[t] = "obtain"
  /\ Fail(t, "usleep")
  /\ left' = [left EXCEPT ![t] = 0]
  /\ UNCHANGED <<starting, started, args, data, mutex, slept, locks>>

Lock(t) ==
  /\ pc[t] = "lock"
  /\ mutex = NoThread /\ mutex' = t
  /\ Goto(t, "release")
  /\ Sleep(t, wait_to_release_ms[t])
  /\ UNCHANGED <<starting, started, args, data, success, slept, failed, locks>>

LockFails(t) ==
  /\ pc[t] = "lock"
  /\ Fail(t, "lock")
  /\ UNCHANGED <<starting, started, args, data, mutex, left, slept, locks>>

Release(t) ==
  /\ pc[t] = "release" /\ left[t] = 0
  /\ Goto(t, "unlock")
  /\ UNCHANGED <<starting, started, args, data, success, mutex, left, slept, failed, locks>>

(* Faulty variant: the failed sleep is handled before the unlock.          *)
ReturnAtOnce(t) == Finish(t, FALSE)

SleepFailed(t) == Goto(t, "unlock") /\ UNCHANGED success

(* The second sleep fails, which is looked at after the unlock only.       *)
ReleaseInterrupted(t) ==
  /\ pc[t] = "release"
  /\ SleepFailed(t)
  /\ failed' = [failed EXCEPT ![t] = @ \cup {"usleep"}]
  /\ left' = [left EXCEPT ![t] = 0]
  /\ UNCHANGED <<starting, started, args, data, mutex, slept, locks>>

Unlock(t) ==
  /\ pc[t] = "unlock"
  /\ mutex' = NoThread
  /\ Finish(t, failed[t] = {})
  /\ UNCHANGED <<starting, started, args, data, left, slept, failed, locks>>

UnlockFails(t) ==
  /\ pc[t] = "unlock"
  /\ Fail(t, "unlock")
  /\ UNCHANGED <<starting, started, args, data, mutex, left, slept, locks>>

-----------------------------------------------------------------------------
(* The caller and the clock.                                               *)

CallerLock ==
  /\ starting = NoThread /\ locks < MaxLocks
  /\ mutex = NoThread /\ mutex' = Caller
  /\ locks' = locks + 1
  /\ UNCHANGED <<starting, started, args, data, success, pc, left, slept, failed>>

CallerUnlock ==
  /\ starting = NoThread
  /\ mutex = Caller /\ mutex' = NoThread
  /\ UNCHANGED <<starting, started, args, data, success, pc, left, slept, failed, locks>>

(* pthread_join gives the thread data, which the caller frees.             *)
Join(t) ==
  /\ starting = NoThread
  /\ pc[t] = "returned"
  /\ Goto(t, "joined")
  /\ data' = [data EXCEPT ![t] = "freed"]
  /\ UNCHANGED <<starting, started, args, success, mutex, left, slept, failed, locks>>

Sleeping(t) == pc[t] \in {"obtain", "release"} /\ left[t] > 0

(* A microsecond goes by, for all who sleep.                               *)
Tick ==
  /\ \E t \in Thread : Sleeping(t)
  /\ left' = [t \in Thread |-> IF Sleeping(t) THEN left[t] - 1 ELSE left[t]]
  /\ slept' = [t \in Thread |->
                 IF ~Sleeping(t) THEN slept[t]
                 ELSE IF pc[t] = "obtain" THEN [slept[t] EXCEPT !.obtain = @ + 1]
                 ELSE [slept[t] EXCEPT !.release = @ + 1]]
  /\ UNCHANGED <<starting, started, args, data, success, pc, mutex, failed, locks>>

-----------------------------------------------------------------------------
StartStep == \E t \in Thread : pthread_create(t) \/ CreateFails(t)

ThreadStep(t) ==
  \/ Obtain(t) \/ ObtainInterrupted(t) \/ Lock(t) \/ LockFails(t)
  \/ Release(t) \/ ReleaseInterrupted(t) \/ Unlock(t) \/ UnlockFails(t)

Next ==
  \/ \E t \in Thread : Malloc(t) \/ ThreadStep(t) \/ Join(t)
  \/ StartStep \/ CallerLock \/ CallerUnlock \/ Tick

Spec == Init /\ [][Next]_vars

(* Threads are scheduled, time goes by, and the caller gives the mutex     *)
(* back.  Only what a call does when it succeeds is fair: none has to fail.*)
FairSpec ==
  /\ Spec
  /\ WF_vars(StartStep) /\ WF_vars(Tick) /\ WF_vars(CallerUnlock)
  /\ \A t \in Thread : WF_vars(Obtain(t) \/ Lock(t) \/ Release(t) \/ Unlock(t))

-----------------------------------------------------------------------------
(* What the example has to keep.                                           *)

Returned(t) == pc[t] \in {"returned", "joined"}

(* A thread that has returned does not hold the mutex, also when its sleep *)
(* under the mutex failed; only a failed unlock leaves it locked, and that *)
(* is reported.                                                            *)
ReturnsUnlocked ==
  \A t \in Thread : Returned(t) /\ mutex = t => "unlock" \in failed[t] /\ ~success[t]

(* Success means that the thread slept as long as it was asked to, took    *)
(* the mutex, held it as long as it was asked to, and gave it back; what   *)
(* stands for 2^32 microseconds is the limit of what usleep can be asked,  *)
(* and what threading.h says of longer waits is not claimed.               *)
SuccessMeansHeld ==
  \A t \in Thread :
    Returned(t) /\ success[t] =>
      /\ wait_to_obtain_ms[t] * PerMilli < UInt =>
           slept[t].obtain = wait_to_obtain_ms[t] * PerMilli
      /\ wait_to_release_ms[t] * PerMilli < UInt =>
           slept[t].release = wait_to_release_ms[t] * PerMilli
      /\ failed[t] = {} /\ mutex # t

(* The thread data is alive while start or the thread uses it, is the      *)
(* caller's to free once after a start that returned true, and is gone     *)
(* after one that returned false.                                          *)
DataOwned ==
  \A t \in Thread :
    /\ starting = t \/ pc[t] \notin {"none", "joined"} => data[t] = "live"
    /\ started[t] = "false" \/ pc[t] = "joined" => data[t] # "live"

(* start_thread_obtaining_mutex returns although the caller holds the      *)
(* mutex the thread waits for, and every thread returns unless an unlock   *)
(* has failed.                                                             *)
ThreadsReturn ==
  \A t \in Thread :
    data[t] = "live" ~>
      Returned(t) \/ started[t] = "false" \/ \E u \in Thread : Returned(u) /\ mutex = u

=============================================================================
