-------------------------- MODULE ThreadingProofs --------------------------
(***************************************************************************)
(* Proofs about Threading, for any number of threads, any waits and any    *)
(* limit of usleep: the mutex is given back, success means what it says,   *)
(* and the thread data is never used after it is freed nor left behind.    *)
(***************************************************************************)
EXTENDS Threading, TLAPS

(* Where a thread can be, and the calls that can fail in it.               *)
Places == {"none", "obtain", "lock", "release", "unlock", "returned", "joined"}

Calls == {"usleep", "lock", "unlock"}

(* The types of the variables that decide what a thread does.              *)
Types ==
  /\ starting \in Thread \cup {NoThread}
  /\ started \in [Thread -> {"not called", "true", "false"}]
  /\ data \in [Thread -> {"none", "live", "freed"}]
  /\ pc \in [Thread -> Places]
  /\ mutex \in Thread \cup {Caller, NoThread}
  /\ failed \in [Thread -> SUBSET Calls]

(* The thread's answer.                                                    *)
Flags == success \in [Thread -> BOOLEAN]

(* Times are natural numbers.                                              *)
Times ==
  /\ wait_to_obtain_ms \in [Thread -> Nat] /\ wait_to_release_ms \in [Thread -> Nat]
  /\ left \in [Thread -> Nat]
  /\ slept \in [Thread -> [obtain : Nat, release : Nat]]

(* Who owns the thread data: start until it returns, then the thread until *)
(* it is joined.                                                           *)
Ownership ==
  \A t \in Thread :
    /\ starting = t => started[t] = "not called" /\ data[t] = "live" /\ pc[t] = "none"
    /\ started[t] = "not called" /\ starting # t => data[t] = "none"
    /\ pc[t] # "none" => started[t] = "true"
    /\ pc[t] \notin {"none", "joined"} => data[t] = "live"
    /\ pc[t] = "joined" \/ started[t] = "false" => data[t] # "live"

(* A thread holds the mutex from its lock to its unlock, and for good when *)
(* the unlock fails; no call has failed before a failure ends the thread,  *)
(* but for the sleep under the mutex.                                      *)
Holding ==
  \A t \in Thread :
    /\ pc[t] \in {"release", "unlock"} => mutex = t
    /\ mutex = t => \/ pc[t] \in {"release", "unlock"}
                    \/ pc[t] \in {"returned", "joined"} /\ "unlock" \in failed[t]
    /\ pc[t] \in {"none", "obtain", "lock", "release"} => failed[t] = {}

(* A thread says that it has succeeded only if nothing has failed.         *)
Honest == \A t \in Thread : success[t] => pc[t] \in {"returned", "joined"} /\ failed[t] = {}

(* What has been slept and what is left make up the wait, until a sleep is *)
(* interrupted.                                                            *)
Clock ==
  \A t \in Thread :
    LET o == Micros(wait_to_obtain_ms[t])
        r == Micros(wait_to_release_ms[t]) IN
    /\ pc[t] = "none" => slept[t].obtain = 0
    /\ pc[t] \in {"none", "obtain", "lock"} => slept[t].release = 0
    /\ pc[t] = "obtain" => slept[t].obtain + left[t] = o
    /\ pc[t] \in {"lock", "release", "unlock"} => slept[t].obtain = o
    /\ pc[t] = "release" => slept[t].release + left[t] = r
    /\ pc[t] = "unlock" /\ failed[t] = {} => slept[t].release = r
    /\ pc[t] \in {"returned", "joined"} /\ failed[t] = {} =>
         slept[t].obtain = o /\ slept[t].release = r

(* The inductive invariant.                                                *)
Inv == Types /\ Flags /\ Times /\ Ownership /\ Holding /\ Honest /\ Clock

-----------------------------------------------------------------------------
(* The argument of usleep is a number of microseconds, and the wait itself *)
(* if that is below the limit.                                             *)
LEMMA MicrosOf ==
  ASSUME NEW ms \in Nat
  PROVE  /\ Micros(ms) \in Nat
         /\ ms * PerMilli < UInt => Micros(ms) = ms * PerMilli
<1>1. ms * PerMilli \in Nat /\ UInt \in Nat \ {0}
  BY ThreadingAssumption
<1>2. \A x \in Nat, u \in Nat \ {0} : x % u \in Nat /\ (x < u => x % u = x)
  OBVIOUS
<1>. QED
  BY <1>1, <1>2 DEF Micros

(* Another failure is noted.                                               *)
LEMMA NotedFailure ==
  ASSUME NEW S, NEW f \in [Thread -> SUBSET S], NEW t \in Thread, NEW e \in S
  PROVE  [f EXCEPT ![t] = @ \cup {e}] \in [Thread -> SUBSET S]
<1>1. f[t] \cup {e} \in SUBSET S
  OBVIOUS
<1>. QED
  BY <1>1

(* A step changes the places of one thread at most, and in which order.    *)
LEMMA TypesStep ==
  ASSUME Inv, [Next]_vars
  PROVE  Types'
<1> USE DEF Inv, Types, Places, args, Goto, Return, Finish, Fail
<1>1. ASSUME NEW t \in Thread, Malloc(t) PROVE Types'
  BY <1>1 DEF Malloc
<1>2. ASSUME NEW t \in Thread, pthread_create(t) \/ CreateFails(t) PROVE Types'
  BY <1>2 DEF pthread_create, StartReturns, CreateFails, FreeData
<1>3. ASSUME NEW t \in Thread, Obtain(t) \/ ObtainInterrupted(t) \/ Lock(t) \/ LockFails(t) PROVE Types'
  <2>1. failed' \in [Thread -> SUBSET Calls]
    <3>1. UNCHANGED failed \/ \E e \in Calls : failed' = [failed EXCEPT ![t] = @ \cup {e}]
      BY <1>3 DEF Obtain, ObtainInterrupted, Lock, LockFails, Calls
    <3>2. failed \in [Thread -> SUBSET Calls]
      OBVIOUS
    <3> HIDE DEF Inv, Types, Places
    <3>3. \A e \in Calls : [failed EXCEPT ![t] = @ \cup {e}] \in [Thread -> SUBSET Calls]
      BY <3>2, NotedFailure
    <3>. QED
      BY <3>1, <3>2, <3>3, Zenon
  <2>. QED
    BY <1>3, <2>1 DEF Obtain, ObtainInterrupted, Lock, LockFails
<1>4. ASSUME NEW t \in Thread, Release(t) \/ ReleaseInterrupted(t) \/ Unlock(t) \/ UnlockFails(t)
      PROVE  Types'
  <2>1. failed' \in [Thread -> SUBSET Calls]
    <3>1. UNCHANGED failed \/ \E e \in Calls : failed' = [failed EXCEPT ![t] = @ \cup {e}]
      BY <1>4 DEF Release, ReleaseInterrupted, Unlock, UnlockFails, Calls
    <3>2. failed \in [Thread -> SUBSET Calls]
      OBVIOUS
    <3> HIDE DEF Inv, Types, Places
    <3>3. \A e \in Calls : [failed EXCEPT ![t] = @ \cup {e}] \in [Thread -> SUBSET Calls]
      BY <3>2, NotedFailure
    <3>. QED
      BY <3>1, <3>2, <3>3, Zenon
  <2>. QED
    BY <1>4, <2>1 DEF Release, ReleaseInterrupted, SleepFailed, Unlock, UnlockFails
<1>5. ASSUME NEW t \in Thread, Join(t) PROVE Types'
  BY <1>5 DEF Join
<1>6. CASE CallerLock \/ CallerUnlock \/ Tick \/ UNCHANGED vars
  BY <1>6 DEF CallerLock, CallerUnlock, Tick, vars
<1>. QED
  BY <1>1, <1>2, <1>3, <1>4, <1>5, <1>6 DEF Next, ThreadStep, StartStep

(* thread_complete_success is written by start and by the thread that      *)
(* returns.                                                                *)
LEMMA FlagsStep ==
  ASSUME Inv, [Next]_vars
  PROVE  Flags'
<1>0. success \in [Thread -> BOOLEAN]
  BY DEF Inv, Flags
<1>1. UNCHANGED success \/ \E t \in Thread, b \in BOOLEAN : success' = [success EXCEPT ![t] = b]
  <2>1. ASSUME NEW t \in Thread, Malloc(t)
        PROVE  UNCHANGED success \/ success' = [success EXCEPT ![t] = FALSE]
    BY <2>1, Zenon DEF Malloc
  <2>2. ASSUME NEW t \in Thread, ObtainInterrupted(t) \/ LockFails(t) \/ UnlockFails(t)
        PROVE  success' = [success EXCEPT ![t] = FALSE]
    BY <2>2, Zenon DEF ObtainInterrupted, LockFails, UnlockFails, Fail, Finish
  <2>3. ASSUME NEW t \in Thread, Unlock(t)
        PROVE  success' = [success EXCEPT ![t] = failed[t] = {}]
    BY <2>3, Zenon DEF Unlock, Finish
  <2>4. ASSUME NEW t \in Thread,
               pthread_create(t) \/ CreateFails(t) \/ Obtain(t) \/ Lock(t) \/ Release(t)
                 \/ ReleaseInterrupted(t) \/ Join(t)
        PROVE  UNCHANGED success
    BY <2>4 DEF pthread_create, CreateFails, Obtain, Lock, Release, ReleaseInterrupted, SleepFailed,
       Join
  <2>5. CASE CallerLock \/ CallerUnlock \/ Tick \/ UNCHANGED vars
    BY <2>5 DEF CallerLock, CallerUnlock, Tick, vars
  <2>6. \A t \in Thread : (failed[t] = {}) \in BOOLEAN
    BY Zenon
  <2>. QED
    BY <2>1, <2>2, <2>3, <2>4, <2>5, <2>6, Zenon DEF Next, ThreadStep, StartStep
<1>. QED
  BY <1>0, <1>1, Zenon DEF Flags

(* The waits and the sleeps are numbers.                                   *)
LEMMA TimesStep ==
  ASSUME Inv, [Next]_vars
  PROVE  Times'
<1> USE DEF Times, args
<1>0. Times
  BY DEF Inv
<1>1. ASSUME NEW t \in Thread, Malloc(t) PROVE Times'
  BY <1>0, <1>1, ThreadingAssumption DEF Malloc
<1>2. ASSUME NEW t \in Thread, pthread_create(t) \/ CreateFails(t) PROVE Times'
  <2>1. Micros(wait_to_obtain_ms[t]) \in Nat
    BY <1>0, MicrosOf
  <2>. QED
    BY <1>0, <1>2, <2>1 DEF pthread_create, CreateFails, Sleep
<1>3. ASSUME NEW t \in Thread, Lock(t) PROVE Times'
  <2>1. Micros(wait_to_release_ms[t]) \in Nat
    BY <1>0, MicrosOf
  <2>. QED
    BY <1>0, <1>3, <2>1 DEF Lock, Sleep
<1>4. ASSUME NEW t \in Thread, Obtain(t) \/ ObtainInterrupted(t) \/ LockFails(t) \/ Release(t)
      PROVE  Times'
  BY <1>0, <1>4 DEF Obtain, ObtainInterrupted, LockFails, Release
<1>5. ASSUME NEW t \in Thread, ReleaseInterrupted(t) \/ Unlock(t) \/ UnlockFails(t) \/ Join(t)
      PROVE  Times'
  BY <1>0, <1>5 DEF ReleaseInterrupted, Unlock, UnlockFails, Join
<1>6. CASE Tick
  BY <1>0, <1>6 DEF Tick, Sleeping
<1>7. CASE CallerLock \/ CallerUnlock \/ UNCHANGED vars
  BY <1>0, <1>7 DEF CallerLock, CallerUnlock, vars
<1>. QED
  BY <1>1, <1>2, <1>3, <1>4, <1>5, <1>6, <1>7 DEF Next, ThreadStep, StartStep

(* start hands the thread data to the thread, or frees it; the caller      *)
(* frees it only after the join.                                           *)
LEMMA OwnershipStep ==
  ASSUME Inv, [Next]_vars
  PROVE  Ownership'
<1> USE DEF Inv, Types, Places, Ownership, args, Goto, Return, Finish, Fail
<1>0. NoThread \notin Thread
  BY ThreadingAssumption
<1>1. ASSUME NEW t \in Thread, Malloc(t) PROVE Ownership'
  <2>1. CASE Return(t, "false") /\ UNCHANGED data
    BY <1>0, <1>1, <2>1 DEF Malloc
  <2>2. CASE starting' = t /\ data' = [data EXCEPT ![t] = "live"] /\ UNCHANGED started
    BY <1>0, <1>1, <2>2 DEF Malloc
  <2>. QED
    BY <1>1, <2>1, <2>2 DEF Malloc
<1>2. ASSUME NEW t \in Thread, pthread_create(t) \/ CreateFails(t) PROVE Ownership'
  <2>1. CASE pthread_create(t)
    BY <1>0, <2>1 DEF pthread_create, StartReturns
  <2>2. CASE CreateFails(t)
    BY <1>0, <2>2 DEF CreateFails, FreeData
  <2>. QED
    BY <1>2, <2>1, <2>2
<1>3. ASSUME NEW t \in Thread, Obtain(t) \/ ObtainInterrupted(t) \/ Lock(t) \/ LockFails(t)
      PROVE  Ownership'
  <2>1. /\ UNCHANGED <<starting, started, data>>
        /\ {pc[t], pc'[t]} \cap {"none", "joined"} = {}
        /\ \A u \in Thread : u # t => pc'[u] = pc[u]
    BY <1>3 DEF Obtain, ObtainInterrupted, Lock, LockFails
  <2>. QED
    BY <2>1
<1>4. ASSUME NEW t \in Thread, Release(t) \/ ReleaseInterrupted(t) \/ Unlock(t) \/ UnlockFails(t)
      PROVE  Ownership'
  <2>1. /\ UNCHANGED <<starting, started, data>>
        /\ {pc[t], pc'[t]} \cap {"none", "joined"} = {}
        /\ \A u \in Thread : u # t => pc'[u] = pc[u]
    BY <1>4 DEF Release, ReleaseInterrupted, SleepFailed, Unlock, UnlockFails
  <2>. QED
    BY <2>1
<1>5. ASSUME NEW t \in Thread, Join(t) PROVE Ownership'
  BY <1>0, <1>5 DEF Join
<1>6. CASE CallerLock \/ CallerUnlock \/ Tick \/ UNCHANGED vars
  BY <1>6 DEF CallerLock, CallerUnlock, Tick, vars
<1>. QED
  BY <1>1, <1>2, <1>3, <1>4, <1>5, <1>6 DEF Next, ThreadStep, StartStep

(* Every path from the lock leads through the unlock.                      *)
LEMMA HoldingStep ==
  ASSUME Inv, [Next]_vars
  PROVE  Holding'
<1> USE DEF Inv, Types, Places, Holding, args, Goto, Return, Finish, Fail
<1>0. {NoThread, Caller} \cap Thread = {}
  BY ThreadingAssumption
<1>1. ASSUME NEW t \in Thread, Malloc(t) \/ pthread_create(t) \/ CreateFails(t) PROVE Holding'
  BY <1>1, ZenonT(60) DEF Malloc, pthread_create, StartReturns, CreateFails, FreeData
<1>2. ASSUME NEW t \in Thread, Obtain(t) \/ ObtainInterrupted(t) \/ LockFails(t) PROVE Holding'
  BY <1>2, ZenonT(60) DEF Obtain, ObtainInterrupted, LockFails
<1>3. ASSUME NEW t \in Thread, Lock(t) PROVE Holding'
  BY <1>0, <1>3 DEF Lock
<1>4. ASSUME NEW t \in Thread, Release(t) \/ ReleaseInterrupted(t) PROVE Holding'
  BY <1>4, ZenonT(60) DEF Release, ReleaseInterrupted, SleepFailed
<1>5. ASSUME NEW t \in Thread, Unlock(t) \/ UnlockFails(t) PROVE Holding'
  <2>1. CASE Unlock(t)
    BY <1>0, <2>1 DEF Unlock
  <2>2. CASE UnlockFails(t)
    <3>1. mutex' = t /\ pc'[t] = "returned" /\ "unlock" \in failed'[t]
      BY <2>2 DEF UnlockFails
    <3>2. \A u \in Thread : u # t => pc'[u] = pc[u] /\ failed'[u] = failed[u]
      BY <2>2 DEF UnlockFails
    <3>. QED
      BY <2>2, <3>1, <3>2 DEF UnlockFails
  <2>. QED
    BY <1>5, <2>1, <2>2
<1>6. ASSUME NEW t \in Thread, Join(t) PROVE Holding'
  BY <1>6 DEF Join
<1>7. CASE CallerLock \/ CallerUnlock \/ Tick \/ UNCHANGED vars
  BY <1>0, <1>7 DEF CallerLock, CallerUnlock, Tick, vars
<1>. QED
  BY <1>1, <1>2, <1>3, <1>4, <1>5, <1>6, <1>7 DEF Next, ThreadStep, StartStep

(* Success is said where nothing has failed, and nothing fails after it.   *)
LEMMA HonestStep ==
  ASSUME Inv, [Next]_vars
  PROVE  Honest'
<1> DEFINE Over(p) == p \in {"returned", "joined"}
<1> SUFFICES ASSUME NEW u \in Thread, success'[u] PROVE Over(pc'[u]) /\ failed'[u] = {}
  BY DEF Honest
<1>0. success[u] => Over(pc[u]) /\ failed[u] = {}
  BY DEF Inv, Honest
<1>1. success \in [Thread -> BOOLEAN]
  BY DEF Inv, Flags
<1>2. pc \in [Thread -> Places] /\ failed \in [Thread -> SUBSET Calls]
  BY DEF Inv, Types
<1> USE DEF Goto, Finish, Fail, args
<1>3. ASSUME NEW t \in Thread, Malloc(t) PROVE success[u] /\ UNCHANGED <<pc, failed>>
  BY <1>1, <1>3, Zenon DEF Malloc
<1>4. ASSUME NEW t \in Thread, t # u,
             UNCHANGED success \/ \E b : success' = [success EXCEPT ![t] = b],
             UNCHANGED pc \/ \E p : pc' = [pc EXCEPT ![t] = p],
             UNCHANGED failed \/ \E f : failed' = [failed EXCEPT ![t] = f]
      PROVE  Over(pc'[u]) /\ failed'[u] = {}
  <2>1. success[u]
    BY <1>1, <1>4, Zenon
  <2>2. pc'[u] = pc[u] /\ failed'[u] = failed[u]
    BY <1>2, <1>4
  <2>. QED
    BY <1>0, <2>1, <2>2
<1>5. ASSUME NEW t \in Thread, pthread_create(t) \/ Obtain(t) \/ Lock(t) \/ Release(t)
                                 \/ ReleaseInterrupted(t)
      PROVE  Over(pc'[u]) /\ failed'[u] = {}
  <2>1. UNCHANGED success
    BY <1>5 DEF pthread_create, Obtain, Lock, Release, ReleaseInterrupted, SleepFailed
  <2>2. /\ \E p : pc' = [pc EXCEPT ![t] = p]
        /\ UNCHANGED failed \/ \E f : failed' = [failed EXCEPT ![t] = f]
    BY <1>5, Zenon DEF pthread_create, Obtain, Lock, Release, ReleaseInterrupted, SleepFailed
  <2>3. ~Over(pc[t])
    BY <1>5 DEF pthread_create, Obtain, Lock, Release, ReleaseInterrupted
  <2>4. t # u
    BY <1>0, <2>1, <2>3, Zenon
  <2>. QED
    BY <1>4, <2>1, <2>2, <2>4, Zenon
<1>6. ASSUME NEW t \in Thread, ObtainInterrupted(t) \/ LockFails(t) \/ UnlockFails(t)
      PROVE  Over(pc'[u]) /\ failed'[u] = {}
  <2>1. success' = [success EXCEPT ![t] = FALSE]
    BY <1>6, Zenon DEF ObtainInterrupted, LockFails, UnlockFails
  <2>2. /\ \E p : pc' = [pc EXCEPT ![t] = p]
        /\ \E f : failed' = [failed EXCEPT ![t] = f]
    BY <1>6, Zenon DEF ObtainInterrupted, LockFails, UnlockFails
  <2>3. t # u
    BY <1>1, <2>1, Zenon
  <2>. QED
    BY <1>4, <2>1, <2>2, <2>3, Zenon
<1>7. ASSUME NEW t \in Thread, Unlock(t) PROVE Over(pc'[u]) /\ failed'[u] = {}
  <2>1. success' = [success EXCEPT ![t] = failed[t] = {}]
    BY <1>7, Zenon DEF Unlock
  <2>2. pc' = [pc EXCEPT ![t] = "returned"] /\ UNCHANGED failed
    BY <1>7, Zenon DEF Unlock
  <2>3. CASE t # u
    BY <1>4, <2>1, <2>2, <2>3, Zenon
  <2>4. CASE t = u
    <3>1. failed[u] = {}
      BY <1>1, <2>1, <2>4, Zenon
    <3>. QED
      BY <1>2, <2>2, <2>4, <3>1
  <2>. QED
    BY <2>3, <2>4
<1>8. ASSUME NEW t \in Thread, Join(t) PROVE Over(pc'[u]) /\ failed'[u] = {}
  <2>1. success[u] /\ UNCHANGED failed
    BY <1>8 DEF Join
  <2>2. pc'[u] = pc[u] \/ pc'[u] = "joined"
    BY <1>2, <1>8 DEF Join
  <2>. QED
    BY <1>0, <2>1, <2>2
<1>9. CASE CallerLock \/ CallerUnlock \/ Tick \/ UNCHANGED vars \/ \E t \in Thread : CreateFails(t)
  BY <1>0, <1>9 DEF CallerLock, CallerUnlock, Tick, vars, CreateFails
<1>. QED
  BY <1>0, <1>3, <1>5, <1>6, <1>7, <1>8, <1>9 DEF Next, ThreadStep, StartStep

(* The clock moves a microsecond from left to slept, and the thread goes   *)
(* on when nothing is left.                                                *)
LEMMA ClockStep ==
  ASSUME Inv, [Next]_vars
  PROVE  Clock'
<1> DEFINE O(t) == Micros(wait_to_obtain_ms[t])
           R(t) == Micros(wait_to_release_ms[t])
           C(p, s, l, f, o, r) ==
             /\ p = "none" => s.obtain = 0
             /\ p \in {"none", "obtain", "lock"} => s.release = 0
             /\ p = "obtain" => s.obtain + l = o
             /\ p \in {"lock", "release", "unlock"} => s.obtain = o
             /\ p = "release" => s.release + l = r
             /\ p = "unlock" /\ f = {} => s.release = r
             /\ p \in {"returned", "joined"} /\ f = {} => s.obtain = o /\ s.release = r
           Now(t) == C(pc[t], slept[t], left[t], failed[t], O(t), R(t))
<1>0. \A t \in Thread : Now(t)
  BY DEF Inv, Clock
<1>1. /\ pc \in [Thread -> Places] /\ failed \in [Thread -> SUBSET Calls]
      /\ left \in [Thread -> Nat] /\ slept \in [Thread -> [obtain : Nat, release : Nat]]
      /\ wait_to_obtain_ms \in [Thread -> Nat] /\ wait_to_release_ms \in [Thread -> Nat]
  BY DEF Inv, Types, Times
<1>2. \A t \in Thread : O(t) \in Nat /\ R(t) \in Nat
  BY <1>1, MicrosOf
<1> SUFFICES ASSUME NEW u \in Thread PROVE Now(u)'
  BY DEF Clock
<1> USE DEF Goto, Finish, Fail, args
<1>3. ASSUME UNCHANGED <<pc[u], slept[u], left[u], failed[u], wait_to_obtain_ms[u],
                         wait_to_release_ms[u]>>
      PROVE  Now(u)'
  <2>1. O(u)' = O(u) /\ R(u)' = R(u)
    BY <1>3 DEF Micros
  <2>. QED
    BY <1>0, <1>3, <2>1
<1>4. ASSUME NEW t \in Thread, Malloc(t) PROVE Now(u)'
  <2>1. UNCHANGED <<pc, slept, left, failed>>
    BY <1>4 DEF Malloc
  <2>2. CASE t # u
    <3>1. UNCHANGED <<wait_to_obtain_ms[u], wait_to_release_ms[u]>>
      BY <1>1, <1>4, <2>2 DEF Malloc
    <3>. QED
      BY <1>3, <2>1, <3>1
  <2>3. CASE t = u
    <3>1. pc[u] = "none"
      BY <1>4, <2>3 DEF Malloc, Inv, Ownership
    <3>. QED
      BY <1>0, <2>1, <3>1
  <2>. QED
    BY <2>2, <2>3
<1>5. ASSUME NEW t \in Thread, ThreadStep(t) \/ pthread_create(t) \/ Join(t), t # u PROVE Now(u)'
  <2>1. UNCHANGED <<slept, wait_to_obtain_ms, wait_to_release_ms>>
    BY <1>5 DEF ThreadStep, pthread_create, Join, Obtain, ObtainInterrupted, Lock, LockFails,
       Release, ReleaseInterrupted, Unlock, UnlockFails
  <2>2. /\ \E p : pc' = [pc EXCEPT ![t] = p]
        /\ UNCHANGED left \/ \E l : left' = [left EXCEPT ![t] = l]
        /\ UNCHANGED failed \/ \E f : failed' = [failed EXCEPT ![t] = f]
    BY <1>5, Zenon DEF ThreadStep, pthread_create, Join, Obtain, ObtainInterrupted, Lock, LockFails,
       Release, ReleaseInterrupted, Unlock, UnlockFails, Sleep, SleepFailed
  <2>3. UNCHANGED <<pc[u], left[u], failed[u]>>
    BY <1>1, <1>5, <2>2
  <2>. QED
    BY <1>3, <2>1, <2>3
<1>6. CASE pthread_create(u)
  <2>1. /\ pc[u] = "none" /\ pc'[u] = "obtain" /\ left'[u] = O(u)
        /\ UNCHANGED <<slept, failed, wait_to_obtain_ms, wait_to_release_ms>>
    BY <1>1, <1>6 DEF pthread_create, Sleep
  <2>2. slept[u].obtain = 0 /\ slept[u].release = 0 /\ O(u)' = O(u)
    BY <1>0, <2>1 DEF Micros
  <2>. QED
    BY <1>2, <2>1, <2>2
<1>7. CASE Obtain(u)
  <2>1. /\ pc[u] = "obtain" /\ pc'[u] = "lock" /\ left[u] = 0
        /\ UNCHANGED <<slept, failed, left, wait_to_obtain_ms, wait_to_release_ms>>
    BY <1>1, <1>7 DEF Obtain
  <2>2. slept[u].obtain = O(u) /\ slept[u].release = 0 /\ O(u)' = O(u)
    BY <1>0, <1>1, <2>1 DEF Micros
  <2>. QED
    BY <2>1, <2>2
<1>8. CASE Lock(u)
  <2>1. /\ pc[u] = "lock" /\ pc'[u] = "release" /\ left'[u] = R(u)
        /\ UNCHANGED <<slept, failed, wait_to_obtain_ms, wait_to_release_ms>>
    BY <1>1, <1>8 DEF Lock, Sleep
  <2>2. slept[u].obtain = O(u) /\ slept[u].release = 0 /\ O(u)' = O(u) /\ R(u)' = R(u)
    BY <1>0, <2>1 DEF Micros
  <2>. QED
    BY <1>2, <2>1, <2>2
<1>9. CASE Release(u)
  <2>1. /\ pc[u] = "release" /\ pc'[u] = "unlock" /\ left[u] = 0
        /\ UNCHANGED <<slept, failed, left, wait_to_obtain_ms, wait_to_release_ms>>
    BY <1>1, <1>9 DEF Release
  <2>2. slept[u].obtain = O(u) /\ slept[u].release = R(u) /\ O(u)' = O(u) /\ R(u)' = R(u)
    BY <1>0, <1>1, <2>1 DEF Micros
  <2>. QED
    BY <2>1, <2>2
<1>10. CASE ReleaseInterrupted(u)
  <2>1. /\ pc[u] = "release" /\ pc'[u] = "unlock" /\ failed'[u] # {}
        /\ UNCHANGED <<slept, wait_to_obtain_ms, wait_to_release_ms>>
    BY <1>1, <1>10 DEF ReleaseInterrupted, SleepFailed
  <2>2. slept[u].obtain = O(u) /\ O(u)' = O(u)
    BY <1>0, <2>1 DEF Micros
  <2>. QED
    BY <2>1, <2>2
<1>11. CASE ObtainInterrupted(u) \/ LockFails(u) \/ UnlockFails(u)
  <2>1. pc'[u] = "returned" /\ failed'[u] # {}
    BY <1>1, <1>11, ZenonT(60) DEF ObtainInterrupted, LockFails, UnlockFails
  <2>. QED
    BY <2>1
<1>12. CASE Unlock(u)
  <2>1. /\ pc[u] = "unlock" /\ pc'[u] = "returned"
        /\ UNCHANGED <<slept, failed, wait_to_obtain_ms, wait_to_release_ms>>
    BY <1>1, <1>12 DEF Unlock
  <2>2. /\ slept[u].obtain = O(u) /\ O(u)' = O(u) /\ R(u)' = R(u)
        /\ failed[u] = {} => slept[u].release = R(u)
    BY <1>0, <2>1 DEF Micros
  <2>. QED
    BY <2>1, <2>2
<1>13. CASE Join(u)
  <2>1. /\ pc[u] = "returned" /\ pc'[u] = "joined"
        /\ UNCHANGED <<slept, failed, wait_to_obtain_ms, wait_to_release_ms>>
    BY <1>1, <1>13 DEF Join
  <2>2. O(u)' = O(u) /\ R(u)' = R(u)
    BY <2>1 DEF Micros
  <2>. QED
    BY <1>0, <2>1, <2>2
<1>14. CASE Tick
  <2>1. UNCHANGED <<pc, failed, wait_to_obtain_ms, wait_to_release_ms>>
    BY <1>14 DEF Tick
  <2>2. CASE ~Sleeping(u)
    <3>1. left'[u] = left[u] /\ slept'[u] = slept[u]
      BY <1>14, <2>2 DEF Tick
    <3>. QED
      BY <1>3, <2>1, <3>1
  <2>3. CASE Sleeping(u)
    <3>1. O(u)' = O(u) /\ R(u)' = R(u) /\ left[u] \in Nat /\ left[u] > 0
      BY <1>1, <2>1, <2>3 DEF Micros, Sleeping
    <3>2. left'[u] = left[u] - 1
      BY <1>14, <2>3 DEF Tick
    <3>3. slept[u] \in [obtain : Nat, release : Nat]
      BY <1>1
    <3>4. CASE pc[u] = "obtain"
      <4>1. slept'[u].obtain = slept[u].obtain + 1 /\ slept'[u].release = slept[u].release
        BY <1>14, <2>3, <3>3, <3>4 DEF Tick
      <4>2. slept[u].obtain + left[u] = O(u) /\ slept[u].release = 0
        BY <1>0, <3>4
      <4>3. slept'[u].obtain + left'[u] = O(u)
        BY <1>2, <3>1, <3>2, <3>3, <4>1, <4>2
      <4>. QED
        BY <2>1, <3>1, <3>4, <4>1, <4>2, <4>3
    <3>5. CASE pc[u] = "release"
      <4>1. slept'[u].release = slept[u].release + 1 /\ slept'[u].obtain = slept[u].obtain
        BY <1>14, <2>3, <3>3, <3>5 DEF Tick
      <4>2. slept[u].release + left[u] = R(u) /\ slept[u].obtain = O(u)
        BY <1>0, <3>5
      <4>3. slept'[u].release + left'[u] = R(u)
        BY <1>2, <3>1, <3>2, <3>3, <4>1, <4>2
      <4>. QED
        BY <2>1, <3>1, <3>5, <4>1, <4>2, <4>3
    <3>. QED
      BY <2>3, <3>4, <3>5 DEF Sleeping
  <2>. QED
    BY <2>2, <2>3
<1>15. CASE CallerLock \/ CallerUnlock \/ UNCHANGED vars \/ \E t \in Thread : CreateFails(t)
  <2>1. UNCHANGED <<pc, slept, left, failed, wait_to_obtain_ms, wait_to_release_ms>>
    BY <1>15 DEF CallerLock, CallerUnlock, vars, CreateFails
  <2>. QED
    BY <1>3, <2>1
<1>16. ASSUME ThreadStep(u) PROVE Now(u)'
  BY <1>7, <1>8, <1>9, <1>10, <1>11, <1>12, <1>16 DEF ThreadStep
<1>. QED
  BY <1>4, <1>5, <1>6, <1>13, <1>14, <1>15, <1>16 DEF Next, StartStep

-----------------------------------------------------------------------------
(* In every reachable state the threads, their data, the mutex and the     *)
(* clock fit together as Inv says.                                         *)
THEOREM ThreadingInvariance == Spec => []Inv
<1>1. Init => Inv
  <2> SUFFICES ASSUME Init PROVE Inv
    OBVIOUS
  <2> USE DEF Init
  <2>1. NoThread \notin Thread
    BY ThreadingAssumption
  <2>2. Types
    BY DEF Types, Places
  <2>3. Flags
    BY Zenon DEF Flags
  <2>4. Times
    BY DEF Times
  <2>5. Ownership /\ Holding
    BY <2>1 DEF Ownership, Holding
  <2>6. Honest
    BY Zenon DEF Honest
  <2>7. Clock
    BY DEF Clock
  <2>. QED
    BY <2>2, <2>3, <2>4, <2>5, <2>6, <2>7 DEF Inv
<1>2. Inv /\ [Next]_vars => Inv'
  BY TypesStep, FlagsStep, TimesStep, OwnershipStep, HoldingStep, HonestStep, ClockStep DEF Inv
<1>. QED
  BY <1>1, <1>2, PTL DEF Spec

(* threadfunc gives the mutex back on every path, the one of the failed    *)
(* sleep included; a failed unlock is reported.                            *)
THEOREM MutexGivenBack == Spec => []ReturnsUnlocked
<1>1. Inv => ReturnsUnlocked
  <2> SUFFICES ASSUME Inv, NEW t \in Thread, pc[t] \in {"returned", "joined"}, mutex = t
               PROVE  "unlock" \in failed[t] /\ ~success[t]
    BY DEF ReturnsUnlocked, Returned
  <2>1. "unlock" \in failed[t]
    BY DEF Inv, Holding
  <2>2. failed[t] # {}
    BY <2>1
  <2>. QED
    BY <2>1, <2>2, Zenon DEF Inv, Honest
<1>. QED
  BY <1>1, ThreadingInvariance, PTL

(* thread_complete_success says what its name says, for any waits and any  *)
(* width of usleep's argument.                                             *)
THEOREM SuccessIsTrue == Spec => []SuccessMeansHeld
<1>1. Inv => SuccessMeansHeld
  <2> SUFFICES ASSUME Inv, NEW t \in Thread, pc[t] \in {"returned", "joined"}, success[t]
               PROVE  /\ wait_to_obtain_ms[t] * PerMilli < UInt =>
                           slept[t].obtain = wait_to_obtain_ms[t] * PerMilli
                      /\ wait_to_release_ms[t] * PerMilli < UInt =>
                           slept[t].release = wait_to_release_ms[t] * PerMilli
                      /\ failed[t] = {} /\ mutex # t
    BY DEF SuccessMeansHeld, Returned
  <2>1. failed[t] = {}
    BY Zenon DEF Inv, Honest
  <2>2. mutex # t
    BY <2>1 DEF Inv, Holding
  <2>3. /\ slept[t].obtain = Micros(wait_to_obtain_ms[t])
        /\ slept[t].release = Micros(wait_to_release_ms[t])
    BY <2>1 DEF Inv, Clock
  <2>4. wait_to_obtain_ms[t] \in Nat /\ wait_to_release_ms[t] \in Nat
    BY DEF Inv, Times
  <2>5. /\ wait_to_obtain_ms[t] * PerMilli < UInt =>
             Micros(wait_to_obtain_ms[t]) = wait_to_obtain_ms[t] * PerMilli
        /\ wait_to_release_ms[t] * PerMilli < UInt =>
             Micros(wait_to_release_ms[t]) = wait_to_release_ms[t] * PerMilli
    BY <2>4, MicrosOf
  <2>. QED
    BY <2>1, <2>2, <2>3, <2>5
<1>. QED
  BY <1>1, ThreadingInvariance, PTL

(* The thread data lives as long as start or the thread uses it, and is    *)
(* freed by whoever owns it last.                                          *)
THEOREM DataFreedOnce == Spec => []DataOwned
<1>1. Inv => DataOwned
  BY DEF Inv, Ownership, DataOwned
<1>. QED
  BY <1>1, ThreadingInvariance, PTL

=============================================================================
