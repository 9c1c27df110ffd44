---------------------------- MODULE LockFileProofs ----------------------------
(* What holds of LockFile for any number of threads and processes.          *)
EXTENDS LockFile, TLAPS

\* The uses under which the lock is sound across processes: of two threads of
\* one process, at most one ever reads and none takes std::lock.  Exclusive
\* timed locking (RamDb) is such a use, and so is anything that processes with
\* a single thread do.
SafeUse ==
    \A t, u \in Thread :
        t # u /\ home[t] = home[u] =>
            /\ "lock" \notin UsedOps[t]
            /\ "try_lock_shared_for" \in UsedOps[t] =>
                   "try_lock_shared_for" \notin UsedOps[u]

OwnsMutex(t)   == pc[t] \in {"x_flock", "x_held", "x_unlock", "l_tryflock"}
SharesMutex(t) == pc[t] \in {"s_flock", "s_held", "s_unlock"}
UsesFlock(t)   == pc[t] \in {"x_held", "s_held", "l_trymutex"}

\* access_mutex records exactly the threads whose position says they own it.
MutexInv ==
    /\ \A t \in Thread : OwnsMutex(t) => writer[home[t]] = t
    /\ \A t \in Thread : SharesMutex(t) => t \in sharers[home[t]]
    /\ \A p \in Process : writer[p] # None =>
           home[writer[p]] = p /\ OwnsMutex(writer[p]) /\ sharers[p] = {}
    /\ \A p \in Process : \A t \in sharers[p] : home[t] = p /\ SharesMutex(t)

\* A file lock belongs to a process with a thread that is using it.
FlockInv ==
    \A p \in Process : flock[p] # "none" =>
        \E t \in Thread : home[t] = p /\ UsesFlock(t)

\* The kernel's side: an exclusive record lock excludes those of others.
KernelInv ==
    \A p, q \in Process : p # q /\ flock[p] = "exclusive" => flock[q] = "none"

IInv == TypeOK /\ MutexInv /\ FlockInv /\ KernelInv

USE DEF PC, ExclusivePc, SharedPc, StdLockPc, Goto

\* The initial state satisfies the invariant.
LEMMA InitIInv == Init => IInv
  BY LockAssumption
  DEF Init, IInv, TypeOK, MutexInv, FlockInv, KernelInv, OwnsMutex, SharesMutex, UsesFlock

\* Every step keeps the types.
LEMMA TypeStep == TypeOK /\ [Next]_lockVars => TypeOK'
  <1> SUFFICES ASSUME TypeOK, [Next]_lockVars PROVE TypeOK'
    OBVIOUS
  <1> USE LockAssumption DEF TypeOK
  <1>1. ASSUME NEW t \in Thread, Exclusive(t) PROVE TypeOK'
    BY <1>1 DEF Exclusive, TryLockFor, MutexAcquired, MutexTimeout, FlockAcquired, FlockFailed,
                UnlockFlock, UnlockMutex, TakeMutex, DropMutex, SetFlock
  <1>2. ASSUME NEW t \in Thread, Shared(t) PROVE TypeOK'
    BY <1>2 DEF Shared, TryLockSharedFor, SharedMutexAcquired, SharedMutexTimeout,
                SharedFlockAcquired, SharedFlockFailed, UnlockSharedFlock, UnlockSharedMutex,
                ShareMutex, UnshareMutex, SetFlock
  <1>3. ASSUME NEW t \in Thread, StdLock(t) PROVE TypeOK'
    BY <1>3 DEF StdLock, Lock, LockMutexFirst, LockThenFlock, LockFlockFirst, LockThenMutex, LockThrows,
                StartOver, TakeMutex, DropMutex, SetFlock
  <1>4. ASSUME NEW p \in Process, Crash(p) PROVE TypeOK'
    BY <1>4 DEF Crash
  <1>5. CASE UNCHANGED lockVars
    BY <1>5 DEF lockVars
  <1> QED
    BY <1>1, <1>2, <1>3, <1>4, <1>5 DEF Next

\* Every step keeps access_mutex in line with the positions of the threads.
LEMMA MutexStep == TypeOK /\ MutexInv /\ [Next]_lockVars => MutexInv'
  <1> SUFFICES ASSUME TypeOK, MutexInv, [Next]_lockVars PROVE MutexInv'
    OBVIOUS
  <1> USE LockAssumption DEF TypeOK, MutexInv, OwnsMutex, SharesMutex
  <1>1. ASSUME NEW t \in Thread, Exclusive(t) PROVE MutexInv'
    <2>1. CASE TryLockFor(t)
      BY <2>1 DEF TryLockFor
    <2>2. CASE MutexAcquired(t)
      BY <2>2 DEF MutexAcquired, TakeMutex, MutexFree
    <2>3. CASE MutexTimeout(t)
      BY <2>3 DEF MutexTimeout
    <2>4. CASE FlockAcquired(t)
      BY <2>4 DEF FlockAcquired
    <2>5. CASE FlockFailed(t)
      BY <2>5 DEF FlockFailed, DropMutex
    <2>6. CASE UnlockFlock(t)
      BY <2>6 DEF UnlockFlock
    <2>7. CASE UnlockMutex(t)
      BY <2>7 DEF UnlockMutex, DropMutex
    <2> QED
      BY <1>1, <2>1, <2>2, <2>3, <2>4, <2>5, <2>6, <2>7 DEF Exclusive
  <1>2. ASSUME NEW t \in Thread, Shared(t) PROVE MutexInv'
    <2>1. CASE TryLockSharedFor(t) \/ SharedMutexTimeout(t)
      BY <2>1 DEF TryLockSharedFor, SharedMutexTimeout
    <2>2. CASE SharedMutexAcquired(t)
      BY <2>2 DEF SharedMutexAcquired, ShareMutex, MutexShareable
    <2>3. CASE SharedFlockAcquired(t) \/ UnlockSharedFlock(t)
      BY <2>3 DEF SharedFlockAcquired, UnlockSharedFlock
    <2>4. CASE SharedFlockFailed(t)
      BY <2>4 DEF SharedFlockFailed, UnshareMutex
    <2>5. CASE UnlockSharedMutex(t)
      BY <2>5 DEF UnlockSharedMutex, UnshareMutex
    <2> QED
      BY <1>2, <2>1, <2>2, <2>3, <2>4, <2>5 DEF Shared
  <1>3. ASSUME NEW t \in Thread, StdLock(t) PROVE MutexInv'
    <2>1. CASE Lock(t)
      BY <2>1 DEF Lock
    <2>2. CASE LockMutexFirst(t)
      BY <2>2 DEF LockMutexFirst, TakeMutex, MutexFree
    <2>3. CASE LockThenFlock(t)
      BY <2>3 DEF LockThenFlock, DropMutex, StartOver
    <2>4. CASE LockFlockFirst(t)
      BY <2>4 DEF LockFlockFirst
    <2>5. CASE LockThenMutex(t)
      BY <2>5 DEF LockThenMutex, TakeMutex, MutexFree, StartOver
    <2>6. CASE LockThrows(t)
      BY <2>6 DEF LockThrows, DropMutex
    <2> QED
      BY <1>3, <2>1, <2>2, <2>3, <2>4, <2>5, <2>6 DEF StdLock
  <1>4. ASSUME NEW p \in Process, Crash(p) PROVE MutexInv'
    BY <1>4 DEF Crash
  <1>5. CASE UNCHANGED lockVars
    BY <1>5 DEF lockVars
  <1> QED
    BY <1>1, <1>2, <1>3, <1>4, <1>5 DEF Next

\* Every step that leaves a file lock with a process leaves a user of it.
LEMMA FlockStep == TypeOK /\ FlockInv /\ [Next]_lockVars => FlockInv'
  <1> SUFFICES ASSUME TypeOK, FlockInv, [Next]_lockVars PROVE FlockInv'
    OBVIOUS
  <1> USE LockAssumption DEF TypeOK, FlockInv, UsesFlock
  <1>1. ASSUME NEW t \in Thread, Exclusive(t) PROVE FlockInv'
    <2>1. CASE TryLockFor(t) \/ MutexAcquired(t) \/ MutexTimeout(t)
      BY <2>1 DEF TryLockFor, MutexAcquired, MutexTimeout
    <2>2. CASE FlockFailed(t) \/ UnlockMutex(t)
      BY <2>2 DEF FlockFailed, UnlockMutex
    <2>3. CASE FlockAcquired(t)
      BY <2>3 DEF FlockAcquired, SetFlock
    <2>4. CASE UnlockFlock(t)
      BY <2>4 DEF UnlockFlock, SetFlock
    <2> QED
      BY <1>1, <2>1, <2>2, <2>3, <2>4 DEF Exclusive
  <1>2. ASSUME NEW t \in Thread, Shared(t) PROVE FlockInv'
    <2>1. CASE \/ TryLockSharedFor(t) \/ SharedMutexAcquired(t) \/ SharedMutexTimeout(t)
               \/ SharedFlockFailed(t) \/ UnlockSharedMutex(t)
      BY <2>1 DEF TryLockSharedFor, SharedMutexAcquired, SharedMutexTimeout,
                  SharedFlockFailed, UnlockSharedMutex
    <2>2. CASE SharedFlockAcquired(t)
      BY <2>2 DEF SharedFlockAcquired, SetFlock
    <2>3. CASE UnlockSharedFlock(t)
      BY <2>3 DEF UnlockSharedFlock, SetFlock
    <2> QED
      BY <1>2, <2>1, <2>2, <2>3 DEF Shared
  <1>3. ASSUME NEW t \in Thread, StdLock(t) PROVE FlockInv'
    <2>1. CASE Lock(t) \/ LockMutexFirst(t) \/ LockThrows(t)
      BY <2>1 DEF Lock, LockMutexFirst, LockThrows
    <2>2. CASE LockThenFlock(t)
      BY <2>2 DEF LockThenFlock, SetFlock, StartOver
    <2>3. CASE LockFlockFirst(t)
      BY <2>3 DEF LockFlockFirst, SetFlock
    <2>4. CASE LockThenMutex(t)
      BY <2>4 DEF LockThenMutex, SetFlock, StartOver
    <2> QED
      BY <1>3, <2>1, <2>2, <2>3, <2>4 DEF StdLock
  <1>4. ASSUME NEW p \in Process, Crash(p) PROVE FlockInv'
    BY <1>4 DEF Crash
  <1>5. CASE UNCHANGED lockVars
    BY <1>5 DEF lockVars
  <1> QED
    BY <1>1, <1>2, <1>3, <1>4, <1>5 DEF Next

\* The guards of fcntl keep an exclusive file lock alone.
LEMMA KernelStep == TypeOK /\ KernelInv /\ [Next]_lockVars => KernelInv'
  <1> SUFFICES ASSUME TypeOK, KernelInv, [Next]_lockVars PROVE KernelInv'
    OBVIOUS
  <1> USE LockAssumption DEF TypeOK, KernelInv, SetFlock, FlockFree, FlockShareable
  <1>1. ASSUME NEW t \in Thread, Exclusive(t) PROVE KernelInv'
    BY <1>1 DEF Exclusive, TryLockFor, MutexAcquired, MutexTimeout, FlockAcquired, FlockFailed,
                UnlockFlock, UnlockMutex
  <1>2. ASSUME NEW t \in Thread, Shared(t) PROVE KernelInv'
    BY <1>2 DEF Shared, TryLockSharedFor, SharedMutexAcquired, SharedMutexTimeout,
                SharedFlockAcquired, SharedFlockFailed, UnlockSharedFlock, UnlockSharedMutex
  <1>3. ASSUME NEW t \in Thread, StdLock(t) PROVE KernelInv'
    BY <1>3 DEF StdLock, Lock, LockMutexFirst, LockThenFlock, LockFlockFirst, LockThenMutex, LockThrows,
                StartOver
  <1>4. ASSUME NEW p \in Process, Crash(p) PROVE KernelInv'
    BY <1>4 DEF Crash
  <1>5. CASE UNCHANGED lockVars
    BY <1>5 DEF lockVars
  <1> QED
    BY <1>1, <1>2, <1>3, <1>4, <1>5 DEF Next

\* The invariant of LockFile under every use of it.
THEOREM Invariant == Spec => []IInv
  <1>1. IInv /\ [Next]_lockVars => IInv'
    BY TypeStep, MutexStep, FlockStep, KernelStep DEF IInv
  <1> QED
    BY InitIInv, <1>1, PTL DEF Spec

\* Type correctness.
THEOREM TypeCorrect == Spec => []TypeOK
  BY Invariant, PTL DEF IInv

\* The exclusion among the threads of one process, where access_mutex alone
\* decides and the file lock says nothing.
ThreadExclusion ==
    \A t, u \in Thread :
        t # u /\ home[t] = home[u] /\ InExclusive(t)
            => ~ InExclusive(u) /\ ~ InShared(u)

\* The threads of one process exclude each other under every use of the lock:
\* an exclusive holder owns access_mutex, which then has no sharers.
THEOREM ThreadsExclude == Spec => []ThreadExclusion
  <1>1. IInv => ThreadExclusion
    BY LockAssumption
    DEF IInv, TypeOK, MutexInv, OwnsMutex, SharesMutex, ThreadExclusion, InExclusive, InShared
  <1> QED
    BY Invariant, <1>1, PTL

\* No attempt, however it ends, leaves the mutex or the file lock behind.
THEOREM LeavesNothing == Spec => []NothingLeaks
  <1>1. IInv => NothingLeaks
    <2> SUFFICES ASSUME IInv, NEW p \in Process,
                        \A t \in Thread : home[t] = p => pc[t] = "idle"
                 PROVE  MutexFree(p) /\ flock[p] = "none"
      BY DEF NothingLeaks
    <2>1. flock[p] = "none"
      BY DEF IInv, FlockInv, UsesFlock
    <2>2. writer[p] = None
      BY DEF IInv, TypeOK, MutexInv, OwnsMutex
    <2>3. sharers[p] = {}
      BY DEF IInv, TypeOK, MutexInv, SharesMutex
    <2> QED
      BY <2>1, <2>2, <2>3 DEF MutexFree
  <1> QED
    BY Invariant, <1>1, PTL

------------------------------------------------------------------------------
(* The safe uses.  What other threads of a process may do to its file lock  *)
(* is what makes the restriction necessary: unlock_shared and the back-off  *)
(* of std::lock drop it for the whole process.                              *)

\* A thread is only where the functions it uses can take it.
UseInv ==
    \A t \in Thread :
        /\ pc[t] \in SharedPc  => "try_lock_shared_for" \in UsedOps[t]
        /\ pc[t] \in StdLockPc => "lock" \in UsedOps[t]

\* A thread in a section has the file lock, and so has std::lock while it goes
\* on to try the mutex.
FlockOwned ==
    /\ HolderOwnsFlock
    /\ \A t \in Thread : pc[t] = "l_trymutex" => flock[home[t]] = "exclusive"

SafeInv == IInv /\ UseInv /\ FlockOwned

\* A thread is only ever in the member functions it uses.
LEMMA UseStep == TypeOK /\ UseInv /\ [Next]_lockVars => UseInv'
  <1> SUFFICES ASSUME TypeOK, UseInv, [Next]_lockVars PROVE UseInv'
    OBVIOUS
  <1> USE LockAssumption DEF TypeOK, UseInv
  <1>1. ASSUME NEW t \in Thread, Exclusive(t) PROVE UseInv'
    BY <1>1 DEF Exclusive, TryLockFor, MutexAcquired, MutexTimeout, FlockAcquired, FlockFailed,
                UnlockFlock, UnlockMutex
  <1>2. ASSUME NEW t \in Thread, Shared(t) PROVE UseInv'
    BY <1>2 DEF Shared, TryLockSharedFor, SharedMutexAcquired, SharedMutexTimeout,
                SharedFlockAcquired, SharedFlockFailed, UnlockSharedFlock, UnlockSharedMutex
  <1>3. ASSUME NEW t \in Thread, StdLock(t) PROVE UseInv'
    BY <1>3 DEF StdLock, Lock, LockMutexFirst, LockThenFlock, LockFlockFirst, LockThenMutex,
                LockThrows, StartOver
  <1>4. ASSUME NEW p \in Process, Crash(p) PROVE UseInv'
    BY <1>4 DEF Crash
  <1>5. CASE UNCHANGED lockVars
    BY <1>5 DEF lockVars
  <1> QED
    BY <1>1, <1>2, <1>3, <1>4, <1>5 DEF Next

\* A thread that uses a section keeps the file lock it asked for: the steps
\* that take a file lock away are the holder's own.
LEMMA HolderStep ==
    SafeUse /\ SafeInv /\ [Next]_lockVars => FlockOwned'
  <1> SUFFICES ASSUME SafeUse, SafeInv, [Next]_lockVars PROVE FlockOwned'
    OBVIOUS
  <1> USE LockAssumption
      DEF SafeInv, IInv, TypeOK, FlockOwned, HolderOwnsFlock, InExclusive, InShared
  <1>a. ASSUME NEW t \in Thread, NEW u \in Thread, home[u] = home[t], u # t,
               OwnsMutex(t) \/ (SharesMutex(t) /\ "try_lock_shared_for" \in UsedOps[t])
        PROVE  ~ UsesFlock(u)
    BY <1>a DEF SafeUse, MutexInv, UseInv, OwnsMutex, SharesMutex, UsesFlock
  <1>1. ASSUME NEW t \in Thread, Exclusive(t) PROVE FlockOwned'
    <2>1. CASE TryLockFor(t) \/ MutexAcquired(t) \/ MutexTimeout(t)
      BY <2>1 DEF TryLockFor, MutexAcquired, MutexTimeout
    <2>2. CASE FlockFailed(t) \/ UnlockMutex(t)
      BY <2>2 DEF FlockFailed, UnlockMutex
    <2>3. CASE FlockAcquired(t)
      BY <2>3 DEF FlockAcquired, SetFlock
    <2>4. CASE UnlockFlock(t)
      <3>1. \A u \in Thread : home[u] = home[t] /\ u # t => ~ UsesFlock(u)
        BY <2>4, <1>a DEF UnlockFlock, OwnsMutex
      <3> QED
        BY <2>4, <3>1 DEF UnlockFlock, SetFlock, UsesFlock
    <2> QED
      BY <1>1, <2>1, <2>2, <2>3, <2>4 DEF Exclusive
  <1>2. ASSUME NEW t \in Thread, Shared(t) PROVE FlockOwned'
    <2>1. CASE \/ TryLockSharedFor(t) \/ SharedMutexAcquired(t) \/ SharedMutexTimeout(t)
               \/ SharedFlockFailed(t) \/ UnlockSharedMutex(t)
      BY <2>1 DEF TryLockSharedFor, SharedMutexAcquired, SharedMutexTimeout,
                  SharedFlockFailed, UnlockSharedMutex
    <2>2. ASSUME pc[t] \in {"s_flock", "s_held"}
          PROVE  \A u \in Thread : home[u] = home[t] /\ u # t => ~ UsesFlock(u)
      BY <2>2, <1>a DEF SharesMutex, UseInv
    <2>3. CASE SharedFlockAcquired(t)
      BY <2>2, <2>3 DEF SharedFlockAcquired, SetFlock, UsesFlock
    <2>4. CASE UnlockSharedFlock(t)
      BY <2>2, <2>4 DEF UnlockSharedFlock, SetFlock, UsesFlock
    <2> QED
      BY <1>2, <2>1, <2>3, <2>4 DEF Shared
  <1>3. ASSUME NEW t \in Thread, StdLock(t) PROVE FlockOwned'
    <2>1. CASE Lock(t) \/ LockMutexFirst(t) \/ LockThrows(t)
      BY <2>1 DEF Lock, LockMutexFirst, LockThrows
    <2>2. CASE LockThenFlock(t)
      BY <2>2 DEF LockThenFlock, SetFlock, StartOver
    <2>3. CASE LockFlockFirst(t)
      BY <2>3 DEF LockFlockFirst, SetFlock
    <2>4. CASE LockThenMutex(t)
      <3>1. \A u \in Thread : home[u] = home[t] => u = t
        BY <2>4 DEF LockThenMutex, UseInv, SafeUse
      <3> QED
        BY <2>4, <3>1 DEF LockThenMutex, SetFlock, StartOver
    <2> QED
      BY <1>3, <2>1, <2>2, <2>3, <2>4 DEF StdLock
  <1>4. ASSUME NEW p \in Process, Crash(p) PROVE FlockOwned'
    BY <1>4 DEF Crash
  <1>5. CASE UNCHANGED lockVars
    BY <1>5 DEF lockVars
  <1> QED
    BY <1>1, <1>2, <1>3, <1>4, <1>5 DEF Next

\* In the safe uses a thread inside a section has the file lock it asked for
\* until it gives it back itself.
THEOREM HolderKeepsFlock == SafeUse /\ Spec => []HolderOwnsFlock
  <1>1. Init => UseInv /\ FlockOwned
    BY LockAssumption DEF Init, UseInv, FlockOwned, HolderOwnsFlock, InExclusive, InShared
  <1>2. SafeUse /\ IInv /\ IInv' /\ (UseInv /\ FlockOwned) /\ [Next]_lockVars
            => (UseInv /\ FlockOwned)'
    BY UseStep, HolderStep DEF SafeInv, IInv
  <1>3. FlockOwned => HolderOwnsFlock
    BY DEF FlockOwned
  <1>4. CASE SafeUse
    BY Invariant, <1>1, <1>2, <1>3, <1>4, PTL DEF Spec
  <1> QED
    BY <1>4

\* The exclusion that the database classes rely on: an exclusive section is
\* alone, among the threads of all processes.  Within a process the mutex
\* gives it, between processes the file lock.
LEMMA ExclusionFromInv == IInv /\ HolderOwnsFlock => Exclusion
  <1> SUFFICES ASSUME IInv, HolderOwnsFlock,
                      NEW t \in Thread, NEW u \in Thread, t # u, InExclusive(t)
               PROVE  ~ InExclusive(u) /\ ~ InShared(u)
    BY DEF Exclusion
  <1> USE LockAssumption DEF IInv, TypeOK, InExclusive, InShared
  <1>1. CASE home[t] = home[u]
    BY <1>1 DEF MutexInv, OwnsMutex, SharesMutex
  <1>2. CASE home[t] # home[u]
    BY <1>2 DEF HolderOwnsFlock, KernelInv
  <1> QED
    BY <1>1, <1>2

\* In the safe uses an exclusive section excludes every other section.
THEOREM ExclusiveSections == SafeUse /\ Spec => []Exclusion
  <1>1. CASE SafeUse
    BY Invariant, HolderKeepsFlock, ExclusionFromInv, <1>1, PTL
  <1> QED
    BY <1>1

------------------------------------------------------------------------------
(* The timed functions alone.  Readers may lose their file lock then, but   *)
(* writers do not: a reader's unlock_shared needs access_mutex shared.      *)

TimedUse == \A t \in Thread : "lock" \notin UsedOps[t]

\* A thread in an exclusive section has the exclusive file lock.
WriterOwnsFlock == \A t \in Thread : InExclusive(t) => flock[home[t]] = "exclusive"

\* A writer keeps its file lock: whoever could drop it does not own the mutex.
LEMMA WriterStep ==
    ASSUME TimedUse, IInv, UseInv, WriterOwnsFlock, [Next]_lockVars
    PROVE  WriterOwnsFlock'
  <1> USE LockAssumption DEF IInv, TypeOK, WriterOwnsFlock, InExclusive
  <1>1. ASSUME NEW t \in Thread, Exclusive(t) PROVE WriterOwnsFlock'
    <2>1. CASE \/ TryLockFor(t) \/ MutexAcquired(t) \/ MutexTimeout(t)
               \/ FlockFailed(t) \/ UnlockMutex(t)
      BY <2>1 DEF TryLockFor, MutexAcquired, MutexTimeout, FlockFailed, UnlockMutex
    <2>2. CASE FlockAcquired(t)
      BY <2>2 DEF FlockAcquired, SetFlock
    <2>3. CASE UnlockFlock(t)
      BY <2>3 DEF UnlockFlock, SetFlock, MutexInv, OwnsMutex
    <2> QED
      BY <1>1, <2>1, <2>2, <2>3 DEF Exclusive
  <1>2. ASSUME NEW t \in Thread, Shared(t) PROVE WriterOwnsFlock'
    <2>1. CASE \/ TryLockSharedFor(t) \/ SharedMutexAcquired(t) \/ SharedMutexTimeout(t)
               \/ SharedFlockFailed(t) \/ UnlockSharedMutex(t)
      BY <2>1 DEF TryLockSharedFor, SharedMutexAcquired, SharedMutexTimeout,
                  SharedFlockFailed, UnlockSharedMutex
    <2>2. CASE SharedFlockAcquired(t) \/ UnlockSharedFlock(t)
      <3>1. \A u \in Thread : home[u] = home[t] => pc[u] # "x_held"
        BY <2>2 DEF SharedFlockAcquired, UnlockSharedFlock, MutexInv, OwnsMutex, SharesMutex
      <3> QED
        BY <2>2, <3>1 DEF SharedFlockAcquired, UnlockSharedFlock, SetFlock
    <2> QED
      BY <1>2, <2>1, <2>2 DEF Shared
  <1>3. ASSUME NEW t \in Thread, StdLock(t) PROVE FALSE
    BY <1>3 DEF TimedUse, UseInv, StdLock, Lock, LockMutexFirst, LockThenFlock,
                LockFlockFirst, LockThenMutex, LockThrows
  <1>4. ASSUME NEW p \in Process, Crash(p) PROVE WriterOwnsFlock'
    BY <1>4 DEF Crash
  <1>5. CASE UNCHANGED lockVars
    BY <1>5 DEF lockVars
  <1> QED
    BY <1>1, <1>2, <1>3, <1>4, <1>5 DEF Next

\* What holds of the timed functions, initially and after every step.
TimedInv == IInv /\ UseInv /\ WriterOwnsFlock

\* The initial state satisfies it.
LEMMA TimedInit == Init => TimedInv
  BY LockAssumption, InitIInv DEF TimedInv, Init, UseInv, WriterOwnsFlock, InExclusive

\* Every step keeps it.
LEMMA TimedStep == TimedUse /\ TimedInv /\ [Next]_lockVars => TimedInv'
  BY TypeStep, MutexStep, FlockStep, KernelStep, UseStep, WriterStep DEF TimedInv, IInv

\* One writer at a time.
WritersExclusion == \A t, u \in Thread : InExclusive(t) /\ InExclusive(u) => t = u

\* Between processes the kernel excludes writers, in one the mutex does.
LEMMA WritersFromInv == TimedInv => WritersExclusion
  <1> SUFFICES ASSUME TimedInv, NEW t \in Thread, NEW u \in Thread,
                      InExclusive(t), InExclusive(u)
               PROVE  t = u
    BY DEF WritersExclusion
  <1> USE LockAssumption DEF TimedInv, IInv, TypeOK, InExclusive
  <1>1. home[t] = home[u]
    BY DEF WriterOwnsFlock, KernelInv
  <1> QED
    BY <1>1 DEF MutexInv, OwnsMutex

\* With the timed functions two exclusive sections never overlap, whatever the
\* readers of the same processes do to the file lock.
THEOREM WritersExclude == TimedUse /\ Spec => []WritersExclusion
  <1>1. CASE TimedUse
    BY TimedInit, TimedStep, WritersFromInv, <1>1, PTL DEF Spec
  <1> QED
    BY <1>1

------------------------------------------------------------------------------
(* Refinement: in the safe uses LockFile is a readers-writer lock.          *)

W == {t \in Thread : InExclusive(t)}
R == {t \in Thread : InShared(t)}

\* Every step of LockFile enters or leaves a section as the abstract lock
\* allows, or changes nothing that the abstract lock shows.
LEMMA StepRefines ==
    ASSUME TypeOK, TypeOK', Exclusion, Exclusion', [Next]_lockVars
    PROVE  [RW!Next]_(RW!vars)
  <1> USE LockAssumption DEF TypeOK, W, R, InExclusive, InShared
  <1> DEFINE Stutter == W' = W /\ R' = R
  <1>a. ASSUME NEW t \in Thread, W' = W \ {t}, R' = R \ {t} PROVE RW!Next
    <2>1. RW!Leave({t})
      BY <1>a DEF RW!Leave
    <2> QED
      BY <2>1 DEF RW!Next
  <1>b. Stutter => UNCHANGED RW!vars
    BY DEF RW!vars
  <1>1. ASSUME NEW t \in Thread, Exclusive(t) PROVE RW!Next \/ Stutter
    <2>1. CASE FlockAcquired(t)
      <3>1. W' = W \cup {t} /\ R' = R /\ t \in W'
        BY <2>1 DEF FlockAcquired
      <3>2. W = {} /\ R = {}
        BY <2>1, <3>1 DEF FlockAcquired, Exclusion
      <3> QED
        BY <3>1, <3>2 DEF RW!Next, RW!AcquireExclusive
    <2>2. CASE UnlockFlock(t)
      <3>1. W' = W \ {t} /\ R' = R \ {t}
        BY <2>2 DEF UnlockFlock
      <3> QED
        BY <3>1, <1>a
    <2>3. CASE TryLockFor(t) \/ MutexAcquired(t) \/ MutexTimeout(t)
      BY <2>3 DEF TryLockFor, MutexAcquired, MutexTimeout
    <2>4. CASE FlockFailed(t) \/ UnlockMutex(t)
      BY <2>4 DEF FlockFailed, UnlockMutex
    <2> QED
      BY <1>1, <2>1, <2>2, <2>3, <2>4 DEF Exclusive
  <1>2. ASSUME NEW t \in Thread, Shared(t) PROVE RW!Next \/ Stutter
    <2>1. CASE SharedFlockAcquired(t)
      <3>1. W' = W /\ R' = R \cup {t} /\ t \notin R /\ t \in R'
        BY <2>1 DEF SharedFlockAcquired
      <3>2. W = {}
        BY <2>1, <3>1 DEF SharedFlockAcquired, Exclusion
      <3> QED
        BY <3>1, <3>2 DEF RW!Next, RW!AcquireShared
    <2>2. CASE UnlockSharedFlock(t)
      <3>1. W' = W \ {t} /\ R' = R \ {t}
        BY <2>2 DEF UnlockSharedFlock
      <3> QED
        BY <3>1, <1>a
    <2>3. CASE TryLockSharedFor(t) \/ SharedMutexAcquired(t) \/ SharedMutexTimeout(t)
      BY <2>3 DEF TryLockSharedFor, SharedMutexAcquired, SharedMutexTimeout
    <2>4. CASE SharedFlockFailed(t) \/ UnlockSharedMutex(t)
      BY <2>4 DEF SharedFlockFailed, UnlockSharedMutex
    <2> QED
      BY <1>2, <2>1, <2>2, <2>3, <2>4 DEF Shared
  <1>3. ASSUME NEW t \in Thread, StdLock(t) PROVE RW!Next \/ Stutter
    <2>1. CASE pc[t] \in StdLockPc /\ pc' = [pc EXCEPT ![t] = "x_held"]
      <3>1. W' = W \cup {t} /\ R' = R /\ t \in W' /\ t \notin W
        BY <2>1
      <3>2. W = {} /\ R = {}
        BY <2>1, <3>1 DEF Exclusion
      <3> QED
        BY <3>1, <3>2 DEF RW!Next, RW!AcquireExclusive
    <2>2. CASE /\ pc[t] \in {"idle"} \cup StdLockPc
               /\ \E l \in {"idle"} \cup StdLockPc : pc' = [pc EXCEPT ![t] = l]
      BY <2>2
    <2> QED
      BY <1>3, <2>1, <2>2 DEF StdLock, Lock, LockMutexFirst, LockThenFlock, LockFlockFirst,
                              LockThenMutex, LockThrows, StartOver
  <1>4. ASSUME NEW p \in Process, Crash(p) PROVE RW!Next
    <2> DEFINE T == {t \in Thread : home[t] = p}
    <2>1. W' = W \ T /\ R' = R \ T
      BY <1>4 DEF Crash
    <2> QED
      BY <2>1 DEF RW!Next, RW!Leave
  <1>5. CASE UNCHANGED lockVars
    BY <1>5 DEF lockVars, RW!vars
  <1> QED
    BY <1>b, <1>1, <1>2, <1>3, <1>4, <1>5 DEF Next

\* In the safe uses the mutexes and the file locks of the processes are
\* together one readers-writer lock for all threads.
THEOREM Refinement == SafeUse /\ Spec => ImplementsReadersWriterLock
  <1>1. Init => RW!Init
    BY DEF Init, RW!Init, InExclusive, InShared
  <1>2. TypeOK /\ TypeOK' /\ Exclusion /\ Exclusion' /\ [Next]_lockVars
            => [RW!Next]_(RW!vars)
    BY StepRefines
  <1>3. CASE SafeUse
    BY TypeCorrect, ExclusiveSections, <1>1, <1>2, <1>3, PTL
    DEF Spec, ImplementsReadersWriterLock, RW!Spec
  <1> QED
    BY <1>3
=============================================================================
