------------------------------- MODULE LockFile -------------------------------
(****************************************************************************)
(* miopen::LockFile: the inter-process lock of a database file.             *)
(*                                                                          *)
(* Each process owns one LockFile object per path (LockFile::Get).  It      *)
(* pairs a std::shared_timed_mutex, access_mutex, which orders the threads  *)
(* of the process, with a boost file_lock, which orders the processes.  On  *)
(* POSIX the latter is an fcntl record lock: it belongs to the PROCESS, so  *)
(* a second acquisition by the same process always succeeds and one         *)
(* release drops it for all the threads of the process.                     *)
(*                                                                          *)
(* A thread drives one member function at a time; pc says how far it got.   *)
(* The deadlines of the timed functions are not counted: the timeout of a   *)
(* wait may happen whenever the wait cannot succeed.                        *)
(****************************************************************************)
CONSTANTS Thread,    \* all threads of all processes
          Process,
          home,      \* home[t]: the process thread t belongs to
          UsedOps,   \* UsedOps[t]: the member functions thread t locks with
          None       \* "no thread"

LockOps == {"try_lock_for", "try_lock_shared_for", "lock"}

ASSUME LockAssumption ==
    /\ home \in [Thread -> Process]
    /\ UsedOps \in [Thread -> SUBSET LockOps]
    /\ None \notin Thread

VARIABLES
    writer,   \* writer[p]: the thread that owns access_mutex exclusively
    sharers,  \* sharers[p]: the threads that own access_mutex shared
    flock,    \* flock[p]: what process p holds on the lock file
    pc        \* pc[t]: where thread t is in a member function

lockVars == <<writer, sharers, flock, pc>>

\* Before the answer of try_lock_for / try_lock_shared_for / lock, in the
\* critical section, and between the two halves of unlock / unlock_shared.
ExclusivePc == {"x_mutex", "x_flock", "x_held", "x_unlock"}
SharedPc    == {"s_mutex", "s_flock", "s_held", "s_unlock"}
StdLockPc   == {"l_mutex", "l_tryflock", "l_flock", "l_trymutex"}
PC == {"idle"} \cup ExclusivePc \cup SharedPc \cup StdLockPc

TypeOK ==
    /\ writer  \in [Process -> Thread \cup {None}]
    /\ sharers \in [Process -> SUBSET Thread]
    /\ flock   \in [Process -> {"none", "shared", "exclusive"}]
    /\ pc      \in [Thread -> PC]

Init ==
    /\ writer  = [p \in Process |-> None]
    /\ sharers = [p \in Process |-> {}]
    /\ flock   = [p \in Process |-> "none"]
    /\ pc      = [t \in Thread |-> "idle"]

------------------------------------------------------------------------------
(* Variations: one plausible slip each, in place of the definition of the   *)
(* same name without the suffix.  No specification uses them.               *)

FlockFree_IgnoringShared(p)  == \A q \in Process \ {p} : flock[q] # "exclusive"
TakeMutex_ForProcess(t)      == writer' = [writer EXCEPT ![home[t]] = home[t]]

MutexAcquired_Unchecked(t) ==
    /\ pc[t] = "x_mutex"
    /\ writer' = [writer EXCEPT ![home[t]] = t]
    /\ pc' = [pc EXCEPT ![t] = "x_flock"]
    /\ UNCHANGED <<sharers, flock>>

MutexTimeout_Never(t) == pc[t] = "x_mutex" /\ FALSE /\ UNCHANGED lockVars

FlockAcquired_EvenIfBusy(t) ==
    /\ pc[t] = "x_flock"
    /\ pc' = [pc EXCEPT ![t] = "x_held"]
    /\ UNCHANGED <<writer, sharers, flock>>

FlockFailed_KeepingMutex(t) ==
    /\ pc[t] = "x_flock"
    /\ pc' = [pc EXCEPT ![t] = "idle"]
    /\ UNCHANGED <<writer, sharers, flock>>

------------------------------------------------------------------------------
(* The two locks.                                                           *)

MutexFree(p)       == writer[p] = None /\ sharers[p] = {}
MutexShareable(p)  == writer[p] = None

\* fcntl(F_SETLK): only the locks of OTHER processes conflict.
FlockFree(p)      == \A q \in Process \ {p} : flock[q] = "none"
FlockShareable(p) == \A q \in Process \ {p} : flock[q] # "exclusive"

Goto(t, l) == pc' = [pc EXCEPT ![t] = l]

TakeMutex(t)    == writer'  = [writer EXCEPT ![home[t]] = t]
DropMutex(t)    == writer'  = [writer EXCEPT ![home[t]] = None]
ShareMutex(t)   == sharers' = [sharers EXCEPT ![home[t]] = @ \cup {t}]
UnshareMutex(t) == sharers' = [sharers EXCEPT ![home[t]] = @ \ {t}]
SetFlock(t, m)  == flock'   = [flock EXCEPT ![home[t]] = m]

------------------------------------------------------------------------------
(* try_lock_for: std::unique_lock<LockFile>(lock, timeout).                 *)

TryLockFor(t) ==
    /\ pc[t] = "idle" /\ "try_lock_for" \in UsedOps[t]
    /\ Goto(t, "x_mutex")
    /\ UNCHANGED <<writer, sharers, flock>>

MutexAcquired(t) ==
    /\ pc[t] = "x_mutex" /\ MutexFree(home[t])
    /\ TakeMutex(t) /\ Goto(t, "x_flock")
    /\ UNCHANGED <<sharers, flock>>

MutexTimeout(t) ==
    /\ pc[t] = "x_mutex" /\ ~ MutexFree(home[t])
    /\ Goto(t, "idle")
    /\ UNCHANGED <<writer, sharers, flock>>

FlockAcquired(t) ==
    /\ pc[t] = "x_flock" /\ FlockFree(home[t])
    /\ SetFlock(t, "exclusive") /\ Goto(t, "x_held")
    /\ UNCHANGED <<writer, sharers>>

\* The file lock times out, or throws an interprocess_exception that
\* TryLockOperation turns into a failure: access_mutex is given back.
FlockFailed(t) ==
    /\ pc[t] = "x_flock"
    /\ DropMutex(t) /\ Goto(t, "idle")
    /\ UNCHANGED <<sharers, flock>>

\* unlock(): first the file lock, then the mutex.
UnlockFlock(t) ==
    /\ pc[t] = "x_held"
    /\ SetFlock(t, "none") /\ Goto(t, "x_unlock")
    /\ UNCHANGED <<writer, sharers>>

UnlockMutex(t) ==
    /\ pc[t] = "x_unlock"
    /\ DropMutex(t) /\ Goto(t, "idle")
    /\ UNCHANGED <<sharers, flock>>

------------------------------------------------------------------------------
(* try_lock_shared_for: std::shared_lock<LockFile>(lock, timeout).          *)

TryLockSharedFor(t) ==
    /\ pc[t] = "idle" /\ "try_lock_shared_for" \in UsedOps[t]
    /\ Goto(t, "s_mutex")
    /\ UNCHANGED <<writer, sharers, flock>>

SharedMutexAcquired(t) ==
    /\ pc[t] = "s_mutex" /\ MutexShareable(home[t])
    /\ ShareMutex(t) /\ Goto(t, "s_flock")
    /\ UNCHANGED <<writer, flock>>

SharedMutexTimeout(t) ==
    /\ pc[t] = "s_mutex" /\ ~ MutexShareable(home[t])
    /\ Goto(t, "idle")
    /\ UNCHANGED <<writer, sharers, flock>>

\* fcntl(F_RDLCK) also turns an exclusive lock of this very process into a
\* shared one.
SharedFlockAcquired(t) ==
    /\ pc[t] = "s_flock" /\ FlockShareable(home[t])
    /\ SetFlock(t, "shared") /\ Goto(t, "s_held")
    /\ UNCHANGED <<writer, sharers>>

\* The code calls access_mutex.unlock() on a mutex it owns shared.  The mutex
\* is a pthread rwlock, where both unlock calls are pthread_rwlock_unlock: the
\* caller's shared hold is released.
SharedFlockFailed(t) ==
    /\ pc[t] = "s_flock"
    /\ UnshareMutex(t) /\ Goto(t, "idle")
    /\ UNCHANGED <<writer, flock>>

\* unlock_shared(): the file lock is dropped for the whole process.
UnlockSharedFlock(t) ==
    /\ pc[t] = "s_held"
    /\ SetFlock(t, "none") /\ Goto(t, "s_unlock")
    /\ UNCHANGED <<writer, sharers>>

UnlockSharedMutex(t) ==
    /\ pc[t] = "s_unlock"
    /\ UnshareMutex(t) /\ Goto(t, "idle")
    /\ UNCHANGED <<writer, flock>>

------------------------------------------------------------------------------
(* lock: std::lock(access_mutex, flock).  It locks one of the two, tries    *)
(* the other, and on failure gives the first one back and starts over; it   *)
(* depends on the library whether it then starts with the one that failed.  *)

Lock(t) ==
    /\ pc[t] = "idle" /\ "lock" \in UsedOps[t]
    /\ Goto(t, "l_mutex")
    /\ UNCHANGED <<writer, sharers, flock>>

StartOver(t) == \E first \in {"l_mutex", "l_flock"} : Goto(t, first)

LockMutexFirst(t) ==
    /\ pc[t] = "l_mutex" /\ MutexFree(home[t])
    /\ TakeMutex(t) /\ Goto(t, "l_tryflock")
    /\ UNCHANGED <<sharers, flock>>

\* The second lock is tried; if it is taken, the first is given back.
LockThenFlock(t) ==
    /\ pc[t] = "l_tryflock"
    /\ IF FlockFree(home[t])
       THEN SetFlock(t, "exclusive") /\ Goto(t, "x_held") /\ UNCHANGED writer
       ELSE DropMutex(t) /\ StartOver(t) /\ UNCHANGED flock
    /\ UNCHANGED sharers

LockFlockFirst(t) ==
    /\ pc[t] = "l_flock" /\ FlockFree(home[t])
    /\ SetFlock(t, "exclusive") /\ Goto(t, "l_trymutex")
    /\ UNCHANGED <<writer, sharers>>

LockThenMutex(t) ==
    /\ pc[t] = "l_trymutex"
    /\ IF MutexFree(home[t])
       THEN TakeMutex(t) /\ Goto(t, "x_held") /\ UNCHANGED flock
       ELSE SetFlock(t, "none") /\ StartOver(t) /\ UNCHANGED writer
    /\ UNCHANGED sharers

\* The file lock throws: std::lock gives the mutex back if it has it, and
\* LockOperation passes the exception on.
LockThrows(t) ==
    /\ \/ pc[t] = "l_flock" /\ UNCHANGED writer
       \/ pc[t] = "l_tryflock" /\ DropMutex(t)
    /\ Goto(t, "idle")
    /\ UNCHANGED <<sharers, flock>>

------------------------------------------------------------------------------
\* A process is killed at any point, or terminates on an exception that
\* leaves a destructor.  The kernel drops its file lock; its successor starts
\* with a new LockFile object.
Crash(p) ==
    /\ \E t \in Thread : home[t] = p /\ pc[t] # "idle"
    /\ writer'  = [writer EXCEPT ![p] = None]
    /\ sharers' = [sharers EXCEPT ![p] = {}]
    /\ flock'   = [flock EXCEPT ![p] = "none"]
    /\ pc'      = [t \in Thread |-> IF home[t] = p THEN "idle" ELSE pc[t]]

Exclusive(t) ==
    \/ TryLockFor(t) \/ MutexAcquired(t) \/ MutexTimeout(t)
    \/ FlockAcquired(t) \/ FlockFailed(t)
    \/ UnlockFlock(t) \/ UnlockMutex(t)

Shared(t) ==
    \/ TryLockSharedFor(t) \/ SharedMutexAcquired(t) \/ SharedMutexTimeout(t)
    \/ SharedFlockAcquired(t) \/ SharedFlockFailed(t)
    \/ UnlockSharedFlock(t) \/ UnlockSharedMutex(t)

StdLock(t) ==
    \/ Lock(t) \/ LockMutexFirst(t) \/ LockThenFlock(t)
    \/ LockFlockFirst(t) \/ LockThenMutex(t) \/ LockThrows(t)

Next ==
    \/ \E t \in Thread : Exclusive(t) \/ Shared(t) \/ StdLock(t)
    \/ \E p \in Process : Crash(p)

Spec == Init /\ [][Next]_lockVars

\* A running thread goes on: the waits have deadlines, and a critical section
\* is a finite piece of file work that ends in the destructor of the lock.
Fairness ==
    \A t \in Thread :
        /\ WF_lockVars(Exclusive(t) /\ pc[t] # "idle")
        /\ WF_lockVars(Shared(t) /\ pc[t] # "idle")

FairSpec == Spec /\ Fairness

------------------------------------------------------------------------------
(* What the lock promises.                                                  *)

InExclusive(t) == pc[t] = "x_held"
InShared(t)    == pc[t] = "s_held"

\* "MP-safe and MT-safe": while a thread is inside an exclusive section, no
\* other thread, of whatever process, is inside any section.
Exclusion ==
    \A t, u \in Thread :
        t # u /\ InExclusive(t) => ~ InExclusive(u) /\ ~ InShared(u)

\* What a thread in a section relies on is still there: its process has the
\* file lock in the mode that was asked for.
HolderOwnsFlock ==
    \A t \in Thread :
        /\ InExclusive(t) => flock[home[t]] = "exclusive"
        /\ InShared(t)    => flock[home[t]] # "none"

\* However an attempt ends (success and unlock, timeout, exception, crash),
\* a process with no thread inside a member function or a section holds
\* neither the mutex nor the file lock.
NothingLeaks ==
    \A p \in Process :
        (\A t \in Thread : home[t] = p => pc[t] = "idle")
            => MutexFree(p) /\ flock[p] = "none"

\* With timed locks every call is answered, whatever the other threads and
\* processes do: no attempt, and no section after it, lasts forever.
AttemptsEnd ==
    \A t \in Thread : pc[t] \in {"x_mutex", "s_mutex"} ~> pc[t] = "idle"

\* The pair of locks is one readers-writer lock for all threads.
RW == INSTANCE ReadersWriterLock WITH
          writers <- {t \in Thread : InExclusive(t)},
          readers <- {t \in Thread : InShared(t)}

ImplementsReadersWriterLock == RW!Spec
=============================================================================
